------------------------------ MODULE MCC2CLink ------------------------------
(* C2CLink with four jobs; no symmetry, since Delivered is a liveness      *)
(* property.                                                               *)
EXTENDS C2CLink
=============================================================================
