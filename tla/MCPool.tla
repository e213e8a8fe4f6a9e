------------------------------- MODULE MCPool -------------------------------
(* Pool on six clients of different sizes, the largest of which can never *)
(* fit, and one that needs nothing.                                        *)
EXTENDS Pool, TLC
CONSTANTS a, b, c, d, e, f
MCClients == {a, b, c, d, e, f}
MCNeed == (a :> 1) @@ (b :> 2) @@ (c :> 3) @@ (d :> 0) @@ (e :> 4) @@ (f :> 5)
=============================================================================
