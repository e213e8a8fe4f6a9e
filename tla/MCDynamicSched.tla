--------------------------- MODULE MCDynamicSched ---------------------------
(* DynamicSched on a few short sessions; HBM and the CPU both make calls   *)
(* wait.                                                                   *)
EXTENDS DynamicSched, TLC
CONSTANTS a, b, c, d
Sized(kv, output) == [kv |-> kv, output |-> output]
MCSessions == {a, b, c, d}
MCTrace == (a :> <<Sized(2, 2), Sized(1, 1)>>)
        @@ (b :> <<Sized(1, 2), Sized(2, 0)>>)
        @@ (c :> <<Sized(1, 1)>>)
        @@ (d :> <<Sized(2, 1)>>)
=============================================================================
