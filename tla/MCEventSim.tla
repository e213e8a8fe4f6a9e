----------------------------- MODULE MCEventSim -----------------------------
(* EventSim on a few short sessions.  Sizes are chosen so that both pools  *)
(* make calls wait.                                                        *)
EXTENDS EventSim, TLC
CONSTANTS a, b, c, d, e
Sized(hbm, cpu, output) == [hbm |-> hbm, cpu |-> cpu, output |-> output]

(* Both pools are contended, a small call can pass a large one in either,  *)
(* and one call puts out nothing.                                          *)
MCSessions == {a, b, c, d}
OversizeSessions == {a, b, c, d, e}
MCTrace == (a :> <<Sized(3, 1, 2), Sized(1, 2, 1)>>)
        @@ (b :> <<Sized(2, 2, 1), Sized(2, 1, 0)>>)
        @@ (c :> <<Sized(1, 3, 2)>>)
        @@ (d :> <<Sized(2, 1, 1)>>)

(* One call never fits HBM, one never fits the CPU store, and one session  *)
(* has no call.                                                            *)
OversizeTrace == (a :> <<Sized(1, 1, 1), Sized(5, 1, 1)>>)
              @@ (b :> <<Sized(2, 2, 2), Sized(1, 1, 1)>>)
              @@ (c :> <<Sized(1, 4, 1), Sized(1, 1, 1)>>)
              @@ (d :> <<Sized(3, 1, 1)>>) @@ (e :> <<>>)

(* HBM holds one call at a time.                                           *)
PeakTrace == (a :> <<Sized(1, 0, 1)>>) @@ (b :> <<Sized(1, 0, 1)>>)
          @@ (c :> <<Sized(1, 0, 1)>>) @@ (d :> <<>>)
=============================================================================
