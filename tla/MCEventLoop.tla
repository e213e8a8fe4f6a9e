---------------------------- MODULE MCEventLoop ----------------------------
(* EventLoop with arrivals at three times, delays of either sign, and an   *)
(* `until` that leaves late events in the heap.                            *)
EXTENDS EventLoop
MCStarts == 0..2
MCDelays == {-2, 0, 1, 2}
=============================================================================
