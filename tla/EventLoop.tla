----------------------------- MODULE EventLoop -----------------------------
(***************************************************************************)
(* The discrete-event core of sim/event_sim.py (class Env): a clock and a  *)
(* heap of events ordered by time and, at equal times, by the number `seq` *)
(* that was drawn when they were scheduled.  A simulator schedules the     *)
(* arrivals with `at` in its constructor and everything else with `after`, *)
(* from the handler of an event.  The counters of `event` are left out.    *)
(*                                                                         *)
(* An event stands for (t, seq, fn, a); what fn does to the rest of the    *)
(* program is left out, what it schedules is not.  Times are integers.     *)
(***************************************************************************)
EXTENDS Integers, Sequences

CONSTANTS Starts,    \* the times a constructor gives to `at`
          Delays,    \* the delays a handler gives to `after`, of either sign
          Until,     \* the time run is given
          MaxEvents,   \* bound of the model: the events scheduled in all
          MaxRequests  \* bound of the model: those scheduled by one handler

ASSUME LoopAssumption ==
  /\ Starts \subseteq Nat /\ Delays \subseteq Int /\ Until \in Int
  /\ MaxEvents \in Nat /\ MaxRequests \in Nat

VARIABLES now, heap, seq,
          running, \* run was called
          last     \* the event that was fired last (history)
vars == <<now, heap, seq, running, last>>

Before(e, f) == e.t < f.t \/ (e.t = f.t /\ e.seq < f.seq)

(* Mutant of Earliest: of the events of one time the newest is taken.      *)
EarliestNewest(h) == {e \in h : \A f \in h : e.t < f.t \/ (e.t = f.t /\ e.seq >= f.seq)}

Earliest(h) == {e \in h : \A f \in h : f = e \/ Before(e, f)}

(* Mutant of AfterTime: a negative delay is taken as it is.                *)
AfterTimeUnclamped(t, dt) == t + dt

AfterTime(t, dt) == t + (IF dt > 0 THEN dt ELSE 0)

(* The events of the calls of `after` that one handler makes at time t.    *)
Scheduled(t, delays, n) ==
  {[t |-> AfterTime(t, delays[k]), seq |-> n + k - 1] : k \in 1..Len(delays)}

Init ==
  /\ now = 0 /\ heap = {} /\ seq = 0
  /\ running = FALSE /\ last = [t |-> 0, seq |-> -1]

At(t) ==
  /\ ~running /\ seq < MaxEvents
  /\ heap' = heap \cup {[t |-> t, seq |-> seq]}
  /\ seq' = seq + 1
  /\ UNCHANGED <<now, running, last>>

(* One turn of run: the earliest event is taken, the clock is set to it,   *)
(* and its handler schedules what it wants.                                *)
Fire(e, delays) ==
  /\ e \in Earliest(heap) /\ e.t <= Until
  /\ seq + Len(delays) <= MaxEvents
  /\ now' = e.t
  /\ heap' = (heap \ {e}) \cup Scheduled(e.t, delays, seq)
  /\ seq' = seq + Len(delays)
  /\ running' = TRUE /\ last' = e

Requests == UNION {[1..n -> Delays] : n \in 0..MaxRequests}

Next ==
  \/ \E t \in Starts : At(t)
  \/ \E e \in heap, delays \in Requests : Fire(e, delays)

Spec == Init /\ [][Next]_vars

-----------------------------------------------------------------------------
(* Type invariant.                                                         *)
TypeOK ==
  /\ now \in Nat /\ seq \in Nat /\ running \in BOOLEAN
  /\ heap \subseteq [t : Nat, seq : 0..(seq - 1)]
  /\ last \in [t : Nat, seq : Int]

(* No event is scheduled in the past, whatever the sign of a delay.        *)
NoPast == \A e \in heap : now <= e.t

(* The clock never goes back, and events of the same time are fired in the *)
(* order in which they were scheduled: callbacks that end at the same      *)
(* moment run in a reproducible order.                                     *)
InOrder ==
  [][\/ last' = last
     \/ last.t < last'.t
     \/ last.t = last'.t /\ last.seq < last'.seq]_vars

(* Two events never compare equal, so the heap never falls back on         *)
(* comparing the functions of its entries, which Python cannot order.      *)
NoTie == \A e, f \in heap : e.seq = f.seq => e = f
=============================================================================
