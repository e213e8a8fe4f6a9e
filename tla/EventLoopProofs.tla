-------------------------- MODULE EventLoopProofs --------------------------
(***************************************************************************)
(* Theorems about the event loop, for any start times, any delays, of      *)
(* either sign, and any number of events.                                  *)
(***************************************************************************)
EXTENDS EventLoop, SequenceTheorems, TLAPS

(* The event fired last gave the clock its time, and drew its number       *)
(* before every event that was scheduled since.                            *)
Clocked ==
  /\ last.seq < seq
  /\ last.t = now
  /\ ~running => last.seq = -1 /\ now = 0
  /\ \A e \in heap : e.t = now => last.seq < e.seq

(* The inductive invariant.  That events fire in order needs that none is  *)
(* scheduled in the past and that numbers are never drawn twice.           *)
IInv == TypeOK /\ NoPast /\ NoTie /\ Clocked

(* The empty heap at time 0 satisfies the invariant.                       *)
LEMMA InitHolds == Init => IInv
<1> SUFFICES ASSUME Init PROVE IInv
  OBVIOUS
<1>1. now = 0 /\ heap = {} /\ seq = 0 /\ running = FALSE /\ last = [t |-> 0, seq |-> -1]
  BY DEF Init
<1>2. TypeOK
  <2>1. now \in Nat /\ seq \in Nat
    BY <1>1
  <2>3. running \in BOOLEAN
    BY <1>1, Zenon
  <2>4. last \in [t : Nat, seq : Int]
    <3>1. last = [t |-> 0, seq |-> -1] /\ 0 \in Nat /\ -1 \in Int
      BY <1>1
    <3> QED BY <3>1
  <2>2. heap \subseteq [t : Nat, seq : 0..(seq - 1)]
    BY <1>1
  <2> QED BY <2>1, <2>2, <2>3, <2>4 DEF TypeOK
<1>3. NoPast /\ NoTie /\ Clocked
  BY <1>1 DEF NoPast, NoTie, Clocked
<1> QED BY <1>2, <1>3 DEF IInv

(* An arrival is scheduled before the clock starts, so not in the past.    *)
LEMMA AtKeeps ==
  ASSUME IInv, NEW t \in Starts, At(t)
  PROVE  IInv'
<1>1. t \in Nat /\ seq \in Nat
  BY LoopAssumption DEF IInv, TypeOK
<1> DEFINE e == [t |-> t, seq |-> seq]
<1>2. /\ heap' = heap \cup {e} /\ seq' = seq + 1
      /\ now' = now /\ running' = running /\ last' = last /\ ~running
  BY DEF At
<1>3. e \in [t : Nat, seq : 0..seq] /\ e.t = t /\ e.seq = seq
  BY <1>1
<1>4. \A f \in heap : f \in [t : Nat, seq : 0..(seq - 1)]
  BY DEF IInv, TypeOK
<1>5. TypeOK'
  <2>1. \A f \in heap : f \in [t : Nat, seq : 0..seq]
    BY <1>1, <1>4
  <2>2. heap' \subseteq [t : Nat, seq : 0..(seq' - 1)]
    BY <1>1, <1>2, <1>3, <2>1
  <2> QED BY <1>1, <1>2, <2>2 DEF IInv, TypeOK
<1> HIDE DEF e
<1>6. NoPast'
  BY <1>1, <1>2, <1>3 DEF IInv, NoPast, Clocked
<1>7. NoTie'
  <2>1. \A f \in heap : f.seq # seq
    BY <1>1, <1>4
  <2> QED BY <1>2, <1>3, <2>1 DEF IInv, NoTie
<1>8. Clocked'
  <2>1. \A f \in heap : f.seq \in Nat
    BY <1>1, <1>4
  <2> QED BY <1>1, <1>2, <1>3, <2>1 DEF IInv, Clocked, TypeOK
<1> QED BY <1>5, <1>6, <1>7, <1>8 DEF IInv

(* What a handler schedules is due now or later, with numbers of its own.  *)
LEMMA ScheduledLater ==
  ASSUME NEW t \in Nat, NEW n \in Nat, NEW delays \in Seq(Int)
  PROVE  /\ Scheduled(t, delays, n) \subseteq [t : Nat, seq : n..(n + Len(delays) - 1)]
         /\ \A e \in Scheduled(t, delays, n) : t <= e.t
         /\ \A e, f \in Scheduled(t, delays, n) : e.seq = f.seq => e = f
<1>1. \A k \in 1..Len(delays) :
         AfterTime(t, delays[k]) \in Nat /\ t <= AfterTime(t, delays[k])
  BY DEF AfterTime
<1>2. \A k \in 1..Len(delays) : n + k - 1 \in n..(n + Len(delays) - 1)
  OBVIOUS
<1>3. ASSUME NEW e \in Scheduled(t, delays, n)
      PROVE  \E k \in 1..Len(delays) : e = [t |-> AfterTime(t, delays[k]), seq |-> n + k - 1]
  BY DEF Scheduled
<1>4. Scheduled(t, delays, n) \subseteq [t : Nat, seq : n..(n + Len(delays) - 1)]
  BY <1>1, <1>2, <1>3
<1>5. \A e \in Scheduled(t, delays, n) : t <= e.t
  BY <1>1, <1>3
<1>6. ASSUME NEW e \in Scheduled(t, delays, n), NEW f \in Scheduled(t, delays, n),
             e.seq = f.seq
      PROVE  e = f
  <2>1. PICK k \in 1..Len(delays) : e = [t |-> AfterTime(t, delays[k]), seq |-> n + k - 1]
    BY <1>3
  <2>2. PICK j \in 1..Len(delays) : f = [t |-> AfterTime(t, delays[j]), seq |-> n + j - 1]
    BY <1>3
  <2>3. n + k - 1 = n + j - 1
    BY <1>6, <2>1, <2>2
  <2>4. k = j
    BY <2>3
  <2> QED BY <2>1, <2>2, <2>4
<1> QED BY <1>4, <1>5, <1>6

(* A turn of the loop keeps the invariant and fires an event that comes    *)
(* after the one before.                                                   *)
LEMMA FireKeeps ==
  ASSUME IInv, NEW e \in heap, NEW delays \in Requests, Fire(e, delays)
  PROVE  /\ IInv'
         /\ last.t < last'.t \/ (last.t = last'.t /\ last.seq < last'.seq)
<1>1. /\ seq \in Nat /\ now \in Nat /\ e.t \in Nat /\ e.seq \in 0..(seq - 1)
      /\ last \in [t : Nat, seq : Int]
  BY DEF IInv, TypeOK
<1>2. delays \in Seq(Int) /\ Len(delays) \in Nat
  <2>1. PICK n \in 0..MaxRequests : delays \in [1..n -> Delays]
    BY DEF Requests
  <2>2. n \in Nat /\ delays \in [1..n -> Int]
    <3>1. n \in Nat
      BY LoopAssumption
    <3>2. \A i \in 1..n : delays[i] \in Int
      BY <2>1, LoopAssumption
    <3> QED BY <2>1, <3>1, <3>2
  <2>3. delays \in Seq(Int)
    BY <2>2
  <2> QED BY <2>3, LenProperties
<1> DEFINE new == Scheduled(e.t, delays, seq)
<1>3. /\ heap' = (heap \ {e}) \cup new
      /\ seq' = seq + Len(delays) /\ now' = e.t /\ running' = TRUE /\ last' = e
  BY DEF Fire
<1>4. /\ new \subseteq [t : Nat, seq : seq..(seq + Len(delays) - 1)]
      /\ \A f \in new : e.t <= f.t
      /\ \A f, g \in new : f.seq = g.seq => f = g
  BY <1>1, <1>2, ScheduledLater
<1>5. \A f \in heap : f = e \/ e.t < f.t \/ (e.t = f.t /\ e.seq < f.seq)
  BY DEF Fire, Earliest, Before
<1>6. \A f \in heap : f \in [t : Nat, seq : 0..(seq - 1)]
  BY DEF IInv, TypeOK
<1> HIDE DEF new
<1>7. TypeOK'
  <2>1. \A f \in heap : f \in [t : Nat, seq : 0..((seq + Len(delays)) - 1)]
    BY <1>1, <1>2, <1>6
  <2>2. \A f \in new : f \in [t : Nat, seq : 0..((seq + Len(delays)) - 1)]
    BY <1>1, <1>2, <1>4
  <2>3. heap' \subseteq [t : Nat, seq : 0..(seq' - 1)]
    <3>1. \A f \in heap' : f \in heap \/ f \in new
      BY <1>3
    <3>2. \A f \in heap' : f \in [t : Nat, seq : 0..((seq + Len(delays)) - 1)]
      BY <2>1, <2>2, <3>1
    <3>3. seq' = seq + Len(delays)
      BY <1>3, Zenon
    <3>4. heap' \subseteq [t : Nat, seq : 0..((seq + Len(delays)) - 1)]
      BY <3>2
    <3> QED BY <3>3, <3>4, Zenon
  <2>4. e \in [t : Nat, seq : Int]
    BY <1>1, <1>6
  <2> QED BY <1>1, <1>2, <1>3, <2>3, <2>4 DEF TypeOK
<1>8. NoPast'
  <2>1. \A f \in heap : e.t <= f.t
    BY <1>1, <1>5, <1>6
  <2> QED BY <1>3, <1>4, <2>1 DEF NoPast
<1>9. NoTie'
  <2>1. \A f \in heap, g \in new : f.seq # g.seq
    BY <1>1, <1>2, <1>4, <1>6
  <2> QED BY <1>3, <1>4, <2>1 DEF IInv, NoTie
<1>10. Clocked'
  <2>1. \A f \in heap \ {e} : f.t = e.t => e.seq < f.seq
    BY <1>1, <1>5, <1>6
  <2>2. \A f \in new : e.seq < f.seq
    BY <1>1, <1>2, <1>4
  <2> QED BY <1>1, <1>2, <1>3, <2>1, <2>2 DEF Clocked
<1>11. last.t < last'.t \/ (last.t = last'.t /\ last.seq < last'.seq)
  BY <1>1, <1>3 DEF IInv, NoPast, Clocked
<1> QED BY <1>7, <1>8, <1>9, <1>10, <1>11 DEF IInv

(* The invariant holds in every state.                                     *)
LEMMA InvariantHolds == Spec => []IInv
<1>1. ASSUME IInv, [Next]_vars PROVE IInv'
  <2>1. ASSUME NEW t \in Starts, At(t) PROVE IInv'
    BY <1>1, <2>1, AtKeeps
  <2>2. ASSUME NEW e \in heap, NEW delays \in Requests, Fire(e, delays) PROVE IInv'
    BY <1>1, <2>2, FireKeeps
  <2>3. CASE UNCHANGED vars
    BY <1>1, <2>3 DEF vars, IInv, TypeOK, NoPast, NoTie, Clocked
  <2> QED BY <1>1, <2>1, <2>2, <2>3 DEF Next
<1> QED BY <1>1, InitHolds, PTL DEF Spec

(* Clock, heap and numbers keep their types: no event is due before 0.     *)
THEOREM LoopTypeCorrect == Spec => []TypeOK
<1>1. IInv => TypeOK
  BY DEF IInv
<1> QED BY <1>1, InvariantHolds, PTL

(* Whatever delays the handlers ask for, no event is due in the past.      *)
THEOREM NothingInThePast == Spec => []NoPast
<1>1. IInv => NoPast
  BY DEF IInv
<1> QED BY <1>1, InvariantHolds, PTL

(* No two events carry the same number, so no two compare equal.           *)
THEOREM NumbersAreUnique == Spec => []NoTie
<1>1. IInv => NoTie
  BY DEF IInv
<1> QED BY <1>1, InvariantHolds, PTL

(* Events fire in the order of their times, and those of the same time in  *)
(* the order in which they were scheduled.                                 *)
THEOREM FiresInOrder == Spec => InOrder
<1> DEFINE Ordered == \/ last' = last
                      \/ last.t < last'.t
                      \/ last.t = last'.t /\ last.seq < last'.seq
<1>1. ASSUME IInv, [Next]_vars PROVE [Ordered]_vars
  <2>1. ASSUME NEW t \in Starts, At(t) PROVE Ordered
    BY <2>1 DEF At
  <2>2. ASSUME NEW e \in heap, NEW delays \in Requests, Fire(e, delays) PROVE Ordered
    BY <1>1, <2>2, FireKeeps
  <2> QED BY <1>1, <2>1, <2>2 DEF Next
<1> QED BY <1>1, InvariantHolds, PTL DEF Spec, InOrder
=============================================================================
