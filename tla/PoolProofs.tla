----------------------------- MODULE PoolProofs -----------------------------
(***************************************************************************)
(* Theorems about one capacity pool, for any clients, sizes and capacity.  *)
(***************************************************************************)
EXTENDS Pool, OpsProofs

(* The inductive invariant.  No part is inductive alone: that release      *)
(* keeps the sum needs that a granted client was not already counted, and  *)
(* that the loop starts from a queue without duplicates.                   *)
IInv == TypeOK /\ Conservation /\ NobodyWaitsTwice /\ HeadBlocked

(* What the type invariant says of each part of the pool.                  *)
LEMMA TypedPool ==
  ASSUME TypeOK
  PROVE  /\ pool \in Pools(Clients)
         /\ pool.q \in Seq(Clients) /\ pool.free \in Int /\ Len(pool.q) \in Nat
         /\ DOMAIN pool.q = 1..Len(pool.q)
         /\ Range(pool.q) \subseteq Clients
         /\ IsFiniteSet(held)
         /\ Need \in [Clients -> Nat] /\ Cap \in Int
<1>1. pool \in Pools(Clients) /\ pool.q \in Seq(Clients) /\ pool.free \in Int
  BY DEF TypeOK, Pools
<1>2. Range(pool.q) \subseteq Clients
  BY <1>1 DEF Range
<1>3. IsFiniteSet(held)
  BY PoolAssumption, FS_Subset DEF TypeOK
<1> QED BY <1>1, <1>2, <1>3, PoolAssumption

(* The constructor of the pool establishes the invariant.                  *)
LEMMA InitHolds == Init => IInv
<1> SUFFICES ASSUME Init PROVE IInv
  OBVIOUS
<1>1. pool = [free |-> Cap, q |-> <<>>] /\ held = {}
  BY DEF Init, EmptyPool
<1>2. TypeOK
  <2>1. Cap \in Lesser(0, Cap)..Cap
    BY PoolAssumption DEF Lesser
  <2> QED BY <1>1, <2>1 DEF TypeOK
<1>3. Bytes(held, Need) = {}
  BY <1>1 DEF Bytes
<1>4. Cardinality(Bytes(held, Need)) = 0
  BY <1>3, FS_EmptySet
<1>5. Conservation
  BY <1>1, <1>4, PoolAssumption DEF Conservation
<1>6. NobodyWaitsTwice /\ HeadBlocked
  BY <1>1 DEF NobodyWaitsTwice, HeadBlocked
<1> QED BY <1>2, <1>5, <1>6 DEF IInv

(* acquire keeps the invariant, whether it grants or queues.               *)
LEMMA AcquireKeeps ==
  ASSUME IInv, NEW c \in Clients, AcquireBy(c)
  PROVE  IInv'
<1>1. /\ pool \in Pools(Clients)
      /\ pool.q \in Seq(Clients) /\ pool.free \in Int /\ Len(pool.q) \in Nat
      /\ DOMAIN pool.q = 1..Len(pool.q)
      /\ IsFiniteSet(held)
      /\ Need \in [Clients -> Nat] /\ Cap \in Int
  BY TypedPool DEF IInv
<1>2. c \notin held /\ c \notin Range(pool.q)
  BY DEF AcquireBy
<1>3. CASE Fits(pool, Need, c)
  <2>1. /\ pool' = [pool EXCEPT !.free = @ - Need[c]]
        /\ held' = held \cup {c}
    BY <1>3 DEF AcquireBy, Acquire
  <2>2. pool'.q = pool.q /\ pool'.free = pool.free - Need[c]
    BY <1>1, <2>1 DEF Pools
  <2>3. TypeOK'
    <3>1. pool.free - Need[c] \in Lesser(0, Cap)..Cap
      <4>1. pool.free <= Cap /\ pool.free >= Need[c] /\ Need[c] \in Nat
        BY <1>1, <1>3 DEF IInv, TypeOK, Fits, Lesser
      <4> QED BY <1>1, <4>1 DEF Lesser
    <3>2. pool' = [free |-> pool.free - Need[c], q |-> pool.q]
      BY <1>1, <2>1 DEF Pools
    <3> QED BY <1>1, <2>1, <3>1, <3>2 DEF IInv, TypeOK
  <2>4. Cardinality(Bytes(held \cup {c}, Need)) = Cardinality(Bytes(held, Need)) + Need[c]
    <3>1. \A x \in held \cup {c} : Need[x] \in Nat
      BY <1>1 DEF IInv, TypeOK
    <3> QED BY <1>1, <1>2, <3>1, BytesAdd
  <2>5. Cardinality(Bytes(held, Need)) \in Nat
    <3>1. \A x \in held : Need[x] \in Nat
      BY <1>1 DEF IInv, TypeOK
    <3> QED BY <1>1, <3>1, BytesFinite, FS_CardinalityType
  <2>6. Conservation'
    BY <1>1, <2>1, <2>2, <2>4, <2>5 DEF IInv, Conservation
  <2>7. NobodyWaitsTwice'
    BY <1>2, <2>1, <2>2 DEF IInv, NobodyWaitsTwice
  <2>8. HeadBlocked'
    <3> SUFFICES ASSUME pool.q # <<>> PROVE ~(pool.free - Need[c] >= Need[Head(pool.q)])
      BY <2>2 DEF HeadBlocked, Fits
    <3>1. ~(pool.free >= Need[Head(pool.q)])
      BY DEF IInv, HeadBlocked, Fits
    <3>2. Head(pool.q) \in Clients /\ Need[Head(pool.q)] \in Nat /\ Need[c] \in Nat
      BY <1>1
    <3> QED BY <1>1, <3>1, <3>2
  <2> QED BY <2>3, <2>6, <2>7, <2>8 DEF IInv
<1>4. CASE ~Fits(pool, Need, c)
  <2>1. /\ pool' = [pool EXCEPT !.q = Append(@, c)]
        /\ held' = held
    BY <1>4 DEF AcquireBy, Acquire
  <2>2. pool'.q = Append(pool.q, c) /\ pool'.free = pool.free
    BY <1>1, <2>1 DEF Pools
  <2>3. TypeOK'
    <3>1. Append(pool.q, c) \in Seq(Clients)
      BY <1>1
    <3>2. pool' = [free |-> pool.free, q |-> Append(pool.q, c)]
      BY <1>1, <2>1 DEF Pools
    <3> QED BY <1>1, <2>1, <3>1, <3>2 DEF IInv, TypeOK
  <2>4. Conservation'
    BY <2>1, <2>2 DEF IInv, Conservation
  <2>5. /\ Len(pool'.q) = Len(pool.q) + 1 /\ DOMAIN pool'.q = 1..(Len(pool.q) + 1)
        /\ \A i \in 1..Len(pool.q) : pool'.q[i] = pool.q[i]
        /\ pool'.q[Len(pool.q) + 1] = c
    BY <1>1, <2>2
  <2>6. \A i \in 1..Len(pool.q) : pool.q[i] # c
    BY <1>1, <1>2 DEF Range
  <2>7. NobodyWaitsTwice'
    <3>1. \A i, j \in DOMAIN pool'.q : pool'.q[i] = pool'.q[j] => i = j
      <4> SUFFICES ASSUME NEW i \in 1..(Len(pool.q) + 1), NEW j \in 1..(Len(pool.q) + 1),
                          pool'.q[i] = pool'.q[j]
                   PROVE  i = j
        BY <2>5
      <4>1. CASE i \in 1..Len(pool.q) /\ j \in 1..Len(pool.q)
        BY <1>1, <2>5, <4>1 DEF IInv, NobodyWaitsTwice
      <4>2. CASE i = Len(pool.q) + 1 /\ j \in 1..Len(pool.q)
        <5>1. pool'.q[i] = c /\ pool'.q[j] = pool.q[j]
          BY <2>5, <4>2
        <5> QED BY <2>6, <4>2, <5>1
      <4>3. CASE i \in 1..Len(pool.q) /\ j = Len(pool.q) + 1
        <5>1. pool'.q[j] = c /\ pool'.q[i] = pool.q[i]
          BY <2>5, <4>3
        <5> QED BY <2>6, <4>3, <5>1
      <4>4. CASE i = Len(pool.q) + 1 /\ j = Len(pool.q) + 1
        BY <4>4
      <4>5. Len(pool.q) \in Nat
        BY <1>1
      <4>6. (i \in 1..Len(pool.q) \/ i = Len(pool.q) + 1)
            /\ (j \in 1..Len(pool.q) \/ j = Len(pool.q) + 1)
        BY <4>5
      <4> QED BY <4>1, <4>2, <4>3, <4>4, <4>6
    <3>2. Range(pool'.q) \subseteq Range(pool.q) \cup {c}
      BY <1>1, <2>5 DEF Range
    <3> QED BY <1>2, <2>1, <3>1, <3>2 DEF IInv, NobodyWaitsTwice
  <2>8. HeadBlocked'
    <3>1. Head(pool'.q) = IF pool.q = <<>> THEN c ELSE Head(pool.q)
      BY <1>1, <2>2
    <3> QED BY <1>4, <2>2, <3>1 DEF IInv, HeadBlocked, Fits
  <2> QED BY <2>3, <2>4, <2>7, <2>8 DEF IInv
<1> QED BY <1>3, <1>4

(* release keeps the invariant, whatever it grants.                        *)
LEMMA ReleaseKeeps ==
  ASSUME IInv, NEW c \in Clients, ReleaseBy(c)
  PROVE  /\ IInv'
         /\ \E n \in 0..Len(pool.q) : pool'.q = SubSeq(pool.q, n+1, Len(pool.q))
<1>1. /\ pool \in Pools(Clients)
      /\ pool.q \in Seq(Clients) /\ pool.free \in Int /\ Len(pool.q) \in Nat
      /\ DOMAIN pool.q = 1..Len(pool.q)
      /\ Range(pool.q) \subseteq Clients
      /\ IsFiniteSet(held)
      /\ Need \in [Clients -> Nat] /\ Cap \in Int
  BY TypedPool DEF IInv
<1>2. c \in held /\ held \subseteq Clients /\ Need[c] \in Nat
  BY <1>1 DEF ReleaseBy, IInv, TypeOK
<1>3. Distinct(pool.q)
  BY <1>1 DEF IInv, NobodyWaitsTwice, Distinct
<1>4. pool' = Release(pool, Need, Cap, Need[c])
  BY DEF ReleaseBy
<1> DEFINE total == Lesser(Cap, pool.free + Need[c])
<1>5. /\ pool' \in Pools(Clients)
      /\ Blocked(pool', Need)
      /\ Distinct(pool'.q)
      /\ \E n \in 0..Len(pool.q) : Released(pool, pool', Need, total, n)
  BY <1>1, <1>2, <1>3, <1>4, ReleaseEffect
<1>6. PICK n \in 0..Len(pool.q) : Released(pool, pool', Need, total, n)
  BY <1>5
<1> DEFINE F == First(pool.q, n)
           kept == held \ {c}
<1>7. IsFiniteSet(F) /\ F \subseteq Range(pool.q) /\ F \subseteq Clients
  <2>1. F \subseteq Range(pool.q)
    BY <1>1 DEF First, Range
  <2> QED BY <1>1, <2>1, FirstFinite
<1>8. held' = kept \cup F
  BY <1>6 DEF ReleaseBy, Released
<1>9. kept \cap F = {} /\ IsFiniteSet(kept)
  BY <1>1, <1>7, FS_RemoveElement DEF IInv, NobodyWaitsTwice
<1>10. \A x \in held \cup F : Need[x] \in Nat
  BY <1>1, <1>2, <1>7
<1> HIDE DEF F, kept
<1>11. Cardinality(Bytes(kept \cup F, Need))
         = Cardinality(Bytes(kept, Need)) + Cardinality(Bytes(F, Need))
  <2>1. \A x \in kept \cup F : Need[x] \in Nat
    BY <1>10 DEF kept
  <2> QED BY <1>7, <1>9, <2>1, BytesDisjoint
<1>12. Cardinality(Bytes(held, Need)) = Cardinality(Bytes(kept, Need)) + Need[c]
  <2>1. \A x \in held : Need[x] \in Nat
    BY <1>10
  <2> QED BY <1>1, <1>2, <2>1, BytesRemove DEF kept
<1>13. Cardinality(Bytes(kept, Need)) \in Nat /\ Cardinality(Bytes(F, Need)) \in Nat
  <2>1. \A x \in kept : Need[x] \in Nat
    BY <1>10 DEF kept
  <2>2. \A x \in F : Need[x] \in Nat
    BY <1>10
  <2> QED BY <1>7, <1>9, <2>1, <2>2, BytesFinite, FS_CardinalityType
<1>14. pool.free = Cap - Cardinality(Bytes(held, Need))
  BY DEF IInv, Conservation
<1>15. total = pool.free + Need[c]
  BY <1>1, <1>2, <1>12, <1>13, <1>14 DEF Lesser
<1>16. Conservation'
  <2>1. pool'.free = pool.free + Need[c] - Cardinality(Bytes(F, Need))
    <3>1. pool'.free = total - Cardinality(Bytes(F, Need))
      BY <1>6 DEF F, Released
    <3> HIDE DEF total
    <3> QED BY <1>1, <1>2, <1>13, <1>15, <3>1
  <2>2. Cardinality(Bytes(held', Need)) = Cardinality(Bytes(kept \cup F, Need))
    BY <1>8, Zenon
  <2> QED BY <1>1, <1>2, <1>11, <1>12, <1>13, <1>14, <2>1, <2>2 DEF Conservation
<1>17. TypeOK'
  <2>1. pool'.free <= Cap
    <3>1. pool'.free = Cap - Cardinality(Bytes(held', Need)) /\ pool'.free \in Int
      BY <1>5, <1>16 DEF Conservation, Pools
    <3>2. Cardinality(Bytes(held', Need)) = Cardinality(Bytes(kept \cup F, Need))
      BY <1>8, Zenon
    <3>3. Cardinality(Bytes(held', Need)) \in Nat
      BY <1>11, <1>13, <3>2
    <3> QED BY <1>1, <3>1, <3>3
  <2>2. n > 0 => pool'.free >= 0
    BY <1>6 DEF Released
  <2>3. n = 0 => pool'.free >= pool.free
    <3> SUFFICES ASSUME n = 0 PROVE pool'.free >= pool.free
      OBVIOUS
    <3>1. F = {}
      BY DEF F, First
    <3>2. Bytes(F, Need) = {}
      BY <3>1 DEF Bytes
    <3>3. Cardinality(Bytes(F, Need)) = 0
      BY <3>2, FS_EmptySet
    <3>4. pool'.free = total - Cardinality(Bytes(F, Need))
      BY <1>6 DEF F, Released
    <3> HIDE DEF total
    <3> QED BY <1>1, <1>2, <1>15, <3>3, <3>4
  <2>4. Lesser(0, Cap) <= pool.free /\ Lesser(0, Cap) <= 0 /\ Lesser(0, Cap) \in Int
    BY <1>1 DEF IInv, TypeOK, Lesser
  <2>5. pool'.free \in Int /\ n \in Nat
    BY <1>1, <1>5 DEF Pools
  <2>6. pool'.free \in Lesser(0, Cap)..Cap
    BY <1>1, <2>1, <2>2, <2>3, <2>4, <2>5
  <2>7. pool' \in [free : Lesser(0, Cap)..Cap, q : Seq(Clients)]
    BY <1>5, <2>6 DEF Pools
  <2>8. held' \subseteq Clients
    BY <1>2, <1>7, <1>8 DEF kept
  <2> QED BY <2>7, <2>8 DEF TypeOK
<1>18. NobodyWaitsTwice'
  <2>1. DOMAIN pool'.q = 1..Len(pool'.q)
    BY <1>5 DEF Pools
  <2>2. Range(pool'.q) \cap held' = {}
    BY <1>6, <1>8 DEF F, kept, Released, IInv, NobodyWaitsTwice
  <2> QED BY <1>5, <2>1, <2>2 DEF NobodyWaitsTwice, Distinct
<1>19. HeadBlocked'
  BY <1>5 DEF HeadBlocked, Blocked
<1> QED BY <1>6, <1>16, <1>17, <1>18, <1>19 DEF IInv, Released

(* Every call of a method keeps it.                                        *)
LEMMA StepKeeps == IInv /\ [Next]_vars => IInv'
<1> SUFFICES ASSUME IInv, [Next]_vars PROVE IInv'
  OBVIOUS
<1>1. ASSUME NEW c \in Clients, AcquireBy(c) PROVE IInv'
  BY <1>1, AcquireKeeps
<1>2. ASSUME NEW c \in Clients, ReleaseBy(c) PROVE IInv'
  BY <1>2, ReleaseKeeps
<1>3. CASE UNCHANGED vars
  BY <1>3 DEF vars, IInv, TypeOK, Conservation, NobodyWaitsTwice, HeadBlocked
<1> QED BY <1>1, <1>2, <1>3 DEF Next

(* So it holds in every state.                                             *)
LEMMA InvariantHolds == Spec => []IInv
<1> QED BY InitHolds, StepKeeps, PTL DEF Spec

(* The queue keeps its type and the pool is never overdrawn.               *)
THEOREM TypeCorrect == Spec => []TypeOK
<1>1. IInv => TypeOK
  BY DEF IInv
<1> QED BY <1>1, InvariantHolds, PTL

(* acquire and release lose no byte and hand out no byte twice.            *)
THEOREM NoByteLost == Spec => []Conservation
<1>1. IInv => Conservation
  BY DEF IInv
<1> QED BY <1>1, InvariantHolds, PTL

(* No client waits twice, nor for what it holds.                           *)
THEOREM OneRequestEach == Spec => []NobodyWaitsTwice
<1>1. IInv => NobodyWaitsTwice
  BY DEF IInv
<1> QED BY <1>1, InvariantHolds, PTL

(* No wake-up is lost: between calls, the head of the queue does not fit.  *)
THEOREM NoLostWakeup == Spec => []HeadBlocked
<1>1. IInv => HeadBlocked
  BY DEF IInv
<1> QED BY <1>1, InvariantHolds, PTL

(* The queue is served in order: every step of the pool leaves a suffix of *)
(* the queue, with at most one newcomer behind it.                         *)
THEOREM ServedInOrder == Spec => QueueOrder
<1> DEFINE Suffix == \E n \in 0..Len(pool.q) :
                       LET rest == SubSeq(pool.q, n + 1, Len(pool.q))
                       IN  \/ pool'.q = rest
                           \/ \E c \in Clients : pool'.q = Append(rest, c)
<1>1. ASSUME IInv, [Next]_vars PROVE [Suffix]_vars
  <2>0. pool.q \in Seq(Clients) /\ Len(pool.q) \in Nat /\ pool \in Pools(Clients)
    BY <1>1, TypedPool DEF IInv
  <2>1. SubSeq(pool.q, 0 + 1, Len(pool.q)) = pool.q /\ 0 \in 0..Len(pool.q)
    BY <2>0, SubSeqFull
  <2>2. ASSUME NEW c \in Clients, AcquireBy(c) PROVE Suffix
    <3>1. pool'.q = pool.q \/ pool'.q = Append(pool.q, c)
      BY <2>0, <2>2 DEF AcquireBy, Acquire, Pools
    <3> QED BY <2>1, <3>1, ZenonT(30)
  <2>3. ASSUME NEW c \in Clients, ReleaseBy(c) PROVE Suffix
    BY <1>1, <2>3, ReleaseKeeps, ZenonT(30)
  <2> QED BY <1>1, <2>2, <2>3 DEF Next
<1> QED BY <1>1, InvariantHolds, PTL DEF Spec, QueueOrder
=============================================================================
