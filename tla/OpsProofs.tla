----------------------------- MODULE OpsProofs -----------------------------
(***************************************************************************)
(* Lemmas about the operators of PoolOps and LinkOps, for every pool, link *)
(* and size.                                                               *)
(*                                                                         *)
(* The loop of release is a recursive function on 0..Len(queue), so facts  *)
(* about it need an induction.  The induction principle of this module is  *)
(* first-order: it speaks of a set of numbers, not of a predicate, and is  *)
(* derived from the library's fact that < is well founded on Nat.          *)
(***************************************************************************)
EXTENDS PoolOps, LinkOps, Functions, FiniteSetTheorems, SequenceTheorems, TLAPS

(* Every non-empty set of natural numbers has a least element.             *)
LEMMA LeastNumber ==
  ASSUME NEW T, T \subseteq Nat, T # {}
  PROVE  \E m \in T : \A k \in T : m <= k
<1> DEFINE R == OpToRel(<, Nat)
<1>1. IsWellFoundedOn(R, Nat)
  BY NatLessThanWellFounded
<1>2. PICK x \in T : \A y \in T : ~(<<y, x>> \in R)
  BY <1>1, WFMin
<1>3. \A y \in T : ~(y < x)
  BY <1>2 DEF OpToRel
<1> QED BY <1>3

(* Induction along the turns of a loop: a set that holds 0 and, with each  *)
(* k < n, also k + 1 holds all of 0..n.                                    *)
LEMMA LoopInduction ==
  ASSUME NEW n \in Nat, NEW S, 0 \in S,
         \A k \in 0..(n-1) : k \in S => k+1 \in S
  PROVE  \A k \in 0..n : k \in S
<1> SUFFICES ASSUME NEW k \in 0..n, k \notin S PROVE FALSE
  OBVIOUS
<1> DEFINE T == {j \in 0..n : j \notin S}
<1>1. T \subseteq Nat /\ T # {}
  OBVIOUS
<1>2. PICK m \in T : \A j \in T : m <= j
  BY <1>1, LeastNumber
<1>3. m # 0 /\ m - 1 \in 0..(n-1)
  OBVIOUS
<1>4. m - 1 \in S
  BY <1>2, <1>3
<1> QED BY <1>3, <1>4

-----------------------------------------------------------------------------
(* The bytes of a finite set of clients are finitely many.                 *)
LEMMA BytesFinite ==
  ASSUME NEW S, IsFiniteSet(S), NEW need, \A c \in S : need[c] \in Nat
  PROVE  IsFiniteSet(Bytes(S, need))
<1> DEFINE T == {{c} \X (1..need[c]) : c \in S}
           f == [c \in S |-> {c} \X (1..need[c])]
<1>1. f \in Surjection(S, T)
  BY DEF Surjection
<1>2. IsFiniteSet(T)
  BY <1>1, FS_Surjection
<1>3. \A t \in T : IsFiniteSet(t)
  <2> SUFFICES ASSUME NEW c \in S PROVE IsFiniteSet({c} \X (1..need[c]))
    OBVIOUS
  <2>1. IsFiniteSet({c})
    BY FS_Singleton
  <2>2. need[c] \in Int /\ 1 \in Int
    OBVIOUS
  <2>3. IsFiniteSet(1..need[c])
    BY <2>2, FS_Interval
  <2> QED BY <2>1, <2>3, FS_Product
<1> QED BY <1>2, <1>3, FS_UNION DEF Bytes

(* One client takes as many bytes as it asks for.                          *)
LEMMA BytesOne ==
  ASSUME NEW c, NEW need, need[c] \in Nat
  PROVE  Cardinality(Bytes({c}, need)) = need[c]
<1>1. Bytes({c}, need) = {c} \X (1..need[c])
  BY DEF Bytes
<1>2. IsFiniteSet({c}) /\ Cardinality({c}) = 1
  BY FS_Singleton
<1>3. IsFiniteSet(1..need[c])
      /\ Cardinality(1..need[c]) = IF 1 > need[c] THEN 0 ELSE need[c] - 1 + 1
  <2>1. need[c] \in Int /\ 1 \in Int
    OBVIOUS
  <2> QED BY <2>1, FS_Interval
<1>4. Cardinality(1..need[c]) = need[c]
  BY <1>3
<1>5. Cardinality({c} \X (1..need[c])) = Cardinality({c}) * Cardinality(1..need[c])
  BY <1>2, <1>3, FS_Product
<1>6. Cardinality({c} \X (1..need[c])) = 1 * need[c]
  BY <1>2, <1>4, <1>5
<1>7. Cardinality(Bytes({c}, need)) = Cardinality({c} \X (1..need[c]))
  BY <1>1, Zenon
<1> QED BY <1>6, <1>7

(* Disjoint sets of clients take the sum of their bytes.                   *)
LEMMA BytesDisjoint ==
  ASSUME NEW A, NEW B, IsFiniteSet(A), IsFiniteSet(B), A \cap B = {},
         NEW need, \A c \in A \cup B : need[c] \in Nat
  PROVE  Cardinality(Bytes(A \cup B, need))
           = Cardinality(Bytes(A, need)) + Cardinality(Bytes(B, need))
<1>1. Bytes(A \cup B, need) = Bytes(A, need) \cup Bytes(B, need)
  BY DEF Bytes
<1>2. Bytes(A, need) \cap Bytes(B, need) = {}
  BY DEF Bytes
<1>3. IsFiniteSet(Bytes(A, need)) /\ IsFiniteSet(Bytes(B, need))
  BY BytesFinite
<1>4. Cardinality(Bytes(A, need)) \in Nat /\ Cardinality(Bytes(B, need)) \in Nat
  BY <1>3, FS_CardinalityType
<1>5. Cardinality(Bytes(A, need) \cup Bytes(B, need))
        = Cardinality(Bytes(A, need)) + Cardinality(Bytes(B, need)) - Cardinality({})
  BY <1>2, <1>3, FS_Union
<1>6. Cardinality({}) = 0
  BY FS_EmptySet
<1>7. Cardinality(Bytes(A \cup B, need)) = Cardinality(Bytes(A, need) \cup Bytes(B, need))
  BY <1>1, Zenon
<1> QED BY <1>4, <1>5, <1>6, <1>7

(* A client that joins a set adds its need.                                *)
LEMMA BytesAdd ==
  ASSUME NEW A, IsFiniteSet(A), NEW c, c \notin A,
         NEW need, \A x \in A \cup {c} : need[x] \in Nat
  PROVE  Cardinality(Bytes(A \cup {c}, need)) = Cardinality(Bytes(A, need)) + need[c]
<1>1. IsFiniteSet({c}) /\ A \cap {c} = {}
  BY FS_Singleton
<1>2. Cardinality(Bytes({c}, need)) = need[c]
  BY BytesOne
<1> QED BY <1>1, <1>2, BytesDisjoint

(* A client that leaves a set takes its need with it.                      *)
LEMMA BytesRemove ==
  ASSUME NEW A, IsFiniteSet(A), NEW c \in A,
         NEW need, \A x \in A : need[x] \in Nat
  PROVE  Cardinality(Bytes(A, need)) = Cardinality(Bytes(A \ {c}, need)) + need[c]
<1>1. A = (A \ {c}) \cup {c}
  OBVIOUS
<1>2. IsFiniteSet(A \ {c})
  BY FS_RemoveElement
<1>3. Cardinality(Bytes((A \ {c}) \cup {c}, need)) = Cardinality(Bytes(A \ {c}, need)) + need[c]
  BY <1>2, BytesAdd
<1> QED BY <1>1, <1>3

-----------------------------------------------------------------------------
(* The first n clients of a queue.                                         *)
First(q, n) == {q[i] : i \in 1..n}

Distinct(q) == \A i, j \in 1..Len(q) : q[i] = q[j] => i = j

Blocked(p, need) == p.q = <<>> \/ ~Fits(p, need, Head(p.q))

(* The loop of release is a well-defined function: turn k is one GrantHead *)
(* on the outcome of turn k - 1.                                           *)
LEMMA GrantLoopDef ==
  ASSUME NEW p, NEW need, Len(p.q) \in Nat
  PROVE  /\ GrantLoop(p, need)[0] = p
         /\ \A k \in 1..Len(p.q) :
              GrantLoop(p, need)[k] = GrantHead(GrantLoop(p, need)[k-1], need)
<1> DEFINE N == Len(p.q)
           Good(n) == \E f : f = [k \in 0..n |-> IF k = 0 THEN p ELSE GrantHead(f[k-1], need)]
           S == {n \in Nat : Good(n)}
<1>1. 0 \in S
  <2>1. [k \in 0..0 |-> p]
          = [k \in 0..0 |-> IF k = 0 THEN p ELSE GrantHead([j \in 0..0 |-> p][k-1], need)]
    OBVIOUS
  <2> QED BY <2>1
<1>2. ASSUME NEW k \in 0..(N-1), k \in S PROVE k+1 \in S
  <2>1. PICK f : f = [i \in 0..k |-> IF i = 0 THEN p ELSE GrantHead(f[i-1], need)]
    BY <1>2
  <2> DEFINE g == [i \in 0..(k+1) |-> IF i <= k THEN f[i] ELSE GrantHead(f[k], need)]
  <2>2. ASSUME NEW i \in 0..(k+1)
        PROVE  g[i] = IF i = 0 THEN p ELSE GrantHead(g[i-1], need)
    <3>1. CASE i = 0
      BY <2>1, <3>1
    <3>2. CASE i # 0 /\ i <= k
      <4>1. i - 1 \in 0..k /\ i - 1 \in 0..(k+1) /\ i \in 0..k
        BY <3>2
      <4>2. g[i-1] = f[i-1] /\ g[i] = f[i]
        BY <3>2, <4>1
      <4>3. f[i] = GrantHead(f[i-1], need)
        BY <2>1, <3>2, <4>1
      <4> QED BY <3>2, <4>2, <4>3
    <3>3. CASE i = k+1
      <4>1. g[k] = f[k]
        OBVIOUS
      <4> QED BY <3>3, <4>1
    <3> QED BY <3>1, <3>2, <3>3
  <2> HIDE DEF g
  <2>3. g = [i \in 0..(k+1) |-> g[i]]
    BY DEF g
  <2>4. Good(k+1)
    BY <2>2, <2>3
  <2> QED BY <2>4
<1>3. N \in S
  <2>1. N \in Nat
    OBVIOUS
  <2> HIDE DEF S, N
  <2>2. \A k \in 0..N : k \in S
    BY <1>1, <1>2, <2>1, LoopInduction
  <2> QED BY <2>1, <2>2
<1>4. PICK f : f = [k \in 0..N |-> IF k = 0 THEN p ELSE GrantHead(f[k-1], need)]
  BY <1>3
<1>5. GrantLoop(p, need)
        = [k \in 0..N |-> IF k = 0 THEN p ELSE GrantHead(GrantLoop(p, need)[k-1], need)]
  BY <1>4 DEF GrantLoop
<1> QED BY <1>5

(* What the loop of release does, whatever the queue: it grants the first  *)
(* n clients of the queue and no other, takes exactly their bytes, takes   *)
(* them only while they fit, and stops at a client that does not fit.      *)
GrantedFirst(p, r, need, n) ==
  /\ r.q = SubSeq(p.q, n + 1, Len(p.q))
  /\ r.free = p.free - Cardinality(Bytes(First(p.q, n), need))
  /\ n > 0 => r.free >= 0

(* The first clients of a queue are finitely many of its clients.          *)
LEMMA FirstFinite ==
  ASSUME NEW C, NEW q \in Seq(C), NEW n \in 0..Len(q)
  PROVE  IsFiniteSet(First(q, n)) /\ First(q, n) \subseteq C
<1>1. [i \in 1..n |-> q[i]] \in Surjection(1..n, First(q, n))
  BY DEF First, Surjection
<1>2. IsFiniteSet(1..n)
  BY FS_Interval
<1>3. IsFiniteSet(First(q, n))
  BY <1>1, <1>2, FS_Surjection
<1>4. First(q, n) \subseteq C
  BY DEF First
<1> QED BY <1>3, <1>4

(* A turn of the loop that grants adds one client to those granted.        *)
LEMMA GrantHeadStep ==
  ASSUME NEW C, NEW p \in Pools(C), Distinct(p.q), NEW need \in [C -> Nat],
         NEW r \in Pools(C), NEW n \in 0..Len(p.q), GrantedFirst(p, r, need, n),
         ~Blocked(r, need)
  PROVE  /\ n < Len(p.q)
         /\ GrantHead(r, need) \in Pools(C)
         /\ GrantedFirst(p, GrantHead(r, need), need, n + 1)
<1> DEFINE g == GrantHead(r, need)
           x == p.q[n+1]
<1>1. p.q \in Seq(C) /\ r.q \in Seq(C) /\ p.free \in Int /\ r.free \in Int /\ Len(p.q) \in Nat
  BY DEF Pools
<1>2. r.q # <<>> /\ r.free >= need[Head(r.q)]
  BY DEF Blocked, Fits
<1>3. r.q = SubSeq(p.q, n+1, Len(p.q))
  BY DEF GrantedFirst
<1>4. n < Len(p.q)
  BY <1>1, <1>2, <1>3
<1>5. Head(r.q) = x /\ x \in C /\ Tail(r.q) = SubSeq(p.q, n+2, Len(p.q))
  BY <1>1, <1>3, <1>4, HeadTailOfSubSeq
<1>6. g = [free |-> r.free - need[x], q |-> SubSeq(p.q, n+2, Len(p.q))]
  BY <1>2, <1>5 DEF GrantHead, Fits
<1>7. g \in Pools(C)
  <2>1. need[x] \in Nat /\ r.free - need[x] \in Int
    BY <1>1, <1>5
  <2>2. Tail(r.q) \in Seq(C)
    BY <1>1, <1>2
  <2> QED BY <1>5, <1>6, <2>1, <2>2 DEF Pools
<1>8. First(p.q, n+1) = First(p.q, n) \cup {x} /\ x \notin First(p.q, n)
  <2>1. n \in Nat /\ n+1 \in 1..Len(p.q) /\ 1..(n+1) = (1..n) \cup {n+1}
    BY <1>1, <1>4
  <2>2. First(p.q, n+1) = First(p.q, n) \cup {x}
    BY <2>1 DEF First
  <2>3. \A i \in 1..n : p.q[i] # x
    <3> SUFFICES ASSUME NEW i \in 1..n, p.q[i] = p.q[n+1] PROVE FALSE
      OBVIOUS
    <3>1. i \in 1..Len(p.q) /\ i # n+1
      BY <1>1, <2>1
    <3>2. \A j, k \in 1..Len(p.q) : p.q[j] = p.q[k] => j = k
      BY DEF Distinct
    <3> HIDE DEF x
    <3> QED BY <2>1, <3>1, <3>2
  <2> QED BY <2>2, <2>3 DEF First
<1>9. IsFiniteSet(First(p.q, n)) /\ First(p.q, n) \subseteq C
  BY <1>1, FirstFinite
<1>10. Cardinality(Bytes(First(p.q, n) \cup {x}, need))
         = Cardinality(Bytes(First(p.q, n), need)) + need[x]
  BY <1>5, <1>8, <1>9, BytesAdd
<1>11. Cardinality(Bytes(First(p.q, n+1), need))
         = Cardinality(Bytes(First(p.q, n), need)) + need[x]
  BY <1>8, <1>10, Zenon
<1>12. Cardinality(Bytes(First(p.q, n), need)) \in Nat
  BY <1>9, BytesFinite, FS_CardinalityType
<1>13. g.free = p.free - Cardinality(Bytes(First(p.q, n+1), need)) /\ g.free >= 0
  <2>1. g.free = r.free - need[x] /\ need[x] \in Nat /\ r.free >= need[x]
    BY <1>2, <1>5, <1>6
  <2>2. r.free = p.free - Cardinality(Bytes(First(p.q, n), need))
    BY DEF GrantedFirst
  <2> HIDE DEF g, x
  <2> QED BY <1>1, <1>11, <1>12, <2>1, <2>2
<1>14. g.q = SubSeq(p.q, (n+1)+1, Len(p.q))
  BY <1>6
<1> QED BY <1>4, <1>7, <1>13, <1>14 DEF GrantedFirst

(* As many turns as the queue is long are enough for the loop to stop.     *)
LEMMA GrantLoopEffect ==
  ASSUME NEW C, NEW p \in Pools(C), Distinct(p.q), NEW need \in [C -> Nat]
  PROVE  LET r == GrantLoop(p, need)[Len(p.q)]
         IN  /\ r \in Pools(C)
             /\ Blocked(r, need)
             /\ \E n \in 0..Len(p.q) : GrantedFirst(p, r, need, n)
<1> DEFINE N == Len(p.q)
           L == GrantLoop(p, need)
           Good(k) == /\ L[k] \in Pools(C)
                      /\ \E n \in 0..k : /\ n <= N
                                         /\ GrantedFirst(p, L[k], need, n)
                                         /\ n = k \/ Blocked(L[k], need)
           S == {k \in Nat : Good(k)}
<1>1. N \in Nat /\ p.q \in Seq(C) /\ p.free \in Int
  BY DEF Pools
<1>2. L[0] = p /\ \A k \in 1..N : L[k] = GrantHead(L[k-1], need)
  BY <1>1, GrantLoopDef
<1>3. 0 \in S
  <2>1. First(p.q, 0) = {}
    BY DEF First
  <2>2. Bytes(First(p.q, 0), need) = {}
    BY <2>1 DEF Bytes
  <2>3. Cardinality(Bytes(First(p.q, 0), need)) = 0
    BY <2>2, FS_EmptySet
  <2>4. SubSeq(p.q, 0 + 1, N) = p.q
    BY <1>1, SubSeqFull
  <2>5. GrantedFirst(p, p, need, 0)
    BY <1>1, <2>3, <2>4 DEF GrantedFirst
  <2> QED BY <1>1, <1>2, <2>5
<1>4. ASSUME NEW k \in 0..(N-1), k \in S PROVE k+1 \in S
  <2>1. L[k+1] = GrantHead(L[k], need)
    BY <1>1, <1>2
  <2>2. PICK n \in 0..k : /\ n <= N
                          /\ GrantedFirst(p, L[k], need, n)
                          /\ n = k \/ Blocked(L[k], need)
    BY <1>4
  <2>3. L[k] \in Pools(C)
    BY <1>4
  <2> HIDE DEF L
  <2>4. CASE Blocked(L[k], need)
    <3>1. L[k+1] = L[k]
      BY <2>1, <2>4 DEF GrantHead, Blocked
    <3> QED BY <1>1, <2>2, <2>3, <2>4, <3>1
  <2>5. CASE ~Blocked(L[k], need)
    <3>1. n = k /\ n \in 0..N
      BY <1>1, <2>2, <2>5
    <3>2. /\ n < N
          /\ L[k+1] \in Pools(C)
          /\ GrantedFirst(p, L[k+1], need, n+1)
      BY <2>1, <2>2, <2>3, <2>5, <3>1, GrantHeadStep
    <3> QED BY <1>1, <3>1, <3>2
  <2> QED BY <2>4, <2>5
<1>5. N \in S
  <2> HIDE DEF S, N
  <2>1. \A k \in 0..N : k \in S
    BY <1>1, <1>3, <1>4, LoopInduction
  <2> QED BY <1>1, <2>1
<1>6. PICK n \in 0..N : /\ GrantedFirst(p, L[N], need, n)
                        /\ n = N \/ Blocked(L[N], need)
  BY <1>1, <1>5
<1>7. L[N] \in Pools(C)
  BY <1>5
<1>8. Blocked(L[N], need)
  <2>1. CASE n = N
    <3>1. L[N].q = SubSeq(p.q, N+1, N)
      BY <1>6, <2>1 DEF GrantedFirst
    <3>2. L[N].q = <<>>
      BY <1>1, <3>1, SubSeqEmpty
    <3> QED BY <3>2 DEF Blocked
  <2> QED BY <1>6, <2>1
<1> QED BY <1>6, <1>7, <1>8

(* The front of a queue holds its first clients.                           *)
LEMMA FrontOfQueue ==
  ASSUME NEW C, NEW q \in Seq(C), NEW n \in 0..Len(q)
  PROVE  Range(SubSeq(q, 1, n)) = First(q, n)
<1>1. DOMAIN SubSeq(q, 1, n) = 1..n /\ \A i \in 1..n : SubSeq(q, 1, n)[i] = q[i]
  OBVIOUS
<1> QED BY <1>1 DEF Range, First

(* What is left of a queue of distinct clients when its first n are gone.  *)
LEMMA RestOfQueue ==
  ASSUME NEW C, NEW q \in Seq(C), Distinct(q), NEW n \in 0..Len(q),
         NEW rest \in Seq(C), Len(rest) = Len(q) - n,
         \A i \in 1..(Len(q) - n) : rest[i] = q[n+i]
  PROVE  /\ Distinct(rest)
         /\ \A x : x \in Range(rest) <=> x \in Range(q) /\ x \notin First(q, n)
<1>1. Len(q) \in Nat /\ n \in Nat /\ n <= Len(q) /\ DOMAIN q = 1..Len(q)
  OBVIOUS
<1>2. /\ DOMAIN rest = 1..Len(rest)
      /\ Len(rest) \in Nat
      /\ \A i \in 1..Len(rest) : rest[i] = q[n+i] /\ n+i \in 1..Len(q)
      /\ \A j \in 1..Len(q) : j > n => j - n \in 1..Len(rest) /\ n + (j - n) = j
  BY <1>1
<1>3. Distinct(rest)
  <2> SUFFICES ASSUME NEW i \in 1..Len(rest), NEW j \in 1..Len(rest), rest[i] = rest[j]
               PROVE  i = j
    BY DEF Distinct
  <2>1. n+i \in 1..Len(q) /\ n+j \in 1..Len(q) /\ q[n+i] = q[n+j]
    BY <1>1, <1>2
  <2> QED BY <1>1, <2>1 DEF Distinct
<1>4. Range(rest) = Range(q) \ First(q, n)
  <2>1. ASSUME NEW x \in Range(rest) PROVE x \in Range(q) \ First(q, n)
    <3>1. PICK i \in 1..Len(rest) : x = rest[i]
      BY <1>2, <2>1 DEF Range
    <3>2. x = q[n+i] /\ n+i \in 1..Len(q)
      BY <1>1, <1>2, <3>1
    <3>3. \A j \in 1..n : q[j] # x
      <4> SUFFICES ASSUME NEW j \in 1..n, q[j] = q[n+i] PROVE FALSE
        BY <3>2
      <4>1. j \in 1..Len(q) /\ j # n+i
        BY <1>1, <3>1
      <4> QED BY <3>2, <4>1 DEF Distinct
    <3> QED BY <1>1, <3>2, <3>3 DEF Range, First
  <2>2. ASSUME NEW x \in Range(q) \ First(q, n) PROVE x \in Range(rest)
    <3>1. PICK i \in 1..Len(q) : x = q[i]
      BY <1>1, <2>2 DEF Range
    <3>2. i \notin 1..n
      BY <2>2, <3>1 DEF First
    <3>3. i > n
      BY <1>1, <3>1, <3>2
    <3>4. i - n \in 1..Len(rest) /\ rest[i-n] = q[n + (i - n)] /\ n + (i - n) = i
      BY <1>2, <3>1, <3>3
    <3>5. rest[i-n] = x
      BY <3>1, <3>4
    <3> QED BY <1>2, <3>4, <3>5 DEF Range
  <2> QED BY <2>1, <2>2
<1> QED BY <1>3, <1>4

(* What release leaves when it grants the first n clients of the queue,    *)
(* total being the bytes that were free before the first grant.            *)
Released(p, r, need, total, n) ==
  /\ r.q = SubSeq(p.q, n+1, Len(p.q))
  /\ Range(r.q) = Range(p.q) \ First(p.q, n)
  /\ Range(Granted(p, r)) = First(p.q, n)
  /\ r.free = total - Cardinality(Bytes(First(p.q, n), need))
  /\ n > 0 => r.free >= 0

(* The whole of release: some first clients of the queue are granted, as   *)
(* many as fit; the callbacks that run are exactly theirs; the rest of the *)
(* queue keeps its order and its head does not fit.                        *)
LEMMA ReleaseEffect ==
  ASSUME NEW C, NEW p \in Pools(C), Distinct(p.q), NEW need \in [C -> Nat],
         NEW cap \in Int, NEW amount \in Nat,
         NEW r, r = Release(p, need, cap, amount),
         NEW total, total = Lesser(cap, p.free + amount)
  PROVE  /\ r \in Pools(C)
         /\ Blocked(r, need)
         /\ Distinct(r.q)
         /\ \E n \in 0..Len(p.q) : Released(p, r, need, total, n)
<1> DEFINE freed == [p EXCEPT !.free = Lesser(cap, @ + amount)]
<1>1. p.q \in Seq(C) /\ p.free \in Int /\ Len(p.q) \in Nat
  BY DEF Pools
<1>2. /\ freed \in Pools(C)
      /\ freed.q = p.q
      /\ freed.free = Lesser(cap, p.free + amount)
  BY <1>1 DEF Pools, Lesser
<1>3. r = GrantLoop(freed, need)[Len(freed.q)]
  BY <1>2 DEF Release
<1>4. Distinct(freed.q)
  BY <1>2
<1> HIDE DEF freed
<1>5. /\ r \in Pools(C)
      /\ Blocked(r, need)
      /\ \E n \in 0..Len(freed.q) : GrantedFirst(freed, r, need, n)
  BY <1>2, <1>3, <1>4, GrantLoopEffect
<1>6. PICK n \in 0..Len(p.q) : GrantedFirst(freed, r, need, n)
  BY <1>2, <1>5
<1>7. /\ r.q = SubSeq(p.q, n+1, Len(p.q))
      /\ r.free = Lesser(cap, p.free + amount) - Cardinality(Bytes(First(p.q, n), need))
      /\ n > 0 => r.free >= 0
  BY <1>2, <1>6 DEF GrantedFirst
<1>8. /\ Distinct(r.q)
      /\ Range(r.q) = Range(p.q) \ First(p.q, n)
      /\ Range(Granted(p, r)) = First(p.q, n)
  <2>1. /\ r.q \in Seq(C)
        /\ Len(r.q) = Len(p.q) - n
        /\ \A i \in 1..(Len(p.q) - n) : r.q[i] = p.q[n+i]
    <3>1. n \in Nat /\ n <= Len(p.q) /\ \A i \in (n+1)..Len(p.q) : p.q[i] \in C
      BY <1>1
    <3> DEFINE M == Len(p.q)
    <3>2. M \in Int /\ n + 1 \in Int
      BY <1>1
    <3>3. /\ r.q \in Seq(C)
          /\ Len(r.q) = IF n+1 <= M THEN M - (n+1) + 1 ELSE 0
          /\ \A i \in 1..(M - (n+1) + 1) : r.q[i] = p.q[(n+1)+i-1]
      BY <1>7, <3>1, <3>2, SubSeqProperties
    <3> QED BY <1>1, <3>1, <3>3
  <2>2. Distinct(p.q)
    OBVIOUS
  <2> DEFINE q == p.q
             rest == r.q
  <2>3. q \in Seq(C) /\ Distinct(q) /\ n \in 0..Len(q)
    BY <1>1, <2>2
  <2>4. rest \in Seq(C) /\ Len(rest) = Len(q) - n /\ \A i \in 1..(Len(q) - n) : rest[i] = q[n+i]
    BY <2>1
  <2> HIDE DEF q, rest
  <2>5. Distinct(rest)
    BY <2>3, <2>4, RestOfQueue
  <2>6. \A x : x \in Range(rest) <=> x \in Range(q) /\ x \notin First(q, n)
    BY <2>3, <2>4, RestOfQueue
  <2>7. Granted(p, r) = SubSeq(p.q, 1, n)
    BY <1>1, <2>1 DEF Granted
  <2>8. Range(SubSeq(p.q, 1, n)) = First(p.q, n)
    BY <1>1, FrontOfQueue
  <2> QED BY <2>5, <2>6, <2>7, <2>8 DEF q, rest
<1>9. Released(p, r, need, total, n)
  BY <1>7, <1>8 DEF Released
<1> QED BY <1>5, <1>8, <1>9

-----------------------------------------------------------------------------
(* f is a loop of n turns from m: turn k is G of the outcome of turn k - 1 *)
(* and of k, and every outcome is in D.                                    *)
LoopIn(f, D, m, n, G) ==
  /\ f = [k \in 0..n |-> IF k = 0 THEN m ELSE G[<<f[k-1], k>>]]
  /\ \A k \in 0..n : f[k] \in D

(* A loop, which is a recursive function on 0..n, exists if each turn      *)
(* leads from the set D into D.                                            *)
LEMMA LoopExists ==
  ASSUME NEW D, NEW m \in D, NEW n \in Nat,
         NEW G, \A x \in D, k \in 1..n : G[<<x, k>>] \in D
  PROVE  \E f : LoopIn(f, D, m, n, G)
<1> DEFINE Fn(f, j) == f = [k \in 0..j |-> IF k = 0 THEN m ELSE G[<<f[k-1], k>>]]
           Good(j) == \E f : Fn(f, j) /\ \A k \in 0..j : f[k] \in D
           S == {j \in Nat : Good(j)}
<1>1. 0 \in S
  <2> DEFINE f == [k \in 0..0 |-> m]
  <2>1. Fn(f, 0) /\ \A k \in 0..0 : f[k] \in D
    OBVIOUS
  <2> QED BY <2>1
<1>2. ASSUME NEW j \in 0..(n-1), j \in S PROVE j+1 \in S
  <2>1. PICK f : Fn(f, j) /\ \A k \in 0..j : f[k] \in D
    BY <1>2
  <2> DEFINE g == [k \in 0..(j+1) |-> IF k <= j THEN f[k] ELSE G[<<f[j], j+1>>]]
  <2>2. ASSUME NEW k \in 0..(j+1)
        PROVE  g[k] = (IF k = 0 THEN m ELSE G[<<g[k-1], k>>]) /\ g[k] \in D
    <3>1. CASE k = 0
      BY <2>1, <3>1
    <3>2. CASE k # 0 /\ k <= j
      <4>1. k - 1 \in 0..j /\ k - 1 \in 0..(j+1) /\ k \in 0..j
        BY <3>2
      <4>2. g[k-1] = f[k-1] /\ g[k] = f[k]
        BY <3>2, <4>1
      <4>3. f[k] = G[<<f[k-1], k>>] /\ f[k] \in D
        BY <2>1, <3>2, <4>1
      <4> QED BY <3>2, <4>2, <4>3
    <3>3. CASE k = j+1
      <4>1. g[j] = f[j] /\ f[j] \in D /\ j+1 \in 1..n
        BY <2>1
      <4>2. g[j+1] = G[<<f[j], j+1>>]
        OBVIOUS
      <4> HIDE DEF g
      <4> QED BY <3>3, <4>1, <4>2
    <3> QED BY <3>1, <3>2, <3>3
  <2>3. g = [k \in 0..(j+1) |-> g[k]]
    OBVIOUS
  <2> HIDE DEF g
  <2>4. g = [k \in 0..(j+1) |-> IF k = 0 THEN m ELSE G[<<g[k-1], k>>]]
        /\ \A k \in 0..(j+1) : g[k] \in D
    BY <2>2, <2>3
  <2>5. Good(j+1)
    BY <2>4
  <2>6. j+1 \in Nat
    OBVIOUS
  <2> HIDE DEF Good
  <2> QED BY <2>5, <2>6
<1>3. n \in S
  <2> HIDE DEF S
  <2>1. \A j \in 0..n : j \in S
    BY <1>1, <1>2, LoopInduction
  <2> QED BY <2>1
<1> QED BY <1>3 DEF LoopIn

(* Where a loop starts in a set that no turn leaves, it stays there.       *)
LEMMA LoopStays ==
  ASSUME NEW D, NEW n \in Nat, NEW L, L[0] \in D,
         \A k \in 1..n : L[k-1] \in D => L[k] \in D
  PROVE  L[n] \in D
<1> DEFINE S == {k \in 0..n : L[k] \in D}
<1>1. 0 \in S
  OBVIOUS
<1>2. ASSUME NEW k \in 0..(n-1), k \in S PROVE k+1 \in S
  <2>1. k+1 \in 1..n /\ (k+1)-1 = k /\ k+1 \in 0..n
    OBVIOUS
  <2>2. L[(k+1)-1] \in D => L[k+1] \in D
    BY <2>1
  <2> QED BY <1>2, <2>1, <2>2
<1> HIDE DEF S
<1>3. \A k \in 0..n : k \in S
  BY <1>1, <1>2, LoopInduction
<1> QED BY <1>3 DEF S

-----------------------------------------------------------------------------
(* acquire keeps the type of a pool.                                       *)
LEMMA AcquireType ==
  ASSUME NEW C, NEW p \in Pools(C), NEW need \in [C -> Nat], NEW c \in C
  PROVE  Acquire(p, need, c) \in Pools(C)
<1>1. p.free - need[c] \in Int /\ Append(p.q, c) \in Seq(C)
  BY DEF Pools
<1> QED BY <1>1 DEF Acquire, Pools

(* release keeps the type of a pool.                                       *)
LEMMA ReleaseType ==
  ASSUME NEW C, NEW p \in Pools(C), NEW need \in [C -> Nat],
         NEW cap \in Int, NEW amount \in Int
  PROVE  Release(p, need, cap, amount) \in Pools(C)
<1> DEFINE freed == [p EXCEPT !.free = Lesser(cap, @ + amount)]
           L == GrantLoop(freed, need)
<1>1. freed \in Pools(C) /\ freed.q = p.q /\ Len(p.q) \in Nat
  <2>1. Lesser(cap, p.free + amount) \in Int /\ p.q \in Seq(C)
    BY DEF Pools, Lesser
  <2> QED BY <2>1 DEF Pools
<1>2. Release(p, need, cap, amount) = L[Len(p.q)]
  BY DEF Release
<1>3. /\ L[0] = freed
      /\ \A k \in 1..Len(p.q) : L[k] = GrantHead(L[k-1], need)
  <2> HIDE DEF freed
  <2> QED BY <1>1, GrantLoopDef
<1>4. ASSUME NEW r \in Pools(C) PROVE GrantHead(r, need) \in Pools(C)
  <2>1. CASE r.q = <<>> \/ ~Fits(r, need, Head(r.q))
    BY <2>1 DEF GrantHead
  <2>2. CASE ~(r.q = <<>> \/ ~Fits(r, need, Head(r.q)))
    <3>1. r.q \in Seq(C) /\ r.q # <<>> /\ r.free \in Int
      BY <2>2 DEF Pools
    <3>2. Head(r.q) \in C /\ Tail(r.q) \in Seq(C)
      BY <3>1, HeadTailProperties
    <3>3. r.free - need[Head(r.q)] \in Int
      BY <3>1, <3>2
    <3>4. GrantHead(r, need) = [free |-> r.free - need[Head(r.q)], q |-> Tail(r.q)]
      BY <2>2 DEF GrantHead
    <3> QED BY <3>2, <3>3, <3>4 DEF Pools
  <2> QED BY <2>1, <2>2
<1> HIDE DEF freed, L
<1>5. L[Len(p.q)] \in Pools(C)
  <2>1. \A k \in 1..Len(p.q) : L[k-1] \in Pools(C) => L[k] \in Pools(C)
    BY <1>3, <1>4
  <2>2. L[0] \in Pools(C)
    BY <1>1, <1>3
  <2> QED BY <1>1, <2>1, <2>2, LoopStays
<1> QED BY <1>2, <1>5

(* The clients that a step of a pool grants are a sequence of clients.     *)
LEMMA GrantedType ==
  ASSUME NEW C, NEW p \in Pools(C), NEW r \in Pools(C)
  PROVE  Granted(p, r) \in Seq(C)
<1>1. p.q \in Seq(C) /\ Len(p.q) \in Nat /\ Len(r.q) \in Nat
  BY DEF Pools
<1>2. \A i \in 1..(Len(p.q) - Len(r.q)) : p.q[i] \in C
  BY <1>1
<1> QED BY <1>1, <1>2, SubSeqProperties DEF Granted

(* The operations of the link keep its type.                               *)
LEMMA NextTransferType ==
  ASSUME NEW J, NEW l \in Links(J)
  PROVE  NextTransfer(l) \in Links(J)
<1>1. CASE l.q = <<>>
  BY <1>1 DEF NextTransfer, Links
<1>2. CASE l.q # <<>>
  <2>1. Head(l.q) \in J /\ Tail(l.q) \in Seq(J)
    BY <1>2, HeadTailProperties DEF Links
  <2> QED BY <1>2, <2>1 DEF NextTransfer, Links
<1> QED BY <1>1, <1>2

(* transfer keeps the type of the link.                                    *)
LEMMA TransferType ==
  ASSUME NEW J, NEW l \in Links(J), NEW job \in J
  PROVE  Transfer(l, job) \in Links(J)
<1>1. [l EXCEPT !.q = Append(@, job)] \in Links(J)
  <2>1. Append(l.q, job) \in Seq(J)
    BY DEF Links
  <2> QED BY <2>1 DEF Links
<1> QED BY <1>1, NextTransferType DEF Transfer

(* _fin keeps the type of the link.                                        *)
LEMMA FinType ==
  ASSUME NEW J, NEW l \in Links(J), NEW job
  PROVE  Fin(l, job) \in Links(J)
<1>1. [l EXCEPT !.flying = @ \ {job}] \in Links(J)
  BY DEF Links
<1> QED BY <1>1, NextTransferType DEF Fin

-----------------------------------------------------------------------------
(* Queues without duplicates: a newcomer joins at the end, the head goes.  *)
LEMMA AppendDistinct ==
  ASSUME NEW C, NEW q \in Seq(C), Distinct(q), NEW c \in C, c \notin Range(q)
  PROVE  /\ Append(q, c) \in Seq(C) /\ Append(q, c) # <<>>
         /\ Distinct(Append(q, c))
         /\ Range(Append(q, c)) = Range(q) \cup {c}
<1> DEFINE r == Append(q, c)
<1>1. /\ r \in Seq(C) /\ Len(q) \in Nat /\ Len(r) = Len(q) + 1
      /\ DOMAIN r = 1..(Len(q) + 1) /\ DOMAIN q = 1..Len(q)
      /\ \A i \in 1..Len(q) : r[i] = q[i]
      /\ r[Len(q) + 1] = c
  OBVIOUS
<1>2. \A i \in 1..Len(q) : q[i] # c
  BY <1>1 DEF Range
<1>3. r # <<>>
  BY AppendProperties
<1> HIDE DEF r
<1>4. Distinct(r)
  <2> SUFFICES ASSUME NEW i \in 1..Len(r), NEW j \in 1..Len(r), r[i] = r[j] PROVE i = j
    BY DEF Distinct
  <2>1. (i \in 1..Len(q) \/ i = Len(q) + 1) /\ (j \in 1..Len(q) \/ j = Len(q) + 1)
    BY <1>1
  <2>2. CASE i \in 1..Len(q) /\ j \in 1..Len(q)
    BY <1>1, <2>2 DEF Distinct
  <2>3. CASE i = Len(q) + 1 \/ j = Len(q) + 1
    <3>1. i \in 1..Len(q) => r[i] # c
      BY <1>1, <1>2
    <3>2. j \in 1..Len(q) => r[j] # c
      BY <1>1, <1>2
    <3> QED BY <1>1, <2>1, <2>3, <3>1, <3>2
  <2> QED BY <2>1, <2>2, <2>3
<1>5. Range(r) = Range(q) \cup {c}
  <2>1. ASSUME NEW x \in Range(r) PROVE x \in Range(q) \cup {c}
    <3>1. PICK i \in 1..(Len(q) + 1) : x = r[i]
      BY <1>1 DEF Range
    <3>2. i \in 1..Len(q) \/ i = Len(q) + 1
      BY <1>1
    <3> QED BY <1>1, <3>1, <3>2 DEF Range
  <2>2. ASSUME NEW x \in Range(q) PROVE x \in Range(r)
    <3>1. PICK i \in 1..Len(q) : x = q[i]
      BY <1>1 DEF Range
    <3>2. i \in 1..(Len(q) + 1)
      BY <1>1
    <3> QED BY <1>1, <3>1, <3>2 DEF Range
  <2>3. c \in Range(r)
    <3>1. Len(q) + 1 \in 1..(Len(q) + 1)
      BY <1>1
    <3> QED BY <1>1, <3>1 DEF Range
  <2> QED BY <2>1, <2>2, <2>3
<1> QED BY <1>1, <1>3, <1>4, <1>5 DEF r

LEMMA TailDistinct ==
  ASSUME NEW C, NEW q \in Seq(C), Distinct(q), q # <<>>
  PROVE  /\ Head(q) \in C /\ Tail(q) \in Seq(C)
         /\ Distinct(Tail(q))
         /\ Head(q) \in Range(q)
         /\ Range(Tail(q)) = Range(q) \ {Head(q)}
<1> DEFINE t == Tail(q)
           h == Head(q)
<1>1. /\ t \in Seq(C) /\ h \in C /\ h = q[1] /\ Len(q) \in Nat /\ Len(q) >= 1
      /\ Len(t) = Len(q) - 1
      /\ DOMAIN t = 1..(Len(q) - 1) /\ DOMAIN q = 1..Len(q)
      /\ \A i \in 1..(Len(q) - 1) : t[i] = q[i+1]
  BY HeadTailProperties
<1> HIDE DEF t, h
<1>2. Distinct(t)
  <2> SUFFICES ASSUME NEW i \in 1..(Len(q) - 1), NEW j \in 1..(Len(q) - 1), t[i] = t[j]
               PROVE  i = j
    BY <1>1 DEF Distinct
  <2>1. i+1 \in 1..Len(q) /\ j+1 \in 1..Len(q) /\ q[i+1] = q[j+1]
    BY <1>1
  <2> QED BY <1>1, <2>1 DEF Distinct
<1>3. h \in Range(q)
  BY <1>1 DEF Range
<1>4. Range(t) = Range(q) \ {h}
  <2>1. ASSUME NEW x \in Range(t) PROVE x \in Range(q) /\ x # h
    <3>1. PICK i \in 1..(Len(q) - 1) : x = t[i]
      BY <1>1 DEF Range
    <3>2. i+1 \in 1..Len(q) /\ 1 \in 1..Len(q) /\ x = q[i+1] /\ i+1 # 1
      BY <1>1, <3>1
    <3> QED BY <1>1, <3>2 DEF Range, Distinct
  <2>2. ASSUME NEW x \in Range(q), x # h PROVE x \in Range(t)
    <3>1. PICK i \in 1..Len(q) : x = q[i]
      BY <1>1 DEF Range
    <3>2. i # 1
      BY <1>1, <2>2, <3>1
    <3>3. (i-1) \in 1..(Len(q) - 1) /\ (i-1)+1 = i
      BY <1>1, <3>2
    <3>4. t[i-1] = x
      BY <1>1, <3>1, <3>3
    <3> QED BY <1>1, <3>3, <3>4 DEF Range
  <2> QED BY <2>1, <2>2
<1> QED BY <1>1, <1>2, <1>3, <1>4 DEF t, h

-----------------------------------------------------------------------------
(* A pool whose clients in the set `held` have their bytes: nobody waits   *)
(* twice or for what it has, the bytes add up and are there if anybody has *)
(* them, and the head of the queue does not fit.                           *)
PoolSound(C, p, held, need, cap) ==
  /\ p \in Pools(C) /\ Distinct(p.q)
  /\ held \subseteq C /\ Range(p.q) \cap held = {}
  /\ p.free = cap - Cardinality(Bytes(held, need))
  /\ held # {} => p.free >= 0
  /\ Blocked(p, need)

(* The bytes of finitely many clients are a number.                        *)
LEMMA BytesNumber ==
  ASSUME NEW C, IsFiniteSet(C), NEW need \in [C -> Nat], NEW S, S \subseteq C
  PROVE  IsFiniteSet(S) /\ Cardinality(Bytes(S, need)) \in Nat
<1>1. IsFiniteSet(S)
  BY FS_Subset
<1>2. \A c \in S : need[c] \in Nat
  OBVIOUS
<1> QED BY <1>1, <1>2, BytesFinite, FS_CardinalityType

(* acquire keeps a pool sound; the client has its bytes or waits.          *)
Acquired(C, p, held, need, cap, c, r) ==
  /\ Fits(p, need, c) => /\ PoolSound(C, r, held \cup {c}, need, cap)
                         /\ r.q = p.q
  /\ ~Fits(p, need, c) => /\ PoolSound(C, r, held, need, cap)
                          /\ Range(r.q) = Range(p.q) \cup {c}

LEMMA AcquireSound ==
  ASSUME NEW C, IsFiniteSet(C), NEW p, NEW held, NEW need \in [C -> Nat], NEW cap \in Int,
         PoolSound(C, p, held, need, cap), NEW c \in C, c \notin held, c \notin Range(p.q),
         NEW r, r = Acquire(p, need, c)
  PROVE  Acquired(C, p, held, need, cap, c, r)
<1>1. /\ p.q \in Seq(C) /\ p.free \in Int /\ Len(p.q) \in Nat
      /\ p = [free |-> p.free, q |-> p.q] /\ need[c] \in Nat
  BY DEF PoolSound, Pools
<1>2. CASE Fits(p, need, c)
  <2>1. r = [free |-> p.free - need[c], q |-> p.q]
    BY <1>1, <1>2 DEF Acquire
  <2>2. Cardinality(Bytes(held \cup {c}, need)) = Cardinality(Bytes(held, need)) + need[c]
    <3>1. IsFiniteSet(held) /\ \A x \in held \cup {c} : need[x] \in Nat
      BY BytesNumber DEF PoolSound
    <3> QED BY <3>1, BytesAdd
  <2>3. Cardinality(Bytes(held, need)) \in Nat
    BY BytesNumber DEF PoolSound
  <2>4. r.free = cap - Cardinality(Bytes(held \cup {c}, need))
    BY <1>1, <2>1, <2>2, <2>3 DEF PoolSound
  <2>5. Blocked(r, need)
    <3> SUFFICES ASSUME p.q # <<>> PROVE ~(p.free - need[c] >= need[Head(p.q)])
      BY <2>1 DEF Blocked, Fits
    <3>1. ~(p.free >= need[Head(p.q)])
      BY DEF PoolSound, Blocked, Fits
    <3>2. need[Head(p.q)] \in Nat
      BY <1>1, HeadTailProperties
    <3> QED BY <1>1, <3>1, <3>2
  <2>6. r \in Pools(C)
    BY <1>1, <2>1 DEF Pools
  <2>7. r.q = p.q
    BY <2>1
  <2>8. r.free >= 0
    BY <1>1, <1>2, <2>1 DEF Fits
  <2> QED BY <1>2, <2>4, <2>5, <2>6, <2>7, <2>8 DEF PoolSound, Acquired
<1>3. CASE ~Fits(p, need, c)
  <2>1. r = [free |-> p.free, q |-> Append(p.q, c)]
    BY <1>1, <1>3 DEF Acquire
  <2>2. /\ Append(p.q, c) \in Seq(C) /\ Distinct(Append(p.q, c))
        /\ Range(Append(p.q, c)) = Range(p.q) \cup {c}
    BY <1>1, AppendDistinct DEF PoolSound
  <2>3. Head(Append(p.q, c)) = IF p.q = <<>> THEN c ELSE Head(p.q)
    BY <1>1
  <2>4. Blocked(r, need)
    BY <1>3, <2>1, <2>3 DEF PoolSound, Blocked, Fits
  <2>5. r \in Pools(C) /\ r.q = Append(p.q, c) /\ r.free = p.free
    BY <1>1, <2>1, <2>2 DEF Pools
  <2> QED BY <1>3, <2>2, <2>4, <2>5 DEF PoolSound, Acquired
<1> QED BY <1>2, <1>3

(* release keeps a pool sound; who is granted is taken from the queue, and *)
(* nobody is granted twice.                                                *)
Returned(C, p, held, need, cap, c, r, F) ==
  /\ PoolSound(C, r, (held \ {c}) \cup F, need, cap)
  /\ F \subseteq Range(p.q)
  /\ Range(r.q) = Range(p.q) \ F
  /\ Granted(p, r) \in Seq(C) /\ Distinct(Granted(p, r))

LEMMA ReleaseSound ==
  ASSUME NEW C, IsFiniteSet(C), NEW p, NEW held, NEW need \in [C -> Nat], NEW cap \in Int,
         PoolSound(C, p, held, need, cap), NEW c \in C, c \in held,
         NEW amount, amount = need[c], NEW r, r = Release(p, need, cap, amount),
         NEW F, F = Range(Granted(p, r))
  PROVE  Returned(C, p, held, need, cap, c, r, F)
<1> DEFINE total == Lesser(cap, p.free + amount)
           kept == held \ {c}
<1>1. /\ p \in Pools(C) /\ p.q \in Seq(C) /\ p.free \in Int /\ Len(p.q) \in Nat
      /\ amount \in Nat /\ Distinct(p.q) /\ IsFiniteSet(held) /\ held \subseteq C
      /\ Range(p.q) \cap held = {}
      /\ Range(p.q) \subseteq C
  <2>1. IsFiniteSet(held)
    BY BytesNumber DEF PoolSound
  <2> QED BY <2>1 DEF PoolSound, Pools, Range
<1>2. /\ r \in Pools(C) /\ Blocked(r, need) /\ Distinct(r.q)
      /\ \E n \in 0..Len(p.q) : Released(p, r, need, total, n)
  <2> HIDE DEF total
  <2>1. total = Lesser(cap, p.free + amount)
    BY DEF total
  <2> QED BY <1>1, <2>1, ReleaseEffect
<1>3. PICK n \in 0..Len(p.q) : Released(p, r, need, total, n)
  BY <1>2
<1>4. F = First(p.q, n) /\ F \subseteq Range(p.q) /\ Range(r.q) = Range(p.q) \ F
  <2>1. F = First(p.q, n) /\ Range(r.q) = Range(p.q) \ First(p.q, n)
    BY <1>3 DEF Released
  <2>2. First(p.q, n) \subseteq Range(p.q)
    BY <1>1 DEF First, Range
  <2> QED BY <2>1, <2>2
<1>5. r.free = total - Cardinality(Bytes(F, need))
  BY <1>3, <1>4 DEF Released
<1> HIDE DEF total, kept
<1>6. /\ IsFiniteSet(F) /\ IsFiniteSet(kept) /\ kept \cap F = {}
      /\ \A x \in kept \cup F : need[x] \in Nat
  <2>1. IsFiniteSet(F)
    BY <1>1, <1>4, FirstFinite
  <2>2. IsFiniteSet(kept)
    BY <1>1, FS_RemoveElement DEF kept
  <2> QED BY <1>1, <1>4, <2>1, <2>2 DEF kept
<1>7. Cardinality(Bytes(kept \cup F, need))
        = Cardinality(Bytes(kept, need)) + Cardinality(Bytes(F, need))
  BY <1>6, BytesDisjoint
<1>8. Cardinality(Bytes(held, need)) = Cardinality(Bytes(kept, need)) + amount
  <2>1. \A x \in held : need[x] \in Nat
    BY <1>1
  <2> QED BY <1>1, <2>1, BytesRemove DEF kept
<1>9. Cardinality(Bytes(kept, need)) \in Nat /\ Cardinality(Bytes(F, need)) \in Nat
  BY <1>1, <1>4, BytesNumber DEF kept
<1>10. total = p.free + amount
  BY <1>1, <1>8, <1>9 DEF PoolSound, Lesser, total
<1>11. r.free = cap - Cardinality(Bytes(kept \cup F, need))
  <2>1. p.free = cap - Cardinality(Bytes(held, need))
    BY DEF PoolSound
  <2>2. total = (cap - (Cardinality(Bytes(kept, need)) + amount)) + amount
    BY <1>8, <1>10, <2>1
  <2>3. \A k, f, a \in Nat : ((cap - (k + a)) + a) - f = cap - (k + f)
    OBVIOUS
  <2>4. amount \in Nat
    BY <1>1
  <2> QED BY <1>5, <1>7, <1>9, <2>2, <2>3, <2>4
<1>12. Range(r.q) \cap (kept \cup F) = {} /\ kept \cup F \subseteq C
  BY <1>1, <1>4 DEF kept
<1>13. Granted(p, r) \in Seq(C) /\ Distinct(Granted(p, r))
  <2>1. Granted(p, r) \in Seq(C)
    BY <1>1, <1>2, GrantedType
  <2> DEFINE d == Len(p.q) - Len(r.q)
  <2>2. Len(r.q) \in Nat
    BY <1>2 DEF Pools
  <2>3. r.q = SubSeq(p.q, n + 1, Len(p.q))
    BY <1>3 DEF Released
  <2>4. d \in 0..Len(p.q)
    <3>1. Len(SubSeq(p.q, n + 1, Len(p.q))) <= Len(p.q)
      BY <1>1
    <3>2. Len(r.q) <= Len(p.q)
      BY <2>3, <3>1
    <3>3. \A a, b \in Nat : b <= a => a - b \in 0..a
      OBVIOUS
    <3>4. Len(p.q) \in Nat
      BY <1>1
    <3> QED BY <2>2, <3>2, <3>3, <3>4
  <2>5. Granted(p, r) = SubSeq(p.q, 1, d)
    BY DEF Granted
  <2> HIDE DEF d
  <2> DEFINE g == Granted(p, r)
  <2>6. Len(g) = d /\ \A i \in 1..d : g[i] = p.q[i]
    BY <1>1, <2>4, <2>5
  <2> HIDE DEF g
  <2>7. Distinct(g)
    <3> SUFFICES ASSUME NEW i \in 1..Len(g), NEW j \in 1..Len(g), g[i] = g[j]
                 PROVE  i = j
      BY DEF Distinct
    <3>1. /\ i \in 1..Len(p.q) /\ j \in 1..Len(p.q)
          /\ i \in 1..d /\ j \in 1..d
      BY <1>1, <2>4, <2>6
    <3>2. p.q[i] = p.q[j]
      BY <2>6, <3>1
    <3>3. Distinct(p.q)
      BY DEF PoolSound
    <3> QED BY <3>1, <3>2, <3>3 DEF Distinct
  <2> QED BY <2>1, <2>7 DEF g
<1>14. r.free >= 0
  <2>1. p.free >= 0
    BY DEF PoolSound
  <2>2. CASE n > 0
    BY <1>3, <2>2 DEF Released
  <2>3. CASE ~(n > 0)
    <3>1. F = {}
      BY <1>4, <2>3 DEF First
    <3>2. Bytes(F, need) = {}
      BY <3>1 DEF Bytes
    <3>3. Cardinality(Bytes(F, need)) = 0
      BY <3>2, FS_EmptySet
    <3> QED BY <1>1, <1>5, <1>10, <2>1, <3>3
  <2> QED BY <2>2, <2>3
<1>15. PoolSound(C, r, kept \cup F, need, cap)
  BY <1>2, <1>11, <1>12, <1>14 DEF PoolSound
<1> QED BY <1>4, <1>13, <1>15 DEF Returned, kept

(* A pool stays sound when only needs change that it does not know of.     *)
LEMMA NeedElsewhere ==
  ASSUME NEW C, NEW p, NEW held, NEW need, NEW other, NEW cap,
         PoolSound(C, p, held, need, cap),
         \A c \in held \cup Range(p.q) : other[c] = need[c]
  PROVE  PoolSound(C, p, held, other, cap)
<1>1. Bytes(held, other) = Bytes(held, need)
  BY DEF Bytes
<1>2. Blocked(p, other)
  <2>1. p.q # <<>> => Head(p.q) \in Range(p.q)
    BY HeadTailProperties DEF PoolSound, Pools, Range
  <2> QED BY <2>1 DEF PoolSound, Blocked, Fits
<1> QED BY <1>1, <1>2 DEF PoolSound

-----------------------------------------------------------------------------
(* The jobs of a link; those of the set J occur once; an idle link has     *)
(* nothing to do.                                                          *)
Jobs(l) == l.flying \cup Range(l.q)

Once(l, J) ==
  \A i \in 1..Len(l.q) : l.q[i] \in J =>
    /\ l.q[i] \notin l.flying
    /\ \A j \in 1..Len(l.q) : l.q[j] = l.q[i] => j = i

Rested(l) == ~l.busy => l.q = <<>>

(* _next moves a job from the queue onto the link, or leaves it idle.      *)
LEMMA NextTransferJobs ==
  ASSUME NEW A, NEW l \in Links(A), NEW J, Once(l, J)
  PROVE  /\ NextTransfer(l) \in Links(A)
         /\ Once(NextTransfer(l), J)
         /\ Rested(NextTransfer(l))
         /\ Jobs(NextTransfer(l)) = Jobs(l)
<1> DEFINE r == NextTransfer(l)
<1>1. CASE l.q = <<>>
  <2>1. r.q = l.q /\ r.flying = l.flying
    BY <1>1 DEF NextTransfer, Links
  <2> QED BY <1>1, <2>1, NextTransferType DEF Once, Rested, Jobs
<1>2. CASE l.q # <<>>
  <2>1. /\ l.q \in Seq(A) /\ Len(l.q) \in Nat /\ Len(l.q) >= 1 /\ Head(l.q) = l.q[1]
        /\ Tail(l.q) \in Seq(A) /\ Len(Tail(l.q)) = Len(l.q) - 1
        /\ DOMAIN l.q = 1..Len(l.q) /\ DOMAIN Tail(l.q) = 1..(Len(l.q) - 1)
        /\ \A i \in 1..(Len(l.q) - 1) : Tail(l.q)[i] = l.q[i+1]
    BY <1>2, HeadTailProperties DEF Links
  <2>2. r.busy = TRUE /\ r.q = Tail(l.q) /\ r.flying = l.flying \cup {l.q[1]}
    BY <1>2, <2>1 DEF NextTransfer
  <2> HIDE DEF r
  <2>3. Once(r, J)
    <3> SUFFICES ASSUME NEW i \in 1..(Len(l.q) - 1), l.q[i+1] \in J
                 PROVE  /\ l.q[i+1] \notin l.flying \cup {l.q[1]}
                        /\ \A j \in 1..(Len(l.q) - 1) : l.q[j+1] = l.q[i+1] => j = i
      BY <2>1, <2>2 DEF Once
    <3>1. i+1 \in 1..Len(l.q) /\ 1 \in 1..Len(l.q) /\ i+1 # 1
      BY <2>1
    <3>2. l.q[i+1] \notin l.flying /\ \A j \in 1..Len(l.q) : l.q[j] = l.q[i+1] => j = i+1
      BY <3>1 DEF Once
    <3>3. ASSUME NEW j \in 1..(Len(l.q) - 1), l.q[j+1] = l.q[i+1] PROVE j = i
      <4>1. j+1 \in 1..Len(l.q)
        BY <2>1
      <4>2. j+1 = i+1
        BY <3>2, <3>3, <4>1
      <4> QED BY <2>1, <4>2
    <3> QED BY <3>1, <3>2, <3>3
  <2>4. Jobs(r) = Jobs(l)
    <3>1. ASSUME NEW x \in Range(l.q) PROVE x \in Jobs(r)
      <4>1. PICK i \in 1..Len(l.q) : x = l.q[i]
        BY <2>1 DEF Range
      <4>2. CASE i = 1
        BY <2>2, <4>1, <4>2 DEF Jobs
      <4>3. CASE i # 1
        <5>1. (i-1) \in 1..(Len(l.q) - 1) /\ (i-1)+1 = i
          BY <2>1, <4>3
        <5>2. Tail(l.q)[i-1] = x
          BY <2>1, <4>1, <5>1
        <5> QED BY <2>1, <2>2, <5>1, <5>2 DEF Jobs, Range
      <4> QED BY <4>2, <4>3
    <3>2. ASSUME NEW x \in Range(r.q) PROVE x \in Range(l.q)
      <4>1. PICK i \in 1..(Len(l.q) - 1) : x = l.q[i+1]
        BY <2>1, <2>2 DEF Range
      <4>2. i+1 \in 1..Len(l.q)
        BY <2>1
      <4> QED BY <2>1, <4>1, <4>2 DEF Range
    <3>3. l.q[1] \in Range(l.q)
      BY <2>1 DEF Range
    <3> QED BY <2>2, <3>1, <3>2, <3>3 DEF Jobs
  <2>5. r \in Links(A)
    BY NextTransferType DEF r
  <2> QED BY <2>2, <2>3, <2>4, <2>5 DEF Rested, r
<1> QED BY <1>1, <1>2

(* transfer adds a job.                                                    *)
LEMMA TransferJobs ==
  ASSUME NEW A, NEW l \in Links(A), NEW J, Once(l, J), NEW job \in A,
         job \in J => job \notin Jobs(l)
  PROVE  /\ Transfer(l, job) \in Links(A)
         /\ Once(Transfer(l, job), J)
         /\ Rested(Transfer(l, job))
         /\ Jobs(Transfer(l, job)) = Jobs(l) \cup {job}
<1> DEFINE x == [l EXCEPT !.q = Append(@, job)]
<1>1. /\ l.q \in Seq(A) /\ Len(l.q) \in Nat /\ Append(l.q, job) \in Seq(A)
      /\ DOMAIN l.q = 1..Len(l.q)
      /\ Len(Append(l.q, job)) = Len(l.q) + 1 /\ DOMAIN Append(l.q, job) = 1..(Len(l.q) + 1)
      /\ \A i \in 1..Len(l.q) : Append(l.q, job)[i] = l.q[i]
      /\ Append(l.q, job)[Len(l.q) + 1] = job
  BY DEF Links
<1>2. /\ x \in Links(A) /\ x.q = Append(l.q, job) /\ x.flying = l.flying /\ x.busy = l.busy
  BY <1>1 DEF Links
<1>3. Transfer(l, job) = IF l.busy THEN x ELSE NextTransfer(x)
  BY DEF Transfer
<1> HIDE DEF x
<1>4. Once(x, J)
  <2> SUFFICES ASSUME NEW i \in 1..(Len(l.q) + 1), x.q[i] \in J
               PROVE  x.q[i] \notin l.flying
                      /\ \A j \in 1..(Len(l.q) + 1) : x.q[j] = x.q[i] => j = i
    BY <1>1, <1>2 DEF Once
  <2>1. \A k \in 1..(Len(l.q) + 1) : k \in 1..Len(l.q) \/ k = Len(l.q) + 1
    BY <1>1
  <2>2. job \in J => job \notin l.flying /\ \A k \in 1..Len(l.q) : l.q[k] # job
    BY <1>1 DEF Jobs, Range
  <2>3. CASE i \in 1..Len(l.q)
    BY <1>1, <1>2, <2>1, <2>2, <2>3 DEF Once
  <2>4. CASE i = Len(l.q) + 1
    BY <1>1, <1>2, <2>1, <2>2, <2>4
  <2> QED BY <2>1, <2>3, <2>4
<1>5. Jobs(x) = Jobs(l) \cup {job}
  <2>1. \A k \in 1..(Len(l.q) + 1) : k \in 1..Len(l.q) \/ k = Len(l.q) + 1
    BY <1>1
  <2>2. \A k \in 1..Len(l.q) : k \in 1..(Len(l.q) + 1)
    BY <1>1
  <2>3. Len(l.q) + 1 \in 1..(Len(l.q) + 1)
    BY <1>1
  <2>4. ASSUME NEW y \in Range(x.q) PROVE y \in Range(l.q) \cup {job}
    BY <1>1, <1>2, <2>1, <2>4 DEF Range
  <2>5. ASSUME NEW y \in Range(l.q) \cup {job} PROVE y \in Range(x.q)
    BY <1>1, <1>2, <2>2, <2>3, <2>5 DEF Range
  <2> QED BY <1>2, <2>4, <2>5 DEF Jobs
<1>6. CASE l.busy
  BY <1>2, <1>3, <1>4, <1>5, <1>6 DEF Rested
<1>7. CASE ~l.busy
  BY <1>2, <1>3, <1>4, <1>5, <1>7, NextTransferJobs
<1> QED BY <1>6, <1>7

(* _fin takes the job that ended off the link.                             *)
LEMMA FinJobs ==
  ASSUME NEW A, NEW l \in Links(A), NEW J, Once(l, J), NEW job, job \in l.flying
  PROVE  /\ Fin(l, job) \in Links(A)
         /\ Once(Fin(l, job), J)
         /\ Rested(Fin(l, job))
         /\ \A x : x # job => (x \in Jobs(Fin(l, job)) <=> x \in Jobs(l))
         /\ job \in J => job \notin Jobs(Fin(l, job))
<1> DEFINE x == [l EXCEPT !.flying = @ \ {job}]
<1>1. x \in Links(A) /\ x.q = l.q /\ x.flying = l.flying \ {job}
  BY DEF Links
<1>2. Fin(l, job) = NextTransfer(x)
  BY DEF Fin
<1> HIDE DEF x
<1>3. Once(x, J)
  BY <1>1 DEF Once
<1>4. job \in J => job \notin Range(l.q)
  BY DEF Once, Range, Links
<1>5. /\ \A y : y # job => (y \in Jobs(x) <=> y \in Jobs(l))
      /\ job \in J => job \notin Jobs(x)
  BY <1>1, <1>4 DEF Jobs
<1> QED BY <1>1, <1>2, <1>3, <1>5, NextTransferJobs
-----------------------------------------------------------------------------
(***************************************************************************)
(* Clients in stages.  Both simulators are proved with a function w that   *)
(* gives each client of C one stage: a queue, a pool or a link is right if *)
(* its members are the clients of certain stages.  The lemmas say what a   *)
(* queue or a pool becomes when clients move from stages w to stages v.    *)
(***************************************************************************)
In(C, w, S) == {c \in C : w[c] \in S}

QueueAt(C, q, w, S) == Distinct(q) /\ Range(q) = In(C, w, S)

PoolAt(C, p, w, waits, holds, need, cap) ==
  PoolSound(C, p, In(C, w, holds), need, cap) /\ Range(p.q) = In(C, w, waits)

(* What becomes of a set of clients when clients move: nothing, if no move *)
(* goes in or out of it; one client more; or one client less.              *)
Alike(C, w, v, S) == \A c \in C : w[c] \in S <=> v[c] \in S

LEMMA SameIn ==
  ASSUME NEW C, NEW w, NEW v, NEW S, Alike(C, w, v, S)
  PROVE  In(C, v, S) = In(C, w, S)
  BY DEF Alike, In

LEMMA JoinsIn ==
  ASSUME NEW C, NEW w, NEW v, NEW s \in C, \A t \in C : t # s => v[t] = w[t],
         NEW S, w[s] \notin S, v[s] \in S
  PROVE  In(C, v, S) = In(C, w, S) \cup {s} /\ s \notin In(C, w, S)
<1>1. \A t \in C : t \in In(C, v, S) <=> (t \in In(C, w, S) \/ t = s)
  BY DEF In
<1>2. In(C, v, S) \subseteq C /\ In(C, w, S) \subseteq C /\ s \notin In(C, w, S)
  BY DEF In
<1> QED BY <1>1, <1>2

LEMMA LeavesIn ==
  ASSUME NEW C, NEW w, NEW v, NEW s \in C, \A t \in C : t # s => v[t] = w[t],
         NEW S, w[s] \in S, v[s] \notin S
  PROVE  In(C, v, S) = In(C, w, S) \ {s} /\ s \in In(C, w, S)
<1>1. \A t \in C : t \in In(C, v, S) <=> (t \in In(C, w, S) /\ t # s)
  BY DEF In
<1>2. In(C, v, S) \subseteq C /\ In(C, w, S) \subseteq C /\ s \in In(C, w, S)
  BY DEF In
<1> QED BY <1>1, <1>2

(* The clients of a stage are finitely many; one more or less is counted.  *)
LEMMA InFinite ==
  ASSUME NEW C, IsFiniteSet(C), NEW w, NEW S
  PROVE  /\ IsFiniteSet(In(C, w, S)) /\ Cardinality(In(C, w, S)) \in Nat
         /\ \A s : s \notin In(C, w, S) =>
              Cardinality(In(C, w, S) \cup {s}) = Cardinality(In(C, w, S)) + 1
         /\ \A s \in In(C, w, S) :
              Cardinality(In(C, w, S) \ {s}) = Cardinality(In(C, w, S)) - 1
<1>1. In(C, w, S) \subseteq C
  BY DEF In
<1>2. IsFiniteSet(In(C, w, S))
  BY <1>1, FS_Subset
<1> QED BY <1>2, FS_CardinalityType, FS_AddElement, FS_RemoveElement

(* A client joins a queue at its end.                                      *)
LEMMA JoinsQueue ==
  ASSUME NEW C, NEW q \in Seq(C), NEW w, NEW v, NEW S, QueueAt(C, q, w, S),
         NEW s \in C, \A t \in C : t # s => v[t] = w[t], w[s] \notin S, v[s] \in S
  PROVE  /\ Append(q, s) \in Seq(C) /\ Append(q, s) # <<>>
         /\ QueueAt(C, Append(q, s), v, S)
<1>1. In(C, v, S) = In(C, w, S) \cup {s} /\ s \notin In(C, w, S)
  BY JoinsIn
<1>2. Distinct(q) /\ Range(q) = In(C, w, S) /\ s \notin Range(q)
  BY <1>1 DEF QueueAt
<1> QED BY <1>1, <1>2, AppendDistinct DEF QueueAt

(* The head of a queue leaves it.                                          *)
LEMMA HeadLeaves ==
  ASSUME NEW C, NEW q \in Seq(C), NEW w, NEW S, QueueAt(C, q, w, S), q # <<>>
  PROVE  /\ Head(q) \in C /\ w[Head(q)] \in S /\ Tail(q) \in Seq(C)
         /\ \A v : /\ \A t \in C : t # Head(q) => v[t] = w[t]
                   /\ v[Head(q)] \notin S
                   => QueueAt(C, Tail(q), v, S)
<1>1. /\ Head(q) \in C /\ Tail(q) \in Seq(C) /\ Distinct(Tail(q)) /\ Head(q) \in Range(q)
      /\ Range(Tail(q)) = Range(q) \ {Head(q)}
  BY TailDistinct DEF QueueAt
<1>2. w[Head(q)] \in S
  BY <1>1 DEF QueueAt, In
<1>3. ASSUME NEW v, \A t \in C : t # Head(q) => v[t] = w[t], v[Head(q)] \notin S
      PROVE  QueueAt(C, Tail(q), v, S)
  <2>1. ASSUME NEW h \in C, h = Head(q) PROVE In(C, v, S) = In(C, w, S) \ {h}
    <3>1. (\A t \in C : t # h => v[t] = w[t]) /\ w[h] \in S /\ v[h] \notin S
      BY <1>2, <1>3, <2>1
    <3>2. \A t \in C : t \in In(C, v, S) <=> (t \in In(C, w, S) /\ t # h)
      BY <3>1 DEF In
    <3>3. In(C, v, S) \subseteq C /\ In(C, w, S) \subseteq C
      BY DEF In
    <3> QED BY <3>2, <3>3
  <2>2. In(C, v, S) = In(C, w, S) \ {Head(q)}
    BY <1>1, <2>1
  <2> QED BY <1>1, <2>2 DEF QueueAt
<1> QED BY <1>1, <1>2, <1>3

(* acquire at a pool moves the client among its holders or into its queue. *)
LEMMA AcquireAt ==
  ASSUME NEW C, IsFiniteSet(C), NEW need \in [C -> Nat], NEW cap \in Int,
         NEW waits, NEW holds, NEW p, NEW w, PoolAt(C, p, w, waits, holds, need, cap),
         NEW s \in C, w[s] \notin waits, w[s] \notin holds,
         NEW v, \A t \in C : t # s => v[t] = w[t],
         Fits(p, need, s) => v[s] \in holds /\ v[s] \notin waits,
         ~Fits(p, need, s) => v[s] \in waits /\ v[s] \notin holds,
         NEW r, r = Acquire(p, need, s)
  PROVE  PoolAt(C, r, v, waits, holds, need, cap)
<1>1. /\ PoolSound(C, p, In(C, w, holds), need, cap)
      /\ Range(p.q) = In(C, w, waits)
      /\ s \notin In(C, w, holds) /\ s \notin Range(p.q)
  BY DEF PoolAt, In
<1>2. /\ Fits(p, need, s) => /\ PoolSound(C, r, In(C, w, holds) \cup {s}, need, cap)
                             /\ r.q = p.q
      /\ ~Fits(p, need, s) => /\ PoolSound(C, r, In(C, w, holds), need, cap)
                              /\ Range(r.q) = Range(p.q) \cup {s}
  <2>1. ASSUME NEW held, held = In(C, w, holds)
        PROVE  Acquired(C, p, held, need, cap, s, r)
    <3>1. PoolSound(C, p, held, need, cap) /\ s \notin held
      BY <1>1, <2>1
    <3> QED BY <1>1, <3>1, AcquireSound
  <2>2. Acquired(C, p, In(C, w, holds), need, cap, s, r)
    BY <2>1
  <2> QED BY <2>2 DEF Acquired
<1>3. CASE Fits(p, need, s)
  <2>1. Alike(C, w, v, waits)
    BY <1>3 DEF Alike
  <2>2. In(C, v, holds) = In(C, w, holds) \cup {s} /\ In(C, v, waits) = In(C, w, waits)
    <3>1. In(C, v, waits) = In(C, w, waits)
      BY <2>1, SameIn
    <3>2. w[s] \notin holds /\ v[s] \in holds
      BY <1>3
    <3>3. In(C, v, holds) = In(C, w, holds) \cup {s}
      BY <3>2, JoinsIn
    <3> QED BY <3>1, <3>3
  <2> QED BY <1>1, <1>2, <1>3, <2>2 DEF PoolAt
<1>4. CASE ~Fits(p, need, s)
  <2>1. Alike(C, w, v, holds)
    BY <1>4 DEF Alike
  <2>2. In(C, v, waits) = In(C, w, waits) \cup {s} /\ In(C, v, holds) = In(C, w, holds)
    <3>1. In(C, v, holds) = In(C, w, holds)
      BY <2>1, SameIn
    <3>2. w[s] \notin waits /\ v[s] \in waits
      BY <1>4
    <3>3. In(C, v, waits) = In(C, w, waits) \cup {s}
      BY <3>2, JoinsIn
    <3> QED BY <3>1, <3>3
  <2> QED BY <1>1, <1>2, <1>4, <2>2 DEF PoolAt
<1> QED BY <1>3, <1>4

(* release at a pool lets one holder go and grants some that waited.       *)
LEMMA ReleaseGrants ==
  ASSUME NEW C, IsFiniteSet(C), NEW need \in [C -> Nat], NEW cap \in Int,
         NEW waits, NEW holds, NEW p, NEW w, PoolAt(C, p, w, waits, holds, need, cap),
         NEW s \in C, w[s] \in holds,
         NEW amount, amount = need[s], NEW r, r = Release(p, need, cap, amount),
         NEW F, F = Range(Granted(p, r))
  PROVE  /\ Returned(C, p, In(C, w, holds), need, cap, s, r, F)
         /\ F \subseteq In(C, w, waits)
         /\ Granted(p, r) \in Seq(C) /\ Distinct(Granted(p, r))
<1>1. ASSUME NEW held, held = In(C, w, holds)
      PROVE  Returned(C, p, held, need, cap, s, r, F)
  <2>1. PoolSound(C, p, held, need, cap) /\ s \in held
    BY <1>1 DEF PoolAt, In
  <2> QED BY <2>1, ReleaseSound
<1>2. Returned(C, p, In(C, w, holds), need, cap, s, r, F)
  BY <1>1
<1> QED BY <1>2 DEF Returned, PoolAt

HandedOn(C, w, v, s, F, waits, holds) ==
  /\ \A t \in C : t \notin F /\ t # s => v[t] = w[t]
  /\ v[s] \notin holds /\ v[s] \notin waits
  /\ \A t \in F : v[t] \in holds /\ v[t] \notin waits

LEMMA ReleaseAt ==
  ASSUME NEW C, NEW need \in [C -> Nat], NEW cap \in Int, NEW waits, NEW holds, NEW p,
         NEW w, PoolAt(C, p, w, waits, holds, need, cap),
         NEW s \in C, w[s] \in holds, NEW r, NEW F,
         NEW held, held = In(C, w, holds), Returned(C, p, held, need, cap, s, r, F),
         NEW v, HandedOn(C, w, v, s, F, waits, holds)
  PROVE  PoolAt(C, r, v, waits, holds, need, cap)
<1>1. /\ Range(p.q) = In(C, w, waits) /\ Range(p.q) \cap In(C, w, holds) = {}
      /\ s \in In(C, w, holds)
  BY DEF PoolAt, In, PoolSound
<1>2. In(C, v, holds) = (In(C, w, holds) \ {s}) \cup F
  <2>1. \A t \in C : t \in In(C, v, holds) <=> (t \in In(C, w, holds) /\ t # s) \/ t \in F
    BY <1>1 DEF In, Returned, HandedOn
  <2>2. /\ In(C, v, holds) \subseteq C /\ In(C, w, holds) \subseteq C
        /\ F \subseteq C
    BY <1>1 DEF In, Returned
  <2> QED BY <2>1, <2>2
<1>3. In(C, v, waits) = In(C, w, waits) \ F
  <2>1. \A t \in C : t \in In(C, v, waits) <=> t \in In(C, w, waits) /\ t \notin F
    BY <1>1 DEF In, Returned, HandedOn
  <2>2. In(C, v, waits) \subseteq C /\ In(C, w, waits) \subseteq C
    BY DEF In
  <2> QED BY <2>1, <2>2
<1> QED BY <1>1, <1>2, <1>3 DEF PoolAt, Returned

(* Both together: what a release hands on, and the pool it leaves wherever *)
(* the clients that it grants go.                                          *)
Given(C, w, waits, holds, need, cap, s, r, clients) ==
  /\ r \in Pools(C) /\ clients \in Seq(C) /\ Distinct(clients)
  /\ Range(clients) \subseteq In(C, w, waits)
  /\ \A v : HandedOn(C, w, v, s, Range(clients), waits, holds) =>
       PoolAt(C, r, v, waits, holds, need, cap)

LEMMA GiveAt ==
  ASSUME NEW C, IsFiniteSet(C), NEW need \in [C -> Nat], NEW cap \in Int,
         NEW waits, NEW holds, NEW p, NEW w, PoolAt(C, p, w, waits, holds, need, cap),
         NEW s \in C, w[s] \in holds,
         NEW amount, amount = need[s], NEW r, r = Release(p, need, cap, amount),
         NEW clients, clients = Granted(p, r)
  PROVE  Given(C, w, waits, holds, need, cap, s, r, clients)
<1>1. ASSUME NEW F, F = Range(Granted(p, r))
      PROVE  /\ Returned(C, p, In(C, w, holds), need, cap, s, r, F)
             /\ F \subseteq In(C, w, waits) /\ clients \in Seq(C) /\ Distinct(clients)
  BY <1>1, ReleaseGrants
<1>2. /\ clients \in Seq(C) /\ Distinct(clients) /\ Range(clients) \subseteq In(C, w, waits)
      /\ Returned(C, p, In(C, w, holds), need, cap, s, r, Range(clients))
  BY <1>1
<1>3. r \in Pools(C)
  BY <1>2 DEF Returned, PoolSound
<1>4. ASSUME NEW v, NEW F, F = Range(clients), HandedOn(C, w, v, s, F, waits, holds),
             NEW held, held = In(C, w, holds)
      PROVE  PoolAt(C, r, v, waits, holds, need, cap)
  <2>1. Returned(C, p, held, need, cap, s, r, F)
    BY <1>2, <1>4
  <2> QED BY <1>4, <2>1, ReleaseAt
<1> QED BY <1>2, <1>3, <1>4 DEF Given

(* The members of a list.                                                  *)
LEMMA Members ==
  ASSUME NEW C, NEW q \in Seq(C), NEW n, n = Len(q)
  PROVE  n \in Nat /\ \A k \in 1..n : q[k] \in C /\ q[k] \in Range(q)
  BY DEF Range

LEMMA NoMembers ==
  /\ Range(<<>>) = {}
  /\ \A C : \A q \in Seq(C) : Range(q) = {} => q = <<>>
<1>1. Range(<<>>) = {}
  BY DEF Range
<1>2. ASSUME NEW C, NEW q \in Seq(C), q # <<>> PROVE Range(q) # {}
  <2>1. 1 \in DOMAIN q
    BY <1>2
  <2> QED BY <2>1 DEF Range
<1> QED BY <1>1, <1>2

LEMMA Before ==
  ASSUME NEW n \in Nat, NEW k \in 1..n
  PROVE  k - 1 \in 0..n
  OBVIOUS

-----------------------------------------------------------------------------
(* A sequence without its member at position i.                            *)
RemoveAt(q, i) == SubSeq(q, 1, i - 1) \o SubSeq(q, i + 1, Len(q))

LEMMA RemoveAtType ==
  ASSUME NEW C, NEW q \in Seq(C), NEW i \in DOMAIN q
  PROVE  /\ RemoveAt(q, i) \in Seq(C)
         /\ Len(RemoveAt(q, i)) = Len(q) - 1
         /\ DOMAIN RemoveAt(q, i) = 1..(Len(q) - 1)
         /\ \A j \in 1..(Len(q) - 1) : RemoveAt(q, i)[j] = IF j < i THEN q[j] ELSE q[j+1]
<1> DEFINE a == SubSeq(q, 1, i - 1)
           c == SubSeq(q, i + 1, Len(q))
           g == RemoveAt(q, i)
<1>1. i \in 1..Len(q) /\ Len(q) \in Nat
  OBVIOUS
<1>2. /\ a \in Seq(C) /\ Len(a) = i - 1
      /\ \A j \in 1..(i - 1) : a[j] = q[j]
  <2>1. 1 \in Int /\ i - 1 \in Int /\ \A j \in 1..(i - 1) : q[j] \in C
    BY <1>1
  <2> QED BY <1>1, <2>1, SubSeqProperties
<1>3. /\ c \in Seq(C) /\ Len(c) = Len(q) - i
      /\ \A j \in 1..(Len(q) - i) : c[j] = q[i + j]
  <2>1. i + 1 \in Int /\ Len(q) \in Int /\ \A j \in (i + 1)..Len(q) : q[j] \in C
    BY <1>1
  <2> QED BY <1>1, <2>1, SubSeqProperties
<1>4. g = a \o c
  BY DEF RemoveAt
<1> HIDE DEF a, c, g
<1>5. /\ Len(a \o c) = (i - 1) + (Len(q) - i) /\ a \o c \in Seq(C)
      /\ \A j \in 1..Len(a \o c) :
           (a \o c)[j] = IF j <= Len(a) THEN a[j] ELSE c[j - Len(a)]
  <2>1. a \in Seq(C) /\ c \in Seq(C)
    BY <1>2, <1>3
  <2>2. /\ a \o c \in Seq(C) /\ Len(a \o c) = Len(a) + Len(c)
        /\ \A j \in 1..(Len(a) + Len(c)) :
             (a \o c)[j] = IF j <= Len(a) THEN a[j] ELSE c[j - Len(a)]
    BY <2>1, ConcatProperties
  <2> QED BY <1>2, <1>3, <2>2
<1>6. Len(g) = Len(q) - 1 /\ DOMAIN g = 1..(Len(q) - 1) /\ g \in Seq(C)
  BY <1>1, <1>4, <1>5
<1>7. ASSUME NEW j \in 1..(Len(q) - 1) PROVE g[j] = IF j < i THEN q[j] ELSE q[j+1]
  <2>1. CASE j < i
    BY <1>1, <1>2, <1>4, <1>5, <1>6, <2>1
  <2>2. CASE ~(j < i)
    <3>1. j - (i - 1) \in 1..(Len(q) - i) /\ i + (j - (i - 1)) = j + 1
      BY <1>1, <2>2
    <3>2. j \in 1..Len(a \o c) /\ ~(j <= Len(a)) /\ Len(a) = i - 1
      BY <1>1, <1>2, <1>5, <2>2
    <3>3. (a \o c)[j] = c[j - (i - 1)]
      BY <1>5, <3>2
    <3>4. c[j - (i - 1)] = q[j+1]
      BY <1>3, <3>1
    <3> QED BY <1>4, <2>2, <3>3, <3>4
  <2> QED BY <2>1, <2>2
<1> QED BY <1>6, <1>7 DEF g

(* It has the other members, if it had each once.                          *)
LEMMA RemoveAtDistinct ==
  ASSUME NEW C, NEW q \in Seq(C), Distinct(q), NEW i \in DOMAIN q
  PROVE  Distinct(RemoveAt(q, i)) /\ Range(RemoveAt(q, i)) = Range(q) \ {q[i]}
<1> DEFINE g == RemoveAt(q, i)
<1>1. i \in 1..Len(q) /\ Len(q) \in Nat
  OBVIOUS
<1>2. /\ Len(g) = Len(q) - 1 /\ DOMAIN g = 1..(Len(q) - 1)
      /\ \A j \in 1..(Len(q) - 1) : g[j] = IF j < i THEN q[j] ELSE q[j+1]
  BY RemoveAtType
<1> HIDE DEF g
<1>3. Distinct(g)
  BY <1>1, <1>2 DEF Distinct
<1>4. ASSUME NEW x PROVE x \in Range(g) <=> x \in Range(q) /\ x # q[i]
  <2>1. ASSUME x \in Range(g) PROVE x \in Range(q) /\ x # q[i]
    <3>1. PICK j \in 1..(Len(q) - 1) : g[j] = x
      BY <1>2, <2>1 DEF Range
    <3> QED BY <1>1, <1>2, <3>1 DEF Distinct, Range
  <2>2. ASSUME x \in Range(q), x # q[i] PROVE x \in Range(g)
    <3>1. PICK j \in 1..Len(q) : q[j] = x
      BY <2>2 DEF Range
    <3>2. j # i
      BY <2>2, <3>1
    <3>3. CASE j < i
      BY <1>1, <1>2, <3>1, <3>3 DEF Range
    <3>4. CASE j > i
      <4>1. j - 1 \in 1..(Len(q) - 1) /\ ~(j - 1 < i) /\ (j - 1) + 1 = j
        BY <1>1, <3>4
      <4> QED BY <1>2, <3>1, <4>1 DEF Range
    <3> QED BY <1>1, <3>2, <3>3, <3>4
  <2> QED BY <2>1, <2>2
<1> QED BY <1>3, <1>4 DEF g

-----------------------------------------------------------------------------
(* A set with one element or none.                                         *)
AtMostOne(S) == S = {} \/ \E x : S = {x}

LEMMA AtMostOneCounts ==
  ASSUME NEW S, AtMostOne(S)
  PROVE  Cardinality(S) <= 1
<1>1. CASE S = {}
  BY <1>1, FS_EmptySet
<1>2. CASE \E x : S = {x}
  <2>1. PICK x : S = {x}
    BY <1>2
  <2>2. Cardinality({x}) = 1
    BY FS_Singleton
  <2> QED BY <2>1, <2>2
<1> QED BY <1>1, <1>2 DEF AtMostOne

(* So is its product with a name.                                          *)
LEMMA OneNamed ==
  ASSUME NEW name, NEW S, \A x, y \in S : x = y
  PROVE  AtMostOne({name} \X S) /\ ({name} \X S # {} <=> S # {})
<1>1. CASE S = {}
  <2>1. {name} \X S = {}
    BY <1>1
  <2> QED BY <1>1, <2>1 DEF AtMostOne
<1>2. CASE S # {}
  <2>1. PICK x : x \in S
    BY <1>2
  <2>2. S = {x}
    BY <2>1
  <2>3. {name} \X S = {<<name, x>>}
    BY <2>2
  <2> QED BY <1>2, <2>3 DEF AtMostOne
<1> QED BY <1>1, <1>2

(* A list has a member at one position if no other position has it too.    *)
LEMMA OnePosition ==
  ASSUME NEW name, NEW q, NEW x, \A i, j \in DOMAIN q : q[i] = x /\ q[j] = x => i = j
  PROVE  /\ AtMostOne({name} \X {i \in DOMAIN q : q[i] = x})
         /\ {name} \X {i \in DOMAIN q : q[i] = x} # {} <=> x \in Range(q)
<1> DEFINE I == {i \in DOMAIN q : q[i] = x}
<1>1. I # {} <=> x \in Range(q)
  BY DEF Range
<1>2. \A i, j \in I : i = j
  OBVIOUS
<1> HIDE DEF I
<1>3. AtMostOne({name} \X I) /\ ({name} \X I # {} <=> I # {})
  BY <1>2, OneNamed
<1> QED BY <1>1, <1>3 DEF I

-----------------------------------------------------------------------------
(* r is what is left of a queue q when clients left it from the front, and *)
(* none of them takes more than the whole capacity.                        *)
LeftFromFront(q, r, need, cap) ==
  /\ Len(r) <= Len(q)
  /\ \A i \in 1..Len(r) : r[i] = q[Len(q) - Len(r) + i]
  /\ \A k \in 1..(Len(q) - Len(r)) : need[q[k]] <= cap

LEMMA LeftFromFrontTrans ==
  ASSUME NEW C, NEW need, NEW cap, NEW q \in Seq(C), NEW r \in Seq(C), NEW t \in Seq(C),
         LeftFromFront(q, r, need, cap), LeftFromFront(r, t, need, cap)
  PROVE  LeftFromFront(q, t, need, cap)
<1> DEFINE n == Len(q) - Len(r)
           k == Len(r) - Len(t)
<1>1. /\ Len(q) \in Nat /\ Len(r) \in Nat /\ Len(t) \in Nat
      /\ n \in Nat /\ k \in Nat /\ Len(q) - Len(t) = n + k
  BY DEF LeftFromFront
<1>2. ASSUME NEW i \in 1..Len(t) PROVE t[i] = q[(n + k) + i]
  <2>1. k + i \in 1..Len(r) /\ n + (k + i) = (n + k) + i
    BY <1>1
  <2>2. t[i] = r[k + i]
    BY DEF LeftFromFront
  <2>3. r[k + i] = q[n + (k + i)]
    BY <2>1 DEF LeftFromFront
  <2> QED BY <2>1, <2>2, <2>3
<1>3. ASSUME NEW i \in 1..(n + k) PROVE need[q[i]] <= cap
  <2>1. CASE i <= n
    BY <1>1, <2>1 DEF LeftFromFront
  <2>2. CASE i > n
    <3>1. i - n \in 1..k /\ i - n \in 1..Len(r) /\ n + (i - n) = i
      BY <1>1, <2>2
    <3>2. r[i - n] = q[n + (i - n)]
      BY <3>1 DEF LeftFromFront
    <3>3. need[r[i - n]] <= cap
      BY <3>1 DEF LeftFromFront
    <3> QED BY <3>1, <3>2, <3>3
  <2> QED BY <1>1, <2>1, <2>2
<1>4. Len(t) <= Len(q)
  BY <1>1
<1> QED BY <1>1, <1>2, <1>3, <1>4 DEF LeftFromFront

(* No turn of the loop of release grants what exceeds the capacity, for no *)
(* more than the capacity is ever free.                                    *)
LEMMA GrantHeadFront ==
  ASSUME NEW C, NEW need \in [C -> Nat], NEW cap \in Int,
         NEW p \in Pools(C), p.free <= cap
  PROVE  LET r == GrantHead(p, need)
         IN  r \in Pools(C) /\ r.free <= cap /\ LeftFromFront(p.q, r.q, need, cap)
<1>1. p.q \in Seq(C) /\ p.free \in Int /\ Len(p.q) \in Nat
  BY DEF Pools
<1>2. CASE p.q = <<>> \/ ~Fits(p, need, Head(p.q))
  <2>1. GrantHead(p, need) = p
    BY <1>2 DEF GrantHead
  <2>2. LeftFromFront(p.q, p.q, need, cap)
    BY <1>1 DEF LeftFromFront
  <2> QED BY <2>1, <2>2
<1>3. CASE p.q # <<>> /\ Fits(p, need, Head(p.q))
  <2> DEFINE r == GrantHead(p, need)
             h == Head(p.q)
             t == Tail(p.q)
  <2>1. /\ h \in C /\ h = p.q[1] /\ t \in Seq(C) /\ Len(t) = Len(p.q) - 1
        /\ \A i \in 1..Len(t) : t[i] = p.q[i + 1]
    BY <1>1, <1>3, HeadTailProperties
  <2>2. r = [free |-> p.free - need[h], q |-> t]
    BY <1>3 DEF GrantHead
  <2>3. need[h] \in Nat /\ need[h] <= p.free
    BY <1>3, <2>1 DEF Fits
  <2> HIDE DEF r, h, t
  <2>4. r.q = t /\ r.free = p.free - need[h] /\ r \in Pools(C)
    BY <1>1, <2>1, <2>2, <2>3 DEF Pools
  <2>5. r.free <= cap /\ need[h] <= cap
    BY <1>1, <2>3, <2>4
  <2>6. LeftFromFront(p.q, t, need, cap)
    <3>1. Len(p.q) - Len(t) = 1 /\ Len(t) <= Len(p.q)
      BY <1>1, <2>1
    <3>2. \A i \in 1..Len(t) : t[i] = p.q[1 + i]
      <4>1. \A i \in 1..Len(t) : i + 1 = 1 + i
        OBVIOUS
      <4> QED BY <2>1, <4>1
    <3>3. \A k \in 1..1 : k = 1
      OBVIOUS
    <3> QED BY <2>1, <2>5, <3>1, <3>2, <3>3 DEF LeftFromFront
  <2> QED BY <2>4, <2>5, <2>6 DEF r
<1> QED BY <1>2, <1>3

(* Whatever is released, a client behind one that exceeds the capacity     *)
(* stays in the queue.                                                     *)
LEMMA ReleaseFront ==
  ASSUME NEW C, NEW p \in Pools(C), NEW need \in [C -> Nat],
         NEW cap \in Int, NEW amount \in Int,
         NEW r, r = Release(p, need, cap, amount)
  PROVE  r \in Pools(C) /\ LeftFromFront(p.q, r.q, need, cap)
<1> DEFINE freed == [p EXCEPT !.free = Lesser(cap, @ + amount)]
           N == Len(p.q)
           L == GrantLoop(freed, need)
           D == {x \in Pools(C) : x.free <= cap /\ LeftFromFront(p.q, x.q, need, cap)}
<1>1. p.q \in Seq(C) /\ p.free \in Int /\ N \in Nat
  BY DEF Pools
<1>2. freed \in Pools(C) /\ freed.q = p.q /\ freed.free <= cap
  BY <1>1 DEF Pools, Lesser
<1>3. r = L[N]
  BY <1>2 DEF Release
<1> HIDE DEF freed
<1>4. L[0] = freed /\ \A k \in 1..N : L[k] = GrantHead(L[k-1], need)
  BY <1>1, <1>2, GrantLoopDef
<1> HIDE DEF L
<1>5. L[0] \in D
  <2> DEFINE q == p.q
  <2>1. Len(q) \in Nat
    BY <1>1
  <2> HIDE DEF q
  <2>2. LeftFromFront(q, q, need, cap)
    BY <2>1 DEF LeftFromFront
  <2> QED BY <1>2, <1>4, <2>2 DEF q
<1>6. ASSUME NEW k \in 1..N, L[k-1] \in D PROVE L[k] \in D
  <2> DEFINE x == L[k-1]
             y == GrantHead(x, need)
  <2>1. x \in Pools(C) /\ x.free <= cap /\ LeftFromFront(p.q, x.q, need, cap)
    BY <1>6
  <2> HIDE DEF x
  <2>2. y \in Pools(C) /\ y.free <= cap /\ LeftFromFront(x.q, y.q, need, cap)
    BY <2>1, GrantHeadFront
  <2> HIDE DEF y
  <2>3. x.q \in Seq(C) /\ y.q \in Seq(C)
    BY <2>1, <2>2 DEF Pools
  <2>4. LeftFromFront(p.q, y.q, need, cap)
    BY <1>1, <2>1, <2>2, <2>3, LeftFromFrontTrans
  <2>5. L[k] = y
    BY <1>4 DEF x, y
  <2> QED BY <2>2, <2>4, <2>5
<1>7. L[N] \in D
  <2> HIDE DEF D, N
  <2> QED BY <1>1, <1>5, <1>6, LoopStays
<1> QED BY <1>3, <1>7
=============================================================================
