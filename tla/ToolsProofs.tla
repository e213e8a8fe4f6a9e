---------------------------- MODULE ToolsProofs ----------------------------
(***************************************************************************)
(* Theorems about the programs of model/: the download of the trace, for   *)
(* any server, number of rows and size of a page; the searches, for any    *)
(* grids and inputs whose scores are numbers; the verdict of a scenario;   *)
(* the largest batch within the SLO, for any dense model; the calls of a   *)
(* trace of any rows; the calibration, for any points and grids; and the   *)
(* overlap that is fitted, for any mix of a dense model.  The second       *)
(* section and those after the SLO are about numbers in general.           *)
(***************************************************************************)
EXTENDS Tools, OpsProofs, SequenceTheorems

(* What is in memory is what the server has up to off.                     *)
Progress == fetch.at = "fetching" => fetch.rows = UpTo(data, fetch.off)

(* The inductive invariant: that the file holds the whole trace rests on   *)
(* the rows in memory being all that was asked for when it is written.     *)
IInv == TypeOK /\ TraceUsable /\ Progress

(* What the type invariant says of each part of the state.                 *)
LEMMA TypedTrace ==
  ASSUME TypeOK
  PROVE  /\ data \in Seq(Row) /\ data \in Datasets
         /\ cache.rows \in Seq(Row) /\ fetch.rows \in Seq(Row)
         /\ fetch.off \in Nat /\ fetch.off <= N_ROWS /\ fetch.at \in Places
         /\ N_ROWS \in Nat /\ Page \in Nat \ {0}
  BY CacheAssumption DEF TypeOK

(* The constructors of the two records, typed.                             *)
LEMMA FetchTyped ==
  ASSUME NEW at \in Places, NEW off \in 0..N_ROWS, NEW rows \in Seq(Row)
  PROVE  /\ Fetch(at, off, rows) \in [at : Places, off : 0..N_ROWS, rows : Seq(Row)]
         /\ Fetch(at, off, rows).at = at
         /\ Fetch(at, off, rows).off = off
         /\ Fetch(at, off, rows).rows = rows
  BY DEF Fetch

LEMMA CacheTyped ==
  ASSUME NEW rows \in Seq(Row)
  PROVE  /\ \A c \in {Absent, Torn, Whole(rows)} :
              c \in [is : {"absent", "torn", "whole"}, rows : Seq(Row)]
         /\ Absent.is = "absent" /\ Absent.rows = <<>>
         /\ Torn.is = "torn" /\ Torn.rows = <<>>
         /\ Whole(rows).is = "whole" /\ Whole(rows).rows = rows
<1>1. <<>> \in Seq(Row)
  OBVIOUS
<1> QED BY <1>1 DEF Absent, Torn, Whole

(* The rows up to a number are rows.                                       *)
LEMMA RowsTyped ==
  ASSUME data \in Seq(Row), NEW n \in Nat
  PROVE  UpTo(data, n) \in Seq(Row) /\ UpTo(data, 0) = <<>>
<1> DEFINE top == IF n <= Len(data) THEN n ELSE Len(data)
<1>1. top \in Nat /\ \A i \in 1..top : data[i] \in Row
  OBVIOUS
<1>2. SubSeq(data, 1, top) \in Seq(Row)
  BY <1>1, SubSeqProperties
<1>3. SubSeq(data, 1, 0) = <<>>
  BY SubSeqEmpty
<1> QED BY <1>2, <1>3 DEF UpTo

(* A page is behind what is there already, and no longer than what is      *)
(* asked for.                                                              *)
LEMMA PageBounds ==
  ASSUME TypeOK, fetch.off < N_ROWS
  PROVE  PageEnd \in 0..N_ROWS /\ fetch.off <= PageEnd
  BY TypedTrace DEF PageEnd

(* A prefix and what follows it.                                           *)
LEMMA PrefixContinues ==
  ASSUME NEW R, NEW s \in Seq(R), NEW a \in 0..Len(s), NEW e \in a..Len(s)
  PROVE  SubSeq(s, 1, a) \o SubSeq(s, a + 1, e) = SubSeq(s, 1, e)
<1>1. 1 \in 1..Len(s) + 1 /\ a \in (1 - 1)..Len(s) /\ e \in a..Len(s)
  OBVIOUS
<1> QED BY <1>1, ConcatAdjacentSubSeq

(* The next page continues the rows, also when the server has no more.     *)
LEMMA PageContinues ==
  ASSUME TypeOK, fetch.off < N_ROWS
  PROVE  UpTo(data, fetch.off) \o PageOf = UpTo(data, PageEnd) /\ PageOf \in Seq(Row)
<1> DEFINE a   == fetch.off
           end == IF PageEnd <= Len(data) THEN PageEnd ELSE Len(data)
<1>0. /\ a \in Nat /\ PageEnd \in Nat /\ a <= PageEnd /\ data \in Seq(Row)
      /\ end \in Nat /\ end <= Len(data) /\ Len(data) \in Nat
  BY TypedTrace, PageBounds
<1>1. CASE a <= Len(data)
  <2>1. a \in 0..Len(data) /\ end \in a..Len(data)
    BY <1>0, <1>1
  <2>2. SubSeq(data, 1, a) \o SubSeq(data, a + 1, end) = SubSeq(data, 1, end)
    BY <1>0, <2>1, PrefixContinues
  <2>3. \A i \in (a + 1)..end : data[i] \in Row
    BY <1>0
  <2>4. SubSeq(data, a + 1, end) \in Seq(Row)
    BY <1>0, <2>3, SubSeqProperties
  <2>5. UpTo(data, a) = SubSeq(data, 1, a) /\ UpTo(data, PageEnd) = SubSeq(data, 1, end)
    BY <1>0, <1>1 DEF UpTo
  <2>6. PageOf = SubSeq(data, a + 1, end)
    BY DEF PageOf
  <2> QED BY <2>2, <2>4, <2>5, <2>6
<1>2. CASE ~(a <= Len(data))
  <2>1. end = Len(data) /\ end < a + 1
    BY <1>0, <1>2
  <2>2. SubSeq(data, a + 1, end) = <<>>
    BY <1>0, <2>1, SubSeqEmpty
  <2>3. UpTo(data, a) = SubSeq(data, 1, Len(data)) /\ UpTo(data, PageEnd) = SubSeq(data, 1, Len(data))
    BY <1>0, <1>2, <2>1 DEF UpTo
  <2>4. UpTo(data, a) \o <<>> = UpTo(data, a)
    BY <1>0, RowsTyped
  <2>5. PageOf = SubSeq(data, a + 1, end)
    BY DEF PageOf
  <2>6. <<>> \in Seq(Row)
    OBVIOUS
  <2> QED BY <2>2, <2>3, <2>4, <2>5, <2>6
<1> QED BY <1>1, <1>2

-----------------------------------------------------------------------------
(* Without a file, and before a download, there is nothing to go wrong.    *)
LEMMA InitHolds == Init => IInv
<1> SUFFICES ASSUME Init PROVE IInv
  OBVIOUS
<1>0. <<>> \in Seq(Row) /\ 0 \in 0..N_ROWS /\ "idle" \in Places
  BY CacheAssumption DEF Places
<1>1. TypeOK
  BY <1>0, FetchTyped, CacheTyped DEF Init, TypeOK
<1>2. TraceUsable /\ Progress
  BY <1>0, FetchTyped, CacheTyped DEF Init, TraceUsable, Progress
<1> QED BY <1>1, <1>2 DEF IInv

(* Each step of a download keeps the invariant.                            *)
LEMMA StepHolds == IInv /\ [Next]_vars => IInv'
<1> SUFFICES ASSUME IInv, [Next]_vars PROVE IInv'
  OBVIOUS
<1>0. /\ TypeOK /\ TraceUsable /\ Progress
      /\ {"idle", "fetching", "dumping", "parsing", "failed"} = Places
  BY DEF IInv, Places
<1>t. /\ data \in Seq(Row) /\ data \in Datasets
      /\ cache.rows \in Seq(Row) /\ fetch.rows \in Seq(Row)
      /\ fetch.off \in 0..N_ROWS /\ 0 \in 0..N_ROWS /\ N_ROWS \in Nat
      /\ <<>> \in Seq(Row) /\ fetch.at \in Places
  BY <1>0, TypedTrace
<1>1. CASE FetchCached
  <2>1. fetch' = Fetch("parsing", 0, cache.rows) /\ cache' = cache /\ data' = data
    BY <1>1 DEF FetchCached
  <2>2. cache.rows = UpTo(data, N_ROWS)
    BY <1>0, <1>1 DEF FetchCached, TraceUsable
  <2>3. TypeOK'
    BY <1>0, <1>t, <2>1, FetchTyped DEF TypeOK
  <2>f. fetch'.at = "parsing" /\ fetch'.off = 0 /\ fetch'.rows = cache.rows
    BY <2>1 DEF Fetch
  <2>4. TraceUsable' /\ Progress'
    BY <1>0, <1>t, <2>1, <2>2, <2>f DEF TraceUsable, Progress
  <2> QED BY <2>3, <2>4 DEF IInv
<1>2. CASE FetchRaises \/ Stop
  <2>1. fetch' = Fetch("failed", 0, <<>>) /\ cache' = cache /\ data' = data
    BY <1>2 DEF FetchRaises, Stop, Failed
  <2>3. TypeOK'
    BY <1>0, <1>t, <2>1, FetchTyped DEF TypeOK
  <2>f. fetch'.at = "failed" /\ fetch'.off = 0 /\ fetch'.rows = <<>>
    BY <2>1 DEF Fetch
  <2>4. TraceUsable' /\ Progress'
    BY <1>0, <1>t, <2>1, <2>f DEF TraceUsable, Progress
  <2> QED BY <2>3, <2>4 DEF IInv
<1>3. ASSUME NEW force \in BOOLEAN, Connect(force) PROVE IInv'
  <2>1. fetch' = Fetch("fetching", 0, <<>>) /\ cache' = cache /\ data' = data
    BY <1>3 DEF Connect
  <2>3. TypeOK'
    BY <1>0, <1>t, <2>1, FetchTyped DEF TypeOK
  <2>4. UpTo(data, 0) = <<>>
    BY <1>t, RowsTyped
  <2>f. fetch'.at = "fetching" /\ fetch'.off = 0 /\ fetch'.rows = <<>>
    BY <2>1 DEF Fetch
  <2>5. TraceUsable' /\ Progress'
    BY <1>0, <1>t, <2>1, <2>4, <2>f DEF TraceUsable, Progress
  <2> QED BY <2>3, <2>5 DEF IInv
<1>4. CASE FetchPage
  <2>1. /\ fetch' = Fetch("fetching", PageEnd, fetch.rows \o PageOf)
        /\ cache' = cache /\ data' = data
    BY <1>4 DEF FetchPage
  <2>2. PageEnd \in 0..N_ROWS /\ fetch.rows \o PageOf = UpTo(data, PageEnd) /\ PageOf \in Seq(Row)
    BY <1>0, <1>4, PageBounds, PageContinues DEF FetchPage, Progress
  <2>3. fetch.rows \o PageOf \in Seq(Row)
    BY <1>t, <2>2, ConcatProperties
  <2>4. TypeOK'
    BY <1>0, <1>t, <2>1, <2>2, <2>3, FetchTyped DEF TypeOK
  <2>f. fetch'.at = "fetching" /\ fetch'.off = PageEnd /\ fetch'.rows = fetch.rows \o PageOf
    BY <2>1 DEF Fetch
  <2>5. TraceUsable' /\ Progress'
    BY <1>0, <2>1, <2>2, <2>3, <2>f DEF TraceUsable, Progress
  <2> QED BY <2>4, <2>5 DEF IInv
<1>5. CASE OpenCache
  <2>1. /\ fetch' = [fetch EXCEPT !.at = "dumping"] /\ cache' = Torn /\ data' = data
    BY <1>5 DEF OpenCache
  <2>2. fetch.off = N_ROWS /\ fetch.rows = UpTo(data, N_ROWS)
    BY <1>0, <1>t, <1>5 DEF OpenCache, Progress
  <2>3. fetch'.at = "dumping" /\ fetch'.rows = fetch.rows
    BY <1>0, <2>1 DEF TypeOK
  <2>4. TypeOK'
    BY <1>0, <1>t, <2>1, CacheTyped DEF TypeOK
  <2>5. TraceUsable' /\ Progress'
    BY <1>t, <2>1, <2>2, <2>3, CacheTyped DEF TraceUsable, Progress
  <2> QED BY <2>4, <2>5 DEF IInv
<1>6. CASE EndDump
  <2>1. /\ fetch' = [fetch EXCEPT !.at = "parsing"] /\ cache' = Whole(fetch.rows) /\ data' = data
    BY <1>6 DEF EndDump
  <2>2. fetch.rows = UpTo(data, N_ROWS)
    BY <1>0, <1>6 DEF EndDump, TraceUsable
  <2>3. fetch'.at = "parsing" /\ fetch'.rows = fetch.rows
    BY <1>0, <2>1 DEF TypeOK
  <2>4. TypeOK'
    BY <1>0, <1>t, <2>1, CacheTyped DEF TypeOK
  <2>5. TraceUsable' /\ Progress'
    BY <1>t, <2>1, <2>2, <2>3, CacheTyped DEF TraceUsable, Progress
  <2> QED BY <2>4, <2>5 DEF IInv
<1>7. CASE Done
  <2>1. fetch' = Fetch("idle", 0, <<>>) /\ cache' = cache /\ data' = data
    BY <1>7 DEF Done
  <2>3. TypeOK'
    BY <1>0, <1>t, <2>1, FetchTyped DEF TypeOK
  <2>f. fetch'.at = "idle" /\ fetch'.off = 0 /\ fetch'.rows = <<>>
    BY <2>1 DEF Fetch
  <2>4. TraceUsable' /\ Progress'
    BY <1>0, <1>t, <2>1, <2>f DEF TraceUsable, Progress
  <2> QED BY <2>3, <2>4 DEF IInv
<1>8. CASE UNCHANGED vars
  BY <1>0, <1>8 DEF IInv, TypeOK, TraceUsable, Progress, vars
<1> QED BY <1>1, <1>2, <1>3, <1>4, <1>5, <1>6, <1>7, <1>8 DEF Next, Download

LEMMA Inductive == Spec => []IInv
<1>1. Init => IInv
  BY InitHolds
<1>2. IInv /\ [Next]_vars => IInv'
  BY StepHolds
<1> QED BY <1>1, <1>2, PTL DEF Spec

(* The download, its memory and the file are well formed at every step.    *)
THEOREM TraceTypeCorrect == Spec => []TypeOK
<1>1. IInv => TypeOK
  BY DEF IInv
<1> QED BY <1>1, Inductive, PTL

(* No failed, killed or repeated download leaves a part of the trace in    *)
(* the file, and the parser never works on a part.                         *)
THEOREM TraceIsWhole == Spec => []TraceUsable
<1>1. IInv => TraceUsable
  BY DEF IInv
<1> QED BY <1>1, Inductive, PTL

(* While pages arrive, what is in memory is a prefix of the trace that     *)
(* ends at off.                                                            *)
THEOREM PagesAreInOrder == Spec => []Progress
<1>1. IInv => Progress
  BY DEF IInv
<1> QED BY <1>1, Inductive, PTL

-----------------------------------------------------------------------------
(* Greatest common divisors, and the comparison of fractions.              *)

(* Quotient and remainder.                                                 *)
LEMMA DivMod ==
  ASSUME NEW a \in Int, NEW b \in Nat \ {0}
  PROVE  a \div b \in Int /\ a % b \in 0..(b-1) /\ a = b * (a \div b) + (a % b)
  OBVIOUS

(* Divisors, those in common, and the greatest of a set.                   *)
Divides(d, n) == \E k \in Int : n = k * d
Common(a, b) == {d \in 1..b : Divides(d, a) /\ Divides(d, b)}
Greatest(S) == CHOOSE m \in S : \A d \in S : d <= m

(* A common factor of a sum and of a difference.                           *)
LEMMA Factor ==
  ASSUME NEW i \in Int, NEW j \in Int, NEW k \in Int, NEW d \in Int
  PROVE  /\ (i * k + j) * d = (i * d) * k + j * d /\ i * k + j \in Int
         /\ (j - i * k) * d = j * d - (i * d) * k /\ j - i * k \in Int
  OBVIOUS

(* The divisors that a and b have in common are those of b and a % b: the  *)
(* turn of Euclid's algorithm.                                             *)
LEMMA CommonStep ==
  ASSUME NEW a \in Int, NEW b \in Nat \ {0}, NEW r, r = a % b, r # 0
  PROVE  Common(a, b) = Common(b, r)
<1> DEFINE k == a \div b
<1>1. k \in Int /\ r \in Nat /\ r < b /\ a = b * k + r
  BY DivMod
<1> HIDE DEF k
<1>2. ASSUME NEW d \in Common(a, b) PROVE d \in Common(b, r)
  <2>1. PICK i \in Int : a = i * d
    BY DEF Common, Divides
  <2>2. PICK j \in Int : b = j * d
    BY DEF Common, Divides
  <2>3. d \in Int /\ d > 0
    BY DEF Common
  <2> DEFINE n == i - j * k
  <2>4. n * d = i * d - (j * d) * k /\ n \in Int
    BY <1>1, <2>3, Factor
  <2> HIDE DEF n
  <2>5. r = n * d
    <3> DEFINE u == b * k
               v == n * d
    <3>1. v = a - u
      BY <2>1, <2>2, <2>4
    <3>2. a = u + r /\ u \in Int
      BY <1>1
    <3> HIDE DEF u, v
    <3>3. r = v
      BY <1>1, <3>1, <3>2
    <3> QED BY <3>3 DEF v
  <2>6. n >= 1
    <3>1. n * d > 0
      BY <1>1, <2>5
    <3> QED BY <2>3, <2>4, <3>1
  <2>7. d <= r
    BY <2>3, <2>4, <2>5, <2>6
  <2>8. Divides(d, r) /\ Divides(d, b)
    BY <2>2, <2>4, <2>5 DEF Divides
  <2> QED BY <1>1, <2>3, <2>7, <2>8 DEF Common
<1>3. ASSUME NEW d \in Common(b, r) PROVE d \in Common(a, b)
  <2>1. PICK i \in Int : b = i * d
    BY DEF Common, Divides
  <2>2. PICK j \in Int : r = j * d
    BY DEF Common, Divides
  <2>3. d \in Int /\ d > 0 /\ d <= r
    BY <1>1 DEF Common
  <2> DEFINE n == i * k + j
  <2>4. n * d = (i * d) * k + j * d /\ n \in Int
    BY <1>1, <2>3, Factor
  <2> HIDE DEF n
  <2>5. a = n * d
    BY <1>1, <2>1, <2>2, <2>3, <2>4
  <2>6. Divides(d, a) /\ Divides(d, b)
    BY <2>1, <2>4, <2>5 DEF Divides
  <2> QED BY <1>1, <2>3, <2>6 DEF Common
<1> QED BY <1>2, <1>3

(* Where b divides a, b is the greatest of them.                           *)
LEMMA CommonEnd ==
  ASSUME NEW a \in Int, NEW b \in Nat \ {0}, a % b = 0
  PROVE  Greatest(Common(a, b)) = b
<1>1. a \div b \in Int /\ a = (a \div b) * b
  BY DivMod
<1>2. b = 1 * b /\ b \in 1..b
  OBVIOUS
<1>3. b \in Common(a, b)
  BY <1>1, <1>2 DEF Common, Divides
<1> DEFINE S == Common(a, b)
<1>4. \A d \in S : d \in Int /\ d <= b
  BY DEF Common
<1> HIDE DEF S
<1>5. b \in S
  BY <1>3 DEF S
<1>6. \E m \in S : \A d \in S : d <= m
  BY <1>4, <1>5
<1>7. Greatest(S) \in S /\ \A d \in S : d <= Greatest(S)
  BY <1>6 DEF Greatest
<1>8. Greatest(S) = b
  <2> DEFINE m == Greatest(S)
  <2>1. m \in S /\ b <= m /\ m \in Int /\ m <= b
    BY <1>4, <1>5, <1>7
  <2> HIDE DEF m
  <2>2. m = b
    BY <2>1
  <2> QED BY <2>2 DEF m
<1> QED BY <1>8 DEF S

(* f is the recursive function Gcd.                                        *)
GcdOf(f) == f = [p \in Rational |-> IF p[2] = 0 THEN p[1] ELSE f[<<p[2], p[1] % p[2]>>]]

(* Gcd is defined, on every pair: a turn of it is as written.              *)
LEMMA GcdDef ==
  ASSUME NEW a \in Int, NEW b \in Nat
  PROVE  Gcd[<<a, b>>] = IF b = 0 THEN a ELSE Gcd[<<b, a % b>>]
<1> DEFINE f == [p \in Rational |-> IF p[2] = 0 THEN p[1] ELSE Greatest(Common(p[1], p[2]))]
<1>1. ASSUME NEW p \in Rational
      PROVE  f[p] = IF p[2] = 0 THEN p[1] ELSE f[<<p[2], p[1] % p[2]>>]
  <2> DEFINE x == p[1]
             y == p[2]
             r == x % y
  <2>1. x \in Int /\ y \in Nat /\ p = <<x, y>>
    BY DEF Rational
  <2>2. CASE y = 0
    BY <2>2
  <2>3. CASE y # 0
    <3> HIDE DEF x, y
    <3>1. r \in Nat
      BY <2>1, <2>3, DivMod
    <3>2. <<y, r>> \in Rational /\ <<y, r>>[1] = y /\ <<y, r>>[2] = r
      BY <2>1, <3>1 DEF Rational
    <3>3. f[<<y, r>>] = IF r = 0 THEN y ELSE Greatest(Common(y, r))
      BY <3>2
    <3>4. f[p] = Greatest(Common(x, y))
      BY <2>3 DEF x, y
    <3> HIDE DEF f
    <3>5. r = 0 => Greatest(Common(x, y)) = y
      BY <2>1, <2>3, CommonEnd
    <3>6. r # 0 => Common(x, y) = Common(y, r)
      BY <2>1, <2>3, CommonStep
    <3>7. f[p] = f[<<y, r>>]
      BY <3>3, <3>4, <3>5, <3>6
    <3> QED BY <2>3, <3>7 DEF x, y
  <2> QED BY <2>2, <2>3
<1>2. f = [p \in Rational |-> f[p]]
  OBVIOUS
<1> HIDE DEF f
<1>3. GcdOf(f)
  BY <1>1, <1>2 DEF GcdOf
<1>4. Gcd = CHOOSE g : GcdOf(g)
  BY DEF Gcd, GcdOf
<1>5. GcdOf(Gcd)
  BY <1>3, <1>4
<1>6. <<a, b>> \in Rational /\ <<a, b>>[1] = a /\ <<a, b>>[2] = b
  BY DEF Rational
<1> QED BY <1>5, <1>6 DEF GcdOf

(* g may be cancelled.                                                     *)
Cancels(a, b, g) == g \in Nat \ {0} /\ Divides(g, a) /\ Divides(g, b)

(* Gcd divides both numbers.                                               *)
LEMMA GcdDivides ==
  ASSUME NEW a \in Int, NEW b \in Nat, b # 0 \/ a > 0
  PROVE  Cancels(a, b, Gcd[<<a, b>>])
<1> DEFINE Good(y) == \A x \in Int : y # 0 \/ x > 0 => Cancels(x, y, Gcd[<<x, y>>])
           T == {y \in Nat : ~Good(y)}
<1>1. T = {}
  <2> SUFFICES ASSUME T # {} PROVE FALSE
    OBVIOUS
  <2>1. PICK y \in T : \A z \in T : y <= z
    <3> HIDE DEF Good
    <3> QED BY LeastNumber
  <2>2. PICK x \in Int : (y # 0 \/ x > 0) /\ ~Cancels(x, y, Gcd[<<x, y>>])
    OBVIOUS
  <2>3. y \in Nat /\ \A z \in Nat : z < y => Good(z)
    <3> HIDE DEF Good
    <3> QED BY <2>1
  <2> DEFINE g == Gcd[<<x, y>>]
  <2> HIDE DEF T, Good
  <2>4. CASE y = 0
    <3>1. g = x /\ x > 0
      BY <2>2, <2>4, GcdDef
    <3>2. x = 1 * x /\ 0 = 0 * x
      OBVIOUS
    <3>3. Divides(x, x) /\ Divides(x, 0)
      BY <3>2 DEF Divides
    <3> QED BY <2>2, <2>4, <3>1, <3>3 DEF Cancels, g
  <2>5. CASE y # 0
    <3> DEFINE r == x % y
               k == x \div y
    <3>1. r \in Nat /\ r < y /\ k \in Int /\ x = y * k + r
      BY <2>3, <2>5, DivMod
    <3>2. g = Gcd[<<y, r>>]
      BY <2>3, <2>5, GcdDef DEF g
    <3> HIDE DEF r, k
    <3>3. Cancels(y, r, g)
      <4>1. Good(r)
        BY <2>3, <3>1
      <4>2. y \in Int /\ y > 0
        BY <2>3, <2>5
      <4> QED BY <3>2, <4>1, <4>2 DEF Good
    <3>4. PICK i \in Int : y = i * g
      BY <3>3 DEF Cancels, Divides
    <3>5. PICK j \in Int : r = j * g
      BY <3>3 DEF Cancels, Divides
    <3>6. g \in Int
      BY <3>3 DEF Cancels
    <3> DEFINE n == i * k + j
    <3>7. n * g = (i * g) * k + j * g /\ n \in Int
      BY <3>1, <3>6, Factor
    <3> HIDE DEF n
    <3>8. x = n * g
      BY <3>1, <3>4, <3>5, <3>6, <3>7
    <3>9. Divides(g, x)
      BY <3>7, <3>8 DEF Divides
    <3> QED BY <2>2, <3>3, <3>9 DEF Cancels, g
  <2> QED BY <2>4, <2>5
<1> HIDE DEF Good
<1>2. Good(b)
  BY <1>1
<1> QED BY <1>2 DEF Good

(* n/d is at most m/e, by their products; k/0 is infinite.                 *)
Crosswise(n, d, m, e) == e = 0 \/ (d # 0 /\ n * e <= m * d)

(* The crosswise comparison of two fractions in terms of their whole parts *)
(* q, p and remainders r, s.                                               *)
LEMMA CrossStep ==
  ASSUME NEW d \in Nat \ {0}, NEW e \in Nat \ {0},
         NEW q \in Int, NEW r \in 0..(d-1), NEW p \in Int, NEW s \in 0..(e-1)
  PROVE  Crosswise(d * q + r, d, e * p + s, e) <=> q < p \/ (q = p /\ Crosswise(e, s, d, r))
<1> DEFINE n == d * q + r
           m == e * p + s
           u == d * e
<1>1. /\ n * e = u * q + r * e
      /\ m * d = u * p + s * d
  OBVIOUS
<1>2. u \in Int /\ r * e < u /\ s * d < u /\ r * e >= 0 /\ s * d >= 0
  <2>1. r * e <= (d - 1) * e /\ s * d <= (e - 1) * d
    OBVIOUS
  <2>2. (d - 1) * e = u - e /\ (e - 1) * d = u - d
    OBVIOUS
  <2>3. r * e >= 0 /\ s * d >= 0
    OBVIOUS
  <2> HIDE DEF u
  <2>4. u \in Int
    BY DEF u
  <2> QED BY <2>1, <2>2, <2>3, <2>4
<1>3. e * r = r * e /\ d * s = s * d
  OBVIOUS
<1> DEFINE v == r * e
           w == s * d
<1>4. v \in Int /\ w \in Int
  OBVIOUS
<1>5. q < p => u * q + u <= u * p
  <2> SUFFICES ASSUME q < p PROVE u * q + u <= u * p
    OBVIOUS
  <2>1. u * (p - q) >= u * 1
    BY <1>2
  <2> HIDE DEF u
  <2>2. u * (p - q) = u * p - u * q
    BY <1>2
  <2> QED BY <1>2, <2>1, <2>2
<1>6. p < q => u * p + u <= u * q
  <2> SUFFICES ASSUME p < q PROVE u * p + u <= u * q
    OBVIOUS
  <2>1. u * (q - p) >= u * 1
    BY <1>2
  <2> HIDE DEF u
  <2>2. u * (q - p) = u * q - u * p
    BY <1>2
  <2> QED BY <1>2, <2>1, <2>2
<1>7. (r = 0 <=> v = 0) /\ (s = 0 <=> w = 0)
  OBVIOUS
<1>8. (n * e <= m * d) <=> (u * q + v <= u * p + w)
  BY <1>1
<1> HIDE DEF u, v, w
<1> DEFINE x == u * q
           y == u * p
<1>9. x \in Int /\ y \in Int
  BY <1>2
<1>10. q = p => x = y
  OBVIOUS
<1>11. u \in Int /\ v < u /\ w < u /\ v >= 0 /\ w >= 0
  BY <1>2 DEF v, w
<1>12. (q < p => x + u <= y) /\ (p < q => y + u <= x)
  BY <1>5, <1>6
<1>13. (n * e <= m * d) <=> (x + v <= y + w)
  BY <1>8
<1>14. (e * r <= d * s) <=> v <= w
  BY <1>3 DEF v, w
<1> HIDE DEF x, y
<1>15. (x + v <= y + w) <=> q < p \/ (q = p /\ v <= w)
  BY <1>4, <1>9, <1>10, <1>11, <1>12
<1>16. Crosswise(e, s, d, r) <=> v <= w
  BY <1>4, <1>7, <1>11, <1>14 DEF Crosswise
<1> HIDE DEF n, m
<1>17. Crosswise(n, d, m, e) <=> (n * e <= m * d)
  BY DEF Crosswise
<1>18. Crosswise(n, d, m, e) <=> q < p \/ (q = p /\ Crosswise(e, s, d, r))
  BY <1>13, <1>15, <1>16, <1>17
<1> QED BY <1>18 DEF n, m

(* The same with \div and %.                                               *)
LEMMA CrossRest ==
  ASSUME NEW n \in Int, NEW d \in Nat \ {0}, NEW m \in Int, NEW e \in Nat \ {0}
  PROVE  Crosswise(n, d, m, e) <=>
           \/ n \div d < m \div e
           \/ n \div d = m \div e /\ Crosswise(e, m % e, d, n % d)
<1> DEFINE q == n \div d
           r == n % d
           p == m \div e
           s == m % e
<1>1. q \in Int /\ r \in 0..(d-1) /\ n = d * q + r
  BY DivMod
<1>2. p \in Int /\ s \in 0..(e-1) /\ m = e * p + s
  BY DivMod
<1> HIDE DEF q, r, p, s
<1>3. Crosswise(d * q + r, d, e * p + s, e) <=> q < p \/ (q = p /\ Crosswise(e, s, d, r))
  BY <1>1, <1>2, CrossStep
<1> QED BY <1>1, <1>2, <1>3 DEF q, r, p, s

(* One turn of the comparison, and the comparison by products.            *)
Compared(f, a, b) ==
  \/ b[2] = 0
  \/ /\ a[2] # 0
     /\ \/ a[1] \div a[2] < b[1] \div b[2]
        \/ /\ a[1] \div a[2] = b[1] \div b[2]
           /\ f[<< <<b[2], b[1] % b[2]>>, <<a[2], a[1] % a[2]>> >>]
Cross(a, b) == Crosswise(a[1], a[2], b[1], b[2])

(* What is left to compare after the whole parts is typed, and smaller.    *)
LEMMA RestTyped ==
  ASSUME NEW a \in Rational, NEW b \in Rational, a[2] # 0, b[2] # 0
  PROVE  /\ <<b[2], b[1] % b[2]>> \in Rational
         /\ <<a[2], a[1] % a[2]>> \in Rational
         /\ a[1] % a[2] < a[2] /\ b[1] % b[2] < b[2]
<1>1. a[1] \in Int /\ a[2] \in Nat \ {0} /\ b[1] \in Int /\ b[2] \in Nat \ {0}
  BY DEF Rational
<1>2. a[1] % a[2] \in 0..(a[2] - 1) /\ b[1] % b[2] \in 0..(b[2] - 1)
  BY <1>1, DivMod
<1> QED BY <1>1, <1>2 DEF Rational

(* A turn of the comparison is right if the next one is.                   *)
LEMMA ComparedCross ==
  ASSUME NEW f, NEW a \in Rational, NEW b \in Rational,
         a[2] # 0 /\ b[2] # 0 =>
           LET x == <<b[2], b[1] % b[2]>>
               y == <<a[2], a[1] % a[2]>>
           IN  f[<<x, y>>] <=> Cross(x, y)
  PROVE  Compared(f, a, b) <=> Cross(a, b)
<1>1. a[1] \in Int /\ a[2] \in Nat /\ b[1] \in Int /\ b[2] \in Nat
  BY DEF Rational
<1>2. CASE b[2] = 0 \/ a[2] = 0
  BY <1>2 DEF Compared, Cross, Crosswise
<1>3. CASE b[2] # 0 /\ a[2] # 0
  <2> DEFINE x == <<b[2], b[1] % b[2]>>
             y == <<a[2], a[1] % a[2]>>
             q == a[1] \div a[2]
             p == b[1] \div b[2]
             r == a[1] % a[2]
             s == b[1] % b[2]
  <2>1. q \in Int /\ r \in 0..(a[2] - 1) /\ a[1] = a[2] * q + r
    BY <1>1, <1>3, DivMod
  <2>2. p \in Int /\ s \in 0..(b[2] - 1) /\ b[1] = b[2] * p + s
    BY <1>1, <1>3, DivMod
  <2>3. Cross(x, y) <=> Crosswise(b[2], s, a[2], r)
    <3>1. x[1] = b[2] /\ x[2] = s /\ y[1] = a[2] /\ y[2] = r
      OBVIOUS
    <3> QED BY <3>1 DEF Cross
  <2>4. f[<<x, y>>] <=> Cross(x, y)
    BY <1>3
  <2>5. Compared(f, a, b) <=> q < p \/ (q = p /\ f[<<x, y>>])
    BY <1>3 DEF Compared
  <2> HIDE DEF x, y, q, p, r, s
  <2>6. Crosswise(a[1], a[2], b[1], b[2]) <=> q < p \/ (q = p /\ Crosswise(b[2], s, a[2], r))
    BY <1>1, <1>3, CrossRest DEF q, p, r, s
  <2> QED BY <2>3, <2>4, <2>5, <2>6 DEF Cross
<1> QED BY <1>2, <1>3

(* f is the recursive function AtMost.                                     *)
AtMostOf(f) == f = [c \in Rational \X Rational |-> Compared(f, c[1], c[2])]

(* AtMost is defined, on every pair of numbers: a turn of it is as         *)
(* written.                                                                *)
LEMMA AtMostDef ==
  ASSUME NEW a \in Rational, NEW b \in Rational
  PROVE  AtMost[<<a, b>>] = Compared(AtMost, a, b)
<1> DEFINE f == [c \in Rational \X Rational |-> Cross(c[1], c[2])]
<1>1. ASSUME NEW c \in Rational \X Rational PROVE f[c] = Compared(f, c[1], c[2])
  <2> DEFINE x == <<c[2][2], c[2][1] % c[2][2]>>
             y == <<c[1][2], c[1][1] % c[1][2]>>
  <2>1. c[1] \in Rational /\ c[2] \in Rational
    OBVIOUS
  <2>2. c[1][2] # 0 /\ c[2][2] # 0 => x \in Rational /\ y \in Rational
    BY <2>1, RestTyped
  <2>3. f[c] = Cross(c[1], c[2])
    OBVIOUS
  <2>4. \A u, v \in Rational : f[<<u, v>>] = Cross(u, v)
    OBVIOUS
  <2> HIDE DEF f
  <2>5. c[1][2] # 0 /\ c[2][2] # 0 => f[<<x, y>>] = Cross(x, y)
    <3> HIDE DEF x, y
    <3> QED BY <2>2, <2>4
  <2>6. Compared(f, c[1], c[2]) <=> Cross(c[1], c[2])
    BY <2>1, <2>5, ComparedCross
  <2>7. Compared(f, c[1], c[2]) \in BOOLEAN /\ Cross(c[1], c[2]) \in BOOLEAN
    BY DEF Compared, Cross, Crosswise
  <2> QED BY <2>3, <2>6, <2>7
<1>2. f = [c \in Rational \X Rational |-> f[c]]
  OBVIOUS
<1> HIDE DEF f
<1>3. AtMostOf(f)
  BY <1>1, <1>2 DEF AtMostOf
<1>4. AtMost = CHOOSE g : AtMostOf(g)
  BY DEF AtMost, AtMostOf, Compared
<1>5. AtMostOf(AtMost)
  BY <1>3, <1>4
<1>6. <<a, b>> \in Rational \X Rational /\ <<a, b>>[1] = a /\ <<a, b>>[2] = b
  OBVIOUS
<1> QED BY <1>5, <1>6 DEF AtMostOf

(* The comparison that never multiplies is the comparison of the products: *)
(* by induction on the denominators.                                       *)
LEMMA CrosswiseOrder ==
  ASSUME NEW a \in Rational, NEW b \in Rational
  PROVE  a \preceq b <=> Cross(a, b)
<1> DEFINE Right(x, y) == AtMost[<<x, y>>] <=> Cross(x, y)
           T == {n \in Nat : \E x, y \in Rational : x[2] + y[2] = n /\ ~Right(x, y)}
<1>1. T = {}
  <2> SUFFICES ASSUME T # {} PROVE FALSE
    OBVIOUS
  <2>1. PICK n \in T : \A k \in T : n <= k
    <3>1. T \subseteq Nat
      OBVIOUS
    <3> HIDE DEF T
    <3> QED BY <3>1, LeastNumber
  <2>2. PICK x \in Rational, y \in Rational : x[2] + y[2] = n /\ ~Right(x, y)
    OBVIOUS
  <2> DEFINE u == <<y[2], y[1] % y[2]>>
             v == <<x[2], x[1] % x[2]>>
  <2>3. x[2] # 0 /\ y[2] # 0 => Right(u, v)
    <3> SUFFICES ASSUME x[2] # 0, y[2] # 0 PROVE Right(u, v)
      OBVIOUS
    <3>1. /\ u \in Rational /\ v \in Rational
          /\ x[1] % x[2] < x[2] /\ y[1] % y[2] < y[2]
      BY RestTyped
    <3>2. u[2] = y[1] % y[2] /\ v[2] = x[1] % x[2]
      OBVIOUS
    <3>3. x[2] \in Nat /\ y[2] \in Nat /\ u[2] \in Nat /\ v[2] \in Nat
      BY <3>1 DEF Rational
    <3> HIDE DEF u, v
    <3> DEFINE k == u[2] + v[2]
    <3>4. k \in Nat /\ k < n
      BY <2>2, <3>1, <3>2, <3>3
    <3>5. k \notin T
      <4>1. n \in Nat
        BY <2>1
      <4> HIDE DEF T, k
      <4> QED BY <2>1, <3>4, <4>1
    <3> QED BY <3>1, <3>4, <3>5
  <2> HIDE DEF u, v
  <2>4. Compared(AtMost, x, y) <=> Cross(x, y)
    BY <2>3, ComparedCross DEF u, v
  <2>5. AtMost[<<x, y>>] = Compared(AtMost, x, y)
    BY AtMostDef
  <2> QED BY <2>2, <2>4, <2>5
<1>2. a[2] + b[2] \in Nat
  BY DEF Rational
<1>3. Right(a, b)
  BY <1>1, <1>2
<1> QED BY <1>3 DEF \preceq

-----------------------------------------------------------------------------
(* The order of the numbers.                                               *)

(* A positive factor keeps an order, and equality.                         *)
LEMMA Scaled ==
  ASSUME NEW a \in Int, NEW b \in Int, NEW k \in Nat \ {0}
  PROVE  /\ a * k <= b * k <=> a <= b
         /\ a * k = b * k <=> a = b
<1> DEFINE c == b - a
<1>1. c \in Int /\ b = a + c
  OBVIOUS
<1>2. b * k = a * k + c * k
  BY <1>1
<1>3. (c >= 0 <=> c * k >= 0) /\ (c = 0 <=> c * k = 0)
  BY <1>1
<1> DEFINE x == a * k
           y == b * k
           z == c * k
<1>4. x \in Int /\ y \in Int /\ z \in Int /\ y = x + z
  BY <1>2
<1> HIDE DEF x, y, z
<1>5. (c >= 0 <=> z >= 0) /\ (c = 0 <=> z = 0)
  BY <1>3 DEF z
<1>6. (x <= y <=> a <= b) /\ (x = y <=> a = b)
  BY <1>1, <1>4, <1>5
<1> QED BY <1>6 DEF x, y

(* Products in other orders.                                               *)
LEMMA Swapped ==
  ASSUME NEW a \in Int, NEW b \in Int, NEW c \in Int
  PROVE  /\ a * b = b * a /\ a * b \in Int
         /\ (a * b) * c = (a * c) * b
         /\ (a * b) * c = a * (b * c)
         /\ (a * b) * c = (b * c) * a
  OBVIOUS

(* The parts of a finite number.                                           *)
LEMMA Parts ==
  ASSUME NEW a \in Finite
  PROVE  a \in Rational /\ a[1] \in Int /\ a[2] \in Nat \ {0} /\ a[2] \in Nat /\ a[2] # 0
  BY DEF Finite, Rational

(* The order is total,                                                     *)
LEMMA OrderTotal ==
  ASSUME NEW a \in Rational, NEW b \in Rational
  PROVE  a \preceq a /\ (a \preceq b \/ b \preceq a)
<1>1. a[1] \in Int /\ a[2] \in Nat /\ b[1] \in Int /\ b[2] \in Nat
  BY DEF Rational
<1>2. a[1] * b[2] \in Int /\ b[1] * a[2] \in Int /\ a[1] * a[2] \in Int
  BY <1>1
<1>3. Cross(a, a) /\ (Cross(a, b) \/ Cross(b, a))
  BY <1>2 DEF Cross, Crosswise
<1> QED BY <1>3, CrosswiseOrder

(* and transitive, with infinite numbers among the others.                 *)
LEMMA OrderTrans ==
  ASSUME NEW a \in Rational, NEW b \in Rational, NEW c \in Rational,
         a \preceq b, b \preceq c
  PROVE  a \preceq c
<1> DEFINE x == a[1]
           u == a[2]
           y == b[1]
           v == b[2]
           z == c[1]
           w == c[2]
<1>1. x \in Int /\ y \in Int /\ z \in Int /\ u \in Nat /\ v \in Nat /\ w \in Nat
  BY DEF Rational
<1>2. /\ v = 0 \/ (u # 0 /\ x * v <= y * u)
      /\ w = 0 \/ (v # 0 /\ y * w <= z * v)
  BY CrosswiseOrder DEF Cross, Crosswise
<1> SUFFICES w = 0 \/ (u # 0 /\ x * w <= z * u)
  BY CrosswiseOrder DEF Cross, Crosswise
<1> HIDE DEF x, y, z, u, v, w
<1> SUFFICES ASSUME w # 0 PROVE u # 0 /\ x * w <= z * u
  OBVIOUS
<1>3. v # 0 /\ u # 0 /\ x * v <= y * u /\ y * w <= z * v
  BY <1>2
<1>4. (x * v) * w <= (y * u) * w /\ (y * w) * u <= (z * v) * u
  <2>1. x * v \in Int /\ y * u \in Int /\ y * w \in Int /\ z * v \in Int /\ w \in Nat \ {0} /\ u \in Nat \ {0}
    BY <1>1, <1>3
  <2> QED BY <1>3, <2>1, Scaled
<1>5. (x * v) * w = (x * w) * v /\ (y * u) * w = (y * w) * u /\ (z * v) * u = (z * u) * v
  BY <1>1, Swapped
<1>6. (x * w) * v <= (z * u) * v
  <2> DEFINE i == (y * w) * u
             j == (x * w) * v
             k == (z * u) * v
  <2>1. i \in Int /\ j \in Int /\ k \in Int
    BY <1>1
  <2>2. j <= i /\ i <= k
    BY <1>4, <1>5
  <2> HIDE DEF i, j, k
  <2>3. j <= k
    BY <2>1, <2>2
  <2> QED BY <2>3 DEF j, k
<1>7. x * w \in Int /\ z * u \in Int /\ v \in Nat \ {0}
  BY <1>1, <1>3
<1> QED BY <1>3, <1>6, <1>7, Scaled

(* Two finite numbers are compared by their products.                      *)
LEMMA OrderOfFinite ==
  ASSUME NEW a \in Finite, NEW b \in Finite
  PROVE  /\ a \preceq b <=> a[1] * b[2] <= b[1] * a[2]
         /\ a \prec b <=> a[1] * b[2] < b[1] * a[2]
<1>1. /\ a \in Rational /\ b \in Rational
      /\ a[1] \in Int /\ b[1] \in Int /\ a[2] \in Nat \ {0} /\ b[2] \in Nat \ {0}
  BY Parts
<1>2. (a \preceq b <=> Cross(a, b)) /\ (b \preceq a <=> Cross(b, a))
  BY <1>1, CrosswiseOrder
<1>3. a[1] * b[2] \in Int /\ b[1] * a[2] \in Int
  BY <1>1
<1> QED BY <1>1, <1>2, <1>3 DEF Cross, Crosswise, \prec

(* A fraction and a number of the same value.                              *)
Valued(x, n, d) == x \in Finite /\ x[1] * d = n * x[2]

(* A number of the value n/d is compared as n/d.                           *)
LEMMA ValuedOrder ==
  ASSUME NEW x, NEW n \in Int, NEW d \in Nat \ {0}, Valued(x, n, d), NEW y \in Finite
  PROVE  /\ x \preceq y <=> n * y[2] <= y[1] * d
         /\ y \preceq x <=> y[1] * d <= n * y[2]
<1> DEFINE p == x[1]
           q == x[2]
           i == y[1]
           j == y[2]
<1>1. p \in Int /\ i \in Int /\ q \in Nat \ {0} /\ j \in Nat \ {0} /\ x \in Finite
  BY Parts DEF Valued
<1>2. p * d = n * q
  BY DEF Valued
<1>3. (x \preceq y <=> p * j <= i * q) /\ (y \preceq x <=> i * q <= p * j)
  BY <1>1, OrderOfFinite
<1> HIDE DEF p, q, i, j
<1>4. /\ (p * j) * d = (p * d) * j
      /\ (p * d) * j = (n * q) * j
      /\ (n * q) * j = (n * j) * q
      /\ (i * q) * d = (i * d) * q
  BY <1>1, <1>2, Swapped
<1>5. p * j \in Int /\ i * q \in Int /\ n * j \in Int /\ i * d \in Int
  BY <1>1
<1>6. /\ p * j <= i * q <=> (p * j) * d <= (i * q) * d
      /\ i * q <= p * j <=> (i * q) * d <= (p * j) * d
  BY <1>5, Scaled
<1>7. /\ n * j <= i * d <=> (n * j) * q <= (i * d) * q
      /\ i * d <= n * j <=> (i * d) * q <= (n * j) * q
  BY <1>1, <1>5, Scaled
<1>8. (p * j) * d = (n * j) * q /\ (i * q) * d = (i * d) * q
  BY <1>4
<1>9. (x \preceq y <=> n * j <= i * d) /\ (y \preceq x <=> i * d <= n * j)
  BY <1>3, <1>6, <1>7, <1>8
<1> QED BY <1>9 DEF i, j

(* The quotient of a multiple.                                             *)
LEMMA DivExact ==
  ASSUME NEW k \in Int, NEW g \in Nat \ {0}
  PROVE  (k * g) \div g = k
<1> DEFINE e == (k * g) \div g
           r == (k * g) % g
<1>1. e \in Int /\ r \in 0..(g-1) /\ k * g = g * e + r
  <2> DEFINE x == k * g
  <2>1. x \in Int
    OBVIOUS
  <2> HIDE DEF x
  <2>2. x \div g \in Int /\ x % g \in 0..(g-1) /\ x = g * (x \div g) + (x % g)
    BY <2>1, DivMod
  <2> QED BY <2>2 DEF x
<1> HIDE DEF e, r
<1>2. r = g * (k - e)
  <2> DEFINE u == k * g
             v == g * e
  <2>1. g * (k - e) = u - v /\ u \in Int /\ v \in Int
    BY <1>1
  <2>2. u = v + r
    BY <1>1
  <2> HIDE DEF u, v
  <2> QED BY <1>1, <2>1, <2>2
<1> DEFINE w == k - e
<1>3. w \in Int /\ r = g * w /\ (w = 0 => k = e)
  BY <1>1, <1>2
<1> HIDE DEF w
<1>4. w >= 1 => g * w >= g * 1
  BY <1>3
<1>5. w <= -1 => g * w < 0
  BY <1>3
<1>6. w = 0
  BY <1>1, <1>3, <1>4, <1>5
<1> QED BY <1>3, <1>6 DEF e

(* Reduced cancels a common factor.                                        *)
LEMMA ReducedParts ==
  ASSUME NEW n \in Int, NEW d \in Nat \ {0}
  PROVE  \E g \in Nat \ {0}, p \in Int, q \in Nat \ {0} :
            Reduced(n, d) = <<p, q>> /\ n = p * g /\ d = q * g
<1> DEFINE g == Gcd[<<n, d>>]
<1>1. g \in Nat \ {0} /\ Divides(g, n) /\ Divides(g, d)
  BY GcdDivides DEF Cancels
<1>2. Reduced(n, d) = <<n \div g, d \div g>>
  BY DEF Reduced, Divided
<1> HIDE DEF g
<1>3. PICK p \in Int : n = p * g
  BY <1>1 DEF Divides
<1>4. PICK q \in Int : d = q * g
  BY <1>1 DEF Divides
<1>5. (p * g) \div g = p /\ (q * g) \div g = q
  BY <1>1, <1>3, <1>4, DivExact
<1>6. q # 0 /\ q >= 0
  BY <1>1, <1>4
<1>7. Reduced(n, d) = <<p, q>>
  BY <1>2, <1>3, <1>4, <1>5
<1> QED BY <1>1, <1>3, <1>4, <1>6, <1>7

-----------------------------------------------------------------------------
(* Products and quotients.                                                 *)

(* a ** b, cancelled crosswise, has the value of the product,              *)
LEMMA ProductValued ==
  ASSUME NEW a \in Finite, NEW b \in Finite
  PROVE  Valued(a ** b, a[1] * b[1], a[2] * b[2])
<1>1. a[1] \in Int /\ b[1] \in Int /\ a[2] \in Nat \ {0} /\ b[2] \in Nat \ {0}
  BY Parts
<1>2. /\ \E g \in Nat \ {0}, p \in Int, q \in Nat \ {0} :
           Reduced(a[1], b[2]) = <<p, q>> /\ a[1] = p * g /\ b[2] = q * g
      /\ \E h \in Nat \ {0}, r \in Int, s \in Nat \ {0} :
           Reduced(b[1], a[2]) = <<r, s>> /\ b[1] = r * h /\ a[2] = s * h
  BY <1>1, ReducedParts
<1>3. PICK g \in Nat \ {0}, p \in Int, q \in Nat \ {0} :
           Reduced(a[1], b[2]) = <<p, q>> /\ a[1] = p * g /\ b[2] = q * g
  BY <1>2
<1>4. PICK h \in Nat \ {0}, r \in Int, s \in Nat \ {0} :
           Reduced(b[1], a[2]) = <<r, s>> /\ b[1] = r * h /\ a[2] = s * h
  BY <1>2
<1> DEFINE u == p * r
           v == q * s
<1>5. a ** b = <<u, v>>
  BY <1>3, <1>4 DEF **, Times
<1>6. u \in Int /\ v \in Nat \ {0}
  OBVIOUS
<1>7. u * ((s * h) * (q * g)) = ((p * g) * (r * h)) * v
  OBVIOUS
<1>8. u * (a[2] * b[2]) = (a[1] * b[1]) * v
  <2> HIDE DEF u, v
  <2> QED BY <1>3, <1>4, <1>7
<1> HIDE DEF u, v
<1> QED BY <1>5, <1>6, <1>8 DEF Valued, Finite

(* and a // b that of the quotient.                                        *)
LEMMA QuotientValued ==
  ASSUME NEW a \in Finite, NEW b \in Finite, b[1] > 0
  PROVE  Valued(a // b, a[1] * b[2], a[2] * b[1])
<1> DEFINE c == <<b[2], b[1]>>
<1>1. c \in Finite /\ c[1] = b[2] /\ c[2] = b[1]
  BY Parts DEF Finite
<1>2. a // b = a ** c
  BY DEF //
<1> HIDE DEF c
<1>3. Valued(a ** c, a[1] * c[1], a[2] * c[2])
  BY <1>1, ProductValued
<1> QED BY <1>1, <1>2, <1>3

(* Zero and One.                                                           *)
LEMMA ZeroOne ==
  /\ Zero \in Finite /\ Zero[1] = 0 /\ Zero[2] = 1
  /\ One \in Finite /\ One[1] = 1 /\ One[2] = 1
  BY DEF Zero, One, Q, Finite

(* The sign of a number is that of its numerator.                          *)
LEMMA PositiveIs ==
  ASSUME NEW a \in Finite
  PROVE  /\ Zero \prec a <=> a[1] > 0
         /\ Zero \preceq a <=> a[1] >= 0
<1>1. a[1] \in Int /\ a[2] \in Nat \ {0}
  BY Parts
<1>2. 0 * a[2] = 0 /\ a[1] * 1 = a[1]
  BY <1>1
<1> QED BY <1>1, <1>2, ZeroOne, OrderOfFinite

(* A bound c on a quotient is a bound on the dividend.                     *)
LEMMA QuotientOrder ==
  ASSUME NEW a \in Finite, NEW b \in Finite, Zero \prec b, NEW c \in Finite
  PROVE  /\ a // b \in Finite
         /\ c \preceq a // b <=> b ** c \preceq a
         /\ a // b \preceq c <=> a \preceq b ** c
<1>1. /\ a[1] \in Int /\ b[1] \in Int /\ c[1] \in Int
      /\ a[2] \in Nat \ {0} /\ b[2] \in Nat \ {0} /\ c[2] \in Nat \ {0}
  BY Parts
<1>2. b[1] > 0
  BY PositiveIs
<1>3. Valued(a // b, a[1] * b[2], a[2] * b[1])
  BY <1>2, QuotientValued
<1>4. Valued(b ** c, b[1] * c[1], b[2] * c[2])
  BY ProductValued
<1> DEFINE n == a[1] * b[2]
           d == a[2] * b[1]
           m == b[1] * c[1]
           e == b[2] * c[2]
<1>5. n \in Int /\ d \in Nat \ {0} /\ m \in Int /\ e \in Nat \ {0}
  BY <1>1, <1>2
<1>6. /\ n * c[2] = a[1] * e
      /\ c[1] * d = m * a[2]
  BY <1>1, Swapped
<1> DEFINE q == a // b
           p == b ** c
<1>7. Valued(q, n, d) /\ Valued(p, m, e)
  BY <1>3, <1>4
<1> HIDE DEF n, d, m, e, q, p
<1>8. /\ q \preceq c <=> n * c[2] <= c[1] * d
      /\ c \preceq q <=> c[1] * d <= n * c[2]
  BY <1>5, <1>7, ValuedOrder
<1>9. /\ p \preceq a <=> m * a[2] <= a[1] * e
      /\ a \preceq p <=> a[1] * e <= m * a[2]
  BY <1>5, <1>7, ValuedOrder
<1>10. (c \preceq q <=> p \preceq a) /\ (q \preceq c <=> a \preceq p)
  BY <1>6, <1>8, <1>9
<1>11. q \in Finite
  BY <1>7 DEF Valued
<1> QED BY <1>10, <1>11 DEF q, p

(* A number over a smaller one is at least One.                            *)
LEMMA QuotientAtLeastOne ==
  ASSUME NEW a \in Finite, NEW b \in Finite, Zero \prec b, b \preceq a
  PROVE  One \preceq a // b
<1>1. /\ a[1] \in Int /\ b[1] \in Int /\ a[2] \in Nat \ {0} /\ b[2] \in Nat \ {0}
  BY Parts
<1>2. Valued(b ** One, b[1] * One[1], b[2] * One[2])
  BY ZeroOne, ProductValued
<1>3. b[1] * One[1] = b[1] /\ b[2] * One[2] = b[2]
  BY <1>1, ZeroOne
<1>4. Valued(b ** One, b[1], b[2])
  BY <1>2, <1>3
<1> DEFINE p == b ** One
<1> HIDE DEF p
<1>5. p \preceq a <=> b[1] * a[2] <= a[1] * b[2]
  BY <1>1, <1>4, ValuedOrder DEF p
<1>6. p \preceq a
  BY <1>5, OrderOfFinite
<1> QED BY <1>6, ZeroOne, QuotientOrder DEF p

(* Less of what is not negative is less.                                   *)
LEMMA ProductMonotone ==
  ASSUME NEW a \in Finite, NEW b \in Finite, NEW k \in Finite, NEW m \in Finite,
         Zero \preceq k, a \preceq b, b ** k \preceq m
  PROVE  a ** k \preceq m
<1>1. /\ a[1] \in Int /\ b[1] \in Int /\ k[1] \in Nat /\ m[1] \in Int
      /\ a[2] \in Nat \ {0} /\ b[2] \in Nat \ {0} /\ k[2] \in Nat \ {0} /\ m[2] \in Nat \ {0}
  BY Parts, PositiveIs
<1> DEFINE n == a[1]
           d == a[2]
           i == b[1]
           j == b[2]
           x == k[1]
           y == k[2]
           u == m[1]
           v == m[2]
<1>2. n * j <= i * d
  BY OrderOfFinite
<1>3. (n * x) * v <= u * (d * y) => a ** k \preceq m
  <2>1. Valued(a ** k, n * x, d * y) /\ n * x \in Int /\ d * y \in Nat \ {0}
    BY <1>1, ProductValued
  <2> HIDE DEF n, d, x, y
  <2> DEFINE p == a ** k
             s == n * x
             t == d * y
  <2> HIDE DEF p, s, t
  <2>2. p \preceq m <=> s * m[2] <= m[1] * t
    BY <2>1, ValuedOrder DEF p, s, t
  <2> QED BY <2>2 DEF p, s, t
<1>4. (i * x) * v <= u * (j * y)
  <2>1. Valued(b ** k, i * x, j * y) /\ i * x \in Int /\ j * y \in Nat \ {0}
    BY <1>1, ProductValued
  <2> HIDE DEF i, j, x, y
  <2> DEFINE p == b ** k
             s == i * x
             t == j * y
  <2> HIDE DEF p, s, t
  <2>2. p \preceq m <=> s * m[2] <= m[1] * t
    BY <2>1, ValuedOrder DEF p, s, t
  <2>3. p \preceq m
    BY DEF p
  <2> QED BY <2>2, <2>3 DEF p, s, t
<1>5. /\ n \in Int /\ i \in Int /\ x \in Nat /\ u \in Int
      /\ d \in Nat \ {0} /\ j \in Nat \ {0} /\ y \in Nat \ {0} /\ v \in Nat \ {0}
  BY <1>1
<1> HIDE DEF n, d, i, j, x, y, u, v
<1>6. ((n * x) * v) * j <= (u * (d * y)) * j
  <2> DEFINE z == x * v
             f == n * j
             g == i * d
             h == (i * x) * v
             w == u * (j * y)
  <2>1. z \in Nat /\ f \in Int /\ g \in Int /\ h \in Int /\ w \in Int
    BY <1>5
  <2>2. ((n * x) * v) * j = f * z /\ g * z = h * d /\ w * d = (u * (d * y)) * j
    BY <1>5
  <2>3. f <= g /\ h <= w
    BY <1>2, <1>4
  <2> HIDE DEF z, f, g, h, w
  <2>4. f * z <= g * z
    <3>1. CASE z = 0
      BY <2>1, <3>1
    <3>2. CASE z # 0
      BY <2>1, <2>3, <3>2, Scaled
    <3> QED BY <3>1, <3>2
  <2>5. h * d <= w * d
    BY <1>5, <2>1, <2>3, Scaled
  <2> DEFINE f1 == f * z
             g1 == g * z
             w1 == w * d
  <2>6. f1 \in Int /\ g1 \in Int /\ w1 \in Int /\ f1 <= g1 /\ g1 <= w1
    BY <1>5, <2>1, <2>2, <2>4, <2>5
  <2> HIDE DEF f1, g1, w1
  <2>7. f1 <= w1
    BY <2>6
  <2> QED BY <2>2, <2>7 DEF f1, w1
<1>7. (n * x) * v \in Int /\ u * (d * y) \in Int
  BY <1>5
<1>8. (n * x) * v <= u * (d * y)
  BY <1>5, <1>6, <1>7, Scaled
<1> QED BY <1>3, <1>8 DEF n, d, x, y, u, v

-----------------------------------------------------------------------------
(* The loop of the searches.                                               *)

(* b is the best of the first n candidates, or there is none.              *)
BestOfFirst(b, n, candidates) ==
  /\ b = None \/ \E i \in 1..n : b = candidates[i] /\ candidates[i].ok
  /\ \A i \in 1..n : candidates[i].ok => b.ok /\ candidates[i].score \preceq b.score

(* f is the loop of FirstBest.                                             *)
SearchOf(f, n, candidates) ==
  f = [k \in 0..n |-> IF k = 0 THEN None ELSE Better(f[k-1], candidates[k])]

(* The loop of a search is defined.                                        *)
LEMMA SearchExists ==
  ASSUME NEW n \in Nat, NEW candidates
  PROVE  \E f : SearchOf(f, n, candidates)
<1> DEFINE D == {None} \cup {candidates[i] : i \in 1..n}
           G == [p \in D \X (1..n) |-> Better(p[1], candidates[p[2]])]
<1>1. None \in D
  OBVIOUS
<1>2. ASSUME NEW x \in D, NEW k \in 1..n PROVE Better(x, candidates[k]) \in D
  <2>1. candidates[k] \in D
    OBVIOUS
  <2> HIDE DEF D
  <2> QED BY <2>1 DEF Better
<1>3. \A x \in D, k \in 1..n : G[<<x, k>>] = Better(x, candidates[k])
  <2> HIDE DEF D
  <2> QED OBVIOUS
<1>4. \A x \in D, k \in 1..n : G[<<x, k>>] \in D
  <2> HIDE DEF D, G
  <2> QED BY <1>2, <1>3
<1> HIDE DEF D, G
<1>5. PICK f : LoopIn(f, D, None, n, G)
  BY <1>1, <1>4, LoopExists
<1>6. ASSUME NEW k \in 1..n PROVE G[<<f[k-1], k>>] = Better(f[k-1], candidates[k])
  <2>1. k - 1 \in 0..n
    OBVIOUS
  <2> QED BY <1>3, <1>5, <2>1 DEF LoopIn
<1>7. f = [k \in 0..n |-> IF k = 0 THEN None ELSE Better(f[k-1], candidates[k])]
  <2>1. \A k \in 0..n : k # 0 => k \in 1..n
    OBVIOUS
  <2> QED BY <1>5, <1>6, <2>1 DEF LoopIn
<1> QED BY <1>7 DEF SearchOf

(* A turn of it keeps the best.                                            *)
LEMMA BetterKeepsBest ==
  ASSUME NEW n \in Nat, NEW candidates, NEW b, BestOfFirst(b, n, candidates),
         \A i \in 1..(n+1) : Scored(candidates[i])
  PROVE  BestOfFirst(Better(b, candidates[n+1]), n+1, candidates)
<1> DEFINE c == candidates[n+1]
           r == Better(b, c)
<1>1. \A i \in 1..n : i \in 1..(n+1)
  OBVIOUS
<1>2. n+1 \in 1..(n+1) /\ \A i \in 1..(n+1) : i \in 1..n \/ i = n+1
  OBVIOUS
<1>3. Scored(c)
  BY <1>2
<1>4. b.ok => b.score \in Finite
  <2>1. CASE b = None
    BY <2>1 DEF None
  <2>2. CASE \E i \in 1..n : b = candidates[i] /\ candidates[i].ok
    BY <1>1, <2>2 DEF Scored
  <2> QED BY <2>1, <2>2 DEF BestOfFirst
<1>5. r = b \/ (r = c /\ c.ok)
  BY DEF Better
<1>6. r = None \/ \E i \in 1..(n+1) : r = candidates[i] /\ candidates[i].ok
  BY <1>1, <1>2, <1>5 DEF BestOfFirst
<1>7. b.ok => r.ok /\ b.score \preceq r.score
  <2> SUFFICES ASSUME b.ok PROVE r.ok /\ b.score \preceq r.score
    OBVIOUS
  <2>1. b.score \in Rational
    BY <1>4, Parts
  <2>2. CASE r = b
    BY <2>1, <2>2, OrderTotal
  <2>3. CASE r # b
    <3>1. r = c /\ c.ok /\ b.score \prec c.score
      BY <2>3 DEF Better
    <3>2. c.score \in Rational
      BY <1>3, <3>1, Parts DEF Scored
    <3> QED BY <2>1, <3>1, <3>2, OrderTotal DEF \prec
  <2> QED BY <2>2, <2>3
<1>8. c.ok => r.ok /\ c.score \preceq r.score
  <2> SUFFICES ASSUME c.ok PROVE r.ok /\ c.score \preceq r.score
    OBVIOUS
  <2>1. c.score \in Rational
    BY <1>3, Parts DEF Scored
  <2>2. CASE r = c
    BY <2>1, <2>2, OrderTotal
  <2>3. CASE r # c
    <3>1. r = b /\ b.ok /\ ~(b.score \prec c.score)
      BY <2>3 DEF Better
    <3> QED BY <3>1 DEF \prec
  <2> QED BY <2>2, <2>3
<1>9. r.ok => r.score \in Finite
  BY <1>3, <1>4, <1>5 DEF Scored
<1> HIDE DEF r
<1>10. ASSUME NEW i \in 1..(n+1), candidates[i].ok
       PROVE  r.ok /\ candidates[i].score \preceq r.score
  <2>1. CASE i = n+1
    BY <1>8, <1>10, <2>1
  <2>2. CASE i \in 1..n
    <3>1. b.ok /\ candidates[i].score \preceq b.score
      BY <1>10, <2>2 DEF BestOfFirst
    <3>2. r.ok /\ b.score \preceq r.score
      BY <1>7, <3>1
    <3>3. candidates[i].score \in Rational /\ b.score \in Rational /\ r.score \in Rational
      BY <1>4, <1>9, <1>10, <3>1, <3>2, Parts DEF Scored
    <3> QED BY <3>1, <3>2, <3>3, OrderTrans
  <2> QED BY <1>2, <2>1, <2>2
<1> QED BY <1>6, <1>10 DEF BestOfFirst, r

(* The loop of every search finds an allowed candidate with the highest    *)
(* score, and none only if none is allowed.                                *)
LEMMA FirstBestIs ==
  ASSUME NEW n \in Nat, NEW candidates, \A i \in 1..n : Scored(candidates[i])
  PROVE  BestOfFirst(FirstBest(n, candidates), n, candidates)
<1> DEFINE f == CHOOSE g : SearchOf(g, n, candidates)
<1>1. FirstBest(n, candidates) = f[n]
  BY DEF FirstBest, SearchOf
<1>2. SearchOf(f, n, candidates)
  BY SearchExists
<1> HIDE DEF f
<1> DEFINE S == {k \in 0..n : BestOfFirst(f[k], k, candidates)}
<1>3. 0 \in S
  <2>1. f[0] = None /\ 0 \in 0..n
    BY <1>2 DEF SearchOf
  <2>2. BestOfFirst(None, 0, candidates)
    BY DEF BestOfFirst
  <2> QED BY <2>1, <2>2
<1>4. ASSUME NEW k \in 0..(n-1), k \in S PROVE k+1 \in S
  <2>1. k+1 \in 0..n /\ k+1 # 0 /\ (k+1)-1 = k /\ k \in Nat
    OBVIOUS
  <2>2. f[k+1] = Better(f[k], candidates[k+1])
    BY <1>2, <2>1 DEF SearchOf
  <2>3. \A i \in 1..(k+1) : Scored(candidates[i])
    OBVIOUS
  <2>4. BestOfFirst(f[k], k, candidates)
    BY <1>4
  <2>5. BestOfFirst(f[k+1], k+1, candidates)
    BY <2>1, <2>2, <2>3, <2>4, BetterKeepsBest
  <2> QED BY <2>1, <2>5
<1>5. n \in S
  <2> HIDE DEF S
  <2>1. \A k \in 0..n : k \in S
    BY <1>3, <1>4, LoopInduction
  <2> QED BY <2>1
<1> QED BY <1>1, <1>5

-----------------------------------------------------------------------------
(* optimize_f.                                                             *)

(* Nothing is not a candidate.                                             *)
LEMMA NoneIsNot == ~None.ok
  BY DEF None

(* Each of the n rows is the best of m entries of a table.                 *)
BestOfRow(rows, table, n, m) ==
  /\ \A i \in 1..n : \A j \in 1..m : Scored(table[i][j])
  /\ \A i \in 1..n : rows[i] = FirstBest(m, table[i])
Entries(table, n, m) == {table[i][j] : i \in 1..n, j \in 1..m}

(* The best of the bests of the rows of a table is the best of the table.  *)
LEMMA BestOfBests ==
  ASSUME NEW n \in Nat, NEW m \in Nat, NEW rows, NEW table, BestOfRow(rows, table, n, m)
  PROVE  /\ BestOfFirst(FirstBest(n, rows), n, rows)
         /\ \A i \in 1..n : Scored(rows[i])
         /\ IsBest(FirstBest(n, rows), Entries(table, n, m))
<1>1. \A i \in 1..n : BestOfFirst(rows[i], m, table[i])
  BY FirstBestIs DEF BestOfRow
<1>2. ASSUME NEW i \in 1..n, rows[i].ok
      PROVE  \E j \in 1..m : rows[i] = table[i][j] /\ table[i][j].ok
  BY <1>1, <1>2, NoneIsNot DEF BestOfFirst
<1>3. \A i \in 1..n : Scored(rows[i])
  BY <1>2 DEF Scored, BestOfRow
<1> DEFINE b == FirstBest(n, rows)
           T == Entries(table, n, m)
<1>4. BestOfFirst(b, n, rows)
  BY <1>3, FirstBestIs
<1> HIDE DEF b
<1>5. b.ok => \E c \in T : c.ok /\ c = b
  <2> SUFFICES ASSUME b.ok PROVE \E c \in T : c.ok /\ c = b
    OBVIOUS
  <2>1. PICK i \in 1..n : b = rows[i] /\ rows[i].ok
    BY <1>4, NoneIsNot DEF BestOfFirst
  <2>2. PICK j \in 1..m : rows[i] = table[i][j] /\ table[i][j].ok
    BY <1>2, <2>1
  <2>3. table[i][j] \in T
    BY DEF Entries
  <2> QED BY <2>1, <2>2, <2>3
<1>6. ASSUME NEW c \in T, c.ok PROVE b.ok /\ c.score \preceq b.score
  <2>1. PICK i \in 1..n, j \in 1..m : c = table[i][j]
    BY DEF Entries
  <2>2. rows[i].ok /\ c.score \preceq rows[i].score
    BY <1>1, <1>6, <2>1 DEF BestOfFirst
  <2>3. b.ok /\ rows[i].score \preceq b.score
    BY <1>4, <2>2 DEF BestOfFirst
  <2>4. c.score \in Rational /\ rows[i].score \in Rational
    BY <1>3, <1>6, <2>1, <2>2, Parts DEF Scored, BestOfRow
  <2>5. b.score \in Rational
    BY <1>3, <1>4, <2>3, NoneIsNot, Parts DEF BestOfFirst, Scored
  <2> QED BY <2>2, <2>3, <2>4, <2>5, OrderTrans
<1> HIDE DEF T
<1>7. IsBest(b, T)
  BY <1>5, <1>6 DEF IsBest
<1> QED BY <1>3, <1>4, <1>7 DEF b, T

(* Inf is at least One.                                                    *)
LEMMA OneBelowInf == One \preceq Inf
<1>1. One \in Rational /\ Inf \in Rational /\ Inf[2] = 0
  BY DEF One, Q, Inf, Rational
<1> QED BY <1>1, CrosswiseOrder DEF Cross, Crosswise

(* optimize_f finds the best of all points, and its gain over f = 0 is at  *)
(* least One: f = 0 is the first of the fractions.                         *)
LEMMA OptimizeIsBest ==
  ASSUME NEW c \in Cases.optimize
  PROVE  OptimizeBest(c, optimize_f(c.x, c.q))
<1> DEFINE n == Len(FGrid)
           m == Len(BdGrid)
           table == [i \in 1..n |-> [j \in 1..m |-> Point(FGrid[i], BdGrid[j], c.x, c.q)]]
           rows == [i \in 1..n |-> best_bd_at_f(FGrid[i], c.x, c.q)]
           base == best_bd_at_f(Zero, c.x, c.q)
           best == FirstBest(n, rows)
<1>1. /\ n \in Nat /\ m \in Nat /\ DOMAIN FGrid = 1..n /\ DOMAIN BdGrid = 1..m
      /\ 1 \in 1..n
  BY ScoresAreNumbers
<1>2. \A i \in 1..n : \A j \in 1..m : Scored(Point(FGrid[i], BdGrid[j], c.x, c.q))
  BY <1>1, ScoresAreNumbers
<1>3. \A i \in 1..n : \A j \in 1..m : Scored(table[i][j])
  BY <1>2
<1>4. \A i \in 1..n : rows[i] = FirstBest(m, table[i])
  BY <1>1 DEF best_bd_at_f
<1>5. rows[1] = base
  BY <1>1, ScoresAreNumbers
<1>6. optimize_f(c.x, c.q) = WithGain(best, base)
  <2>1. rows = [i \in DOMAIN FGrid |-> best_bd_at_f(FGrid[i], c.x, c.q)]
    BY <1>1
  <2> HIDE DEF rows
  <2> QED BY <2>1 DEF optimize_f
<1>7. Entries(table, n, m)
        = {Point(FGrid[i], BdGrid[j], c.x, c.q) : i \in DOMAIN FGrid, j \in DOMAIN BdGrid}
  <2> HIDE DEF n, m
  <2> QED BY <1>1 DEF Entries
<1>8. n \in Nat /\ m \in Nat /\ BestOfRow(rows, table, n, m)
  BY <1>1, <1>3, <1>4 DEF BestOfRow
<1> HIDE DEF n, m, table, rows, base
<1>9. /\ BestOfFirst(best, n, rows)
      /\ \A i \in 1..n : Scored(rows[i])
      /\ IsBest(best, Entries(table, n, m))
  BY <1>8, BestOfBests
<1>10. best.ok /\ base.ok => One \preceq OverOrInf(best.score, base.score)
  <2> SUFFICES ASSUME best.ok, base.ok PROVE One \preceq OverOrInf(best.score, base.score)
    OBVIOUS
  <2>1. best.score \in Finite
    <3> HIDE DEF best
    <3> QED BY <1>9, NoneIsNot DEF BestOfFirst, Scored
  <2>2. base.score \in Finite /\ base.score \preceq best.score
    BY <1>1, <1>5, <1>9 DEF BestOfFirst, Scored
  <2>3. CASE Zero \prec base.score
    BY <2>1, <2>2, <2>3, QuotientAtLeastOne DEF OverOrInf
  <2>4. CASE ~(Zero \prec base.score)
    BY <2>4, OneBelowInf DEF OverOrInf
  <2> QED BY <2>3, <2>4
<1> HIDE DEF best
<1>11. /\ optimize_f(c.x, c.q).best = best
       /\ best.ok => One \preceq optimize_f(c.x, c.q).gain
  <2> DEFINE g == IF ~best.ok THEN Zero
                  ELSE IF base.ok THEN OverOrInf(best.score, base.score) ELSE Inf
  <2>1. optimize_f(c.x, c.q) = [best |-> best, gain |-> g]
    BY <1>6 DEF WithGain
  <2>2. best.ok => One \preceq g
    BY <1>10, OneBelowInf
  <2> HIDE DEF g
  <2> QED BY <2>1, <2>2
<1> DEFINE T == {Point(FGrid[i], BdGrid[j], c.x, c.q) : i \in DOMAIN FGrid, j \in DOMAIN BdGrid}
           E == Entries(table, n, m)
           out == optimize_f(c.x, c.q)
<1>12. E = T
  BY <1>7
<1>13. IsBest(best, E)
  BY <1>9
<1>14. out.best = best /\ (best.ok => One \preceq out.gain)
  BY <1>11
<1> HIDE DEF T, E, out
<1>15. IsBest(out.best, T) /\ (out.best.ok => One \preceq out.gain)
  BY <1>12, <1>13, <1>14
<1> QED BY <1>15 DEF OptimizeBest, T, out

-----------------------------------------------------------------------------
(* run_sweep and best_f.                                                   *)

(* The best of a list is the best of its elements.                         *)
LEMMA BestOfList ==
  ASSUME NEW n \in Nat, NEW candidates, \A i \in 1..n : Scored(candidates[i])
  PROVE  IsBest(FirstBest(n, candidates), {candidates[i] : i \in 1..n})
<1> DEFINE b == FirstBest(n, candidates)
           T == {candidates[i] : i \in 1..n}
<1>1. BestOfFirst(b, n, candidates)
  BY FirstBestIs
<1> HIDE DEF b
<1>2. b.ok => \E c \in T : c.ok /\ c = b
  BY <1>1, NoneIsNot DEF BestOfFirst
<1>3. \A c \in T : c.ok => b.ok /\ c.score \preceq b.score
  BY <1>1 DEF BestOfFirst
<1> HIDE DEF T
<1>4. IsBest(b, T)
  BY <1>2, <1>3 DEF IsBest
<1> QED BY <1>4 DEF b, T

(* best_for_config finds the best batch of a layout,                       *)
LEMMA ConfigIsBest ==
  ASSUME NEW x, NEW p, NEW f, NEW sparse,
         \A j \in DOMAIN BGrid : Scored(BatchOf(x, p, f, sparse, BGrid[j]))
  PROVE  BestConfig(x, best_for_config(x, p, f, sparse))
<1> DEFINE n == Len(BGrid)
           cs == [j \in DOMAIN BGrid |-> BatchOf(x, p, f, sparse, BGrid[j])]
           best == FirstBest(n, cs)
           r == best_for_config(x, p, f, sparse)
<1>1. n \in Nat /\ DOMAIN BGrid = 1..n
  BY ScoresAreNumbers
<1>2. \A j \in 1..n : cs[j] = BatchOf(x, p, f, sparse, BGrid[j]) /\ Scored(cs[j])
  BY <1>1
<1>3. r.best = best /\ r.pcfg = p /\ r.f = f /\ r.sparse = sparse
  BY DEF best_for_config
<1> HIDE DEF n, cs, best, r
<1> DEFINE S == {cs[i] : i \in 1..n}
           T == {BatchOf(x, p, f, sparse, BGrid[j]) : j \in DOMAIN BGrid}
<1>4. S = T
  BY <1>1, <1>2
<1>5. IsBest(best, S)
  BY <1>1, <1>2, BestOfList DEF best
<1> HIDE DEF S, T
<1>6. IsBest(best, T)
  BY <1>4, <1>5
<1> QED BY <1>3, <1>6 DEF BestConfig, r, T

(* and run_sweep has that of every layout.                                 *)
LEMMA SweepIsBest ==
  ASSUME NEW x \in Cases.deployments
  PROVE  BestConfigs(x, run_sweep(x))
<1> DEFINE sweep == run_sweep(x)
           grid == deployment_grid(x.hw.n_gpus[1])
<1> SUFFICES ASSUME ~sweep.raised, NEW n \in DOMAIN sweep.rows PROVE BestConfig(x, sweep.rows[n])
  <2> HIDE DEF sweep
  <2> QED BY DEF BestConfigs, sweep
<1>1. \A j \in DOMAIN BGrid :
        Scored(BatchOf(x, sweep.rows[n].pcfg, sweep.rows[n].f, sweep.rows[n].sparse, BGrid[j]))
  BY ScoresAreNumbers
<1>2. sweep.rows = [i \in 1..(2 * Len(grid)) |->
                      RowOfLayout(x, grid[(i + 1) \div 2], SweptOffloads[2 - (i % 2)])]
  BY DEF run_sweep, SweepOf
<1> DEFINE p == grid[(n + 1) \div 2]
           o == SweptOffloads[2 - (n % 2)]
<1>3. sweep.rows[n] = best_for_config(x, p, o.f, o.sparse)
  BY <1>2 DEF RowOfLayout
<1> HIDE DEF sweep, p, o
<1> DEFINE r == best_for_config(x, p, o.f, o.sparse)
<1>4. r.pcfg = p /\ r.f = o.f /\ r.sparse = o.sparse
  BY DEF best_for_config
<1>5. \A j \in DOMAIN BGrid : Scored(BatchOf(x, p, o.f, o.sparse, BGrid[j]))
  BY <1>1, <1>3, <1>4
<1>6. BestConfig(x, r)
  BY <1>5, ConfigIsBest
<1> QED BY <1>3, <1>6

(* A mix that meets the SLO fits.                                          *)
LEMMA FeasibleFits ==
  ASSUME NEW classes, NEW x, NEW s
  PROVE  serving_mix(classes, x, s).slo_feasible => serving_mix(classes, x, s).fits
  BY DEF serving_mix, MixOn, MixWith, MixAt, MixResult

(* The mix with the fraction f offloaded.                                  *)
MixWithShare(classes, x, s, f) == serving_mix(classes, x, [s EXCEPT !.f = f])

(* A row serves: it meets the SLO with a positive throughput.      *)
Serves(r) == r.slo_feasible /\ Zero \prec r.tps

(* What best_f finds: a fraction that serves, if there is one, with the    *)
(* highest throughput, and its gain over f = 0, if that serves.            *)
OffloadBest(classes, x, s, out) ==
  /\ \A f \in Fractions : Serves(MixWithShare(classes, x, s, f)) =>
       /\ out.f \in Fractions
       /\ out.row = MixWithShare(classes, x, s, out.f)
       /\ Serves(out.row) /\ out.tps = out.row.tps
       /\ MixWithShare(classes, x, s, f).tps \preceq out.tps
  /\ out.gain = IF Serves(MixWithShare(classes, x, s, Zero))
                  THEN out.tps // MixWithShare(classes, x, s, Zero).tps ELSE Zero

(* r is the row of a mix as a candidate.                                   *)
RowIs(r, at, f) ==
  /\ r.ok <=> Serves(at)
  /\ r.score = at.tps /\ r.f = f /\ r.row = at

(* A row of best_f, as a candidate.                                        *)
LEMMA MixRowIs ==
  ASSUME NEW classes, NEW x, NEW s, NEW f
  PROVE  RowIs(MixRow(classes, x, s, f), MixWithShare(classes, x, s, f), f)
<1> DEFINE at == MixWithShare(classes, x, s, f)
<1>1. at.slo_feasible => at.fits
  BY FeasibleFits DEF MixWithShare
<1>2. MixRow(classes, x, s, f) = RowOf(at, f)
  BY DEF MixRow, MixWithShare
<1> HIDE DEF at
<1>3. RowIs(RowOf(at, f), at, f)
  BY <1>1 DEF RowOf, RowIs, Serves
<1> QED BY <1>2, <1>3 DEF at

(* best_f tries f = 0 first, then the grid.                                *)
Tried(grid, n) ==
  /\ n \in Nat /\ 1 \in 1..n /\ grid[1] = Zero
  /\ \A i \in 1..n : grid[i] \in Fractions
  /\ \A f \in Fractions : \E i \in 1..n : grid[i] = f

(* These are all fractions.                                                *)
LEMMA FractionsInOrder == Tried(<<Zero>> \o MixGrid, Len(MixGrid) + 1)
<1> DEFINE n == Len(MixGrid) + 1
           grid == <<Zero>> \o MixGrid
<1>1. MixGrid \in Seq(Finite) /\ Len(MixGrid) \in Nat /\ DOMAIN MixGrid = 1..Len(MixGrid)
  BY ScoresAreNumbers
<1>2. grid[1] = Zero /\ \A i \in 1..Len(MixGrid) : grid[i+1] = MixGrid[i]
  BY <1>1, ZeroOne
<1>3. n \in Nat /\ 1 \in 1..n
  BY <1>1
<1> HIDE DEF grid
<1>4. ASSUME NEW i \in 1..n PROVE grid[i] \in Fractions
  <2>1. CASE i = 1
    BY <1>2, <2>1 DEF Fractions
  <2>2. CASE i # 1
    <3>1. i - 1 \in 1..Len(MixGrid) /\ (i - 1) + 1 = i
      BY <1>1, <2>2
    <3> QED BY <1>1, <1>2, <3>1 DEF Fractions
  <2> QED BY <2>1, <2>2
<1>5. ASSUME NEW f \in Fractions PROVE \E i \in 1..n : grid[i] = f
  <2>1. CASE f = Zero
    BY <1>2, <1>3, <2>1
  <2>2. CASE f # Zero
    <3>1. PICK i \in 1..Len(MixGrid) : f = MixGrid[i]
      BY <1>1, <2>2 DEF Fractions
    <3>2. i + 1 \in 1..n
      BY <1>1
    <3> QED BY <1>2, <3>1, <3>2
  <2> QED BY <2>1, <2>2
<1> HIDE DEF n
<1>6. Tried(grid, n)
  BY <1>2, <1>3, <1>4, <1>5 DEF Tried
<1> QED BY <1>6 DEF grid, n

(* The throughputs of the fractions are numbers.                           *)
ScoredMix(classes, x, s) == \A f \in Fractions : Scored(MixRow(classes, x, s, f))

(* best_f finds the best of the fractions that serve, and reports its gain *)
(* over f = 0.                                                             *)
LEMMA OffloadIsBest ==
  ASSUME NEW classes, NEW x, NEW s, ScoredMix(classes, x, s)
  PROVE  OffloadBest(classes, x, s, best_f(classes, x, s))
<1> DEFINE n == Len(MixGrid) + 1
           grid == <<Zero>> \o MixGrid
           rows == [i \in 1..n |-> MixRow(classes, x, s, grid[i])]
           best == FirstBest(n, rows)
           at(f) == MixWithShare(classes, x, s, f)
           out == best_f(classes, x, s)
<1>1. Tried(grid, n)
  BY FractionsInOrder
<1>2. out = BestOver(best, rows[1])
  BY DEF best_f, BestOfRows
<1> HIDE DEF n, grid
<1>3. \A i \in 1..n : RowIs(rows[i], at(grid[i]), grid[i]) /\ Scored(rows[i])
  <2>1. \A i \in 1..n : rows[i] = MixRow(classes, x, s, grid[i]) /\ grid[i] \in Fractions
    BY <1>1 DEF Tried
  <2> HIDE DEF rows, at
  <2>2. \A i \in 1..n : Scored(rows[i])
    BY <2>1 DEF ScoredMix
  <2>3. \A i \in 1..n : RowIs(rows[i], at(grid[i]), grid[i])
    BY <2>1, MixRowIs DEF at
  <2> QED BY <2>2, <2>3
<1>4. n \in Nat /\ 1 \in 1..n /\ grid[1] = Zero
  BY <1>1 DEF Tried
<1> HIDE DEF rows
<1>5. BestOfFirst(best, n, rows)
  BY <1>3, <1>4, FirstBestIs
<1> HIDE DEF best
<1> DEFINE base == rows[1]
<1>6. RowIs(base, at(Zero), Zero)
  BY <1>3, <1>4
<1> HIDE DEF at, base, out
<1>7. /\ out.f = (IF best.ok THEN best.f ELSE Zero)
      /\ out.tps = (IF best.ok THEN best.score ELSE Zero)
      /\ out.gain = (IF best.ok /\ base.ok THEN best.score // base.score ELSE Zero)
      /\ out.row = (IF best.ok THEN best.row ELSE base.row)
  BY <1>2 DEF BestOver, base
<1>8. base.ok => best.ok
  BY <1>4, <1>5 DEF BestOfFirst, base
<1>9. out.gain = IF Serves(at(Zero)) THEN out.tps // at(Zero).tps ELSE Zero
  BY <1>6, <1>7, <1>8 DEF RowIs
<1>10. ASSUME NEW f \in Fractions, Serves(at(f))
       PROVE  /\ out.f \in Fractions /\ out.row = at(out.f)
              /\ Serves(out.row) /\ out.tps = out.row.tps
              /\ at(f).tps \preceq out.tps
  <2>1. PICK i \in 1..n : grid[i] = f
    BY <1>1 DEF Tried
  <2>2. rows[i].ok /\ rows[i].score = at(f).tps
    BY <1>3, <1>10, <2>1 DEF RowIs
  <2>3. best.ok /\ at(f).tps \preceq best.score
    BY <1>5, <2>2 DEF BestOfFirst
  <2>4. PICK j \in 1..n : best = rows[j] /\ rows[j].ok
    BY <1>5, <2>3, NoneIsNot DEF BestOfFirst
  <2>5. grid[j] \in Fractions
    BY <1>1 DEF Tried
  <2>6. RowIs(best, at(grid[j]), grid[j])
    BY <1>3, <2>4
  <2>7. out.f = grid[j] /\ out.row = at(grid[j]) /\ out.tps = at(grid[j]).tps /\ Serves(at(grid[j]))
    BY <1>7, <2>3, <2>6 DEF RowIs
  <2>8. at(f).tps \preceq out.tps
    BY <1>7, <2>3
  <2> QED BY <2>5, <2>7, <2>8
<1>11. OffloadBest(classes, x, s, out)
  BY <1>9, <1>10 DEF OffloadBest, at
<1> QED BY <1>11 DEF out

(* So the study of an offload finds the best row.                          *)
LEMMA MixIsBest ==
  ASSUME NEW c \in Cases.offload
  PROVE  BestMixRow(c, best_f(c.classes, c.x, c.s), MixRows(c))
<1> DEFINE out == best_f(c.classes, c.x, c.s)
           rows == MixRows(c)
<1>1. ScoredMix(c.classes, c.x, c.s)
  BY ScoresAreNumbers DEF ScoredMix, Fractions
<1>2. OffloadBest(c.classes, c.x, c.s, out)
  BY <1>1, OffloadIsBest
<1>3. /\ \A f \in Fractions : MixWithShare(c.classes, c.x, c.s, f) \in rows
      /\ \A r \in rows : \E f \in Fractions : r = MixWithShare(c.classes, c.x, c.s, f)
  BY DEF MixRows, MixWithShare, Fractions
<1> HIDE DEF out, rows
<1>4. ASSUME NEW r \in rows, Serves(r)
      PROVE  out.row.slo_feasible /\ out.row \in rows /\ r.tps \preceq out.tps
  <2>1. PICK f \in Fractions : r = MixWithShare(c.classes, c.x, c.s, f)
    BY <1>3
  <2>2. /\ out.f \in Fractions
        /\ out.row = MixWithShare(c.classes, c.x, c.s, out.f)
        /\ Serves(out.row)
        /\ r.tps \preceq out.tps
    BY <1>2, <1>4, <2>1 DEF OffloadBest
  <2> QED BY <1>3, <2>2 DEF Serves
<1>5. BestMixRow(c, out, rows)
  BY <1>4 DEF BestMixRow, Serves
<1> QED BY <1>5 DEF out, rows

-----------------------------------------------------------------------------
(* cpu_decode_capacity.                                                    *)

(* The CPUs' loop: what it knows of each batch.                            *)
StepTime(c, Bc) == gpu_decode_tpot(CpuEngine(c.x, c.cpus), Bc)
CpuHolds(c, i)      == CpusHold(c.x, c.cpus, BcGrid[i])
InTime(c, i)    == StepTime(c, BcGrid[i]) \preceq c.x.slo.slo_tpot
Rate(c, i)      == BcGrid[i] // StepTime(c, BcGrid[i])

(* f is the loop of cpu_decode_capacity.                                   *)
DecodeOf(f, n, c) ==
  f = [k \in 0..n |->
         IF k = 0 THEN [over |-> FALSE, tok |-> Zero, Bc |-> Zero, tpot |-> Inf]
                  ELSE DecodeWith(f[k-1], c.x, c.cpus, BcGrid[k])]

(* A turn of the loop of cpu_decode_capacity.                              *)
LEMMA DecodeTurnIs ==
  ASSUME NEW st, NEW c, NEW i
  PROVE  DecodeWith(st, c.x, c.cpus, BcGrid[i]) =
           IF st.over \/ ~CpuHolds(c, i) THEN [st EXCEPT !.over = TRUE]
           ELSE IF InTime(c, i) /\ st.tok \prec Rate(c, i)
             THEN [st EXCEPT !.tok = Rate(c, i), !.Bc = BcGrid[i],
                             !.tpot = StepTime(c, BcGrid[i])]
           ELSE st
<1> DEFINE t == gpu_decode_tpot(CpuEngine(c.x, c.cpus), BcGrid[i])
           fits == CpusHold(c.x, c.cpus, BcGrid[i])
<1>1. DecodeWith(st, c.x, c.cpus, BcGrid[i])
        = DecodeTurn(st, BcGrid[i], fits, t, c.x.slo.slo_tpot)
  BY DEF DecodeWith
<1>2. t = StepTime(c, BcGrid[i]) /\ fits = CpuHolds(c, i)
  BY DEF StepTime, CpuHolds
<1> HIDE DEF t, fits
<1>3. Rate(c, i) = BcGrid[i] // t /\ InTime(c, i) = (t \preceq c.x.slo.slo_tpot)
  BY <1>2 DEF Rate, InTime
<1> QED BY <1>1, <1>2, <1>3 DEF DecodeTurn

(* That loop is defined.                                                   *)
LEMMA DecodeExists ==
  ASSUME NEW n \in Nat, NEW c
  PROVE  \E f : DecodeOf(f, n, c)
<1> DEFINE T == {Zero} \cup {Rate(c, i) : i \in 1..n}
           B == {Zero} \cup {BcGrid[i] : i \in 1..n}
           P == {Inf} \cup {StepTime(c, BcGrid[i]) : i \in 1..n}
           D == [over : BOOLEAN, tok : T, Bc : B, tpot : P]
           start == [over |-> FALSE, tok |-> Zero, Bc |-> Zero, tpot |-> Inf]
           Turn(st, i) == DecodeWith(st, c.x, c.cpus, BcGrid[i])
           G == [p \in D \X (1..n) |-> Turn(p[1], p[2])]
<1>1. start \in D
  OBVIOUS
<1>2. ASSUME NEW st \in D, NEW i \in 1..n PROVE Turn(st, i) \in D
  <2>1. Rate(c, i) \in T /\ BcGrid[i] \in B /\ StepTime(c, BcGrid[i]) \in P
    OBVIOUS
  <2> HIDE DEF T, B, P
  <2> QED BY <2>1, DecodeTurnIs
<1> HIDE DEF D, start, Turn
<1>3. \A st \in D, i \in 1..n : G[<<st, i>>] = Turn(st, i)
  OBVIOUS
<1>4. \A st \in D, i \in 1..n : G[<<st, i>>] \in D
  BY <1>2, <1>3
<1> HIDE DEF G
<1>5. PICK f : LoopIn(f, D, start, n, G)
  BY <1>1, <1>4, LoopExists
<1>6. ASSUME NEW k \in 1..n PROVE G[<<f[k-1], k>>] = Turn(f[k-1], k)
  <2>1. k - 1 \in 0..n
    OBVIOUS
  <2> QED BY <1>3, <1>5, <2>1 DEF LoopIn
<1>7. f = [k \in 0..n |-> IF k = 0 THEN start ELSE Turn(f[k-1], k)]
  <2>1. \A k \in 0..n : k # 0 => k \in 1..n
    OBVIOUS
  <2> QED BY <1>5, <1>6, <2>1 DEF LoopIn
<1> QED BY <1>7 DEF DecodeOf, start, Turn

(* tok is at least the rate of the first n batches that fit and are in     *)
(* time, and the loop is over only after one that does not fit.            *)
DecodeBest(st, n, c) ==
  /\ st.tok \in Finite
  /\ st.over => \E j \in 1..n : ~CpuHolds(c, j)
  /\ \A i \in 1..n : CpuHolds(c, i) /\ InTime(c, i) => Rate(c, i) \preceq st.tok

(* Where a batch fits the DRAM of the CPUs, the smaller ones before it do: *)
(* the loop may end at the first that does not.                            *)
LEMMA LargerFitsNoBetter ==
  ASSUME NEW c \in Cases.cpu_decode, NEW i \in DOMAIN BcGrid, NEW j \in 1..i, CpuHolds(c, i)
  PROVE  CpuHolds(c, j)
<1> DEFINE kv == kv_size(s_context(c.x.work), c.x.model)
           m == c.x.hw.m_cpu ** c.cpus
<1>1. BcGrid \in Seq(Finite) /\ BcGrid[j] \preceq BcGrid[i]
  BY CpuBatchesAreNumbers
<1>2. j \in DOMAIN BcGrid
  BY <1>1
<1>3. BcGrid[i] \in Finite /\ BcGrid[j] \in Finite
  BY <1>1, <1>2
<1>4. kv \in Finite /\ Zero \preceq kv /\ m \in Finite
  BY CpuBatchesAreNumbers
<1>5. BcGrid[i] ** kv \preceq m
  BY DEF CpuHolds, CpusHold
<1> HIDE DEF kv, m
<1> DEFINE b == BcGrid[i]
           a == BcGrid[j]
<1>6. /\ a \in Finite /\ b \in Finite /\ kv \in Finite /\ m \in Finite
      /\ Zero \preceq kv /\ a \preceq b /\ b ** kv \preceq m
  BY <1>1, <1>3, <1>4, <1>5
<1> HIDE DEF a, b
<1>7. a ** kv \preceq m
  BY <1>6, ProductMonotone
<1> QED BY <1>7 DEF CpuHolds, CpusHold, a, kv, m

(* A turn of the loop keeps the best.                                      *)
LEMMA TurnKeepsBest ==
  ASSUME NEW c \in Cases.cpu_decode, NEW n \in Nat, n+1 \in DOMAIN BcGrid,
         NEW st, DecodeBest(st, n, c)
  PROVE  DecodeBest(DecodeWith(st, c.x, c.cpus, BcGrid[n+1]), n+1, c)
<1> DEFINE i == n+1
           r == DecodeWith(st, c.x, c.cpus, BcGrid[i])
<1>1. r = IF st.over \/ ~CpuHolds(c, i) THEN [st EXCEPT !.over = TRUE]
          ELSE IF InTime(c, i) /\ st.tok \prec Rate(c, i)
            THEN [st EXCEPT !.tok = Rate(c, i), !.Bc = BcGrid[i],
                            !.tpot = StepTime(c, BcGrid[i])]
          ELSE st
  BY DecodeTurnIs
<1> HIDE DEF r
<1>2. /\ i \in 1..i /\ \A j \in 1..n : j \in 1..i
      /\ \A j \in 1..i : j \in 1..n \/ j = i
  OBVIOUS
<1>3. i \in DOMAIN BcGrid
  OBVIOUS
<1> HIDE DEF i
<1>4. InTime(c, i) => Rate(c, i) \in Finite
  BY <1>3, CpuBatchesAreNumbers DEF InTime, Rate, StepTime
<1>5. st.over => ~CpuHolds(c, i)
  BY <1>2, <1>3, LargerFitsNoBetter DEF DecodeBest
<1>6. st.tok \in Finite
  BY DEF DecodeBest
<1>7. st.tok \in Rational /\ (InTime(c, i) => Rate(c, i) \in Rational)
  BY <1>4, <1>6, Parts
<1> DEFINE Ok(j) == CpuHolds(c, j) /\ InTime(c, j)
<1>8. \A j \in 1..n : Ok(j) => Rate(c, j) \preceq st.tok
  BY DEF DecodeBest
<1>9. st.over => \E j \in 1..n : ~CpuHolds(c, j)
  BY DEF DecodeBest
<1>10. r.tok \in Finite /\ (r.over => \E j \in 1..i : ~CpuHolds(c, j))
  <2>1. r.tok = st.tok \/ (r.tok = Rate(c, i) /\ InTime(c, i))
    BY <1>1
  <2>2. r.over => st.over \/ ~CpuHolds(c, i)
    BY <1>1
  <2> QED BY <1>2, <1>4, <1>6, <1>9, <2>1, <2>2
<1> SUFFICES DecodeBest(r, i, c)
  BY DEF r, i
<1>11. CASE st.over \/ ~CpuHolds(c, i)
  <2>1. r.tok = st.tok
    BY <1>1, <1>11
  <2>2. ~CpuHolds(c, i)
    BY <1>5, <1>11
  <2>3. \A j \in 1..i : Ok(j) => Rate(c, j) \preceq r.tok
    BY <1>2, <1>8, <2>1, <2>2
  <2> QED BY <1>10, <2>3 DEF DecodeBest
<1>12. CASE ~(st.over \/ ~CpuHolds(c, i)) /\ InTime(c, i) /\ st.tok \prec Rate(c, i)
  <2>1. r.tok = Rate(c, i) /\ r.over = st.over
    BY <1>1, <1>12
  <2>2. Rate(c, i) \preceq r.tok /\ st.tok \preceq r.tok
    BY <1>7, <1>12, <2>1, OrderTotal DEF \prec
  <2>3. ASSUME NEW j \in 1..n, CpuHolds(c, j), InTime(c, j) PROVE Rate(c, j) \preceq r.tok
    <3>1. j \in DOMAIN BcGrid
      BY <1>3, CpuBatchesAreNumbers DEF i
    <3>2. Rate(c, j) \in Finite
      BY <2>3, <3>1, CpuBatchesAreNumbers DEF InTime, Rate, StepTime
    <3>3. Rate(c, j) \preceq st.tok
      BY <2>3 DEF DecodeBest
    <3>4. Rate(c, j) \in Rational /\ r.tok \in Rational
      BY <1>7, <1>12, <2>1, <3>2, Parts
    <3> QED BY <1>7, <2>2, <3>3, <3>4, OrderTrans
  <2>4. \A j \in 1..i : Ok(j) => Rate(c, j) \preceq r.tok
    BY <1>2, <2>2, <2>3
  <2> QED BY <1>10, <2>4 DEF DecodeBest
<1>13. CASE /\ ~(st.over \/ ~CpuHolds(c, i))
            /\ ~(InTime(c, i) /\ st.tok \prec Rate(c, i))
  <2>1. r = st
    BY <1>1, <1>13
  <2>2. InTime(c, i) => Rate(c, i) \preceq st.tok
    BY <1>13 DEF \prec
  <2>3. \A j \in 1..i : Ok(j) => Rate(c, j) \preceq r.tok
    BY <1>2, <1>8, <2>1, <2>2
  <2> QED BY <1>10, <2>3 DEF DecodeBest
<1> QED BY <1>11, <1>12, <1>13

(* No batch that fits and is in time has a higher rate than the one        *)
(* cpu_decode_capacity settles on.                                         *)
LEMMA CpuDecodeIsBest ==
  ASSUME NEW c \in Cases.cpu_decode
  PROVE  BestCpuBatch(c, cpu_decode_capacity(c.x, c.cpus))
<1> DEFINE n == Len(BcGrid)
           f == CHOOSE g : DecodeOf(g, n, c)
           cpu == cpu_decode_capacity(c.x, c.cpus)
<1>1. n \in Nat /\ DOMAIN BcGrid = 1..n
  BY CpuBatchesAreNumbers
<1>2. cpu = f[n]
  BY DEF cpu_decode_capacity, DecodeOf
<1> HIDE DEF n, cpu
<1>3. DecodeOf(f, n, c)
  BY <1>1, DecodeExists
<1> HIDE DEF f
<1> DEFINE S == {k \in 0..n : DecodeBest(f[k], k, c)}
<1>4. 0 \in S
  <2>1. f[0] = [over |-> FALSE, tok |-> Zero, Bc |-> Zero, tpot |-> Inf] /\ 0 \in 0..n
    BY <1>1, <1>3 DEF DecodeOf
  <2>2. DecodeBest(f[0], 0, c)
    BY <2>1, ZeroOne DEF DecodeBest
  <2> QED BY <2>1, <2>2
<1>5. ASSUME NEW k \in 0..(n-1), k \in S PROVE k+1 \in S
  <2>1. k+1 \in 0..n /\ k+1 # 0 /\ (k+1)-1 = k /\ k \in Nat /\ k+1 \in 1..n
    BY <1>1
  <2>2. f[k+1] = DecodeWith(f[k], c.x, c.cpus, BcGrid[k+1])
    BY <1>3, <2>1 DEF DecodeOf
  <2>3. DecodeBest(f[k], k, c)
    BY <1>5
  <2>4. k+1 \in DOMAIN BcGrid
    BY <1>1, <2>1
  <2>5. DecodeBest(f[k+1], k+1, c)
    BY <2>1, <2>2, <2>3, <2>4, TurnKeepsBest
  <2> QED BY <2>1, <2>5
<1>6. DecodeBest(cpu, n, c)
  <2> HIDE DEF S
  <2>1. \A k \in 0..n : k \in S
    BY <1>1, <1>4, <1>5, LoopInduction
  <2>2. n \in S
    BY <1>1, <2>1
  <2> QED BY <1>2, <2>2 DEF S
<1>7. BestCpuBatch(c, cpu)
  BY <1>1, <1>6 DEF DecodeBest, BestCpuBatch, CpuHolds, CpusHold, InTime, Rate, StepTime
<1> QED BY <1>7 DEF cpu

-----------------------------------------------------------------------------
(* The searches together.                                                  *)

(* What BestPoint says of one study.                                       *)
ShowsBest(driver, in, out) ==
  /\ driver = "optimize" => OptimizeBest(in, out)
  /\ driver = "offload" => BestMixRow(in, out, MixRows(in))
  /\ driver = "cpu_decode" => BestCpuBatch(in, out.cpu)
  /\ driver = "deployments" => BestConfigs(in.x, out)

(* A driver that ends with the best has BestPoint hold.                    *)
LEMMA RanShowsBest ==
  ASSUME NEW driver, NEW in, NEW out, Ran(driver, in, out), ShowsBest(driver, in, out)
  PROVE  BestPoint'
<1>1. study'.driver = driver /\ study'.in = in /\ study'.out = out
  BY DEF Ran
<1>2. ShowsBest(study'.driver, study'.in, study'.out)
  BY <1>1
<1> QED BY <1>1, <1>2 DEF ShowsBest, BestPoint, Study

(* Each driver does.                                                       *)
LEMMA StudyShowsBest ==
  ASSUME StudyNext
  PROVE  BestPoint'
<1>1. CASE Sweep
  BY <1>1, RanShowsBest DEF Sweep, ShowsBest
<1>2. CASE Optimize
  BY <1>2, RanShowsBest, OptimizeIsBest DEF Optimize, ShowsBest
<1>3. CASE Mix
  BY <1>3, RanShowsBest DEF Mix, ShowsBest
<1>4. CASE Offload
  BY <1>4, RanShowsBest, MixIsBest DEF Offload, ShowsBest
<1>5. CASE Overlap
  BY <1>5, RanShowsBest DEF Overlap, ShowsBest
<1>6. CASE CpuDecode
  BY <1>6, RanShowsBest, CpuDecodeIsBest DEF CpuDecode, ShowsBest
<1>7. CASE Split
  BY <1>7, RanShowsBest DEF Split, ShowsBest
<1>8. CASE Contention
  BY <1>8, RanShowsBest DEF Contention, ShowsBest
<1>9. CASE Ceiling
  BY <1>9, RanShowsBest DEF Ceiling, ShowsBest
<1>10. CASE Deployments
  BY <1>10, RanShowsBest, SweepIsBest DEF Deployments, ShowsBest
<1>11. CASE Calibration
  BY <1>11, RanShowsBest DEF Calibration, ShowsBest
<1> QED BY <1>1, <1>2, <1>3, <1>4, <1>5, <1>6, <1>7, <1>8, <1>9, <1>10, <1>11 DEF StudyNext

(* Every search of model/ (optimize_f, best_f, cpu_decode_capacity,        *)
(* best_for_config) ends with the best of what it tried: nothing feasible  *)
(* is passed over, and the loop that ends early loses nothing.             *)
THEOREM SearchesFindTheBest == ToolsSpec => []BestPoint
<1>1. ToolsInit => BestPoint
  <2> SUFFICES ASSUME ToolsInit PROVE BestPoint
    OBVIOUS
  <2>1. study.driver = "none"
    BY DEF ToolsInit, StudyInit, NoStudy
  <2> QED BY <2>1 DEF BestPoint, Study
<1>2. BestPoint /\ [ToolsNext]_toolVars => BestPoint'
  <2> SUFFICES ASSUME BestPoint, [ToolsNext]_toolVars PROVE BestPoint'
    OBVIOUS
  <2>1. CASE StudyRuns
    BY <2>1, StudyShowsBest DEF StudyRuns
  <2>2. CASE UNCHANGED study
    BY <2>2 DEF BestPoint, Study
  <2>3. TraceRuns \/ ScenarioRuns \/ UNCHANGED toolVars => UNCHANGED study
    BY DEF TraceRuns, ScenarioRuns, toolVars
  <2> QED BY <2>1, <2>2, <2>3 DEF ToolsNext
<1> QED BY <1>1, <1>2, PTL DEF ToolsSpec

-----------------------------------------------------------------------------
(* The scenario and its verdict.                                           *)

(* The arguments that get past Build, their mix, and the sparse rows.      *)
Accepted(args) == args \in Arguments /\ (args.workload # <<>> => Custom(args).ok)
SparseRows(args, classes) ==
  [f \in Fractions |-> serving_mix(classes, build(args), Settings(f, args.sparse, One))]
SparseOffload(args, classes) ==
  best_f(classes, build(args), Settings(Zero, args.sparse, One))

(* best_f sets the fraction in the settings.                               *)
LEMMA SettingsOf ==
  ASSUME NEW f, NEW sparse, NEW ov
  PROVE  [Settings(Zero, sparse, ov) EXCEPT !.f = f] = Settings(f, sparse, ov)
<1> DEFINE no == FALSE
           With(g) == [f |-> g, sparse |-> sparse, cpus_per_gpu |-> One, overlap |-> ov, pool |-> no]
<1>1. \A g : Settings(g, sparse, ov) = With(g)
  BY DEF Settings
<1> HIDE DEF no
<1>2. [With(Zero) EXCEPT !.f = f] = With(f)
  OBVIOUS
<1> HIDE DEF With
<1> QED BY <1>1, <1>2

(* The sparse offload of a mix against its rows.                           *)
LEMMA SparseOffloadIsBest ==
  ASSUME NEW args, Accepted(args), MixOf(args).ok, NEW rows,
         rows = SparseRows(args, MixOf(args).classes), NEW out,
         out = SparseOffload(args, MixOf(args).classes)
  PROVE  /\ \A f \in Fractions : rows[f].tps \in Finite /\ Zero \preceq rows[f].tps
         /\ \A f \in Fractions : Serves(rows[f]) =>
              /\ out.f \in Fractions /\ Serves(rows[out.f])
              /\ rows[out.f].tps = out.tps /\ rows[f].tps \preceq out.tps
         /\ out.gain = IF Serves(rows[Zero]) THEN out.tps // rows[Zero].tps ELSE Zero
         /\ rows[Zero].slo_feasible /\ ~Serves(rows[Zero]) =>
              \A f \in Fractions : ~Serves(rows[f])
<1> DEFINE c == MixOf(args).classes
           x == build(args)
           s == Settings(Zero, args.sparse, One)
           mixrows == [f \in Fractions |-> MixRow(c, x, Settings(Zero, args.sparse, One), f)]
<1>1. \A f \in Fractions : rows[f] = MixWithShare(c, x, s, f)
  BY SettingsOf DEF SparseRows, MixWithShare
<1>2. \A f \in Fractions : RowIs(mixrows[f], rows[f], f)
  <2>1. \A f \in Fractions : mixrows[f] = MixRow(c, x, s, f)
    OBVIOUS
  <2> HIDE DEF mixrows, c, x, s
  <2> QED BY <1>1, <2>1, MixRowIs
<1>3. /\ \A f \in Fractions : mixrows[f].score \in Finite /\ Zero \preceq mixrows[f].score
      /\ mixrows[Zero].row.slo_feasible /\ ~mixrows[Zero].ok => \A f \in Fractions : ~mixrows[f].ok
  BY MixesAreNumbers DEF Accepted
<1>4. ScoredMix(c, x, s)
  BY <1>3 DEF ScoredMix, Scored
<1>5. OffloadBest(c, x, s, out)
  BY <1>4, OffloadIsBest DEF SparseOffload
<1>6. Zero \in Fractions
  BY DEF Fractions
<1> HIDE DEF mixrows, c, x, s
<1>7. \A f \in Fractions : rows[f].tps \in Finite /\ Zero \preceq rows[f].tps
  BY <1>2, <1>3 DEF RowIs
<1>8. rows[Zero].slo_feasible /\ ~Serves(rows[Zero]) => \A f \in Fractions : ~Serves(rows[f])
  BY <1>2, <1>3, <1>6 DEF RowIs
<1>9. out.gain = IF Serves(rows[Zero]) THEN out.tps // rows[Zero].tps ELSE Zero
  BY <1>1, <1>5, <1>6 DEF OffloadBest
<1>10. ASSUME NEW f \in Fractions, Serves(rows[f])
       PROVE  /\ out.f \in Fractions /\ Serves(rows[out.f])
              /\ rows[out.f].tps = out.tps /\ rows[f].tps \preceq out.tps
  BY <1>1, <1>5, <1>10 DEF OffloadBest
<1> QED BY <1>7, <1>8, <1>9, <1>10

(* What has been worked out when the scenario is at each of its sections.   *)
ScenarioInv ==
  LET args == scn.args IN
  /\ scn.at \in {"single", "multi", "mix", "offload", "verdict", "calibrate", "end"} =>
       /\ Accepted(args) /\ scn.x = build(args)
       /\ scn = [at |-> scn.at, args |-> args, x |-> scn.x, single |-> scn.single,
                 multi |-> scn.multi, mix |-> scn.mix, rows |-> scn.rows,
                 verdict |-> scn.verdict, fit |-> scn.fit]
  /\ scn.at \in {"offload", "verdict", "calibrate", "end"} =>
       MixOf(args).ok /\ scn.mix.classes = MixOf(args).classes
  /\ scn.at \in {"verdict", "calibrate", "end"} =>
       scn.rows[2][One] = SparseOffload(args, scn.mix.classes)
  /\ scn.at \in {"calibrate", "end"} =>
       scn.verdict = VerdictOn(scn.rows[2][Zero], scn.rows[2][One])

(* Each section of a scenario keeps the invariant.                         *)
LEMMA ScenarioInvHolds ==
  ASSUME ScenarioInv, ScenarioNext
  PROVE  ScenarioInv'
<1> DEFINE Filled(r) == r = [at |-> r.at, args |-> r.args, x |-> r.x, single |-> r.single,
                            multi |-> r.multi, mix |-> r.mix, rows |-> r.rows,
                            verdict |-> r.verdict, fit |-> r.fit]
<1>1. CASE Build
  <2>1. PICK args \in Arguments :
          scn' = IF args.workload # <<>> /\ ~Custom(args).ok THEN [at |-> "exit", args |-> args]
                                                              ELSE Begun(args)
    BY <1>1 DEF Build
  <2>2. CASE args.workload # <<>> /\ ~Custom(args).ok
    <3>1. scn'.at = "exit"
      BY <2>1, <2>2
    <3> QED BY <3>1 DEF ScenarioInv
  <2>3. CASE ~(args.workload # <<>> /\ ~Custom(args).ok)
    <3>1. scn' = Begun(args) /\ Accepted(args)
      BY <2>1, <2>3 DEF Accepted
    <3>2. /\ scn'.at = "single" /\ scn'.args = args /\ scn'.x = build(args)
          /\ Filled(scn')
      BY <3>1 DEF Begun
    <3> QED BY <3>1, <3>2 DEF ScenarioInv
  <2> QED BY <2>2, <2>3
<1>2. CASE SingleGpu
  <2>1. /\ Accepted(scn.args) /\ scn.x = build(scn.args) /\ Filled(scn)
    BY <1>2 DEF SingleGpu, ScenarioInv
  <2> DEFINE at == IF One \prec scn.x.hw.n_gpus THEN "multi" ELSE "mix"
             single == [i \in 1..2 |-> optimize_f(scn.x, Serving(<<One, scn.args.sparse>>[i]))]
  <2>2. at = "multi" \/ at = "mix"
    OBVIOUS
  <2>3. scn' = [scn EXCEPT !.at = at, !.single = single]
    BY <1>2 DEF SingleGpu
  <2> HIDE DEF at, single
  <2>4. scn'.at = at /\ scn'.args = scn.args /\ scn'.x = scn.x /\ Filled(scn')
    BY <2>1, <2>3
  <2> QED BY <2>1, <2>2, <2>4 DEF ScenarioInv
<1>3. CASE MultiGpu
  <2>1. /\ Accepted(scn.args) /\ scn.x = build(scn.args) /\ Filled(scn)
    BY <1>3 DEF MultiGpu, ScenarioInv
  <2> DEFINE multi == BestFive(run_sweep(scn.x).rows)
  <2>2. \/ scn' = [scn EXCEPT !.at = "raised"]
        \/ scn' = [scn EXCEPT !.at = "mix", !.multi = multi]
    BY <1>3 DEF MultiGpu, AfterSweep
  <2> HIDE DEF multi
  <2>3. CASE scn' = [scn EXCEPT !.at = "raised"]
    <3>1. scn'.at = "raised"
      BY <2>1, <2>3
    <3> QED BY <3>1 DEF ScenarioInv
  <2>4. CASE scn' = [scn EXCEPT !.at = "mix", !.multi = multi]
    <3>1. scn'.at = "mix" /\ scn'.args = scn.args /\ scn'.x = scn.x /\ Filled(scn')
      BY <2>1, <2>4
    <3> QED BY <2>1, <3>1 DEF ScenarioInv
  <2> QED BY <2>2, <2>3, <2>4
<1>4. CASE ConcurrentMix
  <2>1. /\ Accepted(scn.args) /\ scn.x = build(scn.args) /\ Filled(scn)
    BY <1>4 DEF ConcurrentMix, ScenarioInv
  <2>2. CASE ~MixOf(scn.args).ok
    <3>1. scn'.at = "exit"
      BY <1>4, <2>1, <2>2 DEF ConcurrentMix
    <3> QED BY <3>1 DEF ScenarioInv
  <2>3. CASE MixOf(scn.args).ok
    <3> DEFINE classes == MixOf(scn.args).classes
               mix == [ov \in {Zero, One} |->
                         serving_mix(MixOf(scn.args).classes, scn.x, Settings(Zero, One, ov))]
               found == [classes |-> classes, base |-> mix[Zero],
                         band |-> [con |-> mix[Zero].tps, opt |-> mix[One].tps]]
               at == IF mix[Zero].fits THEN "offload" ELSE "oom"
    <3>1. scn' = AfterMix(classes, mix)
      BY <1>4, <2>3 DEF ConcurrentMix
    <3> HIDE DEF mix, classes
    <3>2. scn' = [scn EXCEPT !.at = at, !.mix = found]
      BY <3>1 DEF AfterMix
    <3>3. at \in {"offload", "oom"} /\ found.classes = classes
      OBVIOUS
    <3> HIDE DEF at, found
    <3>4. scn'.at = at /\ scn'.args = scn.args /\ scn'.x = scn.x /\ scn'.mix = found /\ Filled(scn')
      BY <2>1, <3>2
    <3> QED BY <2>1, <2>3, <3>3, <3>4 DEF ScenarioInv, classes
  <2> QED BY <2>2, <2>3
<1>5. CASE OffloadRows
  <2>1. /\ Accepted(scn.args) /\ scn.x = build(scn.args) /\ Filled(scn)
        /\ MixOf(scn.args).ok /\ scn.mix.classes = MixOf(scn.args).classes
    BY <1>5 DEF OffloadRows, ScenarioInv
  <2> DEFINE row(i, ov) == best_f(scn.mix.classes, scn.x,
                                  Settings(Zero, <<One, scn.args.sparse>>[i], ov))
             rows == [i \in 1..2 |-> [ov \in {Zero, One} |-> row(i, ov)]]
  <2>2. scn' = [scn EXCEPT !.at = "verdict", !.rows = rows]
    BY <1>5 DEF OffloadRows
  <2>3. row(2, One) = SparseOffload(scn.args, scn.mix.classes)
    BY <2>1 DEF SparseOffload
  <2> HIDE DEF row
  <2>4. rows[2][One] = row(2, One)
    OBVIOUS
  <2> HIDE DEF rows
  <2>5. /\ scn'.at = "verdict" /\ scn'.args = scn.args /\ scn'.x = scn.x /\ scn'.mix = scn.mix
        /\ scn'.rows = rows /\ Filled(scn')
    BY <2>1, <2>2
  <2> QED BY <2>1, <2>3, <2>4, <2>5 DEF ScenarioInv
<1>6. CASE Verdict
  <2>1. /\ Accepted(scn.args) /\ scn.x = build(scn.args) /\ Filled(scn)
        /\ MixOf(scn.args).ok /\ scn.mix.classes = MixOf(scn.args).classes
        /\ scn.rows[2][One] = SparseOffload(scn.args, scn.mix.classes)
    BY <1>6 DEF Verdict, ScenarioInv
  <2> DEFINE v == VerdictOn(scn.rows[2][Zero], scn.rows[2][One])
  <2>2. scn' = [scn EXCEPT !.at = "calibrate", !.verdict = v]
    BY <1>6 DEF Verdict
  <2> HIDE DEF v
  <2>3. /\ scn'.at = "calibrate" /\ scn'.args = scn.args /\ scn'.x = scn.x /\ scn'.mix = scn.mix
        /\ scn'.rows = scn.rows /\ scn'.verdict = v /\ Filled(scn')
    BY <2>1, <2>2
  <2>4. v = VerdictOn(scn.rows[2][Zero], scn.rows[2][One])'
    BY <2>3 DEF v, VerdictOn
  <2> QED BY <2>1, <2>3, <2>4 DEF ScenarioInv
<1>7. CASE Calibrate
  <2>1. /\ Accepted(scn.args) /\ scn.x = build(scn.args) /\ Filled(scn)
        /\ MixOf(scn.args).ok /\ scn.mix.classes = MixOf(scn.args).classes
        /\ scn.rows[2][One] = SparseOffload(scn.args, scn.mix.classes)
        /\ scn.verdict = VerdictOn(scn.rows[2][Zero], scn.rows[2][One])
    BY <1>7 DEF Calibrate, ScenarioInv
  <2> DEFINE fit == Narrowed(fit_overlap(scn.mix.classes, scn.x, Settings(Zero, One, One),
                                         scn.args.measured))
  <2>2. scn' = [scn EXCEPT !.at = "end", !.fit = fit]
    BY <1>7 DEF Calibrate
  <2> HIDE DEF fit
  <2>3. /\ scn'.at = "end" /\ scn'.args = scn.args /\ scn'.x = scn.x /\ scn'.mix = scn.mix
        /\ scn'.rows = scn.rows /\ scn'.verdict = scn.verdict /\ Filled(scn')
    BY <2>1, <2>2
  <2>4. scn'.verdict = VerdictOn(scn.rows[2][Zero], scn.rows[2][One])'
    BY <2>1, <2>3 DEF VerdictOn
  <2> QED BY <2>1, <2>3, <2>4 DEF ScenarioInv
<1> QED BY <1>1, <1>2, <1>3, <1>4, <1>5, <1>6, <1>7 DEF ScenarioNext

(* Two per cent.                                                           *)
LEMMA MarginIs == Ratio(51, 50) \in Finite /\ Zero \prec Ratio(51, 50)
<1> DEFINE n == 51
           d == 50
<1>1. n \in Int /\ n > 0 /\ d \in Nat \ {0} /\ Ratio(51, 50) = Reduced(n, d)
  BY DEF Ratio
<1> HIDE DEF n, d
<1>2. PICK g \in Nat \ {0}, p \in Int, q \in Nat \ {0} :
        Reduced(n, d) = <<p, q>> /\ n = p * g /\ d = q * g
  BY <1>1, ReducedParts
<1>3. p > 0
  <2>1. p <= 0 => p * g <= 0
    OBVIOUS
  <2> QED BY <1>1, <1>2, <2>1
<1>4. Ratio(51, 50) \in Finite /\ Ratio(51, 50)[1] = p
  BY <1>1, <1>2 DEF Finite
<1> QED BY <1>3, <1>4, PositiveIs

(* A product of positive numbers is positive.                              *)
LEMMA ProductPositive ==
  ASSUME NEW a \in Finite, NEW b \in Finite, Zero \prec a, Zero \prec b
  PROVE  a ** b \in Finite /\ Zero \prec a ** b
<1> DEFINE p == a ** b
           n == a[1] * b[1]
           d == a[2] * b[2]
<1>1. Valued(p, n, d)
  BY ProductValued
<1>2. a[1] > 0 /\ b[1] > 0 /\ a[1] \in Int /\ b[1] \in Int
  BY PositiveIs, Parts
<1>3. n > 0 /\ n \in Int
  BY <1>2
<1>4. d \in Nat \ {0}
  <2>1. a[2] \in Nat \ {0} /\ b[2] \in Nat \ {0}
    BY Parts
  <2> QED BY <2>1
<1> HIDE DEF p, n, d
<1>5. p \in Finite /\ p[1] * d = n * p[2]
  BY <1>1 DEF Valued
<1>6. p[1] \in Int /\ p[2] \in Nat \ {0}
  BY <1>5, Parts
<1> DEFINE i == p[1] * d
           j == n * p[2]
<1>7. j > 0 /\ j \in Int
  BY <1>3, <1>6
<1>8. (p[1] <= 0 => i <= 0) /\ i \in Int
  BY <1>4, <1>6
<1>9. i = j
  BY <1>5
<1> HIDE DEF i, j
<1>10. p[1] > 0
  BY <1>6, <1>7, <1>8, <1>9
<1> QED BY <1>5, <1>10, PositiveIs DEF p

(* What is not positive is at most a product of what is not negative.      *)
LEMMA NothingLeft ==
  ASSUME NEW a \in Finite, NEW b \in Finite, Zero \preceq a, Zero \prec b,
         NEW q \in Finite, q \preceq Zero
  PROVE  q \preceq a ** b
<1> DEFINE p == a ** b
           n == a[1] * b[1]
           d == a[2] * b[2]
           i == q[1] * d
           j == n * q[2]
<1>1. Valued(p, n, d)
  BY ProductValued
<1>2. a[1] >= 0 /\ b[1] > 0 /\ a[1] \in Int /\ b[1] \in Int
  BY PositiveIs, Parts
<1>3. n >= 0 /\ n \in Int
  BY <1>2
<1>4. d \in Nat \ {0}
  <2>1. a[2] \in Nat \ {0} /\ b[2] \in Nat \ {0}
    BY Parts
  <2> QED BY <2>1
<1>5. q[1] <= 0 /\ q[1] \in Int /\ q[2] \in Nat \ {0}
  <2>1. q[1] \in Int /\ q[2] \in Nat \ {0}
    BY Parts
  <2>2. q[1] * 1 <= 0 * q[2]
    BY ZeroOne, OrderOfFinite
  <2> QED BY <2>1, <2>2
<1> HIDE DEF p, n, d
<1>6. q \preceq p <=> i <= j
  BY <1>1, <1>3, <1>4, ValuedOrder
<1>7. i <= 0 /\ i \in Int
  BY <1>4, <1>5
<1>8. j >= 0 /\ j \in Int
  BY <1>3, <1>5
<1> HIDE DEF i, j
<1>9. q \preceq p
  BY <1>6, <1>7, <1>8
<1> QED BY <1>9 DEF p

(* b is the throughput without offload, r that of a fraction: the gain is  *)
(* more than the margin exactly if the fraction wins.                      *)
LEMMA OverMargin ==
  ASSUME NEW b \in Finite, Zero \prec b, NEW r \in Finite
  PROVE  /\ r // b \preceq Ratio(51, 50) <=> ~(b ** Ratio(51, 50) \prec r)
         /\ b ** Ratio(51, 50) \in Finite /\ Zero \prec b ** Ratio(51, 50)
<1> DEFINE m == Ratio(51, 50)
<1>1. m \in Finite /\ Zero \prec m
  BY MarginIs
<1> HIDE DEF m
<1>2. r // b \preceq m <=> r \preceq b ** m
  BY <1>1, QuotientOrder
<1>3. b ** m \in Finite /\ Zero \prec b ** m
  BY <1>1, ProductPositive
<1> QED BY <1>2, <1>3 DEF m, \prec

(* The verdict is justified by the rows of the sparse mix.                 *)
LEMMA VerdictIsJustified ==
  ASSUME ScenarioInv, scn.at \in {"calibrate", "end"}
  PROVE  JustifiedBy(SparseRows(scn.args, scn.mix.classes))
<1> DEFINE args == scn.args
           rows == SparseRows(args, scn.mix.classes)
           out == scn.rows[2][One]
           con == scn.rows[2][Zero]
           v == scn.verdict
           base == rows[Zero]
           compute == scn.mix.base.binding = "compute"
<1>1. /\ Accepted(args) /\ MixOf(args).ok /\ scn.mix.classes = MixOf(args).classes
      /\ out = SparseOffload(args, scn.mix.classes)
      /\ v = VerdictOn(con, out)
  BY DEF ScenarioInv
<1>2. /\ v.offload => ~(out.gain \preceq Ratio(51, 50)) /\ v.f = out.f
      /\ ~v.offload => compute \/ out.gain \preceq Ratio(51, 50)
  <2> DEFINE precond == IF con.gain \prec Ratio(103, 100) THEN "requires overlap"
                        ELSE IF con.gain ** Ratio(6, 5) \prec out.gain THEN "floor without overlap"
                        ELSE "robust"
             unclear == compute \/ out.gain \preceq Ratio(51, 50)
  <2>1. v = IF unclear THEN [offload |-> FALSE]
            ELSE [offload |-> TRUE, f |-> out.f, precond |-> precond]
    BY <1>1 DEF VerdictOn
  <2> HIDE DEF v, precond, unclear
  <2>2. CASE unclear
    BY <2>1, <2>2 DEF unclear
  <2>3. CASE ~unclear
    <3>1. v.offload = TRUE /\ v.f = out.f
      BY <2>1, <2>3
    <3> QED BY <2>3, <3>1 DEF unclear
  <2> QED BY <2>2, <2>3
<1> HIDE DEF v, con
<1>3. /\ rows = SparseRows(args, MixOf(args).classes)
      /\ out = SparseOffload(args, MixOf(args).classes)
  BY <1>1
<1> HIDE DEF args, rows, out
<1>4. /\ \A f \in Fractions : rows[f].tps \in Finite /\ Zero \preceq rows[f].tps
      /\ \A f \in Fractions : Serves(rows[f]) =>
           /\ out.f \in Fractions /\ Serves(rows[out.f])
           /\ rows[out.f].tps = out.tps /\ rows[f].tps \preceq out.tps
      /\ out.gain = IF Serves(base) THEN out.tps // base.tps ELSE Zero
      /\ base.slo_feasible /\ ~Serves(base) => \A f \in Fractions : ~Serves(rows[f])
  BY <1>1, <1>3, SparseOffloadIsBest
<1>5. Zero \in Fractions /\ DOMAIN rows = Fractions
  BY <1>3 DEF Fractions, SparseRows
<1> HIDE DEF compute, base
<1>6. ASSUME base.slo_feasible, Serves(base)
      PROVE  IF v.offload THEN Wins(rows[v.f], base)
             ELSE compute \/ \A f \in Fractions : ~Wins(rows[f], base)
  <2>1. base.tps \in Finite /\ Zero \prec base.tps
    BY <1>4, <1>5, <1>6 DEF Serves, base
  <2>2. /\ out.f \in Fractions /\ Serves(rows[out.f]) /\ rows[out.f].tps = out.tps
        /\ out.tps \in Finite
    BY <1>4, <1>5, <1>6 DEF base
  <2>3. out.gain = out.tps // base.tps
    BY <1>4, <1>6
  <2> DEFINE b == base.tps ** Ratio(51, 50)
             r == out.tps
  <2>4. out.gain \preceq Ratio(51, 50) <=> ~(b \prec r)
    BY <2>1, <2>2, <2>3, OverMargin
  <2>5. b \in Finite /\ Zero \prec b
    BY <2>1, <2>2, OverMargin
  <2> HIDE DEF b
  <2>6. CASE v.offload
    BY <1>2, <2>2, <2>4, <2>6 DEF Wins, Serves, b
  <2>7. CASE ~v.offload /\ ~compute
    <3>1. r \preceq b
      BY <1>2, <2>4, <2>7 DEF \prec
    <3>2. ASSUME NEW f \in Fractions, Wins(rows[f], base) PROVE FALSE
      <4> DEFINE q == rows[f].tps
      <4>1. rows[f].slo_feasible /\ ~(q \preceq b)
        BY <3>2 DEF Wins, b, \prec
      <4>2. b \in Rational /\ q \in Rational /\ r \in Rational /\ Zero \in Rational
        BY <1>4, <2>2, <2>5, ZeroOne, Parts
      <4>3. Zero \prec q
        BY <2>5, <4>1, <4>2, OrderTotal, OrderTrans DEF \prec
      <4>4. q \preceq r
        BY <1>4, <4>1, <4>3 DEF Serves
      <4> QED BY <3>1, <4>1, <4>2, <4>4, OrderTrans
    <3> QED BY <2>7, <3>2
  <2>8. CASE ~v.offload /\ compute
    BY <2>8
  <2> QED BY <2>6, <2>7, <2>8
<1>7. ASSUME base.slo_feasible, ~Serves(base)
      PROVE  IF v.offload THEN Wins(rows[v.f], base)
             ELSE compute \/ \A f \in Fractions : ~Wins(rows[f], base)
  <2>1. out.gain = Zero /\ \A f \in Fractions : ~Serves(rows[f])
    BY <1>4, <1>7
  <2>2. out.gain \preceq Ratio(51, 50)
    BY <2>1, MarginIs, ZeroOne, Parts, OrderTotal DEF \prec
  <2>3. base.tps \in Finite /\ Zero \preceq base.tps
    BY <1>4, <1>5 DEF base
  <2>4. ASSUME NEW f \in Fractions, Wins(rows[f], base) PROVE FALSE
    <3> DEFINE q == rows[f].tps
               m == Ratio(51, 50)
    <3>1. ~(q \preceq base.tps ** m) /\ ~(Zero \prec q)
      BY <2>1, <2>4 DEF Wins, Serves, \prec
    <3>2. q \in Finite /\ q \preceq Zero /\ m \in Finite /\ Zero \prec m
      BY <1>4, <3>1, MarginIs DEF \prec
    <3> HIDE DEF q, m
    <3> QED BY <2>3, <3>1, <3>2, NothingLeft
  <2> QED BY <1>2, <2>2, <2>4
<1>8. base.slo_feasible =>
        IF v.offload THEN Wins(rows[v.f], base)
        ELSE compute \/ \A f \in Fractions : ~Wins(rows[f], base)
  BY <1>6, <1>7
<1>9. JustifiedBy(rows)
  BY <1>5, <1>8 DEF JustifiedBy, base, v, compute
<1> QED BY <1>9 DEF rows, args

(* The verdict of a scenario holds: the offload it recommends meets the    *)
(* SLO and beats f = 0 by more than 2%, and where it recommends none no    *)
(* fraction does, unless the GPU is bound by compute.                      *)
THEOREM VerdictIsSound == ToolsSpec => []VerdictHolds
<1>1. ToolsInit => ScenarioInv
  <2> SUFFICES ASSUME ToolsInit PROVE ScenarioInv
    OBVIOUS
  <2>1. scn.at = "start"
    BY DEF ToolsInit, ScenarioInit, NoScenario
  <2> QED BY <2>1 DEF ScenarioInv
<1>2. ScenarioInv /\ [ToolsNext]_toolVars => ScenarioInv'
  <2> SUFFICES ASSUME ScenarioInv, [ToolsNext]_toolVars PROVE ScenarioInv'
    OBVIOUS
  <2>1. CASE ScenarioRuns
    BY <2>1, ScenarioInvHolds DEF ScenarioRuns
  <2>2. CASE UNCHANGED scn
    BY <2>2 DEF ScenarioInv, VerdictOn
  <2>3. TraceRuns \/ StudyRuns \/ UNCHANGED toolVars => UNCHANGED scn
    BY DEF TraceRuns, StudyRuns, toolVars
  <2> QED BY <2>1, <2>2, <2>3 DEF ToolsNext
<1>3. ScenarioInv => VerdictHolds
  <2> SUFFICES ASSUME ScenarioInv, scn.at \in {"calibrate", "end"}
               PROVE  JustifiedBy([f \in Fractions |->
                        serving_mix(scn.mix.classes, scn.x, Settings(f, scn.args.sparse, One))])
    BY DEF VerdictHolds
  <2>1. JustifiedBy(SparseRows(scn.args, scn.mix.classes))
    BY VerdictIsJustified
  <2>2. scn.x = build(scn.args)
    BY DEF ScenarioInv
  <2> QED BY <2>1, <2>2 DEF SparseRows
<1> QED BY <1>1, <1>2, <1>3, PTL DEF ToolsSpec

-----------------------------------------------------------------------------
(* Sums.                                                                   *)

(* A common factor may be added to both parts of a fraction.               *)
LEMMA Widened ==
  ASSUME NEW a, NEW n \in Int, NEW d \in Nat \ {0}, Valued(a, n, d), NEW k \in Nat \ {0}
  PROVE  Valued(a, n * k, d * k) /\ n * k \in Int /\ d * k \in Nat \ {0}
<1> DEFINE p == a[1]
           q == a[2]
<1>1. p \in Int /\ q \in Nat \ {0} /\ p * d = n * q /\ a \in Finite
  BY Parts DEF Valued
<1> HIDE DEF p, q
<1>2. p * (d * k) = (p * d) * k /\ (n * q) * k = (n * k) * q
  BY <1>1
<1>3. p * (d * k) = (n * k) * q
  BY <1>1, <1>2
<1>4. n * k \in Int /\ d * k \in Nat \ {0}
  OBVIOUS
<1> QED BY <1>1, <1>3, <1>4 DEF Valued, p, q

(* A number has its own value.                                             *)
LEMMA OwnValue ==
  ASSUME NEW a \in Finite
  PROVE  Valued(a, a[1], a[2]) /\ a[1] \in Int /\ a[2] \in Nat \ {0}
  BY Parts DEF Valued

(* Any four numbers have a common denominator.                             *)
Over(a, n, D) == Valued(a, n, D) /\ n \in Int /\ D \in Nat \ {0}
LEMMA TwoOver ==
  ASSUME NEW a, NEW b, NEW n, NEW m, NEW D, NEW E, Over(a, n, D), Over(b, m, E)
  PROVE  Over(a, n * E, D * E) /\ Over(b, m * D, D * E)
<1>1. n \in Int /\ D \in Nat \ {0} /\ m \in Int /\ E \in Nat \ {0}
  BY DEF Over
<1>2. Over(a, n * E, D * E)
  BY <1>1, Widened DEF Over
<1>3. Over(b, m * D, E * D)
  BY <1>1, Widened DEF Over
<1>4. E * D = D * E
  BY <1>1
<1> QED BY <1>2, <1>3, <1>4

LEMMA CommonDenominator ==
  ASSUME NEW a \in Finite, NEW b \in Finite, NEW c \in Finite, NEW e \in Finite
  PROVE  \E D, i, j, k, l : Over(a, i, D) /\ Over(b, j, D) /\ Over(c, k, D) /\ Over(e, l, D)
<1>1. /\ Over(a, a[1], a[2]) /\ Over(b, b[1], b[2])
      /\ Over(c, c[1], c[2]) /\ Over(e, e[1], e[2])
  BY OwnValue DEF Over
<1>2. /\ Over(a, a[1] * b[2], a[2] * b[2]) /\ Over(b, b[1] * a[2], a[2] * b[2])
      /\ Over(c, c[1] * e[2], c[2] * e[2]) /\ Over(e, e[1] * c[2], c[2] * e[2])
  BY <1>1, TwoOver
<1>3. /\ \E D, i, j : Over(a, i, D) /\ Over(b, j, D)
      /\ \E E, k, l : Over(c, k, E) /\ Over(e, l, E)
  BY <1>2
<1>4. PICK D, i, j : Over(a, i, D) /\ Over(b, j, D)
  BY <1>3
<1>5. PICK E, k, l : Over(c, k, E) /\ Over(e, l, E)
  BY <1>3
<1>6. Over(a, i * E, D * E) /\ Over(b, j * E, D * E) /\ Over(c, k * D, D * E) /\ Over(e, l * D, D * E)
  BY <1>4, <1>5, TwoOver
<1> QED BY <1>6

(* Numbers over a common denominator are compared by their numerators.     *)
LEMMA OverOrder ==
  ASSUME NEW a, NEW b, NEW n, NEW m, NEW D, Over(a, n, D), Over(b, m, D)
  PROVE  /\ a \in Finite /\ b \in Finite
         /\ a \preceq b <=> n <= m
         /\ a \prec b <=> n < m
<1>1. n \in Int /\ m \in Int /\ D \in Nat \ {0} /\ Valued(a, n, D) /\ Valued(b, m, D)
  BY DEF Over
<1>2. a \in Finite /\ b \in Finite
  BY <1>1 DEF Valued
<1> DEFINE p == b[1]
           q == b[2]
<1>3. p \in Int /\ q \in Nat \ {0} /\ p * D = m * q
  BY <1>1, <1>2, Parts DEF Valued
<1>4. (a \preceq b <=> n * q <= p * D) /\ (b \preceq a <=> p * D <= n * q)
  BY <1>1, <1>2, ValuedOrder
<1> HIDE DEF p, q
<1>5. (n * q <= m * q <=> n <= m) /\ (m * q <= n * q <=> m <= n)
  BY <1>1, <1>3, Scaled
<1>6. (a \preceq b <=> n <= m) /\ (b \preceq a <=> m <= n)
  BY <1>3, <1>4, <1>5
<1> QED BY <1>1, <1>2, <1>6 DEF \prec

(* a ++ b has the value of the sum.                                        *)
LEMMA PlusValued ==
  ASSUME NEW a \in Finite, NEW b \in Finite
  PROVE  Valued(a ++ b, a[1] * b[2] + b[1] * a[2], a[2] * b[2])
<1> DEFINE n == a[1]
           d == a[2]
           m == b[1]
           e == b[2]
           g == Gcd[<<d, e>>]
<1>1. n \in Int /\ d \in Nat \ {0} /\ m \in Int /\ e \in Nat \ {0}
  BY Parts
<1>2. Cancels(d, e, g)
  BY <1>1, GcdDivides
<1>3. a ++ b = Reduced(n * (e \div g) + m * (d \div g), d * (e \div g))
  BY DEF ++, Plus
<1> HIDE DEF n, d, m, e, g
<1>4. PICK u \in Int : d = u * g
  BY <1>2 DEF Cancels, Divides
<1>5. PICK v \in Int : e = v * g
  BY <1>2 DEF Cancels, Divides
<1>6. g \in Nat \ {0}
  BY <1>2 DEF Cancels
<1>7. d \div g = u /\ e \div g = v
  BY <1>4, <1>5, <1>6, DivExact
<1>8. v \in Nat \ {0}
  BY <1>1, <1>5, <1>6
<1> DEFINE N == n * v + m * u
           D == d * v
<1>9. a ++ b = Reduced(N, D) /\ N \in Int /\ D \in Nat \ {0}
  BY <1>1, <1>3, <1>7, <1>8
<1>10. n * e + m * d = N * g /\ d * e = D * g
  BY <1>1, <1>4, <1>5, <1>6
<1> HIDE DEF N, D
<1>11. PICK h \in Nat \ {0}, p \in Int, q \in Nat \ {0} :
         Reduced(N, D) = <<p, q>> /\ N = p * h /\ D = q * h
  BY <1>9, ReducedParts
<1>12. p * ((q * h) * g) = ((p * h) * g) * q
  BY <1>6
<1>13. p * (d * e) = (n * e + m * d) * q
  BY <1>10, <1>11, <1>12
<1> QED BY <1>9, <1>11, <1>13 DEF Valued, Finite, n, d, m, e

(* Sums and differences over a common denominator.                         *)
LEMMA OverPlus ==
  ASSUME NEW a, NEW b, NEW n, NEW m, NEW D, Over(a, n, D), Over(b, m, D)
  PROVE  Over(a ++ b, n + m, D)
<1>1. /\ n \in Int /\ m \in Int /\ D \in Nat \ {0} /\ a \in Finite /\ b \in Finite
      /\ Valued(a, n, D) /\ Valued(b, m, D)
  BY DEF Over, Valued
<1> DEFINE i == a[1]
           j == a[2]
           k == b[1]
           l == b[2]
           x == a ++ b
           p == x[1]
           q == x[2]
<1>2. i \in Int /\ j \in Nat \ {0} /\ k \in Int /\ l \in Nat \ {0}
  BY <1>1, Parts
<1>3. x \in Finite /\ p * (j * l) = (i * l + k * j) * q
  BY <1>1, PlusValued DEF Valued
<1>4. p \in Int /\ q \in Nat \ {0}
  BY <1>3, Parts
<1>5. i * D = n * j /\ k * D = m * l
  BY <1>1 DEF Valued
<1> HIDE DEF i, j, k, l, x, p, q
<1>6. (p * D) * (j * l) = (p * (j * l)) * D
  BY <1>1, <1>2, <1>4
<1>7. ((i * l + k * j) * q) * D = ((i * D) * l + (k * D) * j) * q
  BY <1>1, <1>2, <1>4
<1>8. ((n * j) * l + (m * l) * j) * q = ((n + m) * q) * (j * l)
  BY <1>1, <1>2, <1>4
<1>9. (p * D) * (j * l) = ((n + m) * q) * (j * l)
  BY <1>3, <1>5, <1>6, <1>7, <1>8
<1>10. p * D \in Int /\ (n + m) * q \in Int /\ j * l \in Nat \ {0}
  BY <1>1, <1>2, <1>4
<1> DEFINE y == p * D
           z == (n + m) * q
           w == j * l
<1>11. y * w = z * w /\ y \in Int /\ z \in Int /\ w \in Nat \ {0}
  BY <1>9, <1>10
<1> HIDE DEF y, z, w
<1>12. y = z
  BY <1>11, Scaled
<1>13. p * D = (n + m) * q
  BY <1>12 DEF y, z
<1> QED BY <1>1, <1>3, <1>13 DEF Over, Valued, x, p, q

LEMMA OverMinus ==
  ASSUME NEW a, NEW b, NEW n, NEW m, NEW D, Over(a, n, D), Over(b, m, D)
  PROVE  Over(a -- b, n - m, D)
<1>1. /\ n \in Int /\ m \in Int /\ D \in Nat \ {0} /\ b \in Finite /\ b[1] * D = m * b[2]
      /\ b[1] \in Int /\ b[2] \in Nat \ {0}
  BY Parts DEF Over, Valued
<1> DEFINE c == <<-b[1], b[2]>>
<1>2. c \in Finite /\ c[1] = -b[1] /\ c[2] = b[2]
  BY <1>1 DEF Finite
<1>3. (-b[1]) * D = (-m) * b[2]
  BY <1>1
<1>4. a -- b = a ++ c
  BY DEF --
<1> HIDE DEF c
<1>5. Over(c, -m, D)
  BY <1>1, <1>2, <1>3 DEF Over, Valued
<1>6. Over(a ++ c, n + (-m), D)
  BY <1>5, OverPlus
<1>7. n + (-m) = n - m
  BY <1>1
<1> QED BY <1>4, <1>6, <1>7

(* Products.                                                               *)
LEMMA OverTimes ==
  ASSUME NEW a, NEW b, NEW n, NEW m, NEW D, NEW E, Over(a, n, D), Over(b, m, E)
  PROVE  Over(a ** b, n * m, D * E)
<1>1. /\ n \in Int /\ m \in Int /\ D \in Nat \ {0} /\ E \in Nat \ {0} /\ a \in Finite /\ b \in Finite
      /\ Valued(a, n, D) /\ Valued(b, m, E)
  BY DEF Over, Valued
<1> DEFINE i == a[1]
           j == a[2]
           k == b[1]
           l == b[2]
           x == a ** b
           p == x[1]
           q == x[2]
<1>2. i \in Int /\ j \in Nat \ {0} /\ k \in Int /\ l \in Nat \ {0}
  BY <1>1, Parts
<1>3. x \in Finite /\ p * (j * l) = (i * k) * q
  BY <1>1, ProductValued DEF Valued
<1>4. p \in Int /\ q \in Nat \ {0}
  BY <1>3, Parts
<1>5. i * D = n * j /\ k * E = m * l
  BY <1>1 DEF Valued
<1> HIDE DEF i, j, k, l, x, p, q
<1>6. (p * (D * E)) * (j * l) = (p * (j * l)) * (D * E)
  BY <1>1, <1>2, <1>4
<1>7. ((i * k) * q) * (D * E) = ((i * D) * (k * E)) * q
  BY <1>1, <1>2, <1>4
<1>8. ((n * j) * (m * l)) * q = ((n * m) * q) * (j * l)
  BY <1>1, <1>2, <1>4
<1>9. (p * (D * E)) * (j * l) = ((n * m) * q) * (j * l)
  BY <1>3, <1>5, <1>6, <1>7, <1>8
<1>10. p * (D * E) \in Int /\ (n * m) * q \in Int /\ j * l \in Nat \ {0}
  BY <1>1, <1>2, <1>4
<1>11. p * (D * E) = (n * m) * q
  BY <1>9, <1>10, Scaled
<1>12. n * m \in Int /\ D * E \in Nat \ {0}
  BY <1>1
<1> QED BY <1>3, <1>11, <1>12 DEF Over, Valued, x, p, q

-----------------------------------------------------------------------------
(* What rises with what.                                                   *)

Rises(a, b) == a \in NonNegative /\ b \in NonNegative /\ a \preceq b

(* The sign of a number is that of its numerator, and it is at most One if *)
(* that is at most the denominator.                                        *)
LEMMA OverSign ==
  ASSUME NEW a, NEW n, NEW D, Over(a, n, D)
  PROVE  /\ a \in NonNegative <=> n >= 0
         /\ a \in Positive <=> n > 0
         /\ a \preceq One <=> n <= D
         /\ n \in Int /\ D \in Nat \ {0} /\ a \in Finite
<1>1. n \in Int /\ D \in Nat \ {0}
  BY DEF Over
<1>2. Zero[1] * D = 0 * Zero[2] /\ One[1] * D = D * One[2]
  BY <1>1, ZeroOne
<1>3. Over(Zero, 0, D) /\ Over(One, D, D)
  BY <1>1, <1>2, ZeroOne DEF Over, Valued
<1>4. /\ a \in Finite
      /\ Zero \preceq a <=> 0 <= n
      /\ Zero \prec a <=> 0 < n
      /\ a \preceq One <=> n <= D
  BY <1>3, OverOrder
<1> QED BY <1>1, <1>4 DEF NonNegative, Positive

(* Two numbers that rise, over a common denominator.                       *)
LEMMA RisesOver ==
  ASSUME NEW a, NEW b, NEW i, NEW j, NEW D, Over(a, i, D), Over(b, j, D)
  PROVE  Rises(a, b) <=> 0 <= i /\ i <= j
<1>1. i \in Int /\ j \in Int
  BY DEF Over
<1>2. /\ a \in NonNegative <=> i >= 0
      /\ b \in NonNegative <=> j >= 0
      /\ a \preceq b <=> i <= j
  BY OverSign, OverOrder
<1> QED BY <1>1, <1>2 DEF Rises

LEMMA RisesTyped ==
  ASSUME NEW a, NEW b, Rises(a, b)
  PROVE  a \in Finite /\ b \in Finite
  BY DEF Rises, NonNegative

(* A constant rises.                                                       *)
LEMMA RisesConstant ==
  ASSUME NEW a \in NonNegative
  PROVE  Rises(a, a) /\ a \in Finite
<1>1. a \in Finite /\ a \in Rational
  BY Parts DEF NonNegative
<1> QED BY <1>1, OrderTotal DEF Rises

(* Sums.                                                                   *)
LEMMA RisesPlus ==
  ASSUME NEW a, NEW b, NEW c, NEW d, Rises(a, b), Rises(c, d)
  PROVE  Rises(a ++ c, b ++ d)
<1>1. a \in Finite /\ b \in Finite /\ c \in Finite /\ d \in Finite
  BY RisesTyped
<1>2. PICK D, i, j, k, l : Over(a, i, D) /\ Over(b, j, D) /\ Over(c, k, D) /\ Over(d, l, D)
  BY <1>1, CommonDenominator
<1>3. i \in Int /\ j \in Int /\ k \in Int /\ l \in Int
  BY <1>2 DEF Over
<1>4. 0 <= i /\ i <= j /\ 0 <= k /\ k <= l
  BY <1>2, RisesOver
<1>5. Over(a ++ c, i + k, D) /\ Over(b ++ d, j + l, D)
  BY <1>2, OverPlus
<1>6. 0 <= i + k /\ i + k <= j + l
  BY <1>3, <1>4
<1> QED BY <1>5, <1>6, RisesOver

(* Products with what is not negative.                                     *)
LEMMA RisesTimes ==
  ASSUME NEW a, NEW b, NEW c \in NonNegative, Rises(a, b)
  PROVE  Rises(a ** c, b ** c) /\ Rises(c ** a, c ** b)
<1>1. a \in Finite /\ b \in Finite /\ c \in Finite
  BY RisesTyped DEF NonNegative
<1>2. PICK D, i, j, k, l : Over(a, i, D) /\ Over(b, j, D) /\ Over(c, k, D) /\ Over(c, l, D)
  BY <1>1, CommonDenominator
<1>3. i \in Int /\ j \in Int /\ k \in Int /\ D \in Nat \ {0}
  BY <1>2 DEF Over
<1>4. 0 <= i /\ i <= j
  BY <1>2, RisesOver
<1>5. 0 <= k
  BY <1>2, OverSign
<1>6. /\ Over(a ** c, i * k, D * D) /\ Over(b ** c, j * k, D * D)
      /\ Over(c ** a, k * i, D * D) /\ Over(c ** b, k * j, D * D)
  BY <1>2, OverTimes
<1>7. 0 <= i * k /\ i * k <= j * k
  <2>1. CASE k = 0
    BY <1>3, <2>1
  <2>2. CASE k # 0
    <3>1. k \in Nat \ {0}
      BY <1>3, <1>5, <2>2
    <3>2. i * k <= j * k
      BY <1>3, <1>4, <3>1, Scaled
    <3>3. 0 <= i * k
      BY <1>3, <1>4, <1>5
    <3> QED BY <3>2, <3>3
  <2> QED BY <2>1, <2>2
<1>8. k * i = i * k /\ k * j = j * k
  BY <1>3
<1>9. Rises(a ** c, b ** c)
  BY <1>6, <1>7, RisesOver
<1>10. Rises(c ** a, c ** b)
  BY <1>6, <1>7, <1>8, RisesOver
<1> QED BY <1>9, <1>10

(* Quotients.                                                              *)
LEMMA RisesQuotient ==
  ASSUME NEW a, NEW b, NEW c \in Positive, Rises(a, b)
  PROVE  Rises(a // c, b // c)
<1>1. c \in Finite /\ c[1] > 0 /\ c[1] \in Int /\ c[2] \in Nat \ {0}
  BY Parts, PositiveIs DEF Positive
<1> DEFINE r == <<c[2], c[1]>>
<1>2. r \in Finite /\ r[1] = c[2]
  BY <1>1 DEF Finite
<1>3. a // c = a ** r /\ b // c = b ** r
  BY DEF //
<1> HIDE DEF r
<1>4. r[1] >= 0
  BY <1>1, <1>2
<1>5. r \in NonNegative
  BY <1>2, <1>4, PositiveIs DEF NonNegative
<1> QED BY <1>3, <1>5, RisesTimes

LEMMA ZeroNonNegative == Zero \in NonNegative /\ One \in NonNegative /\ Q(2) \in Positive
                         /\ Q(4) \in NonNegative
<1>1. Q(2) \in Finite /\ Q(2)[1] = 2 /\ Q(4) \in Finite /\ Q(4)[1] = 4
  BY DEF Q, Finite
<1> QED BY <1>1, ZeroOne, PositiveIs DEF NonNegative, Positive

LEMMA PositiveNonNegative == \A a \in Positive : a \in NonNegative
<1> SUFFICES ASSUME NEW a \in Positive PROVE a \in NonNegative
  OBVIOUS
<1>1. a \in Finite /\ a[1] > 0 /\ a[1] \in Int
  BY PositiveIs, Parts DEF Positive
<1>2. a[1] >= 0
  BY <1>1
<1> QED BY <1>1, <1>2, PositiveIs DEF NonNegative

(* The quotient that is 0 where the divisor is.                            *)
LEMMA RisesOrZero ==
  ASSUME NEW a, NEW b, NEW c \in NonNegative, Rises(a, b)
  PROVE  Rises(OverOrZero(a, c), OverOrZero(b, c))
<1>1. CASE Zero \prec c
  <2>1. c \in Positive
    BY <1>1 DEF Positive, NonNegative
  <2> QED BY <1>1, <2>1, RisesQuotient DEF OverOrZero
<1>2. CASE ~(Zero \prec c)
  BY <1>2, ZeroNonNegative, RisesConstant DEF OverOrZero
<1> QED BY <1>1, <1>2

(* The larger of two, and the smaller over a common denominator.           *)
LEMMA RisesMax ==
  ASSUME NEW a, NEW b, NEW c, NEW d, Rises(a, b), Rises(c, d)
  PROVE  Rises(a \sqcup c, b \sqcup d)
<1>1. /\ a \in Rational /\ b \in Rational /\ c \in Rational /\ d \in Rational
      /\ a \preceq b /\ c \preceq d
      /\ a \in NonNegative /\ b \in NonNegative /\ c \in NonNegative /\ d \in NonNegative
  BY RisesTyped, Parts DEF Rises
<1>2. /\ a \sqcup c = IF c \preceq a THEN a ELSE c
      /\ b \sqcup d = IF d \preceq b THEN b ELSE d
  BY DEF \sqcup, \prec
<1>3. a \sqcup c \preceq b \sqcup d
  <2>1. CASE c \preceq a /\ d \preceq b
    BY <1>1, <1>2, <2>1
  <2>2. CASE ~(c \preceq a) /\ ~(d \preceq b)
    BY <1>1, <1>2, <2>2
  <2>3. CASE c \preceq a /\ ~(d \preceq b)
    <3>1. b \preceq d
      BY <1>1, <2>3, OrderTotal
    <3>2. a \preceq d
      BY <1>1, <3>1, OrderTrans
    <3> QED BY <1>2, <2>3, <3>2
  <2>4. CASE ~(c \preceq a) /\ d \preceq b
    <3>1. c \preceq b
      BY <1>1, <2>4, OrderTrans
    <3> QED BY <1>2, <2>4, <3>1
  <2> QED BY <2>1, <2>2, <2>3, <2>4
<1> QED BY <1>1, <1>2, <1>3 DEF Rises

Least(i, j) == IF j < i THEN j ELSE i
LEMMA OverMin ==
  ASSUME NEW a, NEW b, NEW i, NEW j, NEW D, Over(a, i, D), Over(b, j, D)
  PROVE  Over(a \sqcap b, Least(i, j), D)
<1>1. i \in Int /\ j \in Int
  BY DEF Over
<1>2. b \prec a <=> j < i
  BY OverOrder
<1> QED BY <1>1, <1>2 DEF \sqcap, Least

(* What two resources take, over a common denominator.                     *)
LEMMA OverCombine ==
  ASSUME NEW a, NEW b, NEW o, NEW i, NEW j, NEW u, NEW D, NEW E,
         Over(a, i, D), Over(b, j, D), Over(o, u, E)
  PROVE  Over(combine(a, b, o), (i + j) * E - u * Least(i, j), D * E)
<1>1. i \in Int /\ j \in Int /\ D \in Nat \ {0} /\ u \in Int /\ E \in Nat \ {0}
  BY DEF Over
<1>2. Over(a ++ b, i + j, D)
  BY OverPlus
<1>3. Over(a ++ b, (i + j) * E, D * E)
  <2>1. i + j \in Int
    BY <1>1
  <2> QED BY <1>1, <1>2, <2>1, Widened DEF Over
<1> DEFINE m == Least(i, j)
           n == a \sqcap b
<1>4. Over(n, m, D)
  BY OverMin
<1> HIDE DEF m, n
<1>5. Over(o ** n, u * m, E * D)
  BY <1>4, OverTimes
<1>6. E * D = D * E
  BY <1>1
<1>7. Over((a ++ b) -- (o ** n), (i + j) * E - u * m, D * E)
  BY <1>3, <1>5, <1>6, OverMinus
<1> QED BY <1>7 DEF combine, m, n

(* More of either takes no less.                                           *)
LEMMA RisesCombine ==
  ASSUME NEW a, NEW b, NEW c, NEW d, Rises(a, b), Rises(c, d), NEW o \in Share
  PROVE  Rises(combine(a, c, o), combine(b, d, o))
<1>1. a \in Finite /\ b \in Finite /\ c \in Finite /\ d \in Finite
  BY RisesTyped
<1>2. PICK D, i, j, k, l : Over(a, i, D) /\ Over(b, j, D) /\ Over(c, k, D) /\ Over(d, l, D)
  BY <1>1, CommonDenominator
<1>3. i \in Int /\ j \in Int /\ k \in Int /\ l \in Int
  BY <1>2 DEF Over
<1>4. 0 <= i /\ i <= j /\ 0 <= k /\ k <= l
  BY <1>2, RisesOver
<1>5. PICK u, E : Over(o, u, E)
  <2>1. o \in Finite
    BY DEF Share, NonNegative
  <2> QED BY <2>1, OwnValue DEF Over
<1>6. u \in Int /\ E \in Nat \ {0} /\ 0 <= u /\ u <= E
  BY <1>5, OverSign DEF Share
<1> DEFINE m == Least(i, k)
           n == Least(j, l)
           p == (i + k) - m
           q == (j + l) - n
           w == E - u
<1>7. /\ m \in Int /\ n \in Int /\ p \in Int /\ q \in Int /\ w \in Int
      /\ 0 <= m /\ m <= n /\ 0 <= p /\ p <= q /\ 0 <= w
      /\ i + k = p + m /\ j + l = q + n /\ u = E - w
  BY <1>3, <1>4, <1>6 DEF Least
<1>8. Over(combine(a, c, o), (i + k) * E - u * m, D * E)
  BY <1>2, <1>5, OverCombine
<1>9. Over(combine(b, d, o), (j + l) * E - u * n, D * E)
  BY <1>2, <1>5, OverCombine
<1> HIDE DEF m, n, p, q, w
<1>10. /\ (i + k) * E - u * m = p * E + m * w
       /\ (j + l) * E - u * n = q * E + n * w
  <2>1. /\ (p + m) * E - (E - w) * m = p * E + m * w
        /\ (q + n) * E - (E - w) * n = q * E + n * w
    BY <1>6, <1>7
  <2> QED BY <1>7, <2>1
<1>11. 0 <= p * E /\ p * E <= q * E
  <2>1. p * E <= q * E
    BY <1>6, <1>7, Scaled
  <2>2. 0 <= p * E
    BY <1>6, <1>7
  <2> QED BY <2>1, <2>2
<1>12. 0 <= m * w /\ m * w <= n * w
  <2>1. CASE w = 0
    BY <1>7, <2>1
  <2>2. CASE w # 0
    <3>1. w \in Nat \ {0}
      BY <1>7, <2>2
    <3>2. m * w <= n * w
      BY <1>7, <3>1, Scaled
    <3>3. 0 <= m * w
      BY <1>7
    <3> QED BY <3>2, <3>3
  <2> QED BY <2>1, <2>2
<1> DEFINE x == p * E
           y == q * E
           z == m * w
           v == n * w
<1>13. x \in Int /\ y \in Int /\ z \in Int /\ v \in Int /\ 0 <= x /\ x <= y /\ 0 <= z /\ z <= v
  BY <1>6, <1>7, <1>11, <1>12
<1>14. Over(combine(a, c, o), x + z, D * E) /\ Over(combine(b, d, o), y + v, D * E)
  BY <1>8, <1>9, <1>10
<1> HIDE DEF x, y, z, v
<1>15. 0 <= x + z /\ x + z <= y + v
  BY <1>13
<1> QED BY <1>14, <1>15, RisesOver

(* What f leaves.                                                          *)
LEMMA RestNonNegative ==
  ASSUME NEW f \in Share
  PROVE  One -- f \in NonNegative
<1>1. PICK u, E : Over(f, u, E)
  <2>1. f \in Finite
    BY DEF Share, NonNegative
  <2> QED BY <2>1, OwnValue DEF Over
<1>2. u \in Int /\ E \in Nat \ {0} /\ u <= E
  BY <1>1, OverSign DEF Share
<1>3. One[1] * E = E * One[2]
  BY <1>2, ZeroOne
<1>4. Over(One, E, E)
  BY <1>2, <1>3, ZeroOne DEF Over, Valued
<1>5. Over(One -- f, E - u, E)
  BY <1>1, <1>4, OverMinus
<1>6. E - u >= 0
  BY <1>2
<1> QED BY <1>5, <1>6, OverSign

-----------------------------------------------------------------------------
(* A decode step takes longer for a larger batch.                          *)

(* What a constant multiplies, from either side, and what a positive one   *)
(* divides.                                                                *)
LEMMA NonNegativeTimes ==
  ASSUME NEW a \in NonNegative, NEW b \in NonNegative
  PROVE  a ** b \in NonNegative
<1>1. Rises(a, a)
  BY RisesConstant
<1> QED BY <1>1, RisesTimes DEF Rises

(* The parts of a model that the step uses are not negative.               *)
LEMMA ModelTyped ==
  ASSUME NEW S, NEW x, NEW s, StepTyped(S, x, s)
  PROVE  /\ kv_elems(S, x.model) \in NonNegative /\ kv_size(S, x.model) \in NonNegative
         /\ d_attn(x.model) \in NonNegative /\ d_io(x.model) \in NonNegative
         /\ \A B : weight_read_bytes(x.model, B) = x.model.p_act ** x.model.q_weight
         /\ x.model.p_act ** x.model.q_weight \in NonNegative
         /\ bw_c2c_oneway(x.hw) \in Positive
<1>1. Q(2) \in NonNegative /\ Q(4) \in NonNegative /\ Q(2) \in Positive
  BY ZeroNonNegative, PositiveNonNegative
<1>2. x.model.n_kv_heads \in NonNegative /\ x.model.mla_kv_dim \in NonNegative
      /\ x.model.layers \in NonNegative /\ x.model.n_heads \in NonNegative
      /\ x.model.head_dim \in NonNegative /\ x.model.q_kv \in NonNegative
      /\ x.model.kv_compress \in NonNegative /\ S \in NonNegative
      /\ x.model.p_act \in NonNegative /\ x.model.q_weight \in NonNegative
  BY DEF StepTyped
<1>3. d_kv(x.model) \in NonNegative
  BY <1>1, <1>2, NonNegativeTimes DEF d_kv
<1>4. kv_elems(S, x.model) \in NonNegative
  BY <1>2, <1>3, NonNegativeTimes DEF kv_elems
<1>5. kv_size(S, x.model) \in NonNegative
  BY <1>2, <1>4, NonNegativeTimes DEF kv_size
<1>6. d_attn(x.model) \in NonNegative /\ d_io(x.model) \in NonNegative
  BY <1>1, <1>2, NonNegativeTimes DEF d_attn, d_io
<1>7. \A B : weight_read_bytes(x.model, B) = x.model.p_act ** x.model.q_weight
  BY DEF weight_read_bytes, StepTyped
<1>8. bw_c2c_oneway(x.hw) \in Positive
  <2>1. x.hw.bw_c2c \in Positive
    BY DEF StepTyped
  <2>2. x.hw.bw_c2c \in Finite /\ x.hw.bw_c2c[1] > 0 /\ Q(2) \in Finite /\ Q(2)[1] > 0
    BY <1>1, <2>1, PositiveIs DEF Positive
  <2> DEFINE b == x.hw.bw_c2c
             c == Q(2)
  <2>3. Valued(b // c, b[1] * c[2], b[2] * c[1])
    BY <2>2, QuotientValued
  <2>4. c[1] = 2 /\ c[2] = 1 /\ b[1] \in Int /\ b[2] \in Nat \ {0}
    BY <2>2, Parts DEF Q
  <2> HIDE DEF b, c
  <2>5. Over(b // c, b[1], b[2] * 2) /\ b[1] > 0
    <3>1. b[1] * c[2] = b[1] /\ b[2] * c[1] = b[2] * 2 /\ b[2] * 2 \in Nat \ {0}
      BY <2>4
    <3> QED BY <2>2, <2>3, <2>4, <3>1 DEF Over, b
  <2> QED BY <2>5, OverSign DEF bw_c2c_oneway, b, c
<1> QED BY <1>2, <1>4, <1>5, <1>6, <1>7, <1>8, NonNegativeTimes

(* What the GPU and the CPU do for a batch of A and for one of B.          *)
LEMMA GpuStepRises ==
  ASSUME NEW S, NEW x, NEW s, StepTyped(S, x, s), NEW A, NEW B, Rises(A, B)
  PROVE  /\ Rises(StepCompute(A, S, x, s), StepCompute(B, S, x, s))
         /\ Rises(StepHbm(A, S, x, s), StepHbm(B, S, x, s))
<1>1. /\ Q(2) \in NonNegative /\ x.model.p_act \in NonNegative
      /\ One -- s.f \in NonNegative /\ s.sparse \in NonNegative
      /\ x.model.layers \in NonNegative /\ S \in NonNegative
      /\ x.hw.f_gpu \in Positive /\ x.hw.bw_hbm \in Positive
  BY ZeroNonNegative, PositiveNonNegative, RestNonNegative DEF StepTyped
<1>2. /\ kv_size(S, x.model) \in NonNegative /\ d_attn(x.model) \in NonNegative
      /\ weight_read_bytes(x.model, A) \in NonNegative
      /\ weight_read_bytes(x.model, A) = weight_read_bytes(x.model, B)
  BY ModelTyped
<1>3. Rises(A ** Q(2) ** x.model.p_act, B ** Q(2) ** x.model.p_act)
  BY <1>1, RisesTimes
<1>4. Rises(A ** (One -- s.f) ** s.sparse, B ** (One -- s.f) ** s.sparse)
  BY <1>1, RisesTimes
<1>5. Rises(A ** (One -- s.f) ** s.sparse ** x.model.layers ** S ** d_attn(x.model),
            B ** (One -- s.f) ** s.sparse ** x.model.layers ** S ** d_attn(x.model))
  BY <1>1, <1>2, <1>4, RisesTimes
<1>6. Rises(StepCompute(A, S, x, s), StepCompute(B, S, x, s))
  BY <1>1, <1>3, <1>5, RisesPlus, RisesQuotient DEF StepCompute
<1>7. Rises(AttnBytes(A ** (One -- s.f) ** s.sparse, S, x.model),
            AttnBytes(B ** (One -- s.f) ** s.sparse, S, x.model))
  BY <1>2, <1>4, RisesTimes DEF AttnBytes
<1>8. Rises(weight_read_bytes(x.model, A), weight_read_bytes(x.model, B))
  BY <1>2, RisesConstant
<1> QED BY <1>1, <1>6, <1>7, <1>8, RisesPlus, RisesQuotient DEF StepHbm

LEMMA AwayRises ==
  ASSUME NEW S, NEW x, NEW s, StepTyped(S, x, s), NEW A, NEW B, Rises(A, B)
  PROVE  /\ Rises(CpuTime(A ** s.f ** s.sparse, S, x), CpuTime(B ** s.f ** s.sparse, S, x))
         /\ Rises(StepC2c(A, x, s), StepC2c(B, x, s))
<1>1. /\ Q(2) \in NonNegative /\ s.f \in NonNegative /\ s.sparse \in NonNegative
      /\ x.model.layers \in NonNegative /\ S \in NonNegative /\ x.model.q_act \in NonNegative
      /\ x.model.kv_decompress_flops \in NonNegative
      /\ x.hw.bw_cpu \in Positive /\ x.hw.f_cpu \in NonNegative /\ x.hw.t_sync \in NonNegative
      /\ x.coeffs.alpha \in NonNegative /\ x.coeffs.beta \in NonNegative
  BY ZeroNonNegative, PositiveNonNegative DEF StepTyped, Share
<1>2. /\ kv_size(S, x.model) \in NonNegative /\ d_attn(x.model) \in NonNegative
      /\ kv_elems(S, x.model) \in NonNegative /\ d_io(x.model) \in NonNegative
      /\ bw_c2c_oneway(x.hw) \in Positive
  BY ModelTyped
<1> DEFINE a == A ** s.f ** s.sparse
           b == B ** s.f ** s.sparse
<1>3. Rises(a, b)
  BY <1>1, RisesTimes
<1> HIDE DEF a, b
<1>4. Rises((x.coeffs.alpha ** AttnBytes(a, S, x.model)) // x.hw.bw_cpu,
            (x.coeffs.alpha ** AttnBytes(b, S, x.model)) // x.hw.bw_cpu)
  BY <1>1, <1>2, <1>3, RisesTimes, RisesQuotient DEF AttnBytes
<1>5. Rises(x.coeffs.beta ** a ** x.model.layers ** S ** d_attn(x.model),
            x.coeffs.beta ** b ** x.model.layers ** S ** d_attn(x.model))
  BY <1>1, <1>2, <1>3, RisesTimes
<1>6. Rises(a ** kv_elems(S, x.model) ** x.model.kv_decompress_flops,
            b ** kv_elems(S, x.model) ** x.model.kv_decompress_flops)
  BY <1>1, <1>2, <1>3, RisesTimes
<1>7. Rises(AttnFlops(a, x.coeffs.beta, S, x.model), AttnFlops(b, x.coeffs.beta, S, x.model))
  BY <1>5, <1>6, RisesPlus DEF AttnFlops
<1>8. Rises(CpuTime(a, S, x), CpuTime(b, S, x))
  BY <1>1, <1>4, <1>7, RisesOrZero, RisesMax DEF CpuTime
<1>9. Rises(A ** s.f ** x.model.layers ** Q(2) ** d_io(x.model) ** x.model.q_act,
            B ** s.f ** x.model.layers ** Q(2) ** d_io(x.model) ** x.model.q_act)
  BY <1>1, <1>2, RisesTimes
<1>10. Q(2) ** x.model.layers ** x.hw.t_sync \in NonNegative
  BY <1>1, NonNegativeTimes
<1>11. Rises(StepC2c(A, x, s), StepC2c(B, x, s))
  BY <1>2, <1>9, <1>10, RisesQuotient, RisesConstant, RisesPlus DEF StepC2c
<1> QED BY <1>8, <1>11 DEF a, b

(* The comment of _batch_slo_cap: "TPOT grows monotonically in B".         *)
LEMMA TpotRises ==
  ASSUME NEW S, NEW x, NEW s, StepTyped(S, x, s), NEW A, NEW B, Rises(A, B)
  PROVE  Rises(decode_tpot(A, S, x, s), decode_tpot(B, S, x, s))
<1> DEFINE Gpu(b) == combine(StepCompute(b, S, x, s), StepHbm(b, S, x, s), s.overlap)
           Away(b) == IF Zero \prec s.f THEN CpuTime(b ** s.f ** s.sparse, S, x) ++ StepC2c(b, x, s)
                      ELSE Zero
           merge == IF Zero \prec s.f THEN x.coeffs.t_merge ELSE Zero
<1>1. /\ s.overlap \in Share /\ x.coeffs.t_dispatch \in NonNegative
      /\ x.coeffs.t_merge \in NonNegative /\ Zero \in NonNegative
  BY ZeroNonNegative DEF StepTyped
<1>2. Rises(Gpu(A), Gpu(B))
  BY <1>1, GpuStepRises, RisesCombine
<1>3. Rises(Away(A), Away(B))
  <2>1. CASE Zero \prec s.f
    BY <2>1, AwayRises, RisesPlus
  <2>2. CASE ~(Zero \prec s.f)
    BY <1>1, <2>2, RisesConstant
  <2> QED BY <2>1, <2>2
<1>4. Rises(x.coeffs.t_dispatch, x.coeffs.t_dispatch) /\ Rises(merge, merge)
  BY <1>1, RisesConstant
<1>5. /\ decode_tpot(A, S, x, s) = combine(Gpu(A), Away(A), s.overlap) ++ x.coeffs.t_dispatch ++ merge
      /\ decode_tpot(B, S, x, s) = combine(Gpu(B), Away(B), s.overlap) ++ x.coeffs.t_dispatch ++ merge
  BY DEF decode_tpot
<1> HIDE DEF Gpu, Away, merge
<1>6. Rises(combine(Gpu(A), Away(A), s.overlap), combine(Gpu(B), Away(B), s.overlap))
  BY <1>1, <1>2, <1>3, RisesCombine
<1> QED BY <1>4, <1>5, <1>6, RisesPlus

(* What meets the SLO meets it with a smaller batch.                       *)
LEMMA SmallerMeets ==
  ASSUME NEW S, NEW x, NEW s, StepTyped(S, x, s), NEW A, NEW B, Rises(A, B),
         MeetsSlo(B, S, x, s)
  PROVE  MeetsSlo(A, S, x, s)
<1> DEFINE t == decode_tpot(A, S, x, s)
           u == decode_tpot(B, S, x, s)
           v == x.slo.slo_tpot
<1>1. Rises(t, u)
  BY TpotRises
<1>2. t \preceq u /\ u \preceq v /\ t \in Finite /\ u \in Finite /\ v \in Finite
  BY <1>1, RisesTyped DEF MeetsSlo, Rises, StepTyped
<1> HIDE DEF t, u, v
<1>3. t \preceq v
  BY <1>2, OrderTrans, Parts
<1> QED BY <1>3 DEF MeetsSlo, t, v

-----------------------------------------------------------------------------
(* Loops.                                                                  *)

(* g holds what n turns of f make of v, after each of them.                *)
TurnsIn(g, f, n, v) == g = [k \in 0..n |-> IF k = 0 THEN v ELSE f[g[k-1]]]

LEMMA TurnsExist ==
  ASSUME NEW D, NEW f \in [D -> D], NEW v \in D, NEW n \in Nat
  PROVE  \E g : TurnsIn(g, f, n, v) /\ g[n] = Turns(f, n, v) /\ \A k \in 0..n : g[k] \in D
<1> DEFINE G == [p \in D \X (1..n) |-> f[p[1]]]
<1>1. \A x \in D, k \in 1..n : G[<<x, k>>] = f[x] /\ G[<<x, k>>] \in D
  OBVIOUS
<1> HIDE DEF G
<1>2. PICK g : LoopIn(g, D, v, n, G)
  BY <1>1, LoopExists
<1>3. ASSUME NEW k \in 1..n PROVE G[<<g[k-1], k>>] = f[g[k-1]]
  <2>1. k - 1 \in 0..n
    OBVIOUS
  <2> QED BY <1>1, <1>2, <2>1 DEF LoopIn
<1>4. TurnsIn(g, f, n, v)
  <2>1. \A k \in 0..n : k # 0 => k \in 1..n
    OBVIOUS
  <2> QED BY <1>2, <1>3, <2>1 DEF LoopIn, TurnsIn
<1> DEFINE h == CHOOSE h : TurnsIn(h, f, n, v)
<1>5. TurnsIn(h, f, n, v)
  BY <1>4
<1>6. Turns(f, n, v) = h[n]
  BY DEF Turns, TurnsIn
<1> HIDE DEF h
<1>7. \A k \in 0..n : h[k] \in D
  <2> DEFINE S == {k \in 0..n : h[k] \in D}
  <2>1. 0 \in S
    BY <1>5 DEF TurnsIn
  <2>2. ASSUME NEW k \in 0..(n-1), k \in S PROVE k+1 \in S
    <3>1. k+1 \in 0..n /\ k+1 # 0 /\ (k+1)-1 = k
      OBVIOUS
    <3>2. h[k+1] = f[h[k]]
      BY <1>5, <3>1 DEF TurnsIn
    <3> QED BY <2>2, <3>1, <3>2
  <2>3. \A k \in 0..n : k \in S
    <3> HIDE DEF S
    <3> QED BY <2>1, <2>2, LoopInduction
  <2> QED BY <2>3
<1> QED BY <1>5, <1>6, <1>7

(* One turn more.                                                          *)
LEMMA OneTurn ==
  ASSUME NEW D, NEW f \in [D -> D], NEW v \in D
  PROVE  /\ Turns(f, 0, v) = v
         /\ \A n \in Nat : Turns(f, n, v) \in D /\ Turns(f, n+1, v) = f[Turns(f, n, v)]
<1>1. Turns(f, 0, v) = v
  <2>1. 0 \in Nat
    OBVIOUS
  <2>2. PICK g : TurnsIn(g, f, 0, v) /\ g[0] = Turns(f, 0, v)
    BY <2>1, TurnsExist
  <2> QED BY <2>2 DEF TurnsIn
<1>2. ASSUME NEW n \in Nat PROVE Turns(f, n, v) \in D /\ Turns(f, n+1, v) = f[Turns(f, n, v)]
  <2>1. n + 1 \in Nat
    OBVIOUS
  <2>2. PICK g : TurnsIn(g, f, n, v) /\ g[n] = Turns(f, n, v) /\ \A k \in 0..n : g[k] \in D
    BY TurnsExist
  <2>3. PICK h : TurnsIn(h, f, n+1, v) /\ h[n+1] = Turns(f, n+1, v)
    BY <2>1, TurnsExist
  <2> DEFINE S == {k \in 0..n : g[k] = h[k]}
  <2>4. 0 \in S
    BY <2>2, <2>3 DEF TurnsIn
  <2>5. ASSUME NEW k \in 0..(n-1), k \in S PROVE k+1 \in S
    <3>1. k+1 \in 0..n /\ k+1 \in 0..(n+1) /\ k+1 # 0 /\ (k+1)-1 = k
      OBVIOUS
    <3>2. g[k+1] = f[g[k]] /\ h[k+1] = f[h[k]]
      BY <2>2, <2>3, <3>1 DEF TurnsIn
    <3> QED BY <2>5, <3>1, <3>2
  <2>6. \A k \in 0..n : k \in S
    <3> HIDE DEF S
    <3> QED BY <2>4, <2>5, LoopInduction
  <2>7. g[n] = h[n]
    BY <2>6
  <2>8. h[n+1] = f[h[n]]
    <3>1. n+1 \in 0..(n+1) /\ n+1 # 0 /\ (n+1)-1 = n
      OBVIOUS
    <3> QED BY <2>3, <3>1 DEF TurnsIn
  <2>9. g[n] \in D
    BY <2>2
  <2> QED BY <2>2, <2>3, <2>7, <2>8, <2>9
<1> QED BY <1>1, <1>2

-----------------------------------------------------------------------------
(* The batch is doubled until it misses the SLO.                           *)

(* What has come of 1 after k turns.                                       *)
Doubled(h, k, S, x, s) ==
  /\ h \in Nat \ {0}
  /\ Misses(h, S, x, s) \/ k < h
  /\ h = 1 \/ \E g \in Nat \ {0} : h = 2 * g /\ ~Misses(g, S, x, s)

LEMMA DoubledNext ==
  ASSUME NEW S, NEW x, NEW s, NEW k \in Nat, NEW h \in Nat, Doubled(h, k, S, x, s)
  PROVE  Doubled(IF Misses(h, S, x, s) THEN h ELSE 2 * h, k+1, S, x, s)
<1>1. CASE Misses(h, S, x, s)
  BY <1>1 DEF Doubled
<1>2. CASE ~Misses(h, S, x, s)
  <2>1. h \in Nat \ {0} /\ k < h
    BY <1>2 DEF Doubled
  <2>2. 2 * h \in Nat \ {0} /\ k + 1 < 2 * h
    BY <2>1
  <2>3. \E g \in Nat \ {0} : 2 * h = 2 * g /\ ~Misses(g, S, x, s)
    BY <1>2, <2>1
  <2>4. Doubled(2 * h, k+1, S, x, s)
    BY <2>2, <2>3 DEF Doubled
  <2> QED BY <1>2, <2>4
<1> QED BY <1>1, <1>2

LEMMA FirstMissIs ==
  ASSUME NEW S, NEW x, NEW s
  PROVE  /\ FirstMiss(S, x, s) \in Nat \ {0}
         /\ Misses(FirstMiss(S, x, s), S, x, s)
         /\ \/ FirstMiss(S, x, s) = 1
            \/ \E g \in Nat \ {0} : FirstMiss(S, x, s) = 2 * g /\ ~Misses(g, S, x, s)
<1> DEFINE f == [hi \in Nat |-> IF Misses(hi, S, x, s) THEN hi ELSE 2 * hi]
           h(k) == Turns(f, k, 1)
           K == {k \in 0..BatchMax : Doubled(h(k), k, S, x, s)}
<1>1. f \in [Nat -> Nat] /\ 1 \in Nat /\ BatchMax \in Nat
  BY MixesAreTyped
<1>2. \A v \in Nat : f[v] = IF Misses(v, S, x, s) THEN v ELSE 2 * v
  OBVIOUS
<1>3. FirstMiss(S, x, s) = h(BatchMax)
  BY DEF FirstMiss
<1> HIDE DEF f
<1>4. h(0) = 1 /\ \A k \in Nat : h(k) \in Nat /\ h(k+1) = f[h(k)]
  <2> DEFINE D == Nat
             v == 1
  <2>1. f \in [D -> D] /\ v \in D
    BY <1>1
  <2> HIDE DEF D, v
  <2>2. Turns(f, 0, v) = v
        /\ \A n \in Nat : Turns(f, n, v) \in D /\ Turns(f, n+1, v) = f[Turns(f, n, v)]
    BY <2>1, OneTurn
  <2> QED BY <2>2 DEF D, v
<1> HIDE DEF h
<1>5. 0 \in K
  BY <1>1, <1>4 DEF Doubled
<1>6. ASSUME NEW k \in 0..(BatchMax-1), k \in K PROVE k+1 \in K
  <2>1. k \in Nat /\ k+1 \in 0..BatchMax
    BY <1>1
  <2>2. h(k) \in Nat /\ h(k+1) = IF Misses(h(k), S, x, s) THEN h(k) ELSE 2 * h(k)
    BY <1>2, <1>4, <2>1
  <2>3. Doubled(h(k), k, S, x, s)
    BY <1>6
  <2>4. Doubled(h(k+1), k+1, S, x, s)
    BY <2>1, <2>2, <2>3, DoubledNext
  <2> QED BY <2>1, <2>4
<1>7. BatchMax \in K
  <2> HIDE DEF K
  <2>1. \A k \in 0..BatchMax : k \in K
    BY <1>1, <1>5, <1>6, LoopInduction
  <2> QED BY <1>1, <2>1
<1>8. Doubled(h(BatchMax), BatchMax, S, x, s)
  BY <1>7
<1>9. Misses(h(BatchMax), S, x, s)
  BY <1>8 DEF Doubled, Misses
<1> QED BY <1>3, <1>8, <1>9 DEF Doubled

-----------------------------------------------------------------------------
(* The interval is halved until it is as small as the resolution.          *)

LEMMA OverHalf ==
  ASSUME NEW a, NEW n, NEW D, Over(a, n, D)
  PROVE  Over(a // Q(2), n, 2 * D)
<1> DEFINE half == <<1, 2>>
<1>1. half \in Finite /\ half[1] = 1 /\ half[2] = 2
  BY DEF Finite
<1>2. Over(half, 1, 2)
  BY <1>1, OwnValue DEF Over
<1>3. a // Q(2) = a ** half
  BY DEF //, Q
<1> HIDE DEF half
<1>4. Over(a ** half, n * 1, D * 2)
  BY <1>2, OverTimes
<1>5. n * 1 = n /\ D * 2 = 2 * D
  BY DEF Over
<1> QED BY <1>3, <1>4, <1>5

LEMMA OverWhole ==
  ASSUME NEW n \in Int
  PROVE  Over(Q(n), n, 1) /\ Q(n) \in Finite
<1>1. Q(n) \in Finite /\ Q(n)[1] = n /\ Q(n)[2] = 1
  BY DEF Q, Finite
<1> QED BY <1>1, OwnValue DEF Over

LEMMA WholeOrder ==
  ASSUME NEW n \in Nat, NEW m \in Nat
  PROVE  /\ Q(n) \preceq Q(m) <=> n <= m
         /\ Rises(Q(n), Q(m)) <=> n <= m
         /\ Q(n) = Q(m) <=> n = m
<1>1. Over(Q(n), n, 1) /\ Over(Q(m), m, 1)
  BY OverWhole
<1>2. Q(n) \preceq Q(m) <=> n <= m
  BY <1>1, OverOrder
<1>3. Rises(Q(n), Q(m)) <=> 0 <= n /\ n <= m
  BY <1>1, RisesOver
<1>4. Q(n)[1] = n /\ Q(m)[1] = m
  BY DEF Q
<1> QED BY <1>2, <1>3, <1>4

(* The interval between p and 2 * p after k halvings: a share r of p, which *)
(* is the resolution, is left of it.                                       *)
Between(c, p, r, S, x, s) ==
  \E w, m \in Nat \ {0} :
    /\ w <= m /\ Over(r, 1, w)
    /\ Over(c[1], p * m, w) /\ Over(c[2], p * (m + 1), w)
    /\ c[1] \in Finite /\ c[2] \in Finite
    /\ MeetsSlo(c[1], S, x, s) /\ ~MeetsSlo(c[2], S, x, s)

LEMMA BetweenNext ==
  ASSUME NEW S, NEW x, NEW s, NEW p \in Nat \ {0}, NEW r, NEW c \in Finite \X Finite,
         Between(c, p, r, S, x, s)
  PROVE  /\ Midpoint(c) \in Finite
         /\ Between(IF MeetsSlo(Midpoint(c), S, x, s) THEN <<Midpoint(c), c[2]>>
                    ELSE <<c[1], Midpoint(c)>>, p, r // Q(2), S, x, s)
<1>1. PICK w \in Nat \ {0}, m \in Nat \ {0} :
        /\ w <= m /\ Over(r, 1, w)
        /\ Over(c[1], p * m, w) /\ Over(c[2], p * (m + 1), w)
        /\ c[1] \in Finite /\ c[2] \in Finite
        /\ MeetsSlo(c[1], S, x, s) /\ ~MeetsSlo(c[2], S, x, s)
  BY DEF Between
<1> DEFINE lo == c[1]
           hi == c[2]
           mid == Midpoint(c)
<1>2. Over(lo ++ hi, p * m + p * (m + 1), w)
  BY <1>1, OverPlus
<1>3. p * m + p * (m + 1) = p * (2 * m + 1) /\ p * m * 2 = p * (2 * m)
      /\ p * (m + 1) * 2 = p * ((2 * m + 1) + 1)
  OBVIOUS
<1>4. Over(mid, p * (2 * m + 1), 2 * w)
  BY <1>2, <1>3, OverHalf DEF Midpoint
<1>5. Over(r // Q(2), 1, 2 * w)
  BY <1>1, OverHalf
<1>6. Over(lo, p * m * 2, w * 2) /\ Over(hi, p * (m + 1) * 2, w * 2)
  <2> DEFINE i == p * m
             j == p * (m + 1)
  <2>1. Over(lo, i, w) /\ Over(hi, j, w)
    BY <1>1
  <2> HIDE DEF i, j, lo, hi
  <2>2. Over(lo, i * 2, w * 2) /\ Over(hi, j * 2, w * 2)
    <3>1. Valued(lo, i, w) /\ Valued(hi, j, w) /\ i \in Int /\ j \in Int /\ 2 \in Nat \ {0}
      BY <2>1 DEF Over
    <3> QED BY <3>1, Widened DEF Over
  <2> QED BY <2>2 DEF i, j
<1>7. /\ Over(lo, p * (2 * m), 2 * w) /\ Over(hi, p * ((2 * m + 1) + 1), 2 * w)
      /\ mid \in Finite /\ lo \in Finite /\ hi \in Finite
  <2>1. w * 2 = 2 * w
    OBVIOUS
  <2>2. mid \in Finite
    BY <1>4 DEF Over, Valued
  <2> QED BY <1>1, <1>3, <1>6, <2>1, <2>2
<1>8. MeetsSlo(lo, S, x, s) /\ ~MeetsSlo(hi, S, x, s)
  BY <1>1
<1>9. 2 * w \in Nat \ {0} /\ 2 * m \in Nat \ {0} /\ 2 * m + 1 \in Nat \ {0}
      /\ 2 * w <= 2 * m /\ 2 * w <= 2 * m + 1
  BY <1>1
<1> DEFINE v == 2 * w
           even == 2 * m
           odd == 2 * m + 1
<1>10. even + 1 = odd
  OBVIOUS
<1> HIDE DEF lo, hi, mid, v, even, odd
<1>11. CASE MeetsSlo(mid, S, x, s)
  <2>1. Between(<<mid, hi>>, p, r // Q(2), S, x, s)
    BY <1>4, <1>5, <1>7, <1>8, <1>9, <1>11 DEF Between, v, odd
  <2> QED BY <1>7, <1>11, <2>1 DEF mid, hi
<1>12. CASE ~MeetsSlo(mid, S, x, s)
  <2>1. Between(<<lo, mid>>, p, r // Q(2), S, x, s)
    BY <1>4, <1>5, <1>7, <1>8, <1>9, <1>10, <1>12 DEF Between, v, even, odd
  <2> QED BY <1>7, <1>12, <2>1 DEF mid, lo
<1> QED BY <1>11, <1>12

(* All of the turns, of the bisection in SloBracket.                       *)
BisectedFrom(p, S, x, s) ==
  Turns([c \in Finite \X Finite |->
           IF MeetsSlo(Midpoint(c), S, x, s) THEN <<Midpoint(c), c[2]>>
           ELSE <<c[1], Midpoint(c)>>], SloBisections, <<Q(p), Q(2 * p)>>)

LEMMA BisectIs ==
  ASSUME NEW S, NEW x, NEW s, NEW p \in Nat \ {0},
         MeetsSlo(Q(p), S, x, s), ~MeetsSlo(Q(2 * p), S, x, s)
  PROVE  Between(BisectedFrom(p, S, x, s), p, Resolution, S, x, s)
<1> DEFINE I == Finite \X Finite
           b == <<Q(p), Q(2 * p)>>
           f == [c \in I |-> IF MeetsSlo(Midpoint(c), S, x, s) THEN <<Midpoint(c), c[2]>>
                             ELSE <<c[1], Midpoint(c)>>]
           g == [r \in Finite |-> r // Q(2)]
           n == SloBisections
           at(k) == Turns(f, k, b)
           res(k) == Turns(g, k, One)
           K == {k \in 0..n : Between(at(k), p, res(k), S, x, s)}
<1>1. BisectedFrom(p, S, x, s) = at(n)
  BY DEF BisectedFrom
<1>2. Resolution = res(n) /\ n \in Nat
  BY MixesAreTyped DEF Resolution
<1>3. f \in [I -> I]
  <2> SUFFICES ASSUME NEW c \in I
               PROVE (IF MeetsSlo(Midpoint(c), S, x, s) THEN <<Midpoint(c), c[2]>>
                      ELSE <<c[1], Midpoint(c)>>) \in I
    OBVIOUS
  <2>1. c[1] \in Finite /\ c[2] \in Finite
    OBVIOUS
  <2>2. Midpoint(c) \in Finite
    <3>1. Over(c[1], c[1][1], c[1][2]) /\ Over(c[2], c[2][1], c[2][2])
      BY <2>1, OwnValue DEF Over
    <3>2. \E D, i, j : Over(c[1], i, D) /\ Over(c[2], j, D)
      <4> DEFINE i == c[1][1] * c[2][2]
                 j == c[2][1] * c[1][2]
                 D == c[1][2] * c[2][2]
      <4>1. Over(c[1], i, D) /\ Over(c[2], j, D)
        BY <3>1, TwoOver
      <4> HIDE DEF i, j, D
      <4> QED BY <4>1
    <3>3. PICK D, i, j : Over(c[1], i, D) /\ Over(c[2], j, D)
      BY <3>2
    <3>4. Over(Midpoint(c), i + j, 2 * D)
      BY <3>3, OverPlus, OverHalf DEF Midpoint
    <3> QED BY <3>4 DEF Over, Valued
  <2> QED BY <2>1, <2>2
<1>4. g \in [Finite -> Finite]
  <2> SUFFICES ASSUME NEW r \in Finite PROVE r // Q(2) \in Finite
    OBVIOUS
  <2>1. Over(r, r[1], r[2])
    BY OwnValue DEF Over
  <2> QED BY <2>1, OverHalf DEF Over, Valued
<1>5. Over(Q(p), p, 1) /\ Over(Q(2 * p), 2 * p, 1) /\ Over(One, 1, 1)
      /\ Q(p) \in Finite /\ Q(2 * p) \in Finite /\ One \in Finite
  BY OverWhole DEF One
<1>6. b \in I /\ b[1] = Q(p) /\ b[2] = Q(2 * p)
  BY <1>5
<1>7. \A c \in I : f[c] = IF MeetsSlo(Midpoint(c), S, x, s) THEN <<Midpoint(c), c[2]>>
                          ELSE <<c[1], Midpoint(c)>>
  OBVIOUS
<1>8. \A r \in Finite : g[r] = r // Q(2)
  OBVIOUS
<1> HIDE DEF f, g, b, n
<1>9. /\ at(0) = b /\ \A k \in Nat : at(k) \in I /\ at(k+1) = f[at(k)]
      /\ res(0) = One /\ \A k \in Nat : res(k) \in Finite /\ res(k+1) = g[res(k)]
  <2> HIDE DEF I
  <2>1. /\ Turns(f, 0, b) = b
        /\ \A k \in Nat : Turns(f, k, b) \in I /\ Turns(f, k+1, b) = f[Turns(f, k, b)]
    BY <1>3, <1>6, OneTurn
  <2>2. /\ Turns(g, 0, One) = One
        /\ \A k \in Nat : Turns(g, k, One) \in Finite /\ Turns(g, k+1, One) = g[Turns(g, k, One)]
    <3> DEFINE D == Finite
    <3>1. g \in [D -> D] /\ One \in D
      BY <1>4, <1>5
    <3> HIDE DEF D
    <3>2. /\ Turns(g, 0, One) = One
          /\ \A k \in Nat : Turns(g, k, One) \in D /\ Turns(g, k+1, One) = g[Turns(g, k, One)]
      BY <3>1, OneTurn
    <3> QED BY <3>2 DEF D
  <2> QED BY <2>1, <2>2
<1> HIDE DEF at, res
<1>10. 0 \in K
  <2>1. p * 1 = p /\ p * (1 + 1) = 2 * p /\ 1 \in Nat \ {0} /\ 1 <= 1
    OBVIOUS
  <2> DEFINE w == 1
             j == p * w
             h == p * (w + 1)
  <2>2. /\ w \in Nat \ {0} /\ w <= w /\ Over(One, 1, w)
        /\ Over(b[1], p * w, w) /\ Over(b[2], p * (w + 1), w)
        /\ b[1] \in Finite /\ b[2] \in Finite
        /\ MeetsSlo(b[1], S, x, s) /\ ~MeetsSlo(b[2], S, x, s)
    BY <1>5, <1>6, <2>1
  <2> HIDE DEF w
  <2>3. Between(b, p, One, S, x, s)
    BY <2>2 DEF Between
  <2> QED BY <1>2, <1>9, <2>3
<1>11. ASSUME NEW k \in 0..(n-1), k \in K PROVE k+1 \in K
  <2>1. k \in Nat /\ k+1 \in 0..n
    BY <1>2
  <2>2. Between(at(k), p, res(k), S, x, s) /\ at(k) \in Finite \X Finite /\ res(k) \in Finite
    BY <1>9, <1>11, <2>1
  <2>3. at(k+1) = (IF MeetsSlo(Midpoint(at(k)), S, x, s) THEN <<Midpoint(at(k)), at(k)[2]>>
                   ELSE <<at(k)[1], Midpoint(at(k))>>)
        /\ res(k+1) = res(k) // Q(2)
    BY <1>7, <1>8, <1>9, <2>1, <2>2
  <2>4. Between(at(k+1), p, res(k+1), S, x, s)
    BY <2>2, <2>3, BetweenNext
  <2> QED BY <2>1, <2>4
<1>12. n \in K
  <2> HIDE DEF K
  <2>1. \A k \in 0..n : k \in K
    BY <1>2, <1>10, <1>11, LoopInduction
  <2> QED BY <1>2, <2>1
<1> QED BY <1>1, <1>2, <1>12 DEF n

(* What is left is within the resolution of the lower end.                 *)
LEMMA BetweenIsNear ==
  ASSUME NEW S, NEW x, NEW s, NEW p \in Nat \ {0}, NEW r, NEW c, Between(c, p, r, S, x, s)
  PROVE  c[2] \preceq c[1] ** (One ++ r) /\ c[1] ** (One ++ r) \in Finite
         /\ c[1] \in NonNegative /\ c[2] \in NonNegative
<1>1. PICK w \in Nat \ {0}, m \in Nat \ {0} :
        /\ w <= m /\ Over(r, 1, w)
        /\ Over(c[1], p * m, w) /\ Over(c[2], p * (m + 1), w)
  BY DEF Between
<1>2. Over(One, w, w)
  <2>1. One[1] * w = w * One[2] /\ w \in Int
    BY ZeroOne
  <2> QED BY <2>1, ZeroOne DEF Over, Valued
<1>3. Over(One ++ r, w + 1, w)
  BY <1>1, <1>2, OverPlus
<1>4. Over(c[1] ** (One ++ r), p * m * (w + 1), w * w)
  BY <1>1, <1>3, OverTimes
<1>5. Over(c[2], p * (m + 1) * w, w * w)
  <2> DEFINE j == p * (m + 1)
  <2>1. Over(c[2], j, w)
    BY <1>1
  <2> HIDE DEF j
  <2>2. Valued(c[2], j, w) /\ j \in Int /\ w \in Nat \ {0}
    BY <2>1 DEF Over
  <2>3. Over(c[2], j * w, w * w)
    BY <2>2, Widened DEF Over
  <2> QED BY <2>3 DEF j
<1>6. p * (m + 1) * w <= p * m * (w + 1)
  <2>1. p * (m + 1) * w = p * m * w + p * w /\ p * m * (w + 1) = p * m * w + p * m
    OBVIOUS
  <2>2. p * w <= p * m
    <3>1. w * p <= m * p
      BY <1>1, Scaled
    <3> QED BY <3>1
  <2>3. p * m * w \in Int /\ p * w \in Int /\ p * m \in Int
    OBVIOUS
  <2> QED BY <2>1, <2>2, <2>3
<1>7. c[2] \preceq c[1] ** (One ++ r) /\ c[1] ** (One ++ r) \in Finite
  <2> DEFINE i == p * (m + 1) * w
             j == p * m * (w + 1)
             v == w * w
             top == c[2]
             near == c[1] ** (One ++ r)
  <2>1. Over(top, i, v) /\ Over(near, j, v) /\ i <= j
    BY <1>4, <1>5, <1>6
  <2> HIDE DEF i, j, v, top, near
  <2>2. top \preceq near /\ near \in Finite
    BY <2>1, OverOrder
  <2> QED BY <2>2 DEF top, near
<1>8. p * m >= 0 /\ p * (m + 1) >= 0
  OBVIOUS
<1>9. c[1] \in NonNegative /\ c[2] \in NonNegative
  <2> DEFINE i == p * m
             j == p * (m + 1)
  <2>1. Over(c[1], i, w) /\ Over(c[2], j, w) /\ i >= 0 /\ j >= 0
    BY <1>1, <1>8
  <2> HIDE DEF i, j
  <2> QED BY <2>1, OverSign
<1> QED BY <1>7, <1>9

-----------------------------------------------------------------------------
(* The batch that is found.                                                *)

(* Whole batches below one that meets the SLO meet it.                     *)
LEMMA SmallerBatchMeets ==
  ASSUME NEW S, NEW x, NEW s, StepTyped(S, x, s),
         NEW n \in Nat, NEW m \in Nat, n <= m, MeetsSlo(Q(m), S, x, s)
  PROVE  MeetsSlo(Q(n), S, x, s)
BY WholeOrder, SmallerMeets

LEMMA CapIsLargest ==
  ASSUME NEW S, NEW x, NEW s, StepTyped(S, x, s)
  PROVE  IsLargest(batch_slo_cap(S, x, s), S, x, s)
<1> DEFINE top == FirstMiss(S, x, s)
           cap == batch_slo_cap(S, x, s)
<1>1. /\ top \in Nat \ {0} /\ Misses(top, S, x, s)
      /\ top = 1 \/ \E g \in Nat \ {0} : top = 2 * g /\ ~Misses(g, S, x, s)
  BY FirstMissIs
<1>2. BatchMax \in Nat \ {0}
  BY MixesAreTyped
<1>3. cap = SloBracket(top, S, x, s)[1]
  BY DEF batch_slo_cap
<1> HIDE DEF top
<1>4. CASE top = 1
  <2>1. cap = One
    BY <1>3, <1>4 DEF SloBracket
  <2>2. ~MeetsSlo(Q(1), S, x, s)
    BY <1>1, <1>2, <1>4 DEF Misses
  <2>3. ASSUME NEW n \in 1..BatchMax PROVE ~MeetsSlo(Q(n), S, x, s)
    BY <1>2, <2>2, SmallerBatchMeets
  <2>4. ~(One \prec One)
    BY ZeroOne, Parts, OrderTotal DEF \prec
  <2>5. CASE cap = Q(BatchMax)
    <3>1. BatchMax = 1
      BY <1>2, <2>1, <2>5, WholeOrder DEF One
    <3> QED BY <2>5, <3>1 DEF IsLargest
  <2>6. CASE cap # Q(BatchMax)
    BY <2>1, <2>3, <2>4, <2>6 DEF IsLargest
  <2> QED BY <2>5, <2>6
<1>5. CASE top # 1
  <2>1. PICK p \in Nat \ {0} : top = 2 * p /\ ~Misses(p, S, x, s)
    BY <1>1, <1>5
  <2>2. MeetsSlo(Q(p), S, x, s) /\ p <= BatchMax
    BY <1>2, <2>1 DEF Misses
  <2>3. CASE BatchMax < top
    <3>1. cap = Q(BatchMax)
      BY <1>3, <1>5, <2>3 DEF SloBracket
    <3>2. ASSUME NEW n \in 1..BatchMax, 2 * n <= BatchMax PROVE MeetsSlo(Q(n), S, x, s)
      <4>1. n <= p
        BY <1>2, <2>1, <2>3, <3>2
      <4> QED BY <2>2, <4>1, SmallerBatchMeets
    <3> QED BY <3>1, <3>2 DEF IsLargest
  <2>4. CASE top <= BatchMax
    <3>1. ~MeetsSlo(Q(2 * p), S, x, s)
      BY <1>1, <1>2, <2>1, <2>4 DEF Misses
    <3> DEFINE c == BisectedFrom(p, S, x, s)
               near == cap ** (One ++ Resolution)
    <3>2. Between(c, p, Resolution, S, x, s)
      BY <2>2, <3>1, BisectIs
    <3>3. top \div 2 = p
      <4>1. (p * 2) \div 2 = p
        BY DivExact
      <4>2. p * 2 = 2 * p
        OBVIOUS
      <4> QED BY <2>1, <4>1, <4>2
    <3>4. cap = c[1]
      <4>1. ~(top = 1) /\ ~(BatchMax < top)
        BY <1>1, <1>2, <1>5, <2>4
      <4>2. SloBracket(top, S, x, s) = c
        BY <2>1, <3>3, <4>1 DEF SloBracket, Bisect, BisectedFrom
      <4> QED BY <1>3, <4>2
    <3> HIDE DEF c, cap
    <3>5. MeetsSlo(cap, S, x, s) /\ ~MeetsSlo(c[2], S, x, s) /\ cap \in Finite /\ c[2] \in Finite
      BY <3>2, <3>4 DEF Between
    <3>6. c[2] \preceq near /\ near \in Finite /\ cap \in NonNegative /\ c[2] \in NonNegative
      BY <3>2, <3>4, BetweenIsNear
    <3> HIDE DEF near
    <3>7. ASSUME NEW n \in 1..BatchMax, near \prec Q(n) PROVE ~MeetsSlo(Q(n), S, x, s)
      <4>1. Q(n) \in Finite /\ near \preceq Q(n) /\ Over(Q(n), n, 1)
        <5>1. Q(n) \in Finite /\ Over(Q(n), n, 1)
          BY <1>2, OverWhole
        <5> QED BY <3>6, <3>7, <5>1, OrderTotal, Parts DEF \prec
      <4>2. c[2] \preceq Q(n)
        BY <3>5, <3>6, <4>1, OrderTrans, Parts
      <4>3. Q(n) \in NonNegative
        BY <1>2, <4>1, OverSign
      <4> QED BY <3>5, <3>6, <4>2, <4>3, SmallerMeets DEF Rises
    <3>8. cap # Q(BatchMax)
      <4> SUFFICES ASSUME cap = Q(BatchMax) PROVE FALSE
        OBVIOUS
      <4>1. MeetsSlo(Q(BatchMax), S, x, s)
        BY <3>5
      <4>2. BatchMax \in Nat /\ 2 * p \in Nat /\ 2 * p <= BatchMax
        BY <1>2, <2>1, <2>4
      <4> QED BY <3>1, <4>1, <4>2, SmallerBatchMeets
    <3>9. IsLargest(cap, S, x, s)
      BY <3>5, <3>7, <3>8 DEF IsLargest, near
    <3> QED BY <3>9 DEF cap
  <2> QED BY <1>1, <1>2, <2>3, <2>4
<1> QED BY <1>4, <1>5

(* Only Mix studies a mix.                                                 *)
OfMix(driver, in) == driver = "mix" => in \in Cases.mix
LEMMA RanOfMix ==
  ASSUME NEW driver, NEW in, NEW out, Ran(driver, in, out), OfMix(driver, in)
  PROVE  OfMix(study'.driver, study'.in)
<1>1. study'.driver = driver /\ study'.in = in
  BY DEF Ran
<1> QED BY <1>1

LEMMA StudyOfMix ==
  ASSUME StudyNext
  PROVE  OfMix(study'.driver, study'.in)
<1>1. CASE Sweep
  BY <1>1, RanOfMix DEF Sweep, OfMix
<1>2. CASE Optimize
  BY <1>2, RanOfMix DEF Optimize, OfMix
<1>3. CASE Mix
  BY <1>3, RanOfMix DEF Mix, OfMix
<1>4. CASE Offload
  BY <1>4, RanOfMix DEF Offload, OfMix
<1>5. CASE Overlap
  BY <1>5, RanOfMix DEF Overlap, OfMix
<1>6. CASE CpuDecode
  BY <1>6, RanOfMix DEF CpuDecode, OfMix
<1>7. CASE Split
  BY <1>7, RanOfMix DEF Split, OfMix
<1>8. CASE Contention
  BY <1>8, RanOfMix DEF Contention, OfMix
<1>9. CASE Ceiling
  BY <1>9, RanOfMix DEF Ceiling, OfMix
<1>10. CASE Deployments
  BY <1>10, RanOfMix DEF Deployments, OfMix
<1>11. CASE Calibration
  BY <1>11, RanOfMix DEF Calibration, OfMix
<1> QED BY <1>1, <1>2, <1>3, <1>4, <1>5, <1>6, <1>7, <1>8, <1>9, <1>10, <1>11 DEF StudyNext

(* The batch that limits a mix by its SLO is, up to the resolution of the  *)
(* bisection, the largest that meets it.                                   *)
THEOREM BatchIsLargest == ToolsSpec => []LargestWithinSlo
<1>1. ToolsInit => LargestWithinSlo
  <2> SUFFICES ASSUME ToolsInit PROVE LargestWithinSlo
    OBVIOUS
  <2>1. study.driver = "none"
    BY DEF ToolsInit, StudyInit, NoStudy
  <2> QED BY <2>1 DEF LargestWithinSlo, Study
<1>2. LargestWithinSlo /\ [ToolsNext]_toolVars => LargestWithinSlo'
  <2> SUFFICES ASSUME LargestWithinSlo, [ToolsNext]_toolVars PROVE LargestWithinSlo'
    OBVIOUS
  <2>1. CASE StudyRuns
    <3>1. study'.driver = "mix" => study'.in \in Cases.mix
      BY <2>1, StudyOfMix DEF StudyRuns, OfMix
    <3>2. \A c \in Cases.mix :
            LET S == AvgContext(Normalized(c.classes))
                x == WithCpus(c.x, c.s.cpus_per_gpu)
            IN  IsLargest(batch_slo_cap(S, x, c.s), S, x, c.s)
      BY MixesAreTyped, CapIsLargest
    <3> QED BY <3>1, <3>2 DEF LargestWithinSlo, Study
  <2>2. CASE UNCHANGED study
    BY <2>2 DEF LargestWithinSlo, Study
  <2>3. TraceRuns \/ ScenarioRuns \/ UNCHANGED toolVars => UNCHANGED study
    BY DEF TraceRuns, ScenarioRuns, toolVars
  <2> QED BY <2>1, <2>2, <2>3 DEF ToolsNext
<1> QED BY <1>1, <1>2, PTL DEF ToolsSpec

-----------------------------------------------------------------------------
(* Numbers in lowest terms, which are equal when their values are: the     *)
(* greatest common divisor is a combination of the two numbers.            *)

(* Lowest terms: a sum of multiples of both parts is 1.                    *)
Coprime(p, q) == \E u, v \in Int : u * p + v * q = 1
Combines(g, a, b) == \E u, v \in Int : g = u * a + v * b
Normal == {a \in Finite : Coprime(a[1], a[2])}

LEMMA CombineStep ==
  ASSUME NEW y \in Int, NEW k \in Int, NEW r \in Int, NEW g, Combines(g, y, r)
  PROVE  Combines(g, y * k + r, y)
<1>1. PICK u, v \in Int : g = u * y + v * r
  BY DEF Combines
<1> DEFINE w == u - v * k
           x == y * k + r
<1>2. w \in Int
  OBVIOUS
<1>3. v * (y * k + r) = (v * k) * y + v * r
  OBVIOUS
<1>4. (u - v * k) * y = u * y - (v * k) * y
  OBVIOUS
<1>5. g = v * x + w * y
  <2> DEFINE i == u * y
             j == (v * k) * y
             l == v * r
  <2>1. i \in Int /\ j \in Int /\ l \in Int
    OBVIOUS
  <2>2. v * x = j + l
    BY <1>3
  <2>3. w * y = i - j
    BY <1>4
  <2>4. g = i + l
    BY <1>1
  <2> HIDE DEF i, j, l, w
  <2> QED BY <2>1, <2>2, <2>3, <2>4
<1> HIDE DEF w
<1>6. x \in Int
  OBVIOUS
<1> QED BY <1>2, <1>5, <1>6 DEF Combines

(* Gcd is a sum of multiples of its arguments.                             *)
LEMMA GcdCombines ==
  ASSUME NEW a \in Int, NEW b \in Nat
  PROVE  Combines(Gcd[<<a, b>>], a, b)
<1> DEFINE Good(y) == \A x \in Int : Combines(Gcd[<<x, y>>], x, y)
           T == {y \in Nat : ~Good(y)}
<1>1. T = {}
  <2> SUFFICES ASSUME T # {} PROVE FALSE
    OBVIOUS
  <2>1. PICK y \in T : \A z \in T : y <= z
    <3> HIDE DEF Good
    <3> QED BY LeastNumber
  <2>2. PICK x \in Int : ~Combines(Gcd[<<x, y>>], x, y)
    OBVIOUS
  <2>3. y \in Nat /\ \A z \in Nat : z < y => Good(z)
    <3> HIDE DEF Good
    <3> QED BY <2>1
  <2> DEFINE g == Gcd[<<x, y>>]
  <2> HIDE DEF T, Good
  <2>4. CASE y = 0
    <3>1. g = x
      BY <2>2, <2>4, GcdDef
    <3>2. x = 1 * x + 0 * y
      BY <2>3
    <3> QED BY <2>2, <3>1, <3>2 DEF Combines, g
  <2>5. CASE y # 0
    <3> DEFINE r == x % y
               k == x \div y
    <3>1. r \in Nat /\ r < y /\ k \in Int /\ x = y * k + r
      BY <2>3, <2>5, DivMod
    <3>2. g = Gcd[<<y, r>>]
      BY <2>3, <2>5, GcdDef DEF g
    <3> HIDE DEF r, k
    <3>3. Combines(g, y, r)
      <4>1. Good(r)
        BY <2>3, <3>1
      <4> QED BY <2>3, <3>2, <4>1 DEF Good
    <3>4. Combines(g, x, y)
      <4> HIDE DEF g
      <4>1. Combines(g, y * k + r, y)
        <5>1. y \in Int /\ k \in Int /\ r \in Int
          BY <2>3, <3>1
        <5> QED BY <5>1, <3>3, CombineStep
      <4> QED BY <3>1, <4>1
    <3> QED BY <2>2, <3>4 DEF g
  <2> QED BY <2>4, <2>5
<1> HIDE DEF Good
<1>2. Good(b)
  BY <1>1
<1> QED BY <1>2 DEF Good

(* What is coprime to one factor after the other is so to their product.   *)
LEMMA CoprimeProduct ==
  ASSUME NEW p \in Int, NEW s \in Int, NEW q \in Int, Coprime(p, s), Coprime(p, q)
  PROVE  Coprime(p, s * q) /\ Coprime(s * q, p)
<1>1. PICK u, v \in Int : u * p + v * s = 1
  BY DEF Coprime
<1>2. PICK w, z \in Int : w * p + z * q = 1
  BY DEF Coprime
<1> DEFINE i == u * p
           j == v * s
           k == w * p
           l == z * q
           c == u * k + u * l + j * w
           d == v * z
<1>3. i \in Int /\ j \in Int /\ k \in Int /\ l \in Int /\ c \in Int /\ d \in Int
  OBVIOUS
<1>4. (i + j) * (k + l) = i * k + i * l + j * k + j * l
  BY <1>3
<1>5. (i + j) * (k + l) = 1
  <2> HIDE DEF i, j, k, l
  <2>1. i + j = 1 /\ k + l = 1
    BY <1>1, <1>2 DEF i, j, k, l
  <2> QED BY <2>1
<1>6. i * k = (u * k) * p /\ i * l = (u * l) * p /\ j * k = (j * w) * p
  BY <1>3
<1>7. j * l = d * (s * q)
  <2>1. (v * s) * (z * q) = (v * z) * (s * q)
    OBVIOUS
  <2> QED BY <2>1
<1>8. c * p = (u * k) * p + (u * l) * p + (j * w) * p
  <2> DEFINE e1 == u * k
             e2 == u * l
             e3 == j * w
  <2>1. e1 \in Int /\ e2 \in Int /\ e3 \in Int
    BY <1>3
  <2> HIDE DEF e1, e2, e3
  <2>2. (e1 + e2 + e3) * p = e1 * p + e2 * p + e3 * p
    BY <2>1
  <2> QED BY <2>2 DEF e1, e2, e3
<1>9. c * p + d * (s * q) = 1
  <2> DEFINE t1 == i * k
             t2 == i * l
             t3 == j * k
             t4 == j * l
             t5 == c * p
             t6 == d * (s * q)
  <2>1. t1 \in Int /\ t2 \in Int /\ t3 \in Int /\ t4 \in Int
    BY <1>3
  <2>2. t5 = t1 + t2 + t3
    BY <1>6, <1>8
  <2>3. t6 = t4
    BY <1>7
  <2>4. t1 + t2 + t3 + t4 = 1
    BY <1>4, <1>5
  <2> HIDE DEF t1, t2, t3, t4, t5, t6
  <2>5. t5 + t6 = 1
    BY <2>1, <2>2, <2>3, <2>4
  <2> QED BY <2>5 DEF t5, t6
<1> HIDE DEF c, d
<1>10. d * (s * q) + c * p = 1
  <2>1. c * p \in Int /\ d * (s * q) \in Int
    BY <1>3
  <2> QED BY <1>9, <2>1
<1> QED BY <1>3, <1>9, <1>10 DEF Coprime

(* and to the factor of a product.                                         *)
Product(x, p, g) == x = p * g
LEMMA CoprimeFactor ==
  ASSUME NEW x, NEW y, NEW p \in Int, NEW g \in Int, NEW q \in Int, NEW h \in Int,
         Product(x, p, g), Product(y, q, h), Coprime(x, y)
  PROVE  Coprime(p, q)
<1>1. PICK u, v \in Int : u * (p * g) + v * (q * h) = 1
  BY DEF Coprime, Product
<1>2. u * (p * g) = (u * g) * p /\ v * (q * h) = (v * h) * q
  OBVIOUS
<1>3. u * g \in Int /\ v * h \in Int
  OBVIOUS
<1>4. (u * g) * p + (v * h) * q = 1
  BY <1>1, <1>2
<1> QED BY <1>3, <1>4 DEF Coprime

(* Either way round.                                                       *)
LEMMA CoprimeSwap ==
  ASSUME NEW p \in Int, NEW q \in Int, Coprime(p, q)
  PROVE  Coprime(q, p)
<1>1. PICK u, v \in Int : u * p + v * q = 1
  BY DEF Coprime
<1>2. v * q + u * p = 1
  BY <1>1
<1> QED BY <1>2 DEF Coprime

(* Reduced is in lowest terms.                                             *)
LEMMA ReducedCoprime ==
  ASSUME NEW n \in Int, NEW d \in Nat \ {0}
  PROVE  \E g \in Nat \ {0}, p \in Int, q \in Nat \ {0} :
            Reduced(n, d) = <<p, q>> /\ n = p * g /\ d = q * g /\ Coprime(p, q)
<1> DEFINE g == Gcd[<<n, d>>]
<1>1. Cancels(n, d, g)
  BY GcdDivides
<1>2. Combines(g, n, d)
  BY GcdCombines
<1>3. g \in Nat \ {0}
  BY <1>1 DEF Cancels
<1>4. PICK p \in Int : n = p * g
  BY <1>1 DEF Cancels, Divides
<1>5. PICK q \in Int : d = q * g
  BY <1>1 DEF Cancels, Divides
<1>6. PICK u, v \in Int : g = u * n + v * d
  BY <1>2 DEF Combines
<1>7. Reduced(n, d) = <<n \div g, d \div g>>
  BY DEF Reduced, Divided
<1> HIDE DEF g
<1>8. n \div g = p /\ d \div g = q
  BY <1>3, <1>4, <1>5, DivExact
<1>9. q \in Nat \ {0}
  <2>1. q * g > 0 /\ g > 0 /\ g \in Int
    BY <1>3, <1>5
  <2> QED BY <1>5, <2>1
<1>10. u * p + v * q = 1
  <2> DEFINE x == u * p + v * q
  <2>1. x \in Int /\ g \in Int
    BY <1>3
  <2>2. (u * p + v * q) * g = u * (p * g) + v * (q * g)
    BY <2>1
  <2>3. x * g = 1 * g
    <3> DEFINE y == u * n + v * d
    <3>1. y = g
      BY <1>6
    <3>2. y = u * (p * g) + v * (q * g)
      BY <1>4, <1>5
    <3> HIDE DEF y
    <3> QED BY <2>1, <2>2, <3>1, <3>2
  <2> HIDE DEF x
  <2> DEFINE one == 1
  <2>4. one \in Int
    OBVIOUS
  <2> HIDE DEF one
  <2>5. x * g = one * g => x = one
    BY <1>3, <2>1, <2>4, Scaled
  <2> QED BY <2>3, <2>5 DEF one, x
<1>11. Coprime(p, q)
  BY <1>10 DEF Coprime
<1> QED BY <1>3, <1>4, <1>5, <1>7, <1>8, <1>9, <1>11

(* Products and quotients are in lowest terms,                             *)
LEMMA NormalTimes ==
  ASSUME NEW a \in Normal, NEW b \in Normal
  PROVE  a ** b \in Normal
<1>1. a[1] \in Int /\ a[2] \in Nat \ {0} /\ b[1] \in Int /\ b[2] \in Nat \ {0}
  BY Parts DEF Normal
<1>2. PICK g \in Nat \ {0}, p \in Int, s \in Nat \ {0} :
        Reduced(a[1], b[2]) = <<p, s>> /\ a[1] = p * g /\ b[2] = s * g /\ Coprime(p, s)
  BY <1>1, ReducedCoprime
<1>3. PICK h \in Nat \ {0}, r \in Int, q \in Nat \ {0} :
        Reduced(b[1], a[2]) = <<r, q>> /\ b[1] = r * h /\ a[2] = q * h /\ Coprime(r, q)
  BY <1>1, ReducedCoprime
<1>4. a ** b = <<p * r, s * q>>
  BY <1>2, <1>3 DEF **, Times
<1>5. Coprime(p, q)
  <2>1. Coprime(a[1], a[2])
    BY DEF Normal
  <2>2. Product(a[1], p, g) /\ Product(a[2], q, h)
    BY <1>2, <1>3 DEF Product
  <2> QED BY <1>1, <1>2, <1>3, <2>1, <2>2, CoprimeFactor
<1>6. Coprime(r, s)
  <2>1. Coprime(b[1], b[2])
    BY DEF Normal
  <2>2. Product(b[1], r, h) /\ Product(b[2], s, g)
    BY <1>2, <1>3 DEF Product
  <2> QED BY <1>1, <1>2, <1>3, <2>1, <2>2, CoprimeFactor
<1>7. Coprime(s * q, p)
  BY <1>2, <1>3, <1>5, CoprimeProduct
<1>8. Coprime(s * q, r)
  BY <1>2, <1>3, <1>6, CoprimeProduct
<1>9. Coprime(p * r, s * q)
  <2> DEFINE m == s * q
  <2>1. m \in Int
    OBVIOUS
  <2> HIDE DEF m
  <2>2. Coprime(m, p) /\ Coprime(m, r)
    BY <1>7, <1>8 DEF m
  <2>3. Coprime(p * r, m)
    BY <2>1, <2>2, CoprimeProduct
  <2> QED BY <2>3 DEF m
<1>10. p * r \in Int /\ s * q \in Nat \ {0}
  <2>1. s * q > 0
    OBVIOUS
  <2> QED BY <2>1
<1> QED BY <1>4, <1>9, <1>10 DEF Normal, Finite

LEMMA NormalQuotient ==
  ASSUME NEW a \in Normal, NEW b \in Normal, b[1] > 0
  PROVE  a // b \in Normal
<1>1. b[1] \in Int /\ b[2] \in Nat \ {0}
  BY Parts DEF Normal
<1> DEFINE c == <<b[2], b[1]>>
<1>2. c \in Finite
  BY <1>1 DEF Finite
<1>3. Coprime(b[1], b[2])
  BY DEF Normal
<1>4. Coprime(c[1], c[2])
  BY <1>1, <1>3, CoprimeSwap
<1>5. c \in Normal
  BY <1>2, <1>4 DEF Normal
<1>6. a // b = a ** c
  BY DEF //
<1> HIDE DEF c
<1> QED BY <1>5, <1>6, NormalTimes

(* sums,                                                                   *)
LEMMA NormalPlus ==
  ASSUME NEW a \in Finite, NEW b \in Finite
  PROVE  a ++ b \in Normal
<1>1. a[1] \in Int /\ a[2] \in Nat \ {0} /\ b[1] \in Int /\ b[2] \in Nat \ {0}
  BY Parts
<1> DEFINE g == Gcd[<<a[2], b[2]>>]
<1>2. Cancels(a[2], b[2], g)
  BY <1>1, GcdDivides
<1>3. g \in Nat \ {0}
  BY <1>2 DEF Cancels
<1>4. PICK i \in Int : a[2] = i * g
  BY <1>2 DEF Cancels, Divides
<1>5. PICK j \in Int : b[2] = j * g
  BY <1>2 DEF Cancels, Divides
<1> DEFINE n == a[1] * (b[2] \div g) + b[1] * (a[2] \div g)
           d == a[2] * (b[2] \div g)
<1>6. a ++ b = Reduced(n, d)
  BY DEF ++, Plus
<1> HIDE DEF g
<1>7. b[2] \div g = j /\ a[2] \div g = i
  BY <1>3, <1>4, <1>5, DivExact
<1>8. j > 0
  <2>1. j * g > 0 /\ g > 0
    BY <1>1, <1>3, <1>5
  <2> QED BY <1>5, <1>3, <2>1
<1>9. n \in Int /\ d \in Nat \ {0}
  <2>1. a[2] * j > 0 /\ a[2] * j \in Int
    BY <1>1, <1>8
  <2>2. a[1] * j + b[1] * i \in Int
    BY <1>1
  <2> QED BY <1>7, <2>1, <2>2
<1> HIDE DEF n, d
<1>10. PICK p \in Int, q \in Nat \ {0} : Reduced(n, d) = <<p, q>> /\ Coprime(p, q)
  BY <1>9, ReducedCoprime
<1> QED BY <1>6, <1>10 DEF Normal, Finite

(* and whole numbers.                                                      *)
LEMMA NormalWhole ==
  ASSUME NEW n \in Int
  PROVE  Q(n) \in Normal
<1>1. 0 * n + 1 * 1 = 1 /\ 0 \in Int /\ 1 \in Int
  OBVIOUS
<1>2. Coprime(n, 1)
  BY <1>1 DEF Coprime
<1> QED BY <1>2 DEF Normal, Finite, Q

(* q divides s, where p/q is in lowest terms and p * s a multiple of q.     *)
Crossed(p, q, r, s) == p * s = r * q
LEMMA DividesBy ==
  ASSUME NEW p \in Int, NEW q \in Nat \ {0}, NEW r \in Int, NEW s \in Nat \ {0},
         Crossed(p, q, r, s), Coprime(p, q)
  PROVE  q <= s
<1>1. PICK u, v \in Int : u * p + v * q = 1
  BY DEF Coprime
<1> DEFINE k == u * r + v * s
<1>2. k \in Int
  OBVIOUS
<1>3. u * (p * s) = (u * p) * s /\ u * (r * q) = (u * r) * q /\ (v * q) * s = (v * s) * q
  OBVIOUS
<1>4. (u * p) * s + (v * q) * s = s
  <2> DEFINE i == u * p
             j == v * q
  <2>1. i \in Int /\ j \in Int /\ i + j = 1
    BY <1>1
  <2> HIDE DEF i, j
  <2>2. i * s + j * s = (i + j) * s
    BY <2>1
  <2>3. i * s + j * s = s
    BY <2>1, <2>2
  <2> QED BY <2>3 DEF i, j
<1>5. s = k * q
  <2> DEFINE x == (u * r) * q
             y == (v * s) * q
             z == (u * p) * s
             w == (v * q) * s
  <2>1. k * q = x + y
    OBVIOUS
  <2>2. w = y
    BY <1>3
  <2>3. z = x
    <3>1. p * s = r * q
      BY DEF Crossed
    <3>2. u * (p * s) = u * (r * q)
      BY <3>1
    <3> QED BY <1>3, <3>2
  <2>4. z + w = s
    BY <1>4
  <2> HIDE DEF x, y, z, w, k
  <2> QED BY <2>1, <2>2, <2>3, <2>4
<1> HIDE DEF k
<1>6. k >= 1
  <2>1. k * q > 0
    BY <1>5
  <2> QED BY <1>2, <2>1
<1>7. k * q >= q
  <2> DEFINE j == k - 1
  <2>1. j \in Nat /\ k = j + 1
    BY <1>2, <1>6
  <2> HIDE DEF j
  <2>2. (j + 1) * q = j * q + q /\ j * q >= 0
    BY <2>1
  <2> QED BY <2>1, <2>2
<1> QED BY <1>5, <1>7

(* Numbers in lowest terms that have the same value are the same.          *)
LEMMA SameValue ==
  ASSUME NEW a \in Normal, NEW b \in Normal, NEW n, NEW D, Over(a, n, D), Over(b, n, D)
  PROVE  a = b
<1>1. /\ a[1] \in Int /\ a[2] \in Nat \ {0} /\ b[1] \in Int /\ b[2] \in Nat \ {0}
      /\ a = <<a[1], a[2]>> /\ b = <<b[1], b[2]>>
      /\ Coprime(a[1], a[2]) /\ Coprime(b[1], b[2])
  BY DEF Normal, Finite
<1> DEFINE p == a[1]
           q == a[2]
           r == b[1]
           s == b[2]
<1>2. p * D = n * q /\ r * D = n * s /\ n \in Int /\ D \in Nat \ {0}
  BY DEF Over, Valued
<1>3. p \in Int /\ q \in Nat \ {0} /\ r \in Int /\ s \in Nat \ {0}
  BY <1>1
<1>4. Coprime(p, q) /\ Coprime(r, s)
  BY <1>1
<1>5. a = <<p, q>> /\ b = <<r, s>>
  BY <1>1
<1> HIDE DEF p, q, r, s
<1>6. p * s = r * q
  <2> DEFINE x == p * s
             y == r * q
  <2>1. x \in Int /\ y \in Int
    BY <1>3
  <2>2. (p * s) * D = (p * D) * s /\ (r * q) * D = (r * D) * q
    BY <1>2, <1>3, Swapped
  <2>3. (n * q) * s = (n * s) * q
    BY <1>2, <1>3, Swapped
  <2>4. x * D = y * D
    BY <1>2, <2>2, <2>3
  <2> HIDE DEF x, y
  <2>5. x = y
    BY <1>2, <2>1, <2>4, Scaled
  <2> QED BY <2>5 DEF x, y
<1>7. q <= s
  <2>1. Crossed(p, q, r, s)
    BY <1>6 DEF Crossed
  <2> QED BY <1>3, <1>4, <2>1, DividesBy
<1>8. s <= q
  <2>1. Crossed(r, s, p, q)
    BY <1>6 DEF Crossed
  <2> QED BY <1>3, <1>4, <2>1, DividesBy
<1>9. q = s
  BY <1>3, <1>7, <1>8
<1>10. p = r
  <2>1. p * q = r * q
    BY <1>6, <1>9
  <2> QED BY <1>3, <2>1, Scaled
<1> QED BY <1>5, <1>9, <1>10

(* Laws of the numbers: those in lowest terms are compared by their value. *)
LEMMA OverQuotient ==
  ASSUME NEW a, NEW c, NEW n, NEW m, NEW D, NEW E, Over(a, n, D), Over(c, m, E), m > 0
  PROVE  Over(a // c, n * E, D * m)
<1> DEFINE k == <<c[2], c[1]>>
<1>1. /\ c \in Finite /\ c[1] * E = m * c[2] /\ m \in Nat \ {0} /\ E \in Nat \ {0}
      /\ c[1] \in Int /\ c[2] \in Nat \ {0}
  BY Parts DEF Over, Valued
<1>2. c[1] > 0
  <2>1. m * c[2] > 0
    BY <1>1
  <2>2. c[1] * E > 0
    BY <1>1, <2>1
  <2> QED BY <1>1, <2>2
<1>3. Over(k, E, m)
  <2>1. k \in Finite /\ k[1] = c[2] /\ k[2] = c[1]
    BY <1>1, <1>2 DEF Finite
  <2>2. c[2] * m = E * c[1]
    BY <1>1, Swapped
  <2> HIDE DEF k
  <2> QED BY <1>1, <2>1, <2>2 DEF Over, Valued
<1>4. a // c = a ** k
  BY DEF //
<1> HIDE DEF k
<1> QED BY <1>3, <1>4, OverTimes

LEMMA NormalFinite ==
  ASSUME NEW a \in Normal
  PROVE  a \in Finite /\ Over(a, a[1], a[2])
BY OwnValue DEF Normal, Over

(* Dividing a sum divides its parts.                                       *)
LEMMA Distributes ==
  ASSUME NEW a \in Normal, NEW b \in Normal, NEW c \in Normal, Zero \prec c
  PROVE  /\ (a ++ b) // c = (a // c) ++ (b // c)
         /\ a // c \in Normal /\ b // c \in Normal
<1>1. a \in Finite /\ b \in Finite /\ c \in Finite
  BY DEF Normal
<1>2. PICK D, i, j, k, l : Over(a, i, D) /\ Over(b, j, D) /\ Over(c, k, D) /\ Over(c, l, D)
  BY <1>1, CommonDenominator
<1>3. c[1] > 0
  BY <1>1, PositiveIs
<1>4. k > 0 /\ i \in Int /\ j \in Int /\ k \in Int /\ D \in Nat \ {0}
  BY <1>1, <1>2, OverSign DEF Positive
<1>5. Over((a ++ b) // c, (i + j) * D, D * k)
  <2>1. Over(a ++ b, i + j, D)
    BY <1>2, OverPlus
  <2> QED BY <1>2, <1>4, <2>1, OverQuotient
<1>6. Over((a // c) ++ (b // c), i * D + j * D, D * k)
  <2>1. Over(a // c, i * D, D * k) /\ Over(b // c, j * D, D * k)
    BY <1>2, <1>4, OverQuotient
  <2> QED BY <2>1, OverPlus
<1>7. (i + j) * D = i * D + j * D
  BY <1>4
<1>8. a // c \in Normal /\ b // c \in Normal
  BY <1>3, NormalQuotient
<1>9. a ++ b \in Normal /\ (a // c) ++ (b // c) \in Normal
  BY <1>1, <1>8, NormalPlus, NormalFinite
<1>10. (a ++ b) // c \in Normal
  BY <1>3, <1>9, NormalQuotient
<1> QED BY <1>5, <1>6, <1>7, <1>8, <1>9, <1>10, SameValue

(* Sums of sums in another order.                                          *)
LEMMA PlusOrder ==
  ASSUME NEW a \in Normal, NEW b \in Normal, NEW c \in Normal, NEW d \in Normal
  PROVE  (a ++ b) ++ (c ++ d) = (a ++ c) ++ (b ++ d)
<1>1. a \in Finite /\ b \in Finite /\ c \in Finite /\ d \in Finite
  BY DEF Normal
<1>2. PICK D, i, j, k, l : Over(a, i, D) /\ Over(b, j, D) /\ Over(c, k, D) /\ Over(d, l, D)
  BY <1>1, CommonDenominator
<1>3. Over((a ++ b) ++ (c ++ d), (i + j) + (k + l), D)
  BY <1>2, OverPlus
<1>4. Over((a ++ c) ++ (b ++ d), (i + k) + (j + l), D)
  BY <1>2, OverPlus
<1>5. (i + j) + (k + l) = (i + k) + (j + l)
  BY <1>2 DEF Over
<1>6. a ++ b \in Finite /\ c ++ d \in Finite /\ a ++ c \in Finite /\ b ++ d \in Finite
  BY <1>1, NormalPlus, NormalFinite
<1>7. (a ++ b) ++ (c ++ d) \in Normal /\ (a ++ c) ++ (b ++ d) \in Normal
  BY <1>6, NormalPlus
<1> QED BY <1>3, <1>4, <1>5, <1>7, SameValue

(* Zero adds nothing, and is shared without a rest.                        *)
LEMMA ZeroLaws ==
  /\ Zero \in Normal /\ Zero ++ Zero = Zero
  /\ \A c \in Normal : Zero \prec c => Zero // c = Zero
<1>1. Zero \in Normal /\ Zero = Q(0)
  BY NormalWhole DEF Zero
<1>2. Over(Zero, 0, 1)
  BY <1>1, OverWhole
<1>3. Zero ++ Zero = Zero
  <2>1. Over(Zero ++ Zero, 0 + 0, 1)
    BY <1>2, OverPlus
  <2>2. Zero ++ Zero \in Normal
    BY <1>1, NormalPlus, NormalFinite
  <2>3. 0 + 0 = 0
    OBVIOUS
  <2> QED BY <1>1, <1>2, <2>1, <2>2, <2>3, SameValue
<1>4. ASSUME NEW c \in Normal, Zero \prec c PROVE Zero // c = Zero
  <2>1. c \in Finite /\ c[1] > 0 /\ Over(c, c[1], c[2]) /\ c[1] \in Int /\ c[2] \in Nat \ {0}
    BY <1>4, NormalFinite, PositiveIs, Parts
  <2>2. Over(Zero // c, 0 * c[2], 1 * c[1])
    BY <1>2, <2>1, OverQuotient
  <2>3. Over(Zero, 0, 1 * c[1])
    <3>1. Zero \in Finite /\ Zero[1] = 0
      BY ZeroOne
    <3>2. 0 * (1 * c[1]) = 0 * Zero[2]
      BY <2>1, ZeroOne
    <3> QED BY <2>1, <3>1, <3>2 DEF Over, Valued
  <2>4. 0 * c[2] = 0
    BY <2>1
  <2>5. Zero // c \in Normal
    BY <1>1, <2>1, NormalQuotient
  <2> QED BY <1>1, <2>2, <2>3, <2>4, <2>5, SameValue
<1> QED BY <1>1, <1>3, <1>4

LEMMA PositiveQuotient ==
  ASSUME NEW a \in Normal, NEW c \in Normal, Zero \prec a, Zero \prec c
  PROVE  a // c \in Normal /\ Zero \prec a // c
<1>1. /\ a \in Finite /\ c \in Finite /\ a[1] > 0 /\ c[1] > 0 /\ Over(a, a[1], a[2])
      /\ Over(c, c[1], c[2]) /\ c[2] \in Nat \ {0} /\ a[1] \in Int /\ c[1] \in Int
      /\ a[2] \in Nat \ {0}
  BY NormalFinite, PositiveIs, Parts
<1>2. a // c \in Normal
  BY <1>1, NormalQuotient
<1>3. Over(a // c, a[1] * c[2], a[2] * c[1])
  BY <1>1, OverQuotient
<1>4. a[1] * c[2] > 0
  BY <1>1
<1> QED BY <1>2, <1>3, <1>4, OverSign DEF Positive

(* The number of which s over it, shared by n, is d: s over n over d.      *)
LEMMA Anchored ==
  ASSUME NEW s \in Normal, Zero \prec s, NEW n \in Nat \ {0}, NEW d \in Normal, Zero \prec d
  PROVE  (s // ((s // Q(n)) // d)) // Q(n) = d
<1> DEFINE t == s // Q(n)
           c == t // d
           e == (s // c) // Q(n)
<1>1. Q(n) \in Normal /\ Over(Q(n), n, 1) /\ Zero \prec Q(n)
  <2>1. Q(n) \in Normal /\ Over(Q(n), n, 1) /\ Q(n) \in Finite
    BY NormalWhole, OverWhole
  <2> QED BY <2>1, OverSign DEF Positive
<1>2. t \in Normal /\ Zero \prec t
  BY <1>1, PositiveQuotient
<1>3. c \in Normal /\ Zero \prec c
  BY <1>2, PositiveQuotient
<1>4. e \in Normal
  BY <1>1, <1>3, PositiveQuotient
<1>5. PICK i, j : i = s[1] /\ j = s[2] /\ Over(s, i, j) /\ i > 0 /\ i \in Int /\ j \in Nat \ {0}
  BY NormalFinite, PositiveIs, Parts
<1>6. PICK k, l : k = d[1] /\ l = d[2] /\ Over(d, k, l) /\ k > 0 /\ k \in Int /\ l \in Nat \ {0}
  BY NormalFinite, PositiveIs, Parts
<1>7. Over(t, i * 1, j * n)
  BY <1>1, <1>5, OverQuotient
<1>8. Over(c, (i * 1) * l, (j * n) * k)
  BY <1>6, <1>7, OverQuotient
<1>9. Over(s // c, i * ((j * n) * k), j * ((i * 1) * l))
  <2>1. (i * 1) * l > 0
    BY <1>5, <1>6
  <2> HIDE DEF c
  <2> QED BY <1>5, <1>8, <2>1, OverQuotient
<1>10. Over(e, (i * ((j * n) * k)) * 1, (j * ((i * 1) * l)) * n)
  <2> HIDE DEF c
  <2> QED BY <1>1, <1>9, OverQuotient
<1> DEFINE w == (i * j) * n
<1>11. w \in Nat \ {0}
  <2>1. i * j > 0 /\ i * j \in Int
    BY <1>5
  <2> DEFINE m == i * j
  <2> HIDE DEF m
  <2>2. m \in Int /\ m > 0
    BY <2>1 DEF m
  <2>3. m * n > 0 /\ m * n \in Int
    BY <2>2
  <2> QED BY <2>3 DEF m
<1>12. (i * ((j * n) * k)) * 1 = k * w
  BY <1>5, <1>6
<1>13. (j * ((i * 1) * l)) * n = l * w
  BY <1>5, <1>6
<1>14. Over(d, k * w, l * w)
  <2> HIDE DEF w
  <2> QED BY <1>6, <1>11, Widened DEF Over
<1> HIDE DEF e, w, c, t
<1>15. Over(e, k * w, l * w)
  BY <1>10, <1>12, <1>13
<1>16. e = d
  BY <1>4, <1>14, <1>15, SameValue
<1> QED BY <1>16 DEF e, c, t

(* What is left of One by the share of a in a sum is the share of b, also  *)
(* of their means.                                                         *)
LEMMA ShareLeft ==
  ASSUME NEW a \in Normal, NEW b \in Normal, Zero \prec a ++ b, NEW n \in Nat \ {0}
  PROVE  One -- (a // (a ++ b)) = (b // Q(n)) // ((a ++ b) // Q(n))
<1> DEFINE s == a ++ b
           x == One -- (a // s)
           y == (b // Q(n)) // (s // Q(n))
<1>1. a \in Finite /\ b \in Finite /\ s \in Normal
  BY NormalFinite, NormalPlus
<1>2. PICK D, i, j, k, l : Over(a, i, D) /\ Over(b, j, D) /\ Over(a, k, D) /\ Over(b, l, D)
  BY <1>1, CommonDenominator
<1>3. Over(s, i + j, D)
  BY <1>2, OverPlus
<1>4. i \in Int /\ j \in Int /\ D \in Nat \ {0} /\ i + j > 0
  <2>1. s \in Positive
    BY <1>1, NormalFinite DEF Positive
  <2> HIDE DEF s
  <2> QED BY <1>2, <1>3, <2>1, OverSign
<1> DEFINE u == i + j
<1>5. Over(a // s, i * D, D * u)
  <2> HIDE DEF s
  <2> QED BY <1>2, <1>3, <1>4, OverQuotient
<1>6. u \in Nat \ {0} /\ D * u \in Nat \ {0}
  <2>1. u \in Int /\ u > 0
    BY <1>4
  <2> HIDE DEF u
  <2>2. D * u > 0
    BY <1>4, <2>1
  <2> QED BY <1>4, <2>1, <2>2
<1>7. Over(One, D * u, D * u)
  <2> DEFINE w == D * u
  <2>1. w \in Nat \ {0} /\ One \in Finite /\ One[1] = 1 /\ One[2] = 1
    BY <1>6, ZeroOne
  <2> HIDE DEF w
  <2>2. One[1] * w = w * One[2]
    BY <2>1
  <2>3. Over(One, w, w)
    BY <2>1, <2>2 DEF Over, Valued
  <2> QED BY <2>3 DEF w
<1>8. Over(x, D * u - i * D, D * u)
  BY <1>5, <1>7, OverMinus
<1>9. D * u - i * D = j * D
  BY <1>4
<1>10. Q(n) \in Normal /\ Over(Q(n), n, 1) /\ Zero \prec Q(n)
  <2>1. Q(n) \in Normal /\ Over(Q(n), n, 1) /\ Q(n) \in Finite
    BY NormalWhole, OverWhole
  <2> QED BY <2>1, OverSign DEF Positive
<1>11. Over(b // Q(n), j * 1, D * n) /\ Over(s // Q(n), u * 1, D * n)
  <2> HIDE DEF s
  <2> QED BY <1>2, <1>3, <1>10, OverQuotient
<1>12. Over(y, (j * 1) * (D * n), (D * n) * (u * 1))
  <2>1. u * 1 > 0
    BY <1>4
  <2> HIDE DEF s, u
  <2> QED BY <1>11, <2>1, OverQuotient
<1>13. Over(x, (j * D) * n, (D * u) * n)
  <2> HIDE DEF x
  <2>1. Over(x, j * D, D * u)
    BY <1>8, <1>9
  <2> QED BY <2>1, Widened DEF Over
<1>14. (j * 1) * (D * n) = (j * D) * n /\ (D * n) * (u * 1) = (D * u) * n
  BY <1>4
<1>15. x \in Normal /\ y \in Normal
  <2>1. a // s \in Normal
    BY <1>1, NormalQuotient, NormalFinite, PositiveIs
  <2>2. x \in Normal
    <3> DEFINE z == a // s
    <3>1. z \in Finite
      BY <2>1, NormalFinite
    <3> HIDE DEF z
    <3>2. <<-z[1], z[2]>> \in Finite
      BY <3>1 DEF Finite
    <3>3. One -- z = One ++ <<-z[1], z[2]>>
      BY DEF --
    <3>4. One -- z \in Normal
      BY <3>2, <3>3, NormalPlus, ZeroOne
    <3> QED BY <3>4 DEF z
  <2>3. s // Q(n) \in Normal /\ Zero \prec s // Q(n)
    BY <1>1, <1>10, PositiveQuotient
  <2>4. b // Q(n) \in Normal
    BY <1>10, NormalQuotient, NormalFinite, PositiveIs
  <2>5. y \in Normal
    <3> DEFINE z == s // Q(n)
    <3>1. z \in Normal /\ z[1] > 0
      BY <2>3, NormalFinite, PositiveIs
    <3> HIDE DEF z
    <3>2. (b // Q(n)) // z \in Normal
      BY <2>4, <3>1, NormalQuotient
    <3> QED BY <3>2 DEF z
  <2> QED BY <2>2, <2>5
<1> HIDE DEF x, y, s, u
<1>16. Over(y, (j * D) * n, (D * u) * n)
  BY <1>12, <1>14
<1>17. x = y
  BY <1>13, <1>15, <1>16, SameValue
<1> QED BY <1>17 DEF x, y, s

-----------------------------------------------------------------------------
(* Sums of lists of such numbers, their means, and their percentiles.      *)

(* g holds the sums of the first k numbers of xs, up to n.                 *)
SumsIn(g, xs, n) == g = [k \in 0..n |-> IF k = 0 THEN Zero ELSE g[k-1] ++ xs[k]]
AllNormal(xs, n) == n \in Nat /\ \A i \in 1..n : xs[i] \in Normal
AllFinite(xs, n) == n \in Nat /\ \A i \in 1..n : xs[i] \in Finite

LEMMA SumsFinite ==
  ASSUME NEW xs, NEW n, AllFinite(xs, n)
  PROVE  \E g : /\ g[n] = SumTo(xs, n) /\ g[0] = Zero
                /\ \A k \in 0..(n-1) : g[k+1] = g[k] ++ xs[k+1]
                /\ \A k \in 0..n : g[k] \in Normal
<1> DEFINE G == [p \in Normal \X (1..n) |-> p[1] ++ xs[p[2]]]
<1>1. n \in Nat /\ \A i \in 1..n : xs[i] \in Finite
  BY DEF AllFinite
<1>2. \A x \in Normal, k \in 1..n : G[<<x, k>>] = x ++ xs[k]
  OBVIOUS
<1>3. \A x \in Normal, k \in 1..n : G[<<x, k>>] \in Normal
  BY <1>1, <1>2, NormalPlus, NormalFinite
<1>4. Zero \in Normal
  BY ZeroLaws
<1> HIDE DEF G
<1>5. PICK f : LoopIn(f, Normal, Zero, n, G)
  <2> DEFINE D == Normal
             z == Zero
  <2>1. z \in D /\ \A x \in D, k \in 1..n : G[<<x, k>>] \in D
    BY <1>3, <1>4
  <2> HIDE DEF D, z
  <2>2. \E f : LoopIn(f, D, z, n, G)
    BY <1>1, <2>1, LoopExists
  <2> QED BY <2>2 DEF D, z
<1>6. ASSUME NEW k \in 1..n PROVE G[<<f[k-1], k>>] = f[k-1] ++ xs[k]
  <2>1. k - 1 \in 0..n
    BY <1>1
  <2>2. f[k-1] \in Normal
    BY <1>5, <2>1 DEF LoopIn
  <2> QED BY <1>2, <2>2
<1>7. SumsIn(f, xs, n)
  <2>1. \A k \in 0..n : k # 0 => k \in 1..n
    OBVIOUS
  <2> QED BY <1>5, <1>6, <2>1 DEF LoopIn, SumsIn
<1> DEFINE h == CHOOSE h : SumsIn(h, xs, n)
<1>8. SumsIn(h, xs, n)
  BY <1>7
<1>9. SumTo(xs, n) = h[n]
  BY DEF SumTo, SumsIn
<1> HIDE DEF h
<1>10. h[0] = Zero
  <2>1. 0 \in 0..n
    BY <1>1
  <2> QED BY <1>8, <2>1 DEF SumsIn
<1>11. ASSUME NEW k \in 0..(n-1) PROVE h[k+1] = h[k] ++ xs[k+1]
  <2>1. k+1 \in 0..n /\ k+1 # 0 /\ (k+1)-1 = k
    BY <1>1
  <2> QED BY <1>8, <2>1 DEF SumsIn
<1>12. \A k \in 0..n : h[k] \in Normal
  <2> DEFINE S == {k \in 0..n : h[k] \in Normal}
  <2>1. 0 \in S
    BY <1>1, <1>4, <1>10
  <2>2. ASSUME NEW k \in 0..(n-1), k \in S PROVE k+1 \in S
    <3>1. k+1 \in 0..n /\ xs[k+1] \in Finite
      BY <1>1
    <3>2. h[k] ++ xs[k+1] \in Normal
      BY <2>2, <3>1, NormalPlus, NormalFinite
    <3> QED BY <1>11, <3>1, <3>2
  <2>3. \A k \in 0..n : k \in S
    <3> HIDE DEF S
    <3> QED BY <1>1, <2>1, <2>2, LoopInduction
  <2> QED BY <2>3
<1> QED BY <1>9, <1>10, <1>11, <1>12

LEMMA SumsExist ==
  ASSUME NEW xs, NEW n, AllNormal(xs, n)
  PROVE  \E g : /\ g[n] = SumTo(xs, n) /\ g[0] = Zero
                /\ \A k \in 0..(n-1) : g[k+1] = g[k] ++ xs[k+1]
                /\ \A k \in 0..n : g[k] \in Normal
<1>1. AllFinite(xs, n)
  BY NormalFinite DEF AllNormal, AllFinite
<1> QED BY <1>1, SumsFinite

(* A sum is typed,                                                         *)
LEMMA SumTyped ==
  ASSUME NEW xs, NEW n, AllNormal(xs, n)
  PROVE  SumTo(xs, n) \in Normal
<1>1. n \in 0..n
  BY DEF AllNormal
<1> QED BY <1>1, SumsExist

(* and divided where its parts are.                                        *)
Shares(xs, ys, n, c) == \A i \in 1..n : ys[i] = xs[i] // c
LEMMA SumDivided ==
  ASSUME NEW xs, NEW ys, NEW n, NEW c \in Normal, AllNormal(xs, n), Zero \prec c,
         Shares(xs, ys, n, c)
  PROVE  AllNormal(ys, n) /\ SumTo(ys, n) = SumTo(xs, n) // c
<1> USE DEF Shares
<1>1. n \in Nat
  BY DEF AllNormal
<1>2. AllNormal(ys, n)
  BY Distributes DEF AllNormal
<1>3. PICK g : /\ g[n] = SumTo(xs, n) /\ g[0] = Zero
               /\ \A k \in 0..(n-1) : g[k+1] = g[k] ++ xs[k+1]
               /\ \A k \in 0..n : g[k] \in Normal
  BY SumsExist
<1>4. PICK h : /\ h[n] = SumTo(ys, n) /\ h[0] = Zero
               /\ \A k \in 0..(n-1) : h[k+1] = h[k] ++ ys[k+1]
               /\ \A k \in 0..n : h[k] \in Normal
  BY <1>2, SumsExist
<1> DEFINE S == {k \in 0..n : h[k] = g[k] // c}
<1>5. 0 \in S
  BY <1>1, <1>3, <1>4, ZeroLaws
<1>6. ASSUME NEW k \in 0..(n-1), k \in S PROVE k+1 \in S
  <2>1. k+1 \in 0..n /\ k+1 \in 1..n /\ k \in 0..n
    BY <1>1
  <2>2. xs[k+1] \in Normal /\ g[k] \in Normal
    BY <1>3, <2>1 DEF AllNormal
  <2>3. (g[k] ++ xs[k+1]) // c = (g[k] // c) ++ (xs[k+1] // c)
    BY <2>2, Distributes
  <2>4. h[k+1] = (g[k] // c) ++ (xs[k+1] // c)
    BY <1>4, <1>6, <2>1
  <2> QED BY <1>3, <2>1, <2>3, <2>4
<1>7. \A k \in 0..n : k \in S
  <2> HIDE DEF S
  <2> QED BY <1>1, <1>5, <1>6, LoopInduction
<1>8. n \in S
  BY <1>1, <1>7
<1> QED BY <1>2, <1>3, <1>4, <1>8

(* The sum of sums.                                                        *)
LEMMA SumOfSums ==
  ASSUME NEW xs, NEW ys, NEW zs, NEW n, AllNormal(xs, n), AllNormal(ys, n),
         \A i \in 1..n : zs[i] = xs[i] ++ ys[i]
  PROVE  AllNormal(zs, n) /\ SumTo(zs, n) = SumTo(xs, n) ++ SumTo(ys, n)
<1>1. n \in Nat
  BY DEF AllNormal
<1>2. AllNormal(zs, n)
  BY NormalPlus, NormalFinite DEF AllNormal
<1>3. PICK f : /\ f[n] = SumTo(xs, n) /\ f[0] = Zero
               /\ \A k \in 0..(n-1) : f[k+1] = f[k] ++ xs[k+1]
               /\ \A k \in 0..n : f[k] \in Normal
  BY SumsExist
<1>4. PICK g : /\ g[n] = SumTo(ys, n) /\ g[0] = Zero
               /\ \A k \in 0..(n-1) : g[k+1] = g[k] ++ ys[k+1]
               /\ \A k \in 0..n : g[k] \in Normal
  BY SumsExist
<1>5. PICK h : /\ h[n] = SumTo(zs, n) /\ h[0] = Zero
               /\ \A k \in 0..(n-1) : h[k+1] = h[k] ++ zs[k+1]
               /\ \A k \in 0..n : h[k] \in Normal
  BY <1>2, SumsExist
<1> DEFINE S == {k \in 0..n : h[k] = f[k] ++ g[k]}
<1>6. 0 \in S
  BY <1>1, <1>3, <1>4, <1>5, ZeroLaws
<1>7. ASSUME NEW k \in 0..(n-1), k \in S PROVE k+1 \in S
  <2>1. k+1 \in 0..n /\ k+1 \in 1..n /\ k \in 0..n
    BY <1>1
  <2>2. xs[k+1] \in Normal /\ ys[k+1] \in Normal /\ f[k] \in Normal /\ g[k] \in Normal
    BY <1>3, <1>4, <2>1 DEF AllNormal
  <2>3. (f[k] ++ g[k]) ++ (xs[k+1] ++ ys[k+1]) = (f[k] ++ xs[k+1]) ++ (g[k] ++ ys[k+1])
    BY <2>2, PlusOrder
  <2>4. h[k+1] = (f[k] ++ g[k]) ++ (xs[k+1] ++ ys[k+1])
    BY <1>5, <1>7, <2>1
  <2> QED BY <1>3, <1>4, <2>1, <2>3, <2>4
<1>8. \A k \in 0..n : k \in S
  <2> HIDE DEF S
  <2> QED BY <1>1, <1>6, <1>7, LoopInduction
<1>9. n \in S
  BY <1>1, <1>8
<1> QED BY <1>2, <1>3, <1>4, <1>5, <1>9

(* k numbers between low and high add up to between k times low and k      *)
(* times high.                                                             *)
Within(s, k, low, high) == Q(k) ** low \preceq s /\ s \preceq Q(k) ** high

LEMMA WithinNext ==
  ASSUME NEW k \in Nat, NEW s \in Finite, NEW x \in Finite, NEW low \in Finite, NEW high \in Finite,
         Within(s, k, low, high), low \preceq x, x \preceq high
  PROVE  Within(s ++ x, k+1, low, high)
<1>1. PICK D, i, j, l, m : Over(low, i, D) /\ Over(s, j, D) /\ Over(high, l, D) /\ Over(x, m, D)
  BY CommonDenominator
<1>2. i \in Int /\ j \in Int /\ l \in Int /\ m \in Int /\ D \in Nat \ {0}
  BY <1>1 DEF Over
<1>3. Over(Q(k), k, 1) /\ Over(Q(k+1), k+1, 1)
  BY OverWhole
<1>4. 1 * D = D
  BY <1>2
<1>5. Over(Q(k) ** low, k * i, D) /\ Over(Q(k) ** high, k * l, D)
  <2>1. Over(Q(k) ** low, k * i, 1 * D) /\ Over(Q(k) ** high, k * l, 1 * D)
    BY <1>1, <1>3, OverTimes
  <2> QED BY <1>4, <2>1
<1>6. Over(Q(k+1) ** low, (k+1) * i, D) /\ Over(Q(k+1) ** high, (k+1) * l, D)
  <2>1. Over(Q(k+1) ** low, (k+1) * i, 1 * D) /\ Over(Q(k+1) ** high, (k+1) * l, 1 * D)
    BY <1>1, <1>3, OverTimes
  <2> QED BY <1>4, <2>1
<1>7. Over(s ++ x, j + m, D)
  BY <1>1, OverPlus
<1>8. k * i <= j /\ j <= k * l
  BY <1>1, <1>5, OverOrder DEF Within
<1>9. i <= m /\ m <= l
  BY <1>1, OverOrder
<1>10. (k+1) * i <= j + m /\ j + m <= (k+1) * l
  <2>1. (k+1) * i = k * i + i /\ (k+1) * l = k * l + l /\ k * i \in Int /\ k * l \in Int
    BY <1>2
  <2> QED BY <1>2, <1>8, <1>9, <2>1
<1> QED BY <1>6, <1>7, <1>10, OverOrder DEF Within

(* Numbers from low to high.                                               *)
Ranging(xs, n, low, high) ==
  /\ AllNormal(xs, n) /\ low \in Normal /\ high \in Normal
  /\ \A i \in 1..n : low \preceq xs[i] /\ xs[i] \preceq high

LEMMA SumWithin ==
  ASSUME NEW xs, NEW n, NEW low, NEW high, Ranging(xs, n, low, high)
  PROVE  Within(SumTo(xs, n), n, low, high)
<1>1. n \in Nat /\ low \in Finite /\ high \in Finite
  BY NormalFinite DEF Ranging, AllNormal
<1>2. PICK g : /\ g[n] = SumTo(xs, n) /\ g[0] = Zero
               /\ \A k \in 0..(n-1) : g[k+1] = g[k] ++ xs[k+1]
               /\ \A k \in 0..n : g[k] \in Normal
  BY SumsExist DEF Ranging
<1> DEFINE S == {k \in 0..n : Within(g[k], k, low, high)}
<1>3. 0 \in S
  <2>1. Over(Q(0), 0, 1) /\ Over(low, low[1], low[2]) /\ Over(high, high[1], high[2])
    BY <1>1, OverWhole, OwnValue DEF Over
  <2>2. Over(Q(0) ** low, 0 * low[1], 1 * low[2]) /\ Over(Q(0) ** high, 0 * high[1], 1 * high[2])
    BY <2>1, OverTimes
  <2>3. 0 * low[1] = 0 /\ 0 * high[1] = 0
    BY <2>1 DEF Over
  <2>4. Over(Q(0) ** low, 0, 1 * low[2]) /\ Over(Q(0) ** high, 0, 1 * high[2])
    BY <2>2, <2>3
  <2>5. ASSUME NEW a, NEW D, Over(a, 0, D) PROVE a \preceq Zero /\ Zero \preceq a
    <3>1. Over(Zero, 0, D)
      <4>1. Zero[1] * D = 0 * Zero[2] /\ 0 \in Int /\ D \in Nat \ {0}
        BY <2>5, ZeroOne DEF Over
      <4> QED BY <4>1, ZeroOne DEF Over, Valued
    <3>2. 0 <= 0
      OBVIOUS
    <3> QED BY <2>5, <3>1, <3>2, OverOrder
  <2>6. Within(Zero, 0, low, high)
    BY <2>4, <2>5 DEF Within
  <2> QED BY <1>1, <1>2, <2>6
<1>4. ASSUME NEW k \in 0..(n-1), k \in S PROVE k+1 \in S
  <2>1. k+1 \in 0..n /\ k+1 \in 1..n /\ k \in 0..n /\ k \in Nat
    BY <1>1
  <2>2. xs[k+1] \in Finite /\ g[k] \in Finite /\ low \preceq xs[k+1] /\ xs[k+1] \preceq high
    BY <1>2, <2>1, NormalFinite DEF Ranging, AllNormal
  <2>3. Within(g[k] ++ xs[k+1], k+1, low, high)
    BY <1>1, <1>4, <2>1, <2>2, WithinNext
  <2> QED BY <1>2, <2>1, <2>3
<1>5. \A k \in 0..n : k \in S
  <2> HIDE DEF S
  <2> QED BY <1>1, <1>3, <1>4, LoopInduction
<1>6. n \in S
  BY <1>1, <1>5
<1> QED BY <1>2, <1>6

(* So their mean is between low and high, too.                             *)
LEMMA MeanWithin ==
  ASSUME NEW xs, NEW n, n # 0, NEW low, NEW high, Ranging(xs, n, low, high)
  PROVE  low \preceq SumTo(xs, n) // Q(n) /\ SumTo(xs, n) // Q(n) \preceq high
<1>1. n \in Nat \ {0} /\ low \in Finite /\ high \in Finite /\ SumTo(xs, n) \in Finite
  BY NormalFinite, SumTyped DEF Ranging, AllNormal
<1>2. Q(n) \in Finite /\ Zero \prec Q(n)
  <2>1. Over(Q(n), n, 1) /\ n > 0
    BY <1>1, OverWhole
  <2> QED BY <2>1, OverSign DEF Positive
<1>3. Within(SumTo(xs, n), n, low, high)
  BY SumWithin
<1> QED BY <1>1, <1>2, <1>3, QuotientOrder DEF Within

(* What is not negative and not Zero is positive.                          *)
LEMMA PositiveUnlessZero ==
  ASSUME NEW a \in Normal, Zero \preceq a, a # Zero
  PROVE  Zero \prec a
<1>1. a \in Finite /\ Over(a, a[1], a[2]) /\ a[1] >= 0 /\ a[1] \in Int /\ a[2] \in Nat \ {0}
  BY NormalFinite, PositiveIs, Parts
<1>2. a[1] # 0
  <2> SUFFICES ASSUME a[1] = 0 PROVE FALSE
    OBVIOUS
  <2>1. Over(a, 0, a[2])
    BY <1>1
  <2>2. Over(Zero, 0, a[2])
    <3>1. Zero[1] * a[2] = 0 * Zero[2] /\ 0 \in Int
      BY <1>1, ZeroOne
    <3> QED BY <1>1, <3>1, ZeroOne DEF Over, Valued
  <2> QED BY <2>1, <2>2, SameValue, ZeroLaws
<1> QED BY <1>1, <1>2, PositiveIs

(* What numbers that are not negative add up to is not negative.           *)
LEMMA SumNonNegative ==
  ASSUME NEW xs, NEW n, AllNormal(xs, n), \A i \in 1..n : Zero \preceq xs[i]
  PROVE  Zero \preceq SumTo(xs, n)
<1>1. n \in Nat
  BY DEF AllNormal
<1>2. PICK g : /\ g[n] = SumTo(xs, n) /\ g[0] = Zero
               /\ \A k \in 0..(n-1) : g[k+1] = g[k] ++ xs[k+1]
               /\ \A k \in 0..n : g[k] \in Normal
  BY SumsExist
<1> DEFINE S == {k \in 0..n : Rises(Zero, g[k])}
<1>3. 0 \in S
  BY <1>1, <1>2, ZeroNonNegative, RisesConstant
<1>4. ASSUME NEW k \in 0..(n-1), k \in S PROVE k+1 \in S
  <2>1. k+1 \in 0..n /\ k+1 \in 1..n
    BY <1>1
  <2>2. xs[k+1] \in Finite /\ Zero \preceq xs[k+1]
    BY <2>1, NormalFinite DEF AllNormal
  <2>3. Rises(Zero, xs[k+1])
    BY <2>2, ZeroNonNegative DEF Rises, NonNegative
  <2>4. Rises(Zero ++ Zero, g[k] ++ xs[k+1])
    BY <1>4, <2>3, RisesPlus
  <2> QED BY <1>2, <2>1, <2>4, ZeroLaws
<1>5. \A k \in 0..n : k \in S
  <2> HIDE DEF S
  <2> QED BY <1>1, <1>3, <1>4, LoopInduction
<1>6. n \in S
  BY <1>1, <1>5
<1> QED BY <1>2, <1>6 DEF Rises

(* A list of n numbers.                                                    *)
Numbers(xs, n) == n \in Nat /\ DOMAIN xs = 1..n /\ \A i \in 1..n : xs[i] \in Finite

(* How many are at or below, and below.                                    *)
LEMMA Counted ==
  ASSUME NEW xs, NEW n, Numbers(xs, n), NEW v
  PROVE  /\ IsFiniteSet(AtOrBelow(xs, v)) /\ Cardinality(AtOrBelow(xs, v)) \in Nat
         /\ IsFiniteSet(Below(xs, v)) /\ Cardinality(Below(xs, v)) \in Nat
         /\ Cardinality(AtOrBelow(xs, v)) <= n
         /\ Cardinality(AtOrBelow(xs, v)) = n => AtOrBelow(xs, v) = 1..n
<1>1. n \in Nat /\ DOMAIN xs = 1..n
  BY DEF Numbers
<1>2. IsFiniteSet(1..n) /\ Cardinality(1..n) = n
  <2>1. 1 \in Int /\ n \in Int
    BY <1>1
  <2>2. IsFiniteSet(1..n) /\ Cardinality(1..n) = IF 1 > n THEN 0 ELSE n - 1 + 1
    BY <2>1, FS_Interval
  <2> QED BY <1>1, <2>2
<1>3. AtOrBelow(xs, v) \in SUBSET (1..n) /\ Below(xs, v) \in SUBSET (1..n)
  BY <1>1 DEF AtOrBelow, Below
<1> QED BY <1>2, <1>3, FS_Subset, FS_CardinalityType

(* Of the numbers in a part of the list one is the largest.                *)
LEMMA LargestOf ==
  ASSUME NEW xs, NEW n, Numbers(xs, n), NEW B, B \subseteq 1..n, B # {}
  PROVE  \E m \in B : \A j \in B : xs[j] \preceq xs[m]
<1> DEFINE c(i) == Cardinality(AtOrBelow(xs, xs[i]))
           T == {n - c(i) : i \in B}
<1>1. n \in Nat /\ DOMAIN xs = 1..n /\ \A i \in 1..n : xs[i] \in Rational
  BY Parts DEF Numbers
<1>2. \A i \in B : c(i) \in Nat /\ c(i) <= n
  BY Counted
<1>3. T \subseteq Nat /\ T # {}
  <2> HIDE DEF c
  <2>1. ASSUME NEW i \in B PROVE n - c(i) \in Nat
    <3>1. c(i) \in Nat /\ c(i) <= n
      BY <1>2
    <3> QED BY <1>1, <3>1
  <2> QED BY <2>1
<1>4. PICK t \in T : \A u \in T : t <= u
  <2> HIDE DEF T
  <2> QED BY <1>3, LeastNumber
<1>5. PICK m \in B : t = n - c(m)
  OBVIOUS
<1>6. ASSUME NEW j \in B PROVE xs[j] \preceq xs[m]
  <2> SUFFICES ASSUME ~(xs[j] \preceq xs[m]) PROVE FALSE
    OBVIOUS
  <2>1. xs[j] \in Rational /\ xs[m] \in Rational
    BY <1>1
  <2>2. xs[m] \preceq xs[j] /\ xs[j] \preceq xs[j]
    BY <2>1, OrderTotal
  <2> DEFINE M == AtOrBelow(xs, xs[m])
             J == AtOrBelow(xs, xs[j])
  <2>3. M \subseteq J
    BY <1>1, <2>1, <2>2, OrderTrans DEF AtOrBelow
  <2>4. j \in J /\ j \notin M
    BY <1>1, <2>2 DEF AtOrBelow
  <2>5. IsFiniteSet(J) /\ Cardinality(J) \in Nat /\ Cardinality(M) \in Nat
    BY Counted
  <2>6. Cardinality(M) < Cardinality(J)
    <3> HIDE DEF M, J
    <3>1. M \in SUBSET J /\ J # M
      BY <2>3, <2>4
    <3>2. Cardinality(M) <= Cardinality(J) /\ (Cardinality(J) = Cardinality(M) => J = M)
      BY <2>5, <3>1, FS_Subset
    <3> QED BY <2>5, <3>1, <3>2
  <2>7. c(m) < c(j)
    BY <2>6
  <2>8. n - c(j) \in T
    OBVIOUS
  <2>9. n - c(m) <= n - c(j)
    <3> HIDE DEF T, c
    <3> QED BY <1>4, <1>5, <2>8
  <2>10. c(m) \in Nat /\ c(j) \in Nat
    BY <1>2
  <2> HIDE DEF c, T
  <2> QED BY <1>1, <2>7, <2>9, <2>10
<1> QED BY <1>6

(* There is a k-th number,                                                 *)
LEMMA NthExists ==
  ASSUME NEW xs, NEW n, Numbers(xs, n), NEW k \in 1..n
  PROVE  \E i \in 1..n : IsNth(xs, k, xs[i])
<1> DEFINE c(i) == Cardinality(AtOrBelow(xs, xs[i]))
           C == {i \in 1..n : k <= c(i)}
           T == {c(i) : i \in C}
<1>1. n \in Nat /\ DOMAIN xs = 1..n /\ \A i \in 1..n : xs[i] \in Rational
  BY Parts DEF Numbers
<1>2. \A i \in 1..n : c(i) \in Nat
  BY Counted
<1>3. PICK m \in 1..n : \A j \in 1..n : xs[j] \preceq xs[m]
  <2>1. 1..n # {}
    OBVIOUS
  <2> QED BY <2>1, LargestOf
<1>4. c(m) = n
  <2>1. AtOrBelow(xs, xs[m]) = 1..n
    BY <1>1, <1>3 DEF AtOrBelow
  <2>2. Cardinality(1..n) = n
    <3>1. 1 \in Int /\ n \in Int /\ ~(1 > n) /\ n - 1 + 1 = n
      BY <1>1
    <3> QED BY <3>1, FS_Interval
  <2> QED BY <2>1, <2>2
<1>5. T \subseteq Nat /\ T # {}
  <2>1. m \in C
    <3> HIDE DEF c
    <3> QED BY <1>1, <1>4
  <2> HIDE DEF c
  <2> QED BY <1>2, <2>1
<1>6. PICK t \in T : \A u \in T : t <= u
  <2> HIDE DEF T
  <2> QED BY <1>5, LeastNumber
<1>7. PICK i \in C : t = c(i)
  OBVIOUS
<1>8. i \in 1..n /\ k <= c(i)
  OBVIOUS
<1> DEFINE B == Below(xs, xs[i])
<1>9. Cardinality(B) < k
  <2> SUFFICES ASSUME ~(Cardinality(B) < k) PROVE FALSE
    OBVIOUS
  <2>1. IsFiniteSet(B) /\ Cardinality(B) \in Nat /\ B \subseteq 1..n
    BY <1>1, Counted DEF Below
  <2>2. B # {}
    <3> HIDE DEF B
    <3> QED BY <2>1, FS_EmptySet
  <2>3. PICK j \in B : \A l \in B : xs[l] \preceq xs[j]
    <3> HIDE DEF B
    <3> QED BY <2>1, <2>2, LargestOf
  <2>4. j \in 1..n /\ ~(xs[i] \preceq xs[j])
    BY <1>1 DEF Below, \prec
  <2> DEFINE J == AtOrBelow(xs, xs[j])
             I == AtOrBelow(xs, xs[i])
  <2>5. B \subseteq J
    <3>1. \A l \in B : l \in 1..n
      BY <2>1
    <3> HIDE DEF B
    <3> QED BY <1>1, <2>3, <3>1 DEF AtOrBelow
  <2>6. /\ IsFiniteSet(I) /\ IsFiniteSet(J) /\ Cardinality(I) \in Nat /\ Cardinality(J) \in Nat
    BY Counted
  <2>7. J \subseteq I /\ i \in I /\ i \notin J
    <3>1. xs[i] \in Rational /\ xs[j] \in Rational
      BY <1>1, <1>8, <2>4
    <3>2. xs[j] \preceq xs[i] /\ xs[i] \preceq xs[i]
      BY <2>4, <3>1, OrderTotal
    <3> QED BY <1>1, <1>8, <2>4, <3>1, <3>2, OrderTrans DEF AtOrBelow
  <2>8. Cardinality(B) <= Cardinality(J)
    <3> HIDE DEF B, J
    <3> QED BY <2>5, <2>6, FS_Subset
  <2>9. Cardinality(J) < Cardinality(I)
    <3> HIDE DEF I, J
    <3>1. J \in SUBSET I /\ I # J
      BY <2>7
    <3>2. Cardinality(J) <= Cardinality(I) /\ (Cardinality(I) = Cardinality(J) => I = J)
      BY <2>6, <3>1, FS_Subset
    <3> QED BY <2>6, <3>1, <3>2
  <2>10. k <= Cardinality(J)
    <3> HIDE DEF B, J
    <3> QED BY <2>1, <2>6, <2>8, <1>1
  <2>11. c(j) \in T
    BY <2>4, <2>10
  <2>12. c(i) <= c(j)
    <3> HIDE DEF c, T
    <3> QED BY <1>6, <1>7, <2>11
  <2>13. Cardinality(I) <= Cardinality(J)
    BY <2>12
  <2> HIDE DEF I, J
  <2> QED BY <2>6, <2>9, <2>13
<1> QED BY <1>8, <1>9 DEF IsNth

(* which rises with k,                                                     *)
LEMMA NthRises ==
  ASSUME NEW xs, NEW n, Numbers(xs, n), NEW k \in Nat, NEW l \in Nat, k <= l,
         NEW v \in Finite, NEW w \in Finite, IsNth(xs, k, v), IsNth(xs, l, w)
  PROVE  v \preceq w
<1> SUFFICES ASSUME ~(v \preceq w) PROVE FALSE
  OBVIOUS
<1>1. v \in Rational /\ w \in Rational /\ n \in Nat /\ DOMAIN xs = 1..n /\ \A i \in 1..n : xs[i] \in Rational
  BY Parts DEF Numbers
<1>2. AtOrBelow(xs, w) \subseteq Below(xs, v)
  BY <1>1, OrderTrans DEF AtOrBelow, Below, \prec
<1>3. Cardinality(AtOrBelow(xs, w)) <= Cardinality(Below(xs, v))
  BY <1>2, Counted, FS_Subset
<1>4. Cardinality(AtOrBelow(xs, w)) \in Nat /\ Cardinality(Below(xs, v)) \in Nat
  BY Counted
<1> QED BY <1>3, <1>4 DEF IsNth

(* from the least number to the largest.                                   *)
LEMMA NthEnds ==
  ASSUME NEW xs, NEW n, Numbers(xs, n), NEW v \in Finite, NEW i \in 1..n
  PROVE  /\ IsNth(xs, 1, v) => v \preceq xs[i]
         /\ IsNth(xs, n, v) => xs[i] \preceq v
<1>1. n \in Nat /\ DOMAIN xs = 1..n /\ xs[i] \in Finite
  BY DEF Numbers
<1>2. ASSUME IsNth(xs, 1, v) PROVE v \preceq xs[i]
  <2>1. Cardinality(Below(xs, v)) = 0
    BY <1>2, Counted DEF IsNth
  <2>2. Below(xs, v) = {}
    BY <2>1, Counted, FS_EmptySet
  <2> QED BY <1>1, <2>2 DEF Below, \prec
<1>3. ASSUME IsNth(xs, n, v) PROVE xs[i] \preceq v
  <2>1. Cardinality(AtOrBelow(xs, v)) = n
    BY <1>1, <1>3, Counted DEF IsNth
  <2>2. AtOrBelow(xs, v) = 1..n
    BY <2>1, Counted
  <2> QED BY <1>1, <2>2 DEF AtOrBelow
<1> QED BY <1>2, <1>3

(* The list in order.                                                      *)
LEMMA SortedIs ==
  ASSUME NEW xs, NEW n, Numbers(xs, n), NEW k \in 1..n
  PROVE  /\ IsNth(xs, k, Sorted(xs)[k])
         /\ Sorted(xs)[k] \in Finite
         /\ \E i \in 1..n : Sorted(xs)[k] = xs[i]
<1>1. DOMAIN xs = 1..n /\ \A i \in 1..n : xs[i] \in Finite
  BY DEF Numbers
<1> DEFINE c == CHOOSE i \in 1..n : IsNth(xs, k, xs[i])
<1>2. c \in 1..n /\ IsNth(xs, k, xs[c])
  BY NthExists
<1>3. Sorted(xs)[k] = xs[c]
  BY <1>1 DEF Sorted
<1> HIDE DEF c
<1> QED BY <1>1, <1>2, <1>3

LEMMA SortedRises ==
  ASSUME NEW xs, NEW n, Numbers(xs, n), NEW k \in 1..n, NEW l \in 1..n, k <= l
  PROVE  Sorted(xs)[k] \preceq Sorted(xs)[l]
<1>1. k \in Nat /\ l \in Nat
  BY DEF Numbers
<1>2. /\ IsNth(xs, k, Sorted(xs)[k]) /\ Sorted(xs)[k] \in Finite
      /\ IsNth(xs, l, Sorted(xs)[l]) /\ Sorted(xs)[l] \in Finite
  BY SortedIs
<1> DEFINE v == Sorted(xs)[k]
           w == Sorted(xs)[l]
<1> HIDE DEF v, w
<1>3. v \preceq w
  BY <1>1, <1>2, NthRises DEF v, w
<1> QED BY <1>3 DEF v, w

(* r hundredths of the way from a to b.                                    *)
Along(a, b, r) == a ++ ((b -- a) ** Ratio(r, 100))

LEMMA RatioOver ==
  ASSUME NEW n \in Int, NEW d \in Nat \ {0}
  PROVE  Over(Ratio(n, d), n, d) /\ Ratio(n, d) \in Normal
<1>1. PICK g \in Nat \ {0}, p \in Int, q \in Nat \ {0} :
        Reduced(n, d) = <<p, q>> /\ n = p * g /\ d = q * g /\ Coprime(p, q)
  BY ReducedCoprime
<1>2. Ratio(n, d) = <<p, q>>
  BY <1>1 DEF Ratio
<1>3. p * (q * g) = (p * g) * q
  OBVIOUS
<1>4. p * d = n * q
  BY <1>1, <1>3
<1> QED BY <1>1, <1>2, <1>4 DEF Over, Valued, Normal, Finite

LEMMA AlongOver ==
  ASSUME NEW a, NEW b, NEW i, NEW j, NEW D, Over(a, i, D), Over(b, j, D), NEW r \in Nat
  PROVE  /\ Over(Along(a, b, r), i * 100 + (j - i) * r, D * 100)
         /\ Over(a, i * 100, D * 100) /\ Over(b, j * 100, D * 100)
<1>1. i \in Int /\ j \in Int /\ D \in Nat \ {0} /\ 100 \in Nat \ {0}
  BY DEF Over
<1>2. Over(Ratio(r, 100), r, 100)
  BY <1>1, RatioOver
<1>3. Over(b -- a, j - i, D)
  BY OverMinus
<1>4. Over((b -- a) ** Ratio(r, 100), (j - i) * r, D * 100)
  BY <1>2, <1>3, OverTimes
<1>5. Over(a, i * 100, D * 100) /\ Over(b, j * 100, D * 100)
  BY <1>1, Widened DEF Over
<1>6. Over(Along(a, b, r), i * 100 + (j - i) * r, D * 100)
  BY <1>4, <1>5, OverPlus DEF Along
<1> QED BY <1>5, <1>6

LEMMA AlongRises ==
  ASSUME NEW a \in Finite, NEW b \in Finite, a \preceq b, NEW r \in 0..99, NEW t \in 0..99, r <= t
  PROVE  /\ Along(a, b, r) \in Finite
         /\ a \preceq Along(a, b, r) /\ Along(a, b, r) \preceq b
         /\ Along(a, b, r) \preceq Along(a, b, t)
<1>1. PICK D, i, j, k, l : Over(a, i, D) /\ Over(b, j, D) /\ Over(a, k, D) /\ Over(b, l, D)
  BY CommonDenominator
<1>2. i \in Int /\ j \in Int /\ i <= j
  BY <1>1, OverOrder DEF Over
<1>3. r \in Nat /\ t \in Nat /\ 100 - r \in Nat /\ t - r \in Nat
  OBVIOUS
<1> DEFINE d == j - i
<1>4. d \in Nat /\ j = i + d
  BY <1>2
<1> HIDE DEF d
<1>5. d * r >= 0 /\ d * (100 - r) >= 0 /\ d * (t - r) >= 0
  BY <1>3, <1>4
<1>6. d * (100 - r) = d * 100 - d * r /\ d * (t - r) = d * t - d * r
  BY <1>3, <1>4
<1>7. d * r \in Int /\ d * t \in Int
  BY <1>3, <1>4
<1> DEFINE x == d * r
           y == d * t
<1>8. 0 <= x /\ x <= d * 100 /\ x <= y /\ x \in Int /\ y \in Int
  BY <1>4, <1>5, <1>6, <1>7
<1> HIDE DEF x, y
<1>9. /\ i * 100 <= i * 100 + x /\ i * 100 + x <= j * 100
      /\ i * 100 + x <= i * 100 + y
  BY <1>2, <1>4, <1>8
<1>10. (j - i) * r = x /\ (j - i) * t = y
  BY DEF d, x, y
<1>11. /\ Over(Along(a, b, r), i * 100 + x, D * 100) /\ Over(Along(a, b, t), i * 100 + y, D * 100)
       /\ Over(a, i * 100, D * 100) /\ Over(b, j * 100, D * 100)
  BY <1>1, <1>3, <1>10, AlongOver
<1> QED BY <1>9, <1>11, OverOrder

(* Where percentile p of n numbers lies: between two numbers in order.     *)
Place(n, p) == (((n - 1) * p) \div 100) + 1
After(n, p) == IF Place(n, p) < n THEN Place(n, p) + 1 ELSE Place(n, p)
Hundredths(n, p) == ((n - 1) * p) % 100

LEMMA PlaceIs ==
  ASSUME NEW n \in Nat \ {0}, NEW p \in 0..100
  PROVE  /\ Place(n, p) \in 1..n /\ After(n, p) \in 1..n /\ Place(n, p) <= After(n, p)
         /\ Hundredths(n, p) \in 0..99
         /\ (n - 1) * p = 100 * (Place(n, p) - 1) + Hundredths(n, p)
<1> DEFINE k == (n - 1) * p
<1>1. k \in Nat /\ k <= (n - 1) * 100
  <2> DEFINE m == n - 1
             q == 100 - p
  <2>1. m \in Nat /\ p \in Nat /\ q \in Nat /\ p = 100 - q
    OBVIOUS
  <2> HIDE DEF m, q
  <2>2. m * p >= 0 /\ m * p \in Int /\ m * q >= 0 /\ m * (100 - q) = m * 100 - m * q
    BY <2>1
  <2>3. m * p \in Nat /\ m * p <= m * 100
    BY <2>1, <2>2
  <2> QED BY <2>3 DEF m
<1> DEFINE u == k \div 100
           r == k % 100
<1>2. u \in Int /\ r \in 0..99 /\ k = 100 * u + r
  <2>1. 100 \in Nat \ {0} /\ k \in Int /\ 100 - 1 = 99
    BY <1>1
  <2> HIDE DEF k
  <2> QED BY <2>1, DivMod
<1>3. Place(n, p) = u + 1 /\ Hundredths(n, p) = r
  BY DEF Place, Hundredths
<1> HIDE DEF u, r
<1> HIDE DEF k
<1>4. u >= 0 /\ u <= n - 1
  BY <1>1, <1>2
<1>5. k = 100 * (Place(n, p) - 1) + Hundredths(n, p)
  BY <1>2, <1>3
<1> QED BY <1>2, <1>3, <1>4, <1>5 DEF After, k

(* Percentiles are between two numbers of the list and rise.               *)
LEMMA PctIs ==
  ASSUME NEW xs, NEW n \in Nat \ {0}, Numbers(xs, n), Len(xs) = n, NEW p \in 0..100
  PROVE  pct(xs, p) = Along(Sorted(xs)[Place(n, p)], Sorted(xs)[After(n, p)], Hundredths(n, p))
<1>1. xs # <<>>
  OBVIOUS
<1> QED BY <1>1 DEF pct, Along, Place, After, Hundredths

LEMMA PctRises ==
  ASSUME NEW xs, NEW n \in Nat \ {0}, Numbers(xs, n), Len(xs) = n,
         NEW p \in 0..100, NEW q \in 0..100, p <= q
  PROVE  /\ pct(xs, p) \in Finite
         /\ Sorted(xs)[1] \preceq pct(xs, p) /\ pct(xs, p) \preceq Sorted(xs)[n]
         /\ pct(xs, p) \preceq pct(xs, q)
<1> DEFINE s == Sorted(xs)
           i == Place(n, p)
           j == After(n, p)
           r == Hundredths(n, p)
           k == Place(n, q)
           l == After(n, q)
           t == Hundredths(n, q)
<1>1. i \in 1..n /\ j \in 1..n /\ i <= j /\ r \in 0..99 /\ k \in 1..n /\ l \in 1..n /\ k <= l /\ t \in 0..99
  BY PlaceIs
<1>2. \A m \in 1..n : s[m] \in Finite /\ s[m] \in Rational
  BY SortedIs, Parts
<1>3. \A m \in 1..n : \A o \in 1..n : m <= o => s[m] \preceq s[o]
  BY SortedRises
<1>4. pct(xs, p) = Along(s[i], s[j], r) /\ pct(xs, q) = Along(s[k], s[l], t)
  BY PctIs
<1>5. i <= k /\ (i = k => r <= t /\ j = l) /\ (i < k => j <= k)
  <2> DEFINE a == (n - 1) * p
             b == (n - 1) * q
  <2>1. a \in Int /\ b \in Int /\ a <= b
    <3> DEFINE m == n - 1
               d == q - p
    <3>1. m \in Nat /\ d \in Nat /\ p \in Nat /\ q = p + d
      OBVIOUS
    <3> HIDE DEF m, d
    <3>2. m * (p + d) = m * p + m * d /\ m * d >= 0 /\ m * p \in Int /\ m * d \in Int
      BY <3>1
    <3>3. m * p \in Int /\ m * q \in Int /\ m * p <= m * q
      BY <3>1, <3>2
    <3> QED BY <3>3 DEF m
  <2>2. a = 100 * (i - 1) + r /\ b = 100 * (k - 1) + t
    BY PlaceIs
  <2>3. (i = k => j = l) /\ (i < n => j = i + 1)
    BY DEF After
  <2> HIDE DEF a, b, i, j, r, k, l, t
  <2> QED BY <1>1, <2>1, <2>2, <2>3
<1> HIDE DEF s, i, j, r, k, l, t
<1>6. /\ Along(s[i], s[j], r) \in Finite /\ Along(s[k], s[l], t) \in Finite
      /\ s[i] \preceq Along(s[i], s[j], r) /\ Along(s[i], s[j], r) \preceq s[j]
      /\ s[k] \preceq Along(s[k], s[l], t)
  <2>1. s[i] \in Finite /\ s[j] \in Finite /\ s[i] \preceq s[j] /\ r <= r
    BY <1>1, <1>2, <1>3
  <2>2. s[k] \in Finite /\ s[l] \in Finite /\ s[k] \preceq s[l] /\ t <= t
    BY <1>1, <1>2, <1>3
  <2>3. /\ Along(s[i], s[j], r) \in Finite
        /\ s[i] \preceq Along(s[i], s[j], r) /\ Along(s[i], s[j], r) \preceq s[j]
    BY <1>1, <2>1, AlongRises
  <2>4. Along(s[k], s[l], t) \in Finite /\ s[k] \preceq Along(s[k], s[l], t)
    BY <1>1, <2>2, AlongRises
  <2> QED BY <2>3, <2>4
<1> DEFINE v == Along(s[i], s[j], r)
           w == Along(s[k], s[l], t)
<1>7. v \in Rational /\ w \in Rational
  BY <1>6, Parts
<1>8. v \preceq w
  <2>1. CASE i = k
    <3>1. s[i] \in Finite /\ s[j] \in Finite /\ s[i] \preceq s[j] /\ r <= t
      BY <1>1, <1>2, <1>3, <1>5, <2>1
    <3>2. Along(s[i], s[j], r) \preceq Along(s[i], s[j], t)
      BY <1>1, <3>1, AlongRises
    <3> QED BY <1>5, <2>1, <3>2
  <2>2. CASE i # k
    <3>1. j <= k
      BY <1>1, <1>5, <2>2
    <3>2. s[j] \preceq s[k] /\ s[j] \in Rational /\ s[k] \in Rational
      BY <1>1, <1>2, <1>3, <3>1
    <3>3. v \preceq s[j] /\ s[k] \preceq w
      BY <1>6
    <3> HIDE DEF v, w
    <3>4. v \preceq s[k]
      BY <1>7, <3>2, <3>3, OrderTrans
    <3> QED BY <1>7, <3>2, <3>3, <3>4, OrderTrans
  <2> QED BY <2>1, <2>2
<1>9. s[1] \preceq v /\ v \preceq s[n]
  <2>1. 1 \in 1..n /\ n \in 1..n
    OBVIOUS
  <2>2. s[1] \preceq s[i] /\ s[j] \preceq s[n] /\ s[1] \in Rational /\ s[n] \in Rational
        /\ s[i] \in Rational /\ s[j] \in Rational
    BY <1>1, <1>2, <1>3, <2>1
  <2>3. s[i] \preceq v /\ v \preceq s[j]
    BY <1>6
  <2> HIDE DEF v
  <2> QED BY <1>7, <2>2, <2>3, OrderTrans
<1> QED BY <1>4, <1>6, <1>8, <1>9 DEF s

(* The summary of any list of numbers is in order.                         *)
LEMMA SummaryInOrder ==
  ASSUME NEW xs, NEW n \in Nat \ {0}, xs \in [1..n -> Normal], Len(xs) = n
  PROVE  InOrder(summarize(xs))
<1>1. Numbers(xs, n) /\ AllNormal(xs, n)
  BY NormalFinite DEF Numbers, AllNormal
<1> DEFINE s == Sorted(xs)
<1>2. \A k \in 1..n : s[k] \in Normal
  BY <1>1, SortedIs
<1>3. 1 \in 1..n /\ n \in 1..n
  OBVIOUS
<1>4. \A i \in 1..n : s[1] \preceq xs[i] /\ xs[i] \preceq s[n]
  <2>1. IsNth(xs, 1, s[1]) /\ IsNth(xs, n, s[n]) /\ s[1] \in Finite /\ s[n] \in Finite
    BY <1>1, <1>3, SortedIs
  <2> HIDE DEF s
  <2> QED BY <1>1, <2>1, NthEnds
<1>5. Ranging(xs, n, s[1], s[n])
  <2> HIDE DEF s
  <2> QED BY <1>1, <1>2, <1>3, <1>4 DEF Ranging
<1>6. s[1] \preceq SumTo(xs, n) // Q(n) /\ SumTo(xs, n) // Q(n) \preceq s[n]
  <2> HIDE DEF s
  <2> QED BY <1>5, MeanWithin
<1>7. /\ s[1] \preceq pct(xs, 50) /\ pct(xs, 50) \preceq pct(xs, 90)
      /\ pct(xs, 90) \preceq pct(xs, 99) /\ pct(xs, 99) \preceq s[n]
  <2>1. 50 \in 0..100 /\ 90 \in 0..100 /\ 99 \in 0..100 /\ 50 <= 90 /\ 90 <= 99 /\ 99 <= 99
    OBVIOUS
  <2> QED BY <1>1, <2>1, PctRises
<1>8. Mean(LAMBDA v : v, xs) = SumTo(xs, n) // Q(n)
  <2>1. [k \in DOMAIN xs |-> xs[k]] = xs
    OBVIOUS
  <2> QED BY <2>1 DEF Mean, Total
<1>9. summarize(xs) = [mean |-> SumTo(xs, n) // Q(n), p50 |-> pct(xs, 50), p90 |-> pct(xs, 90),
                       p99 |-> pct(xs, 99), min |-> s[1], max |-> s[n]]
  BY <1>8 DEF summarize
<1> HIDE DEF s
<1> QED BY <1>6, <1>7, <1>9 DEF InOrder

-----------------------------------------------------------------------------
(* The calls of the trace: what a turn, a trial, a report and a session    *)
(* are.                                                                    *)

(* The characters of the first k turns.                                    *)
LEMMA PrefixIs ==
  ASSUME NEW conv \in Seq(Nat)
  PROVE  /\ prefix(conv)[0] = 0
         /\ \A k \in 0..(Len(conv)-1) : prefix(conv)[k+1] = prefix(conv)[k] + conv[k+1]
         /\ \A k \in 0..Len(conv) : prefix(conv)[k] \in Nat
<1> DEFINE n == Len(conv)
           Cum(g) == g = [k \in 0..n |-> IF k = 0 THEN 0 ELSE g[k-1] + conv[k]]
           G == [p \in Nat \X (1..n) |-> p[1] + conv[p[2]]]
<1>1. n \in Nat /\ \A i \in 1..n : conv[i] \in Nat
  OBVIOUS
<1>2. \A x \in Nat, k \in 1..n : G[<<x, k>>] = x + conv[k]
  OBVIOUS
<1> HIDE DEF n
<1>3. \A x \in Nat, k \in 1..n : G[<<x, k>>] \in Nat
  <2> SUFFICES ASSUME NEW x \in Nat, NEW k \in 1..n PROVE x + conv[k] \in Nat
    BY <1>2
  <2>1. conv[k] \in Nat
    BY <1>1
  <2> QED BY <2>1
<1> HIDE DEF G
<1>4. PICK f : LoopIn(f, Nat, 0, n, G)
  <2> DEFINE D == Nat
             z == 0
  <2>1. z \in D /\ \A x \in D, k \in 1..n : G[<<x, k>>] \in D
    BY <1>3
  <2> HIDE DEF D, z
  <2>2. \E f : LoopIn(f, D, z, n, G)
    BY <1>1, <2>1, LoopExists
  <2> QED BY <2>2 DEF D, z
<1>5. ASSUME NEW k \in 1..n PROVE G[<<f[k-1], k>>] = f[k-1] + conv[k]
  <2>1. k - 1 \in 0..n
    BY <1>1
  <2>2. f[k-1] \in Nat
    BY <1>4, <2>1 DEF LoopIn
  <2> QED BY <1>2, <2>2
<1>6. Cum(f)
  <2>1. \A k \in 0..n : k # 0 => k \in 1..n
    OBVIOUS
  <2> QED BY <1>4, <1>5, <2>1 DEF LoopIn
<1> DEFINE h == CHOOSE h : Cum(h)
<1>7. Cum(h)
  BY <1>6
<1>8. prefix(conv) = h
  BY DEF prefix, n
<1> HIDE DEF h
<1>9. h[0] = 0
  <2>1. 0 \in 0..n
    BY <1>1
  <2> QED BY <1>7, <2>1
<1>10. ASSUME NEW k \in 0..(n-1) PROVE h[k+1] = h[k] + conv[k+1]
  <2>1. k+1 \in 0..n /\ k+1 # 0 /\ (k+1)-1 = k
    BY <1>1
  <2> QED BY <1>7, <2>1
<1>11. \A k \in 0..n : h[k] \in Nat
  <2> DEFINE S == {k \in 0..n : h[k] \in Nat}
  <2>1. 0 \in S
    BY <1>1, <1>9
  <2>2. ASSUME NEW k \in 0..(n-1), k \in S PROVE k+1 \in S
    <3>1. k+1 \in 0..n /\ conv[k+1] \in Nat
      BY <1>1
    <3> QED BY <1>10, <2>2, <3>1
  <2>3. \A k \in 0..n : k \in S
    <3> HIDE DEF S
    <3> QED BY <1>1, <2>1, <2>2, LoopInduction
  <2> QED BY <2>3
<1>12. \A k \in 0..(n-1) : h[k+1] = h[k] + conv[k+1]
  BY <1>10
<1>13. n = Len(conv)
  BY DEF n
<1> HIDE DEF Cum
<1> QED BY <1>8, <1>9, <1>11, <1>12, <1>13

(* Whole numbers add up, and are not negative.                             *)
LEMMA WholePlus ==
  ASSUME NEW n \in Nat, NEW m \in Nat
  PROVE  /\ Q(n + m) = Q(n) ++ Q(m)
         /\ Q(n) \in Normal /\ Zero \preceq Q(n)
<1>1. Over(Q(n), n, 1) /\ Over(Q(m), m, 1) /\ Over(Q(n+m), n+m, 1)
  BY OverWhole
<1>2. Over(Q(n) ++ Q(m), n + m, 1)
  BY <1>1, OverPlus
<1>3. Q(n) \in Normal /\ Q(m) \in Normal /\ Q(n+m) \in Normal /\ Q(n) ++ Q(m) \in Normal
  <2>1. n \in Int /\ m \in Int /\ n + m \in Int
    OBVIOUS
  <2>2. Q(n) \in Normal /\ Q(m) \in Normal /\ Q(n+m) \in Normal
    BY <2>1, NormalWhole
  <2> QED BY <2>2, NormalPlus, NormalFinite
<1>4. Zero \preceq Q(n)
  <2>1. Q(n) \in Finite /\ Q(n)[1] = n
    BY NormalFinite, <1>3 DEF Q
  <2> QED BY <2>1, PositiveIs
<1> QED BY <1>1, <1>2, <1>3, <1>4, SameValue

(* A list of lists as one, list by list.                                   *)
Appends(h, ss) ==
  h = [i \in 1..Len(ss) |-> IF i = 1 THEN ss[i] ELSE h[i-1] \o ss[i]]

LEMMA FlattenIs ==
  ASSUME NEW A, NEW ss \in Seq(Seq(A)), ss # <<>>
  PROVE  \E h : /\ h[Len(ss)] = Seqs!FlattenSeq(ss) /\ h[1] = ss[1]
                /\ \A k \in 1..(Len(ss)-1) : h[k+1] = h[k] \o ss[k+1]
                /\ \A k \in 1..Len(ss) : h[k] \in Seq(A)
<1> DEFINE n == Len(ss)
           G == [p \in Seq(A) \X (1..n) |-> p[1] \o ss[p[2]]]
<1>1. n \in Nat \ {0} /\ \A i \in 1..n : ss[i] \in Seq(A)
  OBVIOUS
<1> HIDE DEF n
<1>2. \A x \in Seq(A), k \in 1..n : G[<<x, k>>] = x \o ss[k]
  OBVIOUS
<1>3. \A x \in Seq(A), k \in 1..n : G[<<x, k>>] \in Seq(A)
  <2> SUFFICES ASSUME NEW x \in Seq(A), NEW k \in 1..n PROVE x \o ss[k] \in Seq(A)
    BY <1>2
  <2>1. ss[k] \in Seq(A)
    BY <1>1
  <2> QED BY <2>1
<1> HIDE DEF G
<1>4. PICK f : LoopIn(f, Seq(A), <<>>, n, G)
  <2> DEFINE D == Seq(A)
             z == <<>>
  <2>1. z \in D /\ (\A x \in D, k \in 1..n : G[<<x, k>>] \in D) /\ n \in Nat
    BY <1>1, <1>3
  <2> HIDE DEF D, z
  <2>2. \E f : LoopIn(f, D, z, n, G)
    BY <2>1, LoopExists
  <2> QED BY <2>2 DEF D, z
<1> DEFINE g == [i \in 1..n |-> f[i]]
<1>5. ASSUME NEW i \in 1..n PROVE g[i] = IF i = 1 THEN ss[i] ELSE g[i-1] \o ss[i]
  <2>1. i \in 0..n /\ i - 1 \in 0..n /\ i # 0 /\ 0 \in 0..n
    BY <1>1
  <2>2. f[i-1] \in Seq(A)
    BY <1>4, <2>1 DEF LoopIn
  <2>3. f[i] = f[i-1] \o ss[i] /\ f[0] = <<>>
    BY <1>2, <1>4, <2>1, <2>2 DEF LoopIn
  <2>4. CASE i = 1
    <3>3. i - 1 = 0 /\ 1 \in 1..n
      BY <1>1, <2>4
    <3>1. ss[1] \in Seq(A) /\ f[1] = <<>> \o ss[1]
      BY <1>1, <2>3, <2>4, <3>3
    <3>2. f[1] = ss[1]
      BY <3>1
    <3> QED BY <2>4, <3>2
  <2>5. CASE i # 1
    <3>1. i - 1 \in 1..n
      BY <1>1, <2>5
    <3> QED BY <2>3, <2>5, <3>1
  <2> QED BY <2>4, <2>5
<1>6. Appends(g, ss)
  <2>1. n = Len(ss) /\ DOMAIN g = 1..n
    BY DEF n
  <2>2. g = [i \in 1..n |-> g[i]]
    OBVIOUS
  <2> HIDE DEF g
  <2> QED BY <1>5, <2>1, <2>2 DEF Appends
<1> DEFINE h == CHOOSE h : Appends(h, ss)
<1>7. Appends(h, ss)
  BY <1>6
<1>8. Seqs!FlattenSeq(ss) = h[n]
  <2>1. n = Len(ss) /\ n # 0
    BY <1>1 DEF n
  <2> QED BY <2>1 DEF Seqs!FlattenSeq, Appends
<1> HIDE DEF h
<1>9. h[1] = ss[1]
  <2>1. 1 \in 1..n
    BY <1>1
  <2> QED BY <1>7, <2>1 DEF Appends, n
<1>10. ASSUME NEW k \in 1..(n-1) PROVE h[k+1] = h[k] \o ss[k+1]
  <2>1. k+1 \in 1..n /\ k+1 # 1 /\ (k+1)-1 = k
    BY <1>1
  <2> QED BY <1>7, <2>1 DEF Appends, n
<1>11. \A k \in 1..n : h[k] \in Seq(A)
  <2> DEFINE S == {k \in 0..(n-1) : h[k+1] \in Seq(A)}
             m == n - 1
  <2>1. 0 \in S /\ m \in Nat
    BY <1>1, <1>9
  <2>2. ASSUME NEW k \in 0..(m-1), k \in S PROVE k+1 \in S
    <3>1. k+1 \in 1..(n-1) /\ k+1 \in 0..(n-1) /\ (k+1)+1 \in 1..n
      <4>1. n \in Nat /\ k \in 0..((n-1)-1)
        BY <1>1
      <4> HIDE DEF S
      <4> QED BY <4>1
    <3>2. h[(k+1)+1] = h[k+1] \o ss[(k+1)+1] /\ ss[(k+1)+1] \in Seq(A)
      BY <1>1, <1>10, <3>1
    <3>3. h[k+1] \in Seq(A)
      BY <2>2
    <3>4. h[(k+1)+1] \in Seq(A)
      BY <3>2, <3>3
    <3> QED BY <3>1, <3>4
  <2>3. \A k \in 0..m : k \in S
    <3> HIDE DEF S, m
    <3> QED BY <2>1, <2>2, LoopInduction
  <2>4. ASSUME NEW k \in 1..n PROVE h[k] \in Seq(A)
    <3>1. k-1 \in 0..m /\ (k-1)+1 = k
      BY <1>1
    <3> QED BY <2>3, <3>1
  <2> QED BY <2>4
<1>12. \A k \in 1..(n-1) : h[k+1] = h[k] \o ss[k+1]
  BY <1>10
<1>13. n = Len(ss)
  BY DEF n
<1> QED BY <1>8, <1>9, <1>11, <1>12, <1>13

(* What is in it was in one of the lists.                                  *)
LEMMA FlattenTyped ==
  ASSUME NEW A, NEW ss \in Seq(Seq(A))
  PROVE  Seqs!FlattenSeq(ss) \in Seq(A)
<1>1. CASE ss = <<>>
  <2>1. Seqs!FlattenSeq(ss) = <<>>
    BY <1>1 DEF Seqs!FlattenSeq
  <2> QED BY <2>1
<1>2. CASE ss # <<>>
  <2>1. Len(ss) \in 1..Len(ss)
    BY <1>2
  <2> QED BY <1>2, <2>1, FlattenIs
<1> QED BY <1>1, <1>2

(* Two lists of the same length, with the relation R between their         *)
(* elements, place by place.                                               *)
Paired(s, t, R) == Len(s) = Len(t) /\ \A i \in 1..Len(s) : <<s[i], t[i]>> \in R

LEMMA AppendPaired ==
  ASSUME NEW A, NEW B, NEW R, NEW s \in Seq(A), NEW u \in Seq(A), NEW t \in Seq(B), NEW v \in Seq(B),
         Paired(s, t, R), Paired(u, v, R)
  PROVE  Paired(s \o u, t \o v, R)
<1> DEFINE l == Len(s)
           m == Len(u)
<1>1. l \in Nat /\ m \in Nat /\ Len(s) = l /\ Len(t) = l /\ Len(u) = m /\ Len(v) = m
  BY DEF Paired
<1> HIDE DEF l, m
<1>2. Len(s \o u) = l + m /\ Len(t \o v) = l + m
  BY <1>1
<1>3. ASSUME NEW i \in 1..(l + m) PROVE <<(s \o u)[i], (t \o v)[i]>> \in R
  <2>1. CASE i <= l
    <3>1. (s \o u)[i] = s[i] /\ (t \o v)[i] = t[i] /\ i \in 1..l
      BY <1>1, <2>1
    <3> QED BY <1>1, <3>1 DEF Paired
  <2>2. CASE i > l
    <3>1. (s \o u)[i] = u[i - l] /\ (t \o v)[i] = v[i - l] /\ i - l \in 1..m
      BY <1>1, <2>2
    <3> QED BY <1>1, <3>1 DEF Paired
  <2>3. i <= l \/ i > l
    BY <1>1
  <2> QED BY <2>1, <2>2, <2>3
<1> QED BY <1>2, <1>3 DEF Paired

(* Lists of alike lists make alike lists.                                  *)
LEMMA FlattenPaired ==
  ASSUME NEW A, NEW B, NEW R, NEW ss \in Seq(Seq(A)), NEW ts \in Seq(Seq(B)), Len(ss) = Len(ts),
         \A j \in 1..Len(ss) : Paired(ss[j], ts[j], R)
  PROVE  Paired(Seqs!FlattenSeq(ss), Seqs!FlattenSeq(ts), R)
<1>1. CASE ss = <<>>
  <2>1. Len(ss) = 0 /\ Len(ts) = 0 /\ ts = <<>>
    BY <1>1
  <2>2. Seqs!FlattenSeq(ss) = <<>> /\ Seqs!FlattenSeq(ts) = <<>>
    BY <1>1, <2>1 DEF Seqs!FlattenSeq
  <2> QED BY <2>2 DEF Paired
<1>2. CASE ss # <<>>
  <2> DEFINE n == Len(ss)
  <2>1. n \in Nat \ {0} /\ Len(ts) = n /\ ts # <<>>
    BY <1>2
  <2>2. PICK g : /\ g[Len(ss)] = Seqs!FlattenSeq(ss) /\ g[1] = ss[1]
                 /\ \A k \in 1..(Len(ss)-1) : g[k+1] = g[k] \o ss[k+1]
                 /\ \A k \in 1..Len(ss) : g[k] \in Seq(A)
    BY <1>2, FlattenIs
  <2>3. PICK h : /\ h[Len(ts)] = Seqs!FlattenSeq(ts) /\ h[1] = ts[1]
                 /\ \A k \in 1..(Len(ts)-1) : h[k+1] = h[k] \o ts[k+1]
                 /\ \A k \in 1..Len(ts) : h[k] \in Seq(B)
    BY <2>1, FlattenIs
  <2> DEFINE S == {k \in 0..(n-1) : Paired(g[k+1], h[k+1], R)}
             m == n - 1
  <2>4. m \in Nat /\ 1 \in 1..n /\ 0 \in 0..m /\ 0 + 1 = 1
    BY <2>1
  <2>5. 0 \in S
    BY <2>2, <2>3, <2>4
  <2>6. ASSUME NEW k \in 0..(m-1), k \in S PROVE k+1 \in S
    <3>1. k+1 \in 1..(n-1) /\ k+1 \in 1..n /\ k+1 \in 0..(n-1) /\ (k+1)+1 \in 1..n
      <4>1. n \in Nat /\ k \in 0..((n-1)-1)
        BY <2>1
      <4> HIDE DEF S, n
      <4> QED BY <4>1
    <3>2. Paired(g[k+1], h[k+1], R) /\ Paired(ss[(k+1)+1], ts[(k+1)+1], R)
      BY <2>6, <3>1
    <3>3. ss[(k+1)+1] \in Seq(A) /\ ts[(k+1)+1] \in Seq(B) /\ g[k+1] \in Seq(A) /\ h[k+1] \in Seq(B)
      BY <2>1, <2>2, <2>3, <3>1
    <3>4. Paired(g[k+1] \o ss[(k+1)+1], h[k+1] \o ts[(k+1)+1], R)
      BY <3>2, <3>3, AppendPaired
    <3>5. g[(k+1)+1] = g[k+1] \o ss[(k+1)+1] /\ h[(k+1)+1] = h[k+1] \o ts[(k+1)+1]
      BY <2>1, <2>2, <2>3, <3>1
    <3> QED BY <3>1, <3>4, <3>5
  <2>7. \A k \in 0..m : k \in S
    <3> HIDE DEF S, m
    <3> QED BY <2>4, <2>5, <2>6, LoopInduction
  <2>8. m + 1 = n /\ m \in 0..m
    <3> HIDE DEF S, n
    <3> QED BY <2>1, <2>4
  <2>9. Paired(g[n], h[n], R)
    BY <2>7, <2>8
  <2> QED BY <2>1, <2>2, <2>3, <2>9
<1> QED BY <1>1, <1>2

LEMMA NonNegativeQuotient ==
  ASSUME NEW a \in Normal, Zero \preceq a, NEW c \in Normal, Zero \prec c
  PROVE  a // c \in Normal /\ Zero \preceq a // c
<1>1. CASE a = Zero
  <2>1. a // c = Zero /\ Zero \in Normal
    BY <1>1, ZeroLaws
  <2> QED BY <1>1, <2>1
<1>2. CASE a # Zero
  <2>1. Zero \prec a
    BY <1>2, PositiveUnlessZero
  <2> DEFINE b == a // c
  <2>2. b \in Normal /\ Zero \prec b
    BY <2>1, PositiveQuotient
  <2> HIDE DEF b
  <2>3. b \in Finite /\ b[1] \in Int
    BY <2>2, NormalFinite, Parts
  <2>4. Zero \preceq b
    BY <2>2, <2>3, PositiveIs
  <2> QED BY <2>2, <2>4 DEF b
<1> QED BY <1>1, <1>2

LEMMA OverOne ==
  /\ One \in Normal /\ Zero \prec One
  /\ \A a \in Normal : a // One = a
<1>1. One \in Normal /\ Over(One, 1, 1)
  <2>1. 1 \in Int
    OBVIOUS
  <2> QED BY <2>1, NormalWhole, OverWhole DEF One
<1>2. Zero \prec One
  <2>1. One \in Finite /\ One[1] = 1
    BY ZeroOne
  <2> QED BY <2>1, PositiveIs
<1>3. ASSUME NEW a \in Normal PROVE a // One = a
  <2>1. Over(a, a[1], a[2]) /\ a[1] \in Int /\ a[2] \in Nat \ {0} /\ a \in Finite
    BY NormalFinite, Parts
  <2> DEFINE u == 1
  <2>2. u > 0 /\ Over(One, u, u) /\ a[1] * u = a[1] /\ a[2] * u = a[2]
    BY <1>1, <2>1
  <2> HIDE DEF u
  <2>3. Over(a // One, a[1] * u, a[2] * u)
    BY <2>1, <2>2, OverQuotient
  <2>4. a // One \in Normal
    BY <1>1, <1>2, Distributes
  <2> QED BY <2>1, <2>2, <2>3, <2>4, SameValue
<1> QED BY <1>1, <1>2, <1>3

(* The tokens of k and of l characters.                                    *)
LEMMA Tokens ==
  ASSUME NEW k \in Nat, NEW l \in Nat, NEW cpt \in Normal, Zero \prec cpt
  PROVE  /\ Q(k + l) // cpt = (Q(k) // cpt) ++ (Q(l) // cpt)
         /\ Q(k) // cpt \in Normal /\ Zero \preceq Q(k) // cpt
         /\ Q(k) // cpt = (Q(k) // One) // cpt
<1>1. /\ Q(k + l) = Q(k) ++ Q(l) /\ Q(k) \in Normal /\ Q(l) \in Normal /\ Zero \preceq Q(k)
  BY WholePlus
<1>2. Q(k + l) // cpt = (Q(k) // cpt) ++ (Q(l) // cpt)
  BY <1>1, Distributes
<1>3. Q(k) // cpt \in Normal /\ Zero \preceq Q(k) // cpt
  BY <1>1, NonNegativeQuotient
<1>4. Q(k) // One = Q(k)
  BY <1>1, OverOne
<1> QED BY <1>2, <1>3, <1>4

(* What a call is, and the calls at cpt characters per token next to those *)
(* at one character.                                                       *)
Made ==
  {c \in [idx : Nat, input : Normal, cached : Normal, uncached : Normal, output : Normal] :
     /\ c.input = c.cached ++ c.uncached
     /\ Zero \preceq c.input /\ Zero \preceq c.cached /\ Zero \preceq c.uncached}
Scaling(cpt) ==
  {p \in Made \X Made : /\ p[1].input = p[2].input // cpt /\ p[1].cached = p[2].cached // cpt
                        /\ p[1].uncached = p[2].uncached // cpt}

LEMMA SegmentIs ==
  ASSUME NEW conv \in Seq(Nat), NEW cpt \in Normal, Zero \prec cpt,
         NEW i \in Nat, 2 * i + 2 <= Len(conv)
  PROVE  /\ Segment(conv, i, cpt) \in Made
         /\ <<Segment(conv, i, cpt), Segment(conv, i, One)>> \in Scaling(cpt)
         /\ i = 0 => Segment(conv, i, cpt).cached = Zero
         /\ 2 * i + 4 <= Len(conv) =>
              Segment(conv, i+1, cpt).cached
                = Segment(conv, i, cpt).input ++ Segment(conv, i, cpt).output
<1> DEFINE j == 2 * i
           p == prefix(conv)
           n == Len(conv)
<1>1. j \in Nat /\ n \in Nat /\ j + 2 <= n /\ (i = 0 => j = 0) /\ 2 * (i + 1) = j + 2
      /\ \A k \in 1..n : conv[k] \in Nat
  OBVIOUS
<1>2. /\ Segment(conv, i, cpt) = [idx |-> i, input |-> Q(p[j+1]) // cpt, cached |-> Q(p[j]) // cpt,
           uncached |-> Q(conv[j+1]) // cpt, output |-> Q(conv[j+2]) // cpt]
      /\ Segment(conv, i, One) = [idx |-> i, input |-> Q(p[j+1]) // One, cached |-> Q(p[j]) // One,
           uncached |-> Q(conv[j+1]) // One, output |-> Q(conv[j+2]) // One]
      /\ Segment(conv, i+1, cpt).cached = Q(p[j+2]) // cpt
  BY <1>1 DEF Segment
<1>3. /\ p[0] = 0 /\ (\A k \in 0..(n-1) : p[k+1] = p[k] + conv[k+1])
      /\ \A k \in 0..n : p[k] \in Nat
  BY PrefixIs
<1> HIDE DEF j, p, n
<1>4. /\ j \in 0..(n-1) /\ j+1 \in 0..(n-1) /\ (j+1)+1 = j+2 /\ j+1 \in 1..n /\ j+2 \in 1..n
      /\ j \in 0..n /\ j+1 \in 0..n /\ j+2 \in 0..n
  BY <1>1
<1> DEFINE a == p[j]
           b == conv[j+1]
           c == conv[j+2]
<1>5. a \in Nat /\ b \in Nat /\ c \in Nat /\ a + b \in Nat
      /\ p[j+1] = a + b /\ p[j+2] = (a + b) + c /\ (i = 0 => a = 0)
  <2>1. a \in Nat /\ b \in Nat /\ c \in Nat /\ (i = 0 => a = 0)
    BY <1>1, <1>3, <1>4
  <2>2. p[j+1] = a + b
    BY <1>3, <1>4
  <2>3. p[(j+1)+1] = p[j+1] + conv[(j+1)+1]
    BY <1>3, <1>4
  <2>4. p[j+2] = (a + b) + c
    BY <1>4, <2>2, <2>3
  <2>5. a + b \in Nat
    BY <2>1
  <2> HIDE DEF a, b, c
  <2> QED BY <2>1, <2>2, <2>4, <2>5
<1>6. p[j] = a /\ conv[j+1] = b /\ conv[j+2] = c
  OBVIOUS
<1> HIDE DEF a, b, c
<1>7. ASSUME NEW t \in Normal, Zero \prec t
      PROVE  /\ Q(a + b) // t = (Q(a) // t) ++ (Q(b) // t)
             /\ Q((a + b) + c) // t = (Q(a + b) // t) ++ (Q(c) // t)
             /\ \A m \in {a, b, c, a + b} : /\ Q(m) // t \in Normal /\ Zero \preceq Q(m) // t
                                            /\ Q(m) // t = (Q(m) // One) // t
  <2>1. Q(a + b) // t = (Q(a) // t) ++ (Q(b) // t)
    BY <1>5, <1>7, Tokens
  <2> DEFINE d == a + b
  <2>2. d \in Nat
    BY <1>5
  <2> HIDE DEF d
  <2>3. Q(d + c) // t = (Q(d) // t) ++ (Q(c) // t)
    BY <1>5, <1>7, <2>2, Tokens
  <2>4. \A m \in {a, b, c, d} : m \in Nat
    BY <1>5, <2>2
  <2>5. \A m \in {a, b, c, d} : /\ Q(m) // t \in Normal /\ Zero \preceq Q(m) // t
                                /\ Q(m) // t = (Q(m) // One) // t
    BY <1>7, <2>4, Tokens
  <2> QED BY <2>1, <2>3, <2>5 DEF d
<1>8. One \in Normal /\ Zero \prec One
  BY OverOne
<1>9. Segment(conv, i, cpt) \in Made /\ Segment(conv, i, One) \in Made
  <2>1. ASSUME NEW t \in Normal, Zero \prec t
        PROVE [idx |-> i, input |-> Q(a + b) // t, cached |-> Q(a) // t,
               uncached |-> Q(b) // t, output |-> Q(c) // t] \in Made
    BY <1>7, <2>1 DEF Made
  <2> QED BY <1>2, <1>5, <1>6, <1>8, <2>1
<1>10. <<Segment(conv, i, cpt), Segment(conv, i, One)>> \in Scaling(cpt)
  <2> DEFINE s == Segment(conv, i, cpt)
             t == Segment(conv, i, One)
  <2>1. /\ Q(a) // cpt = (Q(a) // One) // cpt /\ Q(b) // cpt = (Q(b) // One) // cpt
        /\ Q(a + b) // cpt = (Q(a + b) // One) // cpt
    BY <1>7
  <2>2. /\ s.input = Q(a + b) // cpt /\ s.cached = Q(a) // cpt /\ s.uncached = Q(b) // cpt
        /\ t.input = Q(a + b) // One /\ t.cached = Q(a) // One /\ t.uncached = Q(b) // One
    BY <1>2, <1>5, <1>6
  <2>3. s \in Made /\ t \in Made
    BY <1>9
  <2> HIDE DEF s, t
  <2>4. s.input = t.input // cpt /\ s.cached = t.cached // cpt /\ s.uncached = t.uncached // cpt
    BY <2>1, <2>2
  <2>5. <<s, t>> \in Scaling(cpt)
    BY <2>3, <2>4 DEF Scaling
  <2> QED BY <2>5 DEF s, t
<1>11. i = 0 => Segment(conv, i, cpt).cached = Zero
  <2>1. Zero // cpt = Zero
    BY ZeroLaws
  <2> QED BY <1>2, <1>5, <1>6, <2>1 DEF Zero
<1>12. Segment(conv, i+1, cpt).cached = Segment(conv, i, cpt).input ++ Segment(conv, i, cpt).output
  BY <1>2, <1>5, <1>6, <1>7
<1> QED BY <1>9, <1>10, <1>11, <1>12

LEMMA ListOf ==
  ASSUME NEW A, NEW n \in Nat, NEW f, f = [i \in 1..n |-> f[i]], \A i \in 1..n : f[i] \in A
  PROVE  f \in Seq(A) /\ Len(f) = n /\ DOMAIN f = 1..n
OBVIOUS

(* What a trial is, and the trials at cpt next to those at one.            *)
Trials ==
  {t \in [n_calls : Nat \ {0}, calls : Seq(Made)] :
     Len(t.calls) = t.n_calls /\ EndToEnd(t.calls)}
ScalingTrials(cpt) == {p \in Trials \X Trials : Paired(p[1].calls, p[2].calls, Scaling(cpt))}

LEMMA TrialIs ==
  ASSUME NEW conv \in Seq(Nat), Len(conv) >= 2, NEW cpt \in Normal, Zero \prec cpt
  PROVE  /\ TrialOf(conv, cpt) \in Trials
         /\ Paired(TrialOf(conv, cpt).calls, TrialOf(conv, One).calls, Scaling(cpt))
<1> DEFINE n == Len(conv) \div 2
           s == [i \in 1..n |-> Segment(conv, i - 1, cpt)]
           t == [i \in 1..n |-> Segment(conv, i - 1, One)]
<1>1. n \in Nat \ {0} /\ 2 * n <= Len(conv) /\ Len(conv) \in Nat
  OBVIOUS
<1>2. TrialOf(conv, cpt) = [n_calls |-> n, calls |-> s] /\ TrialOf(conv, One).calls = t
  BY DEF TrialOf
<1> HIDE DEF n
<1>3. ASSUME NEW i \in 1..n
      PROVE  /\ i - 1 \in Nat /\ 2 * (i - 1) + 2 <= Len(conv)
             /\ i < n => 2 * (i - 1) + 4 <= Len(conv)
             /\ (i - 1) + 1 = i
  BY <1>1
<1>4. ASSUME NEW i \in 1..n
      PROVE  s[i] \in Made /\ <<s[i], t[i]>> \in Scaling(cpt)
  BY <1>3, SegmentIs
<1>5. s[1].cached = Zero
  <2>1. 1 \in 1..n /\ 1 - 1 = 0
    BY <1>1
  <2>2. 0 \in Nat /\ 2 * 0 + 2 <= Len(conv)
    BY <1>3, <2>1
  <2> DEFINE z == 0
  <2>3. z = 0 /\ z \in Nat /\ 2 * z + 2 <= Len(conv)
    BY <2>2
  <2> HIDE DEF z
  <2>4. Segment(conv, z, cpt).cached = Zero
    BY <2>3, SegmentIs
  <2> QED BY <2>1, <2>3, <2>4
<1>6. ASSUME NEW i \in 1..(n - 1) PROVE s[i+1].cached = s[i].input ++ s[i].output
  <2>1. i \in 1..n /\ i+1 \in 1..n /\ i < n /\ (i + 1) - 1 = i
    BY <1>1
  <2> DEFINE j == i - 1
  <2>2. j \in Nat /\ 2 * j + 2 <= Len(conv) /\ 2 * j + 4 <= Len(conv) /\ j + 1 = i
    BY <1>3, <2>1
  <2>3. s[i+1] = Segment(conv, i, cpt) /\ s[i] = Segment(conv, j, cpt)
    BY <2>1
  <2> HIDE DEF j, s
  <2>4. Segment(conv, j+1, cpt).cached = Segment(conv, j, cpt).input ++ Segment(conv, j, cpt).output
    BY <2>2, SegmentIs
  <2> QED BY <2>2, <2>3, <2>4
<1>7. s \in Seq(Made) /\ Len(s) = n /\ Len(t) = n
  <2>1. /\ n \in Nat /\ s = [i \in 1..n |-> s[i]] /\ t = [i \in 1..n |-> t[i]]
        /\ (\A i \in 1..n : s[i] \in Made) /\ \A i \in 1..n : t[i] \in Made
    BY <1>1, <1>4 DEF Scaling
  <2> HIDE DEF s, t
  <2> QED BY <2>1, ListOf
<1>8. Paired(s, t, Scaling(cpt))
  <2> HIDE DEF s, t
  <2> QED BY <1>4, <1>7 DEF Paired
<1>9. DOMAIN s = 1..n
  OBVIOUS
<1> HIDE DEF s, t
<1>10. EndToEnd(s)
  <2>1. \A i \in 1..n : s[i].input = s[i].cached ++ s[i].uncached
    BY <1>4 DEF Made
  <2> QED BY <1>5, <1>6, <1>7, <1>9, <2>1 DEF EndToEnd
<1>11. TrialOf(conv, cpt) \in Trials
  BY <1>1, <1>2, <1>7, <1>10 DEF Trials
<1> QED BY <1>2, <1>8, <1>11

(* The trials of a trace, and their calls.                                 *)
LEMMA TrialsAre ==
  ASSUME NEW rows \in Seq(Seq(Nat)), NEW cpt \in Normal, Zero \prec cpt
  PROVE  /\ parse_trials(rows, cpt) \in Seq(Trials)
         /\ Paired(parse_trials(rows, cpt), parse_trials(rows, One), ScalingTrials(cpt))
<1> DEFINE T(c) == [j \in DOMAIN rows |-> IF Len(rows[j]) < 2 THEN <<>> ELSE <<TrialOf(rows[j], c)>>]
           s == T(cpt)
           t == T(One)
<1>1. DOMAIN rows = 1..Len(rows) /\ Len(rows) \in Nat /\ \A j \in 1..Len(rows) : rows[j] \in Seq(Nat)
  OBVIOUS
<1>2. One \in Normal /\ Zero \prec One
  BY OverOne
<1>3. ASSUME NEW c \in Normal, Zero \prec c, NEW j \in 1..Len(rows) PROVE T(c)[j] \in Seq(Trials)
  <2>1. CASE Len(rows[j]) < 2
    BY <1>1, <2>1
  <2>2. CASE ~(Len(rows[j]) < 2)
    <3>1. Len(rows[j]) >= 2 /\ rows[j] \in Seq(Nat)
      BY <1>1, <2>2
    <3>2. TrialOf(rows[j], c) \in Trials
      BY <1>3, <3>1, TrialIs
    <3> QED BY <1>1, <2>2, <3>2
  <2> QED BY <2>1, <2>2
<1>4. ASSUME NEW j \in 1..Len(rows) PROVE Paired(s[j], t[j], ScalingTrials(cpt))
  <2>1. CASE Len(rows[j]) < 2
    <3>1. s[j] = <<>> /\ t[j] = <<>>
      BY <1>1, <2>1
    <3> QED BY <3>1 DEF Paired
  <2>2. CASE ~(Len(rows[j]) < 2)
    <3>1. Len(rows[j]) >= 2 /\ rows[j] \in Seq(Nat)
      BY <1>1, <2>2
    <3> DEFINE x == TrialOf(rows[j], cpt)
               y == TrialOf(rows[j], One)
    <3>2. x \in Trials /\ y \in Trials /\ Paired(x.calls, y.calls, Scaling(cpt))
      BY <1>2, <3>1, TrialIs
    <3>3. s[j] = <<x>> /\ t[j] = <<y>>
      BY <1>1, <2>2
    <3> HIDE DEF x, y, s, t
    <3>4. <<x, y>> \in ScalingTrials(cpt)
      BY <3>2 DEF ScalingTrials
    <3>5. Len(s[j]) = 1 /\ Len(t[j]) = 1 /\ s[j][1] = x /\ t[j][1] = y
      BY <3>3
    <3>6. \A i \in 1..1 : i = 1
      OBVIOUS
    <3> QED BY <3>4, <3>5, <3>6 DEF Paired
  <2> QED BY <2>1, <2>2
<1>5. s \in Seq(Seq(Trials)) /\ t \in Seq(Seq(Trials)) /\ Len(s) = Len(rows) /\ Len(t) = Len(rows)
  <2>1. ASSUME NEW c \in Normal, Zero \prec c PROVE T(c) \in Seq(Seq(Trials)) /\ Len(T(c)) = Len(rows)
    <3> DEFINE v == T(c)
    <3>1. DOMAIN v = 1..Len(rows) /\ v = [j \in 1..Len(rows) |-> v[j]]
      BY <1>1
    <3>2. \A j \in 1..Len(rows) : v[j] \in Seq(Trials)
      BY <1>3, <2>1
    <3> HIDE DEF v
    <3>3. v \in Seq(Seq(Trials)) /\ Len(v) = Len(rows)
      BY <1>1, <3>1, <3>2
    <3> QED BY <3>3 DEF v
  <2> QED BY <1>2, <2>1
<1>6. parse_trials(rows, cpt) = Seqs!FlattenSeq(s) /\ parse_trials(rows, One) = Seqs!FlattenSeq(t)
  BY DEF parse_trials
<1> HIDE DEF s, t
<1>7. Seqs!FlattenSeq(s) \in Seq(Trials)
  BY <1>5, FlattenTyped
<1>8. Paired(Seqs!FlattenSeq(s), Seqs!FlattenSeq(t), ScalingTrials(cpt))
  BY <1>4, <1>5, FlattenPaired
<1> QED BY <1>6, <1>7, <1>8

LEMMA CallsAre ==
  ASSUME NEW cpt, NEW s \in Seq(Trials), NEW t \in Seq(Trials), Paired(s, t, ScalingTrials(cpt))
  PROVE  /\ CallsOf(s) \in Seq(Made) /\ CallsOf(t) \in Seq(Made)
         /\ Paired(CallsOf(s), CallsOf(t), Scaling(cpt))
<1> DEFINE n == Len(s)
           x == [j \in DOMAIN s |-> s[j].calls]
           y == [j \in DOMAIN t |-> t[j].calls]
<1>1. /\ DOMAIN s = 1..n /\ DOMAIN t = 1..n /\ n \in Nat
      /\ \A j \in 1..n : s[j] \in Trials /\ t[j] \in Trials /\ <<s[j], t[j]>> \in ScalingTrials(cpt)
  BY DEF Paired
<1> HIDE DEF n
<1>2. \A j \in 1..n : s[j].calls \in Seq(Made) /\ t[j].calls \in Seq(Made)
  BY <1>1 DEF Trials
<1>3. \A j \in 1..n : Paired(s[j].calls, t[j].calls, Scaling(cpt))
  BY <1>1 DEF ScalingTrials
<1>4. x \in Seq(Seq(Made)) /\ y \in Seq(Seq(Made)) /\ Len(x) = n /\ Len(y) = n
  <2>1. /\ n \in Nat /\ x = [i \in 1..n |-> x[i]] /\ y = [i \in 1..n |-> y[i]]
        /\ (\A i \in 1..n : x[i] \in Seq(Made)) /\ \A i \in 1..n : y[i] \in Seq(Made)
    BY <1>1, <1>2
  <2> HIDE DEF x, y
  <2> QED BY <2>1, ListOf
<1>5. \A j \in 1..n : Paired(x[j], y[j], Scaling(cpt))
  BY <1>1, <1>3
<1>6. CallsOf(s) = Seqs!FlattenSeq(x) /\ CallsOf(t) = Seqs!FlattenSeq(y)
  BY DEF CallsOf
<1> HIDE DEF x, y
<1>7. Seqs!FlattenSeq(x) \in Seq(Made) /\ Seqs!FlattenSeq(y) \in Seq(Made)
  BY <1>4, FlattenTyped
<1>8. Paired(Seqs!FlattenSeq(x), Seqs!FlattenSeq(y), Scaling(cpt))
  BY <1>4, <1>5, FlattenPaired
<1> QED BY <1>6, <1>7, <1>8

(* One number of each call.                                                *)
Column(calls, key) == [i \in DOMAIN calls |-> calls[i][key]]
Amounts == {"input", "cached", "uncached", "output"}

LEMMA ColumnIs ==
  ASSUME NEW calls \in Seq(Made), NEW key \in Amounts
  PROVE  /\ Column(calls, key) \in [1..Len(calls) -> Normal]
         /\ Len(Column(calls, key)) = Len(calls) /\ AllNormal(Column(calls, key), Len(calls))
<1> DEFINE n == Len(calls)
           xs == Column(calls, key)
<1>1. n \in Nat /\ DOMAIN calls = 1..n /\ \A i \in 1..n : calls[i] \in Made
  OBVIOUS
<1>2. xs = [i \in 1..n |-> calls[i][key]]
  BY <1>1 DEF Column
<1> HIDE DEF n, xs
<1>3. \A i \in 1..n : calls[i][key] \in Normal
  BY <1>1 DEF Made, Amounts
<1>4. xs = [i \in 1..n |-> xs[i]] /\ \A i \in 1..n : xs[i] \in Normal
  BY <1>2, <1>3
<1>5. Len(xs) = n
  BY <1>1, <1>4, ListOf
<1>6. xs \in [1..n -> Normal] /\ AllNormal(xs, n)
  BY <1>1, <1>4 DEF AllNormal
<1> QED BY <1>5, <1>6 DEF n, xs

LEMMA MeanIs ==
  ASSUME NEW xs, NEW n \in Nat, xs \in [1..n -> Normal], Len(xs) = n
  PROVE  summarize(xs).mean = SumTo(xs, n) // Q(n)
<1>1. [k \in DOMAIN xs |-> xs[k]] = xs
  OBVIOUS
<1> QED BY <1>1 DEF Mean, Total, summarize

(* The parts of the report that Tallies is about.                          *)
LEMMA StatsAre ==
  ASSUME NEW trials, NEW cpt, NEW calls, calls = CallsOf(trials)
  PROVE  LET stats == compute_stats(trials, cpt)
             sum(key) == SumTo(Column(calls, key), Len(calls))
         IN  /\ \A key \in Amounts : stats[key] = summarize(Column(calls, key))
             /\ stats.per_trial = summarize([j \in DOMAIN trials |-> Q(trials[j].n_calls)])
             /\ stats.uncached_fraction = One -- OverOrZero(sum("cached"), sum("input"))
<1> USE DEF compute_stats, Column
<1>1. \A key \in Amounts : compute_stats(trials, cpt)[key] = summarize(Column(calls, key))
  <2> DEFINE stats == compute_stats(trials, cpt)
  <2>1. stats["input"] = summarize(Column(calls, "input"))
    OBVIOUS
  <2>2. stats["cached"] = summarize(Column(calls, "cached"))
    OBVIOUS
  <2>3. stats["uncached"] = summarize(Column(calls, "uncached"))
    OBVIOUS
  <2>4. stats["output"] = summarize(Column(calls, "output"))
    OBVIOUS
  <2> HIDE DEF stats, compute_stats, Column
  <2>5. \A key \in Amounts : stats[key] = summarize(Column(calls, key))
    BY <2>1, <2>2, <2>3, <2>4 DEF Amounts
  <2> QED BY <2>5 DEF stats
<1>2. compute_stats(trials, cpt).per_trial = summarize([j \in DOMAIN trials |-> Q(trials[j].n_calls)])
  OBVIOUS
<1>3. compute_stats(trials, cpt).uncached_fraction
        = One -- OverOrZero(SumTo(Column(calls, "cached"), Len(calls)),
                            SumTo(Column(calls, "input"), Len(calls)))
  BY DEF Total
<1> QED BY <1>1, <1>2, <1>3

LEMMA CptIs ==
  ASSUME NEW rows, NEW calls, calls = CallsOf(parse_trials(rows, One))
  PROVE  calibrate_cpt(rows) = (SumTo(Column(calls, "input"), Len(calls)) // Q(Len(calls))) // DocInput
BY DEF calibrate_cpt, Mean, Total, Column

(* Numbers that Reduced leaves alone.                                      *)
LEMMA LowestIsNormal ==
  ASSUME NEW a \in LowestTerms
  PROVE  a \in Normal
<1>1. a \in Finite /\ Reduced(a[1], a[2]) = a
  BY DEF LowestTerms
<1>2. a[1] \in Int /\ a[2] \in Nat \ {0}
  BY <1>1, Parts
<1>3. PICK p \in Int, q \in Nat \ {0} : Reduced(a[1], a[2]) = <<p, q>> /\ Coprime(p, q)
  BY <1>2, ReducedCoprime
<1>4. a[1] = p /\ a[2] = q
  BY <1>1, <1>3
<1> QED BY <1>1, <1>3, <1>4 DEF Normal

(* The documented numbers are positive.                                    *)
LEMMA Documented ==
  ASSUME NEW r \in {DocInput, SimCpt}
  PROVE  r \in Normal /\ Zero \prec r
BY TraceAssumption, LowestIsNormal

(* The characters per token are positive, unless they are Zero.            *)
LEMMA CptPositive ==
  ASSUME NEW rows \in Seq(Seq(Nat)), NEW calls, calls = CallsOf(parse_trials(rows, One)),
         calls # <<>>, calibrate_cpt(rows) # Zero
  PROVE  LET s == SumTo(Column(calls, "input"), Len(calls)) IN
         /\ s \in Normal /\ Zero \prec s
         /\ calibrate_cpt(rows) = (s // Q(Len(calls))) // DocInput
         /\ calibrate_cpt(rows) \in Normal /\ Zero \prec calibrate_cpt(rows)
<1> DEFINE n == Len(calls)
           xs == Column(calls, "input")
           s == SumTo(xs, n)
           cpt == calibrate_cpt(rows)
<1>1. calls \in Seq(Made)
  <2>1. /\ parse_trials(rows, One) \in Seq(Trials)
        /\ Paired(parse_trials(rows, One), parse_trials(rows, One), ScalingTrials(One))
    BY OverOne, TrialsAre
  <2> QED BY <2>1, CallsAre
<1>2. n \in Nat \ {0} /\ DOMAIN calls = 1..n /\ \A i \in 1..n : calls[i] \in Made
  BY <1>1
<1>3. AllNormal(xs, n)
  <2>1. "input" \in Amounts
    BY DEF Amounts
  <2> QED BY <1>1, <2>1, ColumnIs
<1>4. \A i \in 1..n : Zero \preceq xs[i]
  BY <1>2 DEF Column, Made
<1>5. cpt = (s // Q(n)) // DocInput
  BY CptIs
<1>6. cpt # Zero
  OBVIOUS
<1> HIDE DEF xs, n, cpt
<1>7. s \in Normal /\ Zero \preceq s
  BY <1>3, <1>4, SumTyped, SumNonNegative
<1> HIDE DEF s
<1>8. DocInput \in Normal /\ Zero \prec DocInput
  BY Documented
<1>9. Q(n) \in Normal /\ Zero \prec Q(n)
  <2>1. Q(n) \in Normal
    BY <1>2, NormalWhole
  <2>2. Q(n) \in Finite /\ Q(n)[1] > 0
    BY <1>2, <2>1, NormalFinite DEF Q
  <2> QED BY <2>1, <2>2, PositiveIs
<1>10. s # Zero
  <2> SUFFICES ASSUME s = Zero PROVE FALSE
    OBVIOUS
  <2>1. s // Q(n) = Zero /\ Zero // DocInput = Zero
    BY <1>8, <1>9, ZeroLaws
  <2> QED BY <1>5, <1>6, <2>1
<1>11. Zero \prec s
  BY <1>7, <1>10, PositiveUnlessZero
<1>12. cpt \in Normal /\ Zero \prec cpt
  <2>1. s // Q(n) \in Normal /\ Zero \prec s // Q(n)
    BY <1>7, <1>9, <1>11, PositiveQuotient
  <2> QED BY <1>5, <1>8, <2>1, PositiveQuotient
<1> QED BY <1>5, <1>7, <1>11, <1>12 DEF s, n, xs, cpt

(* The sum of the inputs at cpt next to that at one.                       *)
LEMMA InputsScaled ==
  ASSUME NEW cpt \in Normal, Zero \prec cpt, NEW calls \in Seq(Made), NEW units \in Seq(Made),
         Paired(calls, units, Scaling(cpt))
  PROVE  SumTo(Column(calls, "input"), Len(calls)) = SumTo(Column(units, "input"), Len(calls)) // cpt
<1> DEFINE n == Len(calls)
           xs == Column(units, "input")
           ys == Column(calls, "input")
<1>1. n = Len(units) /\ DOMAIN calls = 1..n /\ DOMAIN units = 1..n
  BY DEF Paired
<1>2. AllNormal(xs, n)
  BY <1>1, ColumnIs DEF Amounts
<1>3. Shares(xs, ys, n, cpt)
  BY <1>1 DEF Paired, Scaling, Column, Shares
<1> HIDE DEF n, xs, ys
<1>4. SumTo(ys, n) = SumTo(xs, n) // cpt
  BY <1>2, <1>3, SumDivided
<1> QED BY <1>4 DEF n, xs, ys

(* The report of calls that are scaled so.                                 *)
LEMMA TalliesHold ==
  ASSUME NEW rows \in Seq(Seq(Nat)), CallsOf(parse_trials(rows, One)) # <<>>,
         NEW cpt, cpt = calibrate_cpt(rows), cpt # Zero
  PROVE  /\ parse_trials(rows, cpt) \in Seq(Trials)
         /\ Tallies(compute_stats(parse_trials(rows, cpt), cpt))
<1> DEFINE units == CallsOf(parse_trials(rows, One))
           trials == parse_trials(rows, cpt)
           calls == CallsOf(trials)
           stats == compute_stats(trials, cpt)
           n == Len(calls)
           s == SumTo(Column(units, "input"), n)
           Ins == Column(calls, "input")
           Ca == Column(calls, "cached")
           Un == Column(calls, "uncached")
<1>1. cpt \in Normal /\ Zero \prec cpt
  BY CptPositive
<1>2. trials \in Seq(Trials) /\ Paired(trials, parse_trials(rows, One), ScalingTrials(cpt))
  BY <1>1, TrialsAre
<1>3. parse_trials(rows, One) \in Seq(Trials)
  BY OverOne, TrialsAre
<1>4. calls \in Seq(Made) /\ units \in Seq(Made) /\ Paired(calls, units, Scaling(cpt))
  BY <1>2, <1>3, CallsAre
<1>5. n \in Nat \ {0} /\ Len(units) = n /\ DOMAIN calls = 1..n /\ DOMAIN units = 1..n
  <2>1. Len(calls) = Len(units) /\ units # <<>>
    BY <1>4 DEF Paired
  <2> QED BY <1>4, <2>1
<1>6. s \in Normal /\ Zero \prec s /\ cpt = (s // Q(n)) // DocInput
  BY <1>5, CptPositive
<1>7. /\ \A key \in Amounts : stats[key] = summarize(Column(calls, key))
      /\ stats.per_trial = summarize([j \in DOMAIN trials |-> Q(trials[j].n_calls)])
      /\ stats.uncached_fraction = One -- OverOrZero(SumTo(Ca, n), SumTo(Ins, n))
  <2>1. calls = CallsOf(trials)
    OBVIOUS
  <2> HIDE DEF calls, trials
  <2> QED BY <2>1, StatsAre
<1> HIDE DEF stats
<1>8. \A i \in 1..n : Ins[i] = Ca[i] ++ Un[i]
  BY <1>4, <1>5 DEF Made, Column
<1>9. \A key \in Amounts : /\ Column(calls, key) \in [1..n -> Normal]
                            /\ Len(Column(calls, key)) = n /\ AllNormal(Column(calls, key), n)
  BY <1>4, ColumnIs
<1>10. "input" \in Amounts /\ "cached" \in Amounts /\ "uncached" \in Amounts
  BY DEF Amounts
<1>11. /\ stats.input = summarize(Ins) /\ stats.uncached = summarize(Un)
       /\ AllNormal(Ins, n) /\ AllNormal(Ca, n) /\ AllNormal(Un, n)
       /\ Ins \in [1..n -> Normal] /\ Len(Ins) = n /\ Un \in [1..n -> Normal] /\ Len(Un) = n
  <2>1. stats["input"] = summarize(Ins) /\ stats["uncached"] = summarize(Un)
    BY <1>7, <1>10
  <2> QED BY <1>9, <1>10, <2>1
<1> DEFINE c == SumTo(Ca, n)
           u == SumTo(Un, n)
           t == SumTo(Ins, n)
<1>12. c \in Normal /\ u \in Normal /\ t = s // cpt /\ t = c ++ u
  <2>1. c \in Normal /\ u \in Normal
    BY <1>11, SumTyped
  <2>2. t = s // cpt
    BY <1>1, <1>4, <1>5, InputsScaled
  <2>3. t = c ++ u
    BY <1>8, <1>11, SumOfSums
  <2> QED BY <2>1, <2>2, <2>3
<1>13. stats.input.mean = t // Q(n) /\ stats.uncached.mean = u // Q(n)
  BY <1>5, <1>11, MeanIs
<1> HIDE DEF c, u, t, s, n, Ins, Ca, Un, calls, units
<1>14. Zero \prec t
  BY <1>1, <1>6, <1>12, PositiveQuotient
<1>15. stats.input.mean = DocInput
  <2>1. DocInput \in Normal /\ Zero \prec DocInput
    BY Documented
  <2>2. (s // ((s // Q(n)) // DocInput)) // Q(n) = DocInput
    BY <1>5, <1>6, <2>1, Anchored
  <2> QED BY <1>6, <1>12, <1>13, <2>2
<1>16. stats.uncached_fraction = stats.uncached.mean // stats.input.mean
  <2>1. stats.uncached_fraction = One -- (c // (c ++ u))
    BY <1>7, <1>12, <1>14 DEF OverOrZero, c, t
  <2>2. One -- (c // (c ++ u)) = (u // Q(n)) // ((c ++ u) // Q(n))
    BY <1>5, <1>12, <1>14, ShareLeft
  <2> QED BY <1>12, <1>13, <2>1, <2>2
<1>17. InOrder(stats.per_trial)
  <2> DEFINE m == Len(trials)
             xs == [j \in DOMAIN trials |-> Q(trials[j].n_calls)]
  <2>1. m \in Nat /\ DOMAIN trials = 1..m /\ \A j \in 1..m : trials[j].n_calls \in Nat
    BY <1>2 DEF Trials
  <2>2. m # 0
    <3> SUFFICES ASSUME m = 0 PROVE FALSE
      OBVIOUS
    <3>1. trials = <<>>
      BY <1>2
    <3>2. [j \in DOMAIN trials |-> trials[j].calls] = <<>>
      BY <3>1
    <3>3. calls = <<>>
      BY <3>2 DEF calls, CallsOf, Seqs!FlattenSeq
    <3> QED BY <1>5, <3>3 DEF n
  <2>3. xs = [j \in 1..m |-> xs[j]] /\ \A j \in 1..m : xs[j] \in Normal
    <3>1. \A j \in 1..m : Q(trials[j].n_calls) \in Normal
      BY <2>1, NormalWhole
    <3> QED BY <2>1, <3>1
  <2> HIDE DEF m, xs
  <2>4. xs \in [1..m -> Normal] /\ Len(xs) = m
    BY <2>1, <2>3, ListOf
  <2>5. InOrder(summarize(xs))
    BY <2>1, <2>2, <2>4, SummaryInOrder
  <2> QED BY <1>7, <2>5 DEF xs
<1>18. \A key \in Amounts : InOrder(stats[key])
  <2> SUFFICES ASSUME NEW key \in Amounts PROVE InOrder(stats[key])
    OBVIOUS
  <2>1. Column(calls, key) \in [1..n -> Normal] /\ Len(Column(calls, key)) = n
    BY <1>9
  <2> DEFINE xs == Column(calls, key)
  <2>2. stats[key] = summarize(xs) /\ xs \in [1..n -> Normal] /\ Len(xs) = n
    BY <1>7, <2>1
  <2> HIDE DEF xs
  <2> QED BY <1>5, <2>2, SummaryInOrder
<1>19. \A key \in {"per_trial", "input", "cached", "uncached", "output"} : InOrder(stats[key])
  BY <1>17, <1>18 DEF Amounts
<1>20. Tallies(stats)
  BY <1>15, <1>16, <1>19 DEF Tallies
<1> QED BY <1>2, <1>20 DEF stats

LEMMA UpToIs ==
  ASSUME NEW A, NEW s \in Seq(A), NEW n \in Nat
  PROVE  /\ UpTo(s, n) \in Seq(A) /\ Len(UpTo(s, n)) <= Len(s)
         /\ \A i \in 1..Len(UpTo(s, n)) : UpTo(s, n)[i] = s[i]
<1> DEFINE top == IF n <= Len(s) THEN n ELSE Len(s)
<1>1. top \in Nat /\ top <= Len(s) /\ \A i \in 1..top : s[i] \in A
  OBVIOUS
<1>2. /\ SubSeq(s, 1, top) \in Seq(A) /\ Len(SubSeq(s, 1, top)) = top
      /\ \A i \in 1..top : SubSeq(s, 1, top)[i] = s[i]
  BY <1>1, SubSeqProperties
<1> QED BY <1>1, <1>2 DEF UpTo

(* A session: calls that lie end to end, or are made up.                   *)
LEMMA SessionIs ==
  ASSUME NEW calls \in Seq(Made), EndToEnd(calls), NEW maxC \in Nat
  PROVE  LET some == UpTo(calls, maxC)
         IN  Replayed([i \in DOMAIN some |->
               [cached |-> some[i].cached, uncached |-> some[i].uncached, output |-> some[i].output]])
<1> DEFINE some == UpTo(calls, maxC)
           n == Len(some)
           s == [i \in DOMAIN some |->
                   [cached |-> some[i].cached, uncached |-> some[i].uncached, output |-> some[i].output]]
<1>1. some \in Seq(Made) /\ n <= Len(calls) /\ \A i \in 1..n : some[i] = calls[i]
  BY UpToIs
<1>2. n \in Nat /\ DOMAIN some = 1..n /\ DOMAIN calls = 1..Len(calls) /\ Len(calls) \in Nat
  BY <1>1
<1>3. \A i \in 1..n : /\ s[i].cached = calls[i].cached /\ s[i].uncached = calls[i].uncached
                      /\ s[i].output = calls[i].output
  BY <1>1, <1>2
<1>4. Len(s) = n
  BY <1>2
<1> HIDE DEF s, n, some
<1>5. ASSUME NEW i \in 1..(n - 1)
      PROVE  s[i+1].cached = s[i].cached ++ s[i].uncached ++ s[i].output
  <2>1. i \in 1..n /\ i+1 \in 1..n /\ i \in 1..(Len(calls) - 1) /\ i \in DOMAIN calls
    BY <1>1, <1>2
  <2>2. calls[i+1].cached = calls[i].input ++ calls[i].output
    BY <2>1 DEF EndToEnd
  <2>3. calls[i].input = calls[i].cached ++ calls[i].uncached
    BY <2>1 DEF EndToEnd
  <2> QED BY <1>3, <2>1, <2>2, <2>3
<1>6. Replayed(s)
  BY <1>4, <1>5 DEF Replayed
<1> QED BY <1>6 DEF s, some

LEMMA RowsAreTurns == Seq(Row) \subseteq Seq(Seq(Nat))
  BY TraceAssumption

LEMMA SessionsReplay ==
  ASSUME cache.rows \in Seq(Row), NEW maxS \in Nat, NEW maxC \in Nat
  PROVE  \A j \in DOMAIN load_calls(maxS, maxC) : Replayed(load_calls(maxS, maxC)[j])
<1> DEFINE trials == UpTo(parse_trials(cache.rows, SimCpt), maxS)
           traced == [j \in DOMAIN trials |->
                        LET calls == UpTo(trials[j].calls, maxC)
                        IN  [i \in DOMAIN calls |->
                               [cached |-> calls[i].cached, uncached |-> calls[i].uncached,
                                output |-> calls[i].output]]]
           each == [j \in DOMAIN traced |-> IF traced[j] = <<>> THEN <<>> ELSE <<traced[j]>>]
           kept == Seqs!FlattenSeq(each)
           made == [j \in 1..maxS |-> [i \in 1..maxC |-> TraceDefault]]
           n == Len(trials)
           Sessions == {traced[j] : j \in 1..n}
<1>1. load_calls(maxS, maxC) = IF cache.is = "whole" /\ kept # <<>> THEN kept ELSE made
  BY DEF load_calls
<1>2. trials \in Seq(Trials)
  <2>1. cache.rows \in Seq(Seq(Nat)) /\ SimCpt \in Normal /\ Zero \prec SimCpt
    BY RowsAreTurns, Documented
  <2>2. parse_trials(cache.rows, SimCpt) \in Seq(Trials)
    BY <2>1, TrialsAre
  <2> QED BY <2>2, UpToIs
<1>3. n \in Nat /\ DOMAIN trials = 1..n /\ \A j \in 1..n : trials[j] \in Trials
  BY <1>2
<1> HIDE DEF trials, n
<1>4. \A j \in 1..n : Replayed(traced[j])
  <2> SUFFICES ASSUME NEW j \in 1..n PROVE Replayed(traced[j])
    OBVIOUS
  <2>1. trials[j].calls \in Seq(Made) /\ EndToEnd(trials[j].calls)
    BY <1>3 DEF Trials
  <2> QED BY <1>3, <2>1, SessionIs
<1>5. DOMAIN traced = 1..n
  BY <1>3
<1>6. \A j \in 1..n : each[j] \in Seq(Sessions)
  <2> SUFFICES ASSUME NEW j \in 1..n PROVE each[j] \in Seq(Sessions)
    OBVIOUS
  <2>1. traced[j] \in Sessions
    OBVIOUS
  <2>2. each[j] = IF traced[j] = <<>> THEN <<>> ELSE <<traced[j]>>
    BY <1>5
  <2> HIDE DEF Sessions, each, traced
  <2>3. <<traced[j]>> \in Seq(Sessions) /\ <<>> \in Seq(Sessions)
    BY <2>1
  <2> QED BY <2>2, <2>3
<1>7. each \in Seq(Seq(Sessions))
  <2>1. each = [j \in 1..n |-> each[j]]
    BY <1>5
  <2> HIDE DEF each, Sessions
  <2> QED BY <1>3, <1>6, <2>1, ListOf
<1> HIDE DEF each
<1>8. kept \in Seq(Sessions)
  <2> HIDE DEF Sessions
  <2> QED BY <1>7, FlattenTyped
<1>9. \A j \in DOMAIN kept : Replayed(kept[j])
  <2> SUFFICES ASSUME NEW j \in DOMAIN kept PROVE Replayed(kept[j])
    OBVIOUS
  <2> HIDE DEF kept, traced
  <2>1. kept[j] \in Sessions
    <3> HIDE DEF Sessions
    <3> QED BY <1>8
  <2> QED BY <1>4, <2>1
<1>10. \A j \in DOMAIN made : Replayed(made[j])
  <2> SUFFICES ASSUME NEW j \in 1..maxS PROVE Replayed([i \in 1..maxC |-> TraceDefault])
    OBVIOUS
  <2> DEFINE s == [i \in 1..maxC |-> TraceDefault]
  <2>1. Len(s) = maxC /\ \A i \in 1..(maxC - 1) : s[i] = TraceDefault /\ s[i+1] = TraceDefault
    OBVIOUS
  <2> HIDE DEF s
  <2>2. Replayed(s)
    BY <2>1 DEF Replayed
  <2> QED BY <2>2 DEF s
<1> HIDE DEF kept, made
<1> QED BY <1>1, <1>9, <1>10

-----------------------------------------------------------------------------
(* Calibration: quantities and rates, in lowest terms.                     *)
Quantity == Normal \cap NonNegative
Pace     == Normal \cap Positive

LEMMA PaceIs ==
  ASSUME NEW a \in Pace
  PROVE  a \in Quantity /\ a \in Normal /\ a \in Positive /\ Zero \prec a /\ a[1] > 0
BY PositiveNonNegative, PositiveIs DEF Pace, Quantity, Positive

(* Quantities add up and multiply to quantities, and rates divide them.    *)
LEMMA QuantityClosed ==
  ASSUME NEW a \in Quantity, NEW b \in Quantity
  PROVE  /\ a ++ b \in Quantity /\ a ** b \in Quantity /\ a \sqcup b \in Quantity
         /\ \A c \in Pace : a // c \in Quantity
<1>1. a \in Normal /\ b \in Normal /\ a \in NonNegative /\ b \in NonNegative
  BY DEF Quantity
<1>2. Rises(a, a) /\ Rises(b, b)
  BY <1>1, RisesConstant
<1>3. a ++ b \in Quantity
  <2>1. a ++ b \in NonNegative
    BY <1>2, RisesPlus DEF Rises
  <2> QED BY <1>1, <2>1, NormalPlus, NormalFinite DEF Quantity
<1>4. a ** b \in Quantity
  BY <1>1, NonNegativeTimes, NormalTimes DEF Quantity
<1>5. a \sqcup b \in Quantity
  BY DEF \sqcup
<1>6. ASSUME NEW c \in Pace PROVE a // c \in Quantity
  <2>1. c \in Positive /\ c[1] > 0 /\ c \in Normal
    BY PaceIs
  <2>2. a // c \in NonNegative
    BY <1>2, <2>1, RisesQuotient DEF Rises
  <2> QED BY <1>1, <2>1, <2>2, NormalQuotient DEF Quantity
<1> QED BY <1>3, <1>4, <1>5, <1>6

(* A rate is left by a product, a quotient, and by what is added to it.    *)
LEMMA PaceClosed ==
  ASSUME NEW a \in Pace
  PROVE  /\ \A b \in Pace : a ** b \in Pace /\ a // b \in Pace
         /\ \A b \in Quantity : a ++ b \in Pace /\ a \sqcup b \in Pace
<1>1. a \in Normal /\ a \in Finite /\ a \in Positive /\ Zero \prec a /\ a \in Rational
  BY PaceIs, NormalFinite, Parts
<1>2. ASSUME NEW b \in Pace PROVE a ** b \in Pace /\ a // b \in Pace
  <2>1. b \in Normal /\ b \in Finite /\ b \in Positive /\ Zero \prec b
    BY PaceIs, NormalFinite
  <2>2. a // b \in Pace
    <3>1. a // b \in Normal /\ Zero \prec a // b
      BY <1>1, <2>1, PositiveQuotient
    <3> QED BY <3>1, NormalFinite DEF Pace, Positive
  <2>3. a ** b \in Normal
    BY <1>1, <2>1, NormalTimes
  <2>4. PICK D, i, j, k, l : Over(a, i, D) /\ Over(b, j, D) /\ Over(a, k, D) /\ Over(b, l, D)
    BY <1>1, <2>1, CommonDenominator
  <2>5. i \in Int /\ j \in Int /\ i > 0 /\ j > 0
    BY <1>1, <2>1, <2>4, OverSign
  <2>6. Over(a ** b, i * j, D * D)
    BY <2>4, OverTimes
  <2>7. i * j > 0
    BY <2>5
  <2>8. a ** b \in Positive
    BY <2>6, <2>7, OverSign
  <2> QED BY <2>2, <2>3, <2>8 DEF Pace
<1>3. ASSUME NEW b \in Quantity PROVE a ++ b \in Pace
  <2>1. b \in Normal /\ b \in Finite /\ b \in NonNegative
    BY NormalFinite DEF Quantity
  <2>2. PICK D, i, j, k, l : Over(a, i, D) /\ Over(b, j, D) /\ Over(a, k, D) /\ Over(b, l, D)
    BY <1>1, <2>1, CommonDenominator
  <2>3. i \in Int /\ j \in Int /\ i > 0 /\ j >= 0
    BY <1>1, <2>1, <2>2, OverSign
  <2>4. Over(a ++ b, i + j, D)
    BY <2>2, OverPlus
  <2>5. i + j > 0
    BY <2>3
  <2>6. a ++ b \in Positive
    BY <2>4, <2>5, OverSign
  <2> QED BY <1>1, <2>1, <2>6, NormalPlus DEF Pace
<1>4. ASSUME NEW b \in Quantity PROVE a \sqcup b \in Pace
  <2>1. CASE a \prec b
    <3>1. b \in Normal /\ b \in Finite /\ b \in Rational /\ Zero \in Rational
      BY NormalFinite, Parts, ZeroOne DEF Quantity
    <3>2. a \preceq b
      BY <1>1, <2>1, <3>1, OrderTotal DEF \prec
    <3>3. Zero \prec b
      <4> SUFFICES ASSUME b \preceq Zero PROVE FALSE
        BY DEF \prec
      <4>1. a \preceq Zero
        BY <1>1, <3>1, <3>2, OrderTrans
      <4> QED BY <1>1, <4>1 DEF \prec
    <3> QED BY <2>1, <3>1, <3>3 DEF \sqcup, Pace, Positive
  <2>2. CASE ~(a \prec b)
    BY <2>2 DEF \sqcup
  <2> QED BY <2>1, <2>2
<1> QED BY <1>2, <1>3, <1>4

(* Zero adds nothing.                                                      *)
LEMMA PlusZero ==
  ASSUME NEW a \in Normal
  PROVE  a ++ Zero = a
<1>1. a \in Finite /\ Zero \in Finite
  BY NormalFinite, ZeroOne
<1>2. Over(a, a[1], a[2]) /\ a[1] \in Int /\ a[2] \in Nat \ {0}
  BY <1>1, OwnValue DEF Over
<1>3. Over(Zero, 0, a[2])
  <2>1. Zero[1] * a[2] = 0 * Zero[2] /\ 0 \in Int
    BY <1>2, ZeroOne
  <2> QED BY <1>1, <1>2, <2>1 DEF Over, Valued
<1>4. Over(a ++ Zero, a[1] + 0, a[2]) /\ a[1] + 0 = a[1]
  BY <1>2, <1>3, OverPlus
<1>5. a ++ Zero \in Normal
  BY <1>1, NormalPlus
<1> QED BY <1>2, <1>4, <1>5, SameValue

-----------------------------------------------------------------------------
(* To run at the share eta of a rate is to take 1/eta of the time.         *)

LEMMA SlowedQuotient ==
  ASSUME NEW a \in Quantity, NEW r \in Pace, NEW eta \in Pace
  PROVE  a // (r ** eta) = (a // r) // eta
<1>1. /\ a \in Normal /\ a \in Finite /\ r \in Normal /\ r \in Finite /\ eta \in Finite
      /\ r \in Positive /\ eta \in Positive /\ r ** eta \in Pace /\ a // r \in Quantity
  BY PaceIs, PaceClosed, QuantityClosed, NormalFinite DEF Quantity
<1>2. PICK D, i, j, k, l : Over(a, i, D) /\ Over(r, j, D) /\ Over(eta, k, D) /\ Over(eta, l, D)
  BY <1>1, CommonDenominator
<1>3. i \in Int /\ j \in Nat \ {0} /\ k \in Nat \ {0} /\ D \in Nat \ {0} /\ j > 0 /\ k > 0
  BY <1>1, <1>2, OverSign
<1>4. j * k > 0
  BY <1>3
<1>5. Over(r ** eta, j * k, D * D)
  BY <1>2, OverTimes
<1>6. Over(a // (r ** eta), i * (D * D), D * (j * k))
  BY <1>2, <1>5, <1>4, OverQuotient
<1>7. Over(a // r, i * D, D * j)
  BY <1>2, <1>3, OverQuotient
<1>8. Over((a // r) // eta, (i * D) * D, (D * j) * k)
  BY <1>2, <1>3, <1>7, OverQuotient
<1>9. i * (D * D) = (i * D) * D /\ D * (j * k) = (D * j) * k
  BY <1>3
<1>10. (a // r) // eta \in Normal /\ a // (r ** eta) \in Normal
  BY <1>1, QuantityClosed DEF Quantity
<1> QED BY <1>6, <1>8, <1>9, <1>10, SameValue

LEMMA SlowedMax ==
  ASSUME NEW a \in Quantity, NEW b \in Quantity, NEW eta \in Pace
  PROVE  (a \sqcup b) // eta = (a // eta) \sqcup (b // eta)
<1>1. a \in Finite /\ b \in Finite /\ eta \in Finite /\ eta \in Positive
  BY PaceIs, NormalFinite DEF Quantity
<1>2. PICK D, i, j, k, l : Over(a, i, D) /\ Over(b, j, D) /\ Over(eta, k, D) /\ Over(eta, l, D)
  BY <1>1, CommonDenominator
<1>3. i \in Int /\ j \in Int /\ k \in Nat \ {0} /\ D \in Nat \ {0} /\ k > 0
  BY <1>1, <1>2, OverSign DEF Over
<1>4. Over(a // eta, i * D, D * k) /\ Over(b // eta, j * D, D * k)
  BY <1>2, <1>3, OverQuotient
<1>5. a \prec b <=> i < j
  BY <1>2, OverOrder
<1>6. a // eta \prec b // eta <=> i * D < j * D
  BY <1>4, OverOrder
<1>7. i < j <=> i * D < j * D
  BY <1>3, Scaled
<1> QED BY <1>5, <1>6, <1>7 DEF \sqcup

LEMMA SlowedPlus ==
  ASSUME NEW a \in Quantity, NEW b \in Quantity, NEW eta \in Pace
  PROVE  (a ++ b) // eta = (a // eta) ++ (b // eta)
BY Distributes, PaceIs DEF Quantity

(* Twice the share is not the same time.                                   *)
LEMMA SlowedTells ==
  ASSUME NEW a \in Pace, NEW x \in Pace, NEW y \in Pace, a // x = a // y
  PROVE  x = y
<1>1. a \in Finite /\ x \in Finite /\ y \in Finite /\ a \in Positive /\ x \in Positive /\ y \in Positive
  BY PaceIs, NormalFinite
<1>2. PICK D, i, j, k, l : Over(a, i, D) /\ Over(x, j, D) /\ Over(y, k, D) /\ Over(y, l, D)
  BY <1>1, CommonDenominator
<1>3. i \in Nat \ {0} /\ j \in Nat \ {0} /\ k \in Nat \ {0} /\ D \in Nat \ {0} /\ j > 0 /\ k > 0
  BY <1>1, <1>2, OverSign
<1> DEFINE z == a // x
           u == z[1]
           v == z[2]
<1>4. Over(z, i * D, D * j) /\ Over(z, i * D, D * k)
  BY <1>2, <1>3, OverQuotient
<1>5. z \in Pace
  BY PaceClosed
<1>6. u \in Nat \ {0} /\ v \in Nat \ {0}
  BY <1>5, PaceIs, NormalFinite, Parts
<1>7. u * (D * j) = (i * D) * v /\ u * (D * k) = (i * D) * v
  BY <1>4 DEF Over, Valued
<1> HIDE DEF z, u, v
<1> DEFINE w == u * D
<1>8. w \in Nat \ {0}
  <2>1. u * D > 0
    BY <1>3, <1>6
  <2> QED BY <1>3, <1>6, <2>1
<1>9. j * w = k * w
  <2>1. u * (D * j) = j * w /\ u * (D * k) = k * w
    BY <1>3, <1>6
  <2> HIDE DEF w
  <2> QED BY <1>7, <2>1
<1> HIDE DEF w
<1>10. j = k
  BY <1>3, <1>8, <1>9, Scaled
<1>11. x \in Normal /\ y \in Normal
  BY PaceIs
<1> QED BY <1>2, <1>10, <1>11, SameValue

-----------------------------------------------------------------------------
(* Errors.                                                                 *)

Gap(i, j) == IF i - j < j - i THEN j - i ELSE i - j
LEMMA ErrorIs ==
  ASSUME NEW p \in Quantity, NEW m \in Pace
  PROVE  /\ RelativeError(p, m) \in Quantity
         /\ p = m => RelativeError(p, m) = Zero
         /\ p # m => RelativeError(p, m) \in Pace
<1>1. p \in Finite /\ m \in Finite /\ p \in Normal /\ m \in Normal /\ Zero \prec m
  BY PaceIs, NormalFinite DEF Quantity
<1>2. PICK D, i, j, k, l : Over(p, i, D) /\ Over(m, j, D) /\ Over(p, k, D) /\ Over(m, l, D)
  BY <1>1, CommonDenominator
<1>3. i \in Int /\ j \in Int /\ D \in Nat \ {0}
  BY <1>2 DEF Over
<1> DEFINE u == p -- m
           v == m -- p
           d == u \sqcup v
<1>4. Over(u, i - j, D) /\ Over(v, j - i, D)
  BY <1>2, OverMinus
<1>5. u \in Normal /\ v \in Normal
  <2>1. \A a \in Finite : <<-a[1], a[2]>> \in Finite
    BY Parts DEF Finite
  <2> QED BY <1>1, <2>1, NormalPlus DEF --
<1>6. u \prec v <=> i - j < j - i
  <2> HIDE DEF u, v
  <2> QED BY <1>4, OverOrder
<1> HIDE DEF u, v
<1>7. Over(d, Gap(i, j), D) /\ d \in Normal
  BY <1>4, <1>5, <1>6 DEF \sqcup, Gap
<1> HIDE DEF d
<1>8. Gap(i, j) >= 0 /\ (i # j => Gap(i, j) > 0) /\ (i = j => Gap(i, j) = 0)
  BY <1>3 DEF Gap
<1>9. RelativeError(p, m) = d // m
  BY DEF RelativeError, d, u, v
<1>10. d \in Quantity
  BY <1>7, <1>8, OverSign DEF Quantity
<1>11. RelativeError(p, m) \in Quantity
  BY <1>9, <1>10, QuantityClosed
<1>12. ASSUME p = m PROVE RelativeError(p, m) = Zero
  <2>1. i = j
    <3>1. p \preceq m /\ m \preceq p
      BY <1>1, <1>12, Parts, OrderTotal
    <3>2. i <= j /\ j <= i
      BY <1>2, <3>1, OverOrder
    <3> QED BY <1>3, <3>2
  <2>2. Over(d, 0, D)
    BY <1>7, <1>8, <2>1
  <2>3. Over(Zero, 0, D)
    <3>1. Zero[1] * D = 0 * Zero[2] /\ 0 \in Int
      BY <1>3, ZeroOne
    <3> QED BY <1>3, <3>1, ZeroOne DEF Over, Valued
  <2>4. d = Zero
    BY <1>7, <2>2, <2>3, ZeroLaws, SameValue
  <2> QED BY <1>1, <1>9, <2>4, ZeroLaws
<1>13. ASSUME p # m PROVE RelativeError(p, m) \in Pace
  <2>1. i # j
    BY <1>1, <1>2, <1>13, SameValue
  <2>2. d \in Pace
    BY <1>7, <1>8, <2>1, OverSign DEF Pace
  <2> QED BY <1>9, <2>2, PaceClosed
<1> QED BY <1>11, <1>12, <1>13

(* A list of errors.                                                       *)
Errors(xs, n) == n \in Nat \ {0} /\ \A i \in 1..n : xs[i] \in Quantity

LEMMA MeanError ==
  ASSUME NEW xs, NEW n, Errors(xs, n)
  PROVE  LET mean == SumTo(xs, n) // Q(n) IN
         /\ mean \in Quantity
         /\ (\A i \in 1..n : xs[i] = Zero) => mean = Zero
         /\ xs[1] \in Pace => mean # Zero
<1>1. n \in Nat \ {0} /\ n \in Nat /\ 1 \in 1..n /\ \A i \in 1..n : xs[i] \in Quantity
  BY DEF Errors
<1>2. AllNormal(xs, n)
  BY <1>1 DEF AllNormal, Quantity
<1>3. PICK g : /\ g[n] = SumTo(xs, n) /\ g[0] = Zero
               /\ \A k \in 0..(n-1) : g[k+1] = g[k] ++ xs[k+1]
               /\ \A k \in 0..n : g[k] \in Normal
  BY <1>2, SumsExist
<1>4. Q(n) \in Pace
  <2>1. Q(n) \in Normal /\ Over(Q(n), n, 1) /\ n > 0
    BY <1>1, NormalWhole, OverWhole
  <2> QED BY <2>1, OverSign DEF Pace
<1>5. Zero \in Quantity
  BY ZeroLaws, ZeroNonNegative DEF Quantity
<1>6. ASSUME NEW k \in 0..(n-1) PROVE k+1 \in 0..n /\ k+1 \in 1..n /\ k \in 0..n
  BY <1>1
<1>7. \A k \in 0..n : g[k] \in Quantity
  <2> DEFINE S == {k \in 0..n : g[k] \in Quantity}
  <2>1. 0 \in S
    BY <1>1, <1>3, <1>5
  <2>2. ASSUME NEW k \in 0..(n-1), k \in S PROVE k+1 \in S
    <3>1. g[k] ++ xs[k+1] \in Quantity
      BY <1>1, <1>6, <2>2, QuantityClosed
    <3> QED BY <1>3, <1>6, <3>1
  <2>3. \A k \in 0..n : k \in S
    <3> HIDE DEF S
    <3> QED BY <1>1, <2>1, <2>2, LoopInduction
  <2> QED BY <2>3
<1>8. g[n] // Q(n) \in Quantity
  <2>1. g[n] \in Quantity
    BY <1>1, <1>7
  <2> QED BY <1>4, <2>1, QuantityClosed
<1>9. ASSUME \A i \in 1..n : xs[i] = Zero PROVE g[n] // Q(n) = Zero
  <2> DEFINE S == {k \in 0..n : g[k] = Zero}
  <2>1. 0 \in S
    BY <1>1, <1>3
  <2>2. ASSUME NEW k \in 0..(n-1), k \in S PROVE k+1 \in S
    BY <1>3, <1>6, <1>9, <2>2, ZeroLaws
  <2>3. \A k \in 0..n : k \in S
    <3> HIDE DEF S
    <3> QED BY <1>1, <2>1, <2>2, LoopInduction
  <2>4. g[n] = Zero
    BY <1>1, <2>3
  <2> QED BY <1>4, <2>4, ZeroLaws, PaceIs
<1>10. ASSUME xs[1] \in Pace PROVE g[n] // Q(n) # Zero
  <2> DEFINE S == {k \in 0..n : k = 0 \/ g[k] \in Pace}
  <2>1. 0 \in S
    BY <1>1
  <2>2. ASSUME NEW k \in 0..(n-1), k \in S PROVE k+1 \in S
    <3>1. g[k+1] = g[k] ++ xs[k+1] /\ xs[k+1] \in Quantity
      BY <1>1, <1>3, <1>6
    <3>2. CASE k = 0
      <4>1. 0 \in 0..(n-1) /\ 0 + 1 = 1
        BY <1>1
      <4>2. g[1] = Zero ++ xs[1]
        BY <1>3, <4>1
      <4>3. Zero ++ xs[1] = xs[1] ++ Zero
        <5> DEFINE x == xs[1]
        <5>1. x \in Normal /\ x \in Finite /\ Zero \in Finite
          BY <1>10, PaceIs, NormalFinite, ZeroOne
        <5> HIDE DEF x
        <5>2. PICK D, i, j, i2, j2 : Over(x, i, D) /\ Over(Zero, j, D) /\ Over(x, i2, D) /\ Over(Zero, j2, D)
          BY <5>1, CommonDenominator
        <5>3. Over(Zero ++ x, j + i, D) /\ Over(x ++ Zero, i + j, D)
          BY <5>2, OverPlus
        <5>4. j + i = i + j
          BY <5>2 DEF Over
        <5>5. Zero ++ x \in Normal /\ x ++ Zero \in Normal
          BY <5>1, NormalPlus
        <5>6. Zero ++ x = x ++ Zero
          BY <5>3, <5>4, <5>5, SameValue
        <5> QED BY <5>6 DEF x
      <4>4. g[1] \in Pace
        BY <1>5, <1>10, <4>2, <4>3, PaceClosed
      <4> QED BY <1>6, <3>2, <4>1, <4>4
    <3>3. CASE k # 0
      <4>1. g[k] \in Pace
        BY <2>2, <3>3
      <4>2. g[k] ++ xs[k+1] \in Pace
        BY <3>1, <4>1, PaceClosed
      <4> QED BY <1>6, <3>1, <4>2
    <3> QED BY <3>2, <3>3
  <2>3. \A k \in 0..n : k \in S
    <3> HIDE DEF S
    <3> QED BY <1>1, <2>1, <2>2, LoopInduction
  <2>4. g[n] \in Pace
    BY <1>1, <2>3
  <2>5. g[n] // Q(n) \in Pace
    BY <1>4, <2>4, PaceClosed
  <2>6. Zero \notin Pace
    BY PaceIs, ZeroOne
  <2> QED BY <2>5, <2>6
<1> QED BY <1>3, <1>8, <1>9, <1>10

-----------------------------------------------------------------------------
(* What a model reads is a quantity, a mixture of experts included.        *)

(* The share of Zero and One.                                              *)
LEMMA ShareClosed ==
  /\ Zero \in Quantity /\ One \in Quantity /\ One \in Share /\ Zero \in Share /\ One \in Pace
  /\ \A n \in Nat : Q(n) \in Quantity
  /\ \A n \in Nat \ {0} : Q(n) \in Pace
  /\ \A a \in Share \cap Normal : One -- a \in Share \cap Normal
  /\ \A a, b \in Share \cap Normal : a ** b \in Share \cap Normal
<1>1. \A n \in Nat : Q(n) \in Quantity
  BY WholePlus, NormalFinite DEF Quantity, NonNegative
<1>2. \A n \in Nat \ {0} : Q(n) \in Pace
  <2> SUFFICES ASSUME NEW n \in Nat \ {0} PROVE Q(n) \in Pace
    OBVIOUS
  <2>1. Q(n) \in Normal /\ Over(Q(n), n, 1) /\ n > 0
    BY NormalWhole, OverWhole
  <2> QED BY <2>1, OverSign DEF Pace
<1>3. 0 \in Nat /\ 1 \in Nat \ {0}
  OBVIOUS
<1>4. Zero \in Quantity /\ One \in Pace /\ One \in Quantity
  BY <1>1, <1>2, <1>3, PaceIs DEF Zero, One
<1>5. ASSUME NEW D \in Nat \ {0} PROVE Over(One, D, D)
  <2>1. One[1] * D = D * One[2]
    BY ZeroOne
  <2> QED BY <2>1, ZeroOne DEF Over, Valued
<1>6. One \in Share /\ Zero \in Share
  <2>1. Over(One, 1, 1) /\ Over(Zero, 0, 1) /\ 1 <= 1 /\ 0 <= 1 /\ 1 >= 0 /\ 0 >= 0
    BY OverWhole DEF One, Zero
  <2> QED BY <2>1, OverSign DEF Share
<1>7. ASSUME NEW a \in Share \cap Normal PROVE One -- a \in Share \cap Normal
  <2>1. a \in Finite /\ Over(a, a[1], a[2]) /\ a[1] \in Int /\ a[2] \in Nat \ {0}
    BY NormalFinite, Parts
  <2>2. a[1] >= 0 /\ a[1] <= a[2]
    BY <2>1, OverSign DEF Share
  <2>3. Over(One -- a, a[2] - a[1], a[2])
    BY <1>5, <2>1, OverMinus
  <2>4. a[2] - a[1] >= 0 /\ a[2] - a[1] <= a[2]
    BY <2>1, <2>2
  <2>5. One -- a \in Share
    BY <2>3, <2>4, OverSign DEF Share
  <2>6. One -- a \in Normal
    <3>1. <<-a[1], a[2]>> \in Finite
      BY <2>1 DEF Finite
    <3> QED BY <3>1, NormalPlus, ZeroOne DEF --
  <2> QED BY <2>5, <2>6
<1>8. ASSUME NEW a \in Share \cap Normal, NEW b \in Share \cap Normal
      PROVE  a ** b \in Share \cap Normal
  <2>1. a \in Finite /\ b \in Finite
    BY NormalFinite
  <2>2. PICK D, i, j, k, l : Over(a, i, D) /\ Over(b, j, D) /\ Over(a, k, D) /\ Over(b, l, D)
    BY <2>1, CommonDenominator
  <2>3. i \in Int /\ j \in Int /\ D \in Nat \ {0} /\ 0 <= i /\ i <= D /\ 0 <= j /\ j <= D
    BY <2>2, OverSign DEF Share
  <2>4. Over(a ** b, i * j, D * D)
    BY <2>2, OverTimes
  <2>5. i * j >= 0
    BY <2>3
  <2>6. i * j <= D * D
    <3>1. i * D <= D * D
      BY <2>3, Scaled
    <3>2. i * j <= i * D
      <4>1. CASE i = 0
        <5>1. 0 * j = 0 /\ 0 * D = 0
          BY <2>3
        <5> QED BY <4>1, <5>1
      <4>2. CASE i # 0
        <5>1. j * i <= D * i
          BY <2>3, <4>2, Scaled
        <5>2. j * i = i * j /\ D * i = i * D
          BY <2>3
        <5> QED BY <5>1, <5>2
      <4> QED BY <4>1, <4>2
    <3> DEFINE x == i * j
               y == i * D
               z == D * D
    <3>3. x \in Int /\ y \in Int /\ z \in Int /\ x <= y /\ y <= z
      BY <2>3, <3>1, <3>2
    <3> HIDE DEF x, y, z
    <3>4. x <= z
      BY <3>3
    <3> QED BY <3>4 DEF x, z
  <2>7. a ** b \in Share
    BY <2>4, <2>5, <2>6, OverSign DEF Share
  <2> QED BY <2>7, NormalTimes
<1> QED BY <1>1, <1>2, <1>4, <1>6, <1>7, <1>8

(* A power of a share is a share.                                          *)
PowersIn(g, a, n) == g = [k \in 0..n |-> IF k = 0 THEN One ELSE g[k-1] ** a]
LEMMA PowerIsShare ==
  ASSUME NEW a \in Share \cap Normal, NEW n \in Nat
  PROVE  Power(a, Q(n)) \in Share \cap Normal
<1> DEFINE D == Share \cap Normal
           G == [p \in D \X (1..n) |-> p[1] ** a]
<1>1. \A x \in D, k \in 1..n : G[<<x, k>>] = x ** a
  OBVIOUS
<1>2. \A x \in D, k \in 1..n : G[<<x, k>>] \in D
  BY <1>1, ShareClosed
<1>3. One \in D
  BY ShareClosed, PaceIs
<1> HIDE DEF G, D
<1>4. PICK f : LoopIn(f, D, One, n, G)
  BY <1>2, <1>3, LoopExists
<1>5. PowersIn(f, a, n)
  <2>1. ASSUME NEW k \in 0..n, k # 0 PROVE G[<<f[k-1], k>>] = f[k-1] ** a
    <3>1. k - 1 \in 0..n /\ k \in 1..n
      BY <2>1
    <3>2. f[k-1] \in D
      BY <1>4, <3>1 DEF LoopIn
    <3> QED BY <1>1, <3>1, <3>2
  <2> QED BY <1>4, <2>1 DEF LoopIn, PowersIn
<1> DEFINE g == CHOOSE g : PowersIn(g, a, n)
<1>6. PowersIn(g, a, n)
  BY <1>5
<1>7. Power(a, Q(n)) = g[n]
  <2>1. Q(n)[1] = n
    BY DEF Q
  <2> QED BY <2>1 DEF Power, PowersIn
<1> HIDE DEF g
<1> DEFINE S == {k \in 0..n : g[k] \in D}
<1>8. 0 \in S
  <2>1. 0 \in 0..n
    OBVIOUS
  <2> QED BY <1>3, <1>6, <2>1 DEF PowersIn
<1>9. ASSUME NEW k \in 0..(n-1), k \in S PROVE k+1 \in S
  <2>1. k+1 \in 0..n /\ k+1 # 0 /\ (k+1)-1 = k
    OBVIOUS
  <2>2. g[k+1] = g[k] ** a
    BY <1>6, <2>1 DEF PowersIn
  <2> QED BY <1>9, <2>1, <2>2, ShareClosed DEF D
<1>10. \A k \in 0..n : k \in S
  <2> HIDE DEF S
  <2> QED BY <1>8, <1>9, LoopInduction
<1> QED BY <1>7, <1>10 DEF D

(* The parts of a point.                                                   *)
Hot(p) == (One -- Zero) ** p.b_d ** One
Cold(p) == Zero ** p.b_d ** One
PointContext(p) == p.context ++ Zero
GpuFlops(p) == Q(2) ** p.model.p_act ** p.b_d

LEMMA PointParts ==
  ASSUME NEW p, PointTyped(p)
  PROVE  /\ GpuFlops(p) \in Pace
         /\ weight_read_bytes(p.model, p.b_d) \in Quantity
         /\ \A share \in {Hot(p), Cold(p)} :
              /\ AttnBytes(share, PointContext(p), p.model) \in Quantity
              /\ AttnFlops(share, One, PointContext(p), p.model) \in Quantity
         /\ \A r \in {p.spec.gpu_flops, p.spec.hbm_bw, p.spec.cpu_flops ** p.spec.cpus_per_gpu,
                      p.spec.cpu_dram_bw ** p.spec.cpus_per_gpu} : r \in Pace
<1> DEFINE m == p.model
<1>1. \A a \in {m.layers, m.n_heads, m.head_dim, m.n_kv_heads, m.mla_kv_dim, m.q_weight, m.q_kv,
                m.kv_compress, m.kv_decompress_flops, p.context} : a \in Quantity
  BY LowestIsNormal DEF PointTyped, Quantity
<1>2. \A a \in {m.p_act, m.p_total, p.b_d, p.spec.gpu_flops, p.spec.hbm_bw, p.spec.cpu_flops,
                p.spec.cpu_dram_bw, p.spec.cpus_per_gpu} : a \in Pace
  BY LowestIsNormal DEF PointTyped, Pace
<1>3. \A a \in {m.expert_frac_act, m.expert_frac_total} : a \in Share \cap Normal /\ a \in Quantity
  BY LowestIsNormal DEF PointTyped, Share, Quantity
<1>4. Q(2) \in Pace /\ Q(4) \in Quantity
  <2>1. 2 \in Nat \ {0} /\ 4 \in Nat
    OBVIOUS
  <2> QED BY <2>1, ShareClosed
<1>5. GpuFlops(p) \in Pace
  BY <1>2, <1>4, PaceClosed DEF GpuFlops
<1>6. p.b_d \in Quantity /\ \E n \in Nat : p.b_d = Q(n)
  <2>1. p.b_d \in Pace /\ p.b_d[2] = 1
    BY <1>2 DEF PointTyped
  <2>2. p.b_d \in Finite /\ p.b_d[1] > 0 /\ p.b_d \in Quantity
    BY <2>1, PaceIs, NormalFinite
  <2>3. p.b_d = Q(p.b_d[1]) /\ p.b_d[1] \in Nat
    BY <2>1, <2>2 DEF Q, Finite
  <2> QED BY <2>2, <2>3
<1>7. m.p_act ** m.q_weight \in Quantity
  BY <1>1, <1>2, PaceIs, QuantityClosed
<1>8. ASSUME ~IsDense(m) PROVE weight_read_bytes(m, p.b_d) \in Quantity
  <2>1. m.expert_frac_total \in Pace
    <3>1. Zero \prec m.expert_frac_total
      BY <1>8 DEF IsDense, \prec
    <3> QED BY <1>3, <3>1, NormalFinite DEF Pace, Positive
  <2>2. m.p_total ** m.expert_frac_total \in Pace
    BY <1>2, <2>1, PaceClosed
  <2>3. Rho(m) \in Quantity
    <3>1. m.p_act ** m.expert_frac_act \in Quantity
      BY <1>2, <1>3, PaceIs, QuantityClosed
    <3> QED BY <2>2, <3>1, QuantityClosed DEF Rho
  <2>4. One \sqcap Rho(m) \in Share \cap Normal
    <3> DEFINE rho == Rho(m)
    <3>1. rho \in Quantity /\ rho \in Normal /\ rho \in Finite /\ rho \in Rational /\ One \in Rational
      BY <2>3, NormalFinite, Parts, ZeroOne DEF Quantity
    <3> HIDE DEF rho
    <3>2. CASE rho \prec One
      <4>1. rho \preceq One
        BY <3>1, <3>2, OrderTotal DEF \prec
      <4> QED BY <3>1, <3>2, <4>1 DEF \sqcap, Share, Quantity, rho
    <3>3. CASE ~(rho \prec One)
      <4>1. One \in Share /\ One \in Normal
        BY ShareClosed, PaceIs
      <4> QED BY <3>3, <4>1 DEF \sqcap, rho
    <3> QED BY <3>2, <3>3
  <2>5. Coverage(m, p.b_d) \in Quantity
    <3>1. One -- (One \sqcap Rho(m)) \in Share \cap Normal
      BY <2>4, ShareClosed
    <3>2. Power(One -- (One \sqcap Rho(m)), p.b_d) \in Share \cap Normal
      BY <1>6, <3>1, PowerIsShare
    <3>3. Coverage(m, p.b_d) \in Share \cap Normal
      BY <3>2, ShareClosed DEF Coverage
    <3> QED BY <3>3 DEF Share, Quantity
  <2>6. One -- m.expert_frac_act \in Quantity
    BY <1>3, ShareClosed DEF Share, Quantity
  <2>7. m.p_act ** (One -- m.expert_frac_act) \in Quantity
    BY <1>2, <2>6, PaceIs, QuantityClosed
  <2>8. m.p_total ** m.expert_frac_total ** Coverage(m, p.b_d) \in Quantity
    BY <2>2, <2>5, PaceIs, QuantityClosed
  <2> DEFINE a == m.p_act ** (One -- m.expert_frac_act)
             b == m.p_total ** m.expert_frac_total ** Coverage(m, p.b_d)
             q == m.q_weight
  <2>9. weight_read_bytes(m, p.b_d) = (a ++ b) ** q
    BY <1>8 DEF weight_read_bytes
  <2>10. a \in Quantity /\ b \in Quantity /\ q \in Quantity
    BY <1>1, <2>7, <2>8
  <2> HIDE DEF a, b, q
  <2>11. a ++ b \in Quantity
    BY <2>10, QuantityClosed
  <2>12. (a ++ b) ** q \in Quantity
    BY <2>10, <2>11, QuantityClosed
  <2> QED BY <2>9, <2>12
<1>9. weight_read_bytes(m, p.b_d) \in Quantity
  <2>1. CASE IsDense(m)
    BY <1>7, <2>1 DEF weight_read_bytes
  <2> QED BY <1>8, <2>1
<1>10. PointContext(p) \in Quantity
  BY <1>1, ShareClosed, QuantityClosed DEF PointContext
<1>11. d_kv(m) \in Quantity /\ d_attn(m) \in Quantity
  BY <1>1, <1>4, PaceIs, QuantityClosed DEF d_kv, d_attn
<1>12. kv_elems(PointContext(p), m) \in Quantity
  BY <1>1, <1>10, <1>11, QuantityClosed DEF kv_elems
<1>13. kv_size(PointContext(p), m) \in Quantity
  BY <1>1, <1>12, QuantityClosed DEF kv_size
<1>14. ASSUME NEW share \in {Hot(p), Cold(p)}
       PROVE  /\ AttnBytes(share, PointContext(p), m) \in Quantity
              /\ AttnFlops(share, One, PointContext(p), m) \in Quantity
  <2>1. One -- Zero \in Quantity
    BY ShareClosed DEF Share, Quantity
  <2>2. share \in Quantity
    BY <1>6, <2>1, ShareClosed, QuantityClosed DEF Hot, Cold
  <2>3. AttnBytes(share, PointContext(p), m) \in Quantity
    BY <1>13, <2>2, QuantityClosed DEF AttnBytes
  <2>4. One ** share ** m.layers ** PointContext(p) ** d_attn(m) \in Quantity
    BY <1>1, <1>10, <1>11, <2>2, ShareClosed, QuantityClosed
  <2>5. share ** kv_elems(PointContext(p), m) ** m.kv_decompress_flops \in Quantity
    BY <1>1, <1>12, <2>2, QuantityClosed
  <2> QED BY <2>3, <2>4, <2>5, QuantityClosed DEF AttnFlops
<1>15. \A r \in {p.spec.gpu_flops, p.spec.hbm_bw, p.spec.cpu_flops ** p.spec.cpus_per_gpu,
                 p.spec.cpu_dram_bw ** p.spec.cpus_per_gpu} : r \in Pace
  BY <1>2, PaceClosed
<1> QED BY <1>5, <1>9, <1>14, <1>15

(* The step of a point on the hardware hw: two resources of the GPU, then  *)
(* the same for attention, then those of the CPU, which have nothing to do. *)
StepOf(p, hw, td) ==
  ((GpuFlops(p) // hw.f_gpu) \sqcup (weight_read_bytes(p.model, p.b_d) // hw.bw_hbm))
  ++ (((AttnBytes(Hot(p), PointContext(p), p.model) // hw.bw_hbm)
         \sqcup (AttnFlops(Hot(p), One, PointContext(p), p.model) // hw.f_gpu))
      ++ ((((One ** AttnBytes(Cold(p), PointContext(p), p.model)) // hw.bw_cpu)
             \sqcup (AttnFlops(Cold(p), One, PointContext(p), p.model) // hw.f_cpu)) ++ Zero))
  ++ Zero ++ td

LEMMA PredictedIs ==
  ASSUME NEW p, NEW e
  PROVE  predict_tpot(p, e, "conservative") = StepOf(p, hw_from_point(p, e), e.td)
<1> DEFINE pol == policy("gpu_hot", Zero, One, p.b_d, One)
           x == [work |-> WorkloadConfig(p.context, Zero, Zero), model |-> p.model,
                 hw |-> hw_from_point(p, e), coeffs |-> Coeffs(Zero, e.td, Zero)]
<1>1. pol.f = Zero /\ pol.b_d = p.b_d /\ pol.sparse = One
  BY DEF policy
<1>2. ~Offloads(pol)
  <2>1. ~(Zero \prec Zero)
    BY ZeroOne, Parts, OrderTotal DEF \prec
  <2> QED BY <1>1, <2>1 DEF Offloads
<1>3. /\ x.model = p.model /\ x.hw = hw_from_point(p, e) /\ x.coeffs.alpha = One
      /\ x.coeffs.beta = One /\ x.coeffs.gamma = One /\ x.coeffs.t_dispatch = e.td
      /\ s_context(x.work) = PointContext(p)
  BY DEF Coeffs, WorkloadConfig, s_context, PointContext
<1>4. predict_tpot(p, e, "conservative") = tpot(pol, x, "conservative")
  BY DEF predict_tpot
<1> HIDE DEF pol, x
<1>5. GpuShare(pol) = Hot(p) /\ CpuShare(pol) = Cold(p)
  BY <1>1 DEF GpuShare, CpuShare, Hot, Cold
<1>6. c2c_decode_time(pol, x) = Zero
  BY <1>2 DEF c2c_decode_time
<1>7. gpu_nonattn_time(pol, x) = (GpuFlops(p) // x.hw.f_gpu)
        \sqcup (weight_read_bytes(p.model, p.b_d) // x.hw.bw_hbm)
  BY <1>1, <1>3 DEF gpu_nonattn_time, GpuFlops
<1>8. gpu_attn_time(pol, x) = (AttnBytes(Hot(p), PointContext(p), p.model) // x.hw.bw_hbm)
        \sqcup (AttnFlops(Hot(p), One, PointContext(p), p.model) // x.hw.f_gpu)
  BY <1>3, <1>5 DEF gpu_attn_time
<1>9. cpu_attn_time(pol, x) = ((One ** AttnBytes(Cold(p), PointContext(p), p.model)) // x.hw.bw_cpu)
        \sqcup (AttnFlops(Cold(p), One, PointContext(p), p.model) // x.hw.f_cpu)
  BY <1>3, <1>5 DEF cpu_attn_time
<1>10. tpot(pol, x, "conservative") =
         gpu_nonattn_time(pol, x) ++ (gpu_attn_time(pol, x) ++ (cpu_attn_time(pol, x) ++ Zero))
           ++ Zero ++ e.td
  BY <1>2, <1>3, <1>6 DEF tpot, Overlapped
<1> QED BY <1>3, <1>4, <1>7, <1>8, <1>9, <1>10 DEF StepOf

(* The hardware of the point p at the efficiencies ec and em.              *)
LEMMA HardwareIs ==
  ASSUME NEW p, NEW e
  PROVE  LET hw == hw_from_point(p, e) IN
         /\ hw.f_gpu = p.spec.gpu_flops ** e.ec /\ hw.bw_hbm = p.spec.hbm_bw ** e.em
         /\ hw.f_cpu = (p.spec.cpu_flops ** p.spec.cpus_per_gpu) ** e.ec
         /\ hw.bw_cpu = (p.spec.cpu_dram_bw ** p.spec.cpus_per_gpu) ** e.em
BY DEF hw_from_point, effective, system

(* Its step takes some time,                                               *)
LEMMA StepTyped1 ==
  ASSUME NEW p, PointTyped(p), NEW hw, NEW td \in Quantity,
         hw.f_gpu \in Pace, hw.bw_hbm \in Pace, hw.f_cpu \in Pace, hw.bw_cpu \in Pace
  PROVE  StepOf(p, hw, td) \in Pace
<1> DEFINE AB == AttnBytes(Hot(p), PointContext(p), p.model)
           AF == AttnFlops(Hot(p), One, PointContext(p), p.model)
           CB == AttnBytes(Cold(p), PointContext(p), p.model)
           CF == AttnFlops(Cold(p), One, PointContext(p), p.model)
           W == weight_read_bytes(p.model, p.b_d)
<1>1. GpuFlops(p) \in Pace /\ W \in Quantity /\ AB \in Quantity /\ AF \in Quantity
      /\ CB \in Quantity /\ CF \in Quantity
  BY PointParts
<1> HIDE DEF AB, AF, CB, CF, W
<1>2. (GpuFlops(p) // hw.f_gpu) \sqcup (W // hw.bw_hbm) \in Pace
  BY <1>1, PaceClosed, QuantityClosed
<1>3. (AB // hw.bw_hbm) \sqcup (AF // hw.f_gpu) \in Quantity
  BY <1>1, QuantityClosed
<1>4. One ** CB \in Quantity /\ Zero \in Quantity
  BY <1>1, ShareClosed, QuantityClosed
<1>5. (((One ** CB) // hw.bw_cpu) \sqcup (CF // hw.f_cpu)) ++ Zero \in Quantity
  BY <1>1, <1>4, QuantityClosed
<1> DEFINE n == (GpuFlops(p) // hw.f_gpu) \sqcup (W // hw.bw_hbm)
           a == (AB // hw.bw_hbm) \sqcup (AF // hw.f_gpu)
           c == (((One ** CB) // hw.bw_cpu) \sqcup (CF // hw.f_cpu)) ++ Zero
<1>6. StepOf(p, hw, td) = n ++ (a ++ c) ++ Zero ++ td
  BY DEF StepOf, AB, AF, CB, CF, W
<1>7. n \in Pace /\ a \in Quantity /\ c \in Quantity
  BY <1>2, <1>3, <1>5
<1> HIDE DEF n, a, c
<1>8. a ++ c \in Quantity
  BY <1>7, QuantityClosed
<1>9. n ++ (a ++ c) ++ Zero ++ td \in Pace
  BY <1>4, <1>7, <1>8, PaceClosed
<1> QED BY <1>6, <1>9

(* and takes longer in proportion when everything has a share of its rate. *)
LEMMA StepSlowed ==
  ASSUME NEW p, PointTyped(p), NEW hw, NEW slow, NEW eta \in Pace,
         hw.f_gpu \in Pace, hw.bw_hbm \in Pace, hw.f_cpu \in Pace, hw.bw_cpu \in Pace,
         slow.f_gpu = hw.f_gpu ** eta, slow.bw_hbm = hw.bw_hbm ** eta,
         slow.f_cpu = hw.f_cpu ** eta, slow.bw_cpu = hw.bw_cpu ** eta
  PROVE  StepOf(p, slow, Zero) = StepOf(p, hw, Zero) // eta
<1> DEFINE G == GpuFlops(p)
           AB == AttnBytes(Hot(p), PointContext(p), p.model)
           AF == AttnFlops(Hot(p), One, PointContext(p), p.model)
           CB == One ** AttnBytes(Cold(p), PointContext(p), p.model)
           CF == AttnFlops(Cold(p), One, PointContext(p), p.model)
           W == weight_read_bytes(p.model, p.b_d)
           f == hw.f_gpu
           b == hw.bw_hbm
           cf == hw.f_cpu
           cb == hw.bw_cpu
<1>1. /\ G \in Quantity /\ W \in Quantity /\ AB \in Quantity /\ AF \in Quantity
      /\ CB \in Quantity /\ CF \in Quantity /\ Zero \in Quantity
      /\ f \in Pace /\ b \in Pace /\ cf \in Pace /\ cb \in Pace
  BY PointParts, PaceIs, ShareClosed, QuantityClosed
<1> DEFINE n == (G // f) \sqcup (W // b)
           a == (AB // b) \sqcup (AF // f)
           c == (CB // cb) \sqcup (CF // cf)
           n1 == (G // (f ** eta)) \sqcup (W // (b ** eta))
           a1 == (AB // (b ** eta)) \sqcup (AF // (f ** eta))
           c1 == (CB // (cb ** eta)) \sqcup (CF // (cf ** eta))
<1>2. /\ StepOf(p, hw, Zero) = n ++ (a ++ (c ++ Zero)) ++ Zero ++ Zero
      /\ StepOf(p, slow, Zero) = n1 ++ (a1 ++ (c1 ++ Zero)) ++ Zero ++ Zero
  BY DEF StepOf
<1> HIDE DEF G, AB, AF, CB, CF, W, f, b, cf, cb
<1>3. n1 = n // eta /\ a1 = a // eta /\ c1 = c // eta
  <2>1. /\ G // f \in Quantity /\ W // b \in Quantity /\ AB // b \in Quantity
        /\ AF // f \in Quantity /\ CB // cb \in Quantity /\ CF // cf \in Quantity
    BY <1>1, QuantityClosed
  <2> QED BY <1>1, <2>1, SlowedQuotient, SlowedMax
<1>4. n \in Quantity /\ a \in Quantity /\ c \in Quantity
  BY <1>1, QuantityClosed
<1> HIDE DEF n, a, c, n1, a1, c1
<1>5. Zero // eta = Zero
  BY ZeroLaws, PaceIs
<1>6. (c ++ Zero) // eta = c1 ++ Zero /\ c ++ Zero \in Quantity
  BY <1>1, <1>3, <1>4, <1>5, SlowedPlus, QuantityClosed
<1>7. (a ++ (c ++ Zero)) // eta = a1 ++ (c1 ++ Zero) /\ a ++ (c ++ Zero) \in Quantity
  BY <1>3, <1>4, <1>6, SlowedPlus, QuantityClosed
<1> DEFINE u == a ++ (c ++ Zero)
           u1 == a1 ++ (c1 ++ Zero)
<1>8. u // eta = u1 /\ u \in Quantity
  BY <1>7
<1> HIDE DEF u, u1
<1>9. (n ++ u) // eta = n1 ++ u1 /\ n ++ u \in Quantity
  BY <1>3, <1>4, <1>8, SlowedPlus, QuantityClosed
<1>10. (n ++ u ++ Zero) // eta = n1 ++ u1 ++ Zero /\ n ++ u ++ Zero \in Quantity
  BY <1>1, <1>5, <1>9, SlowedPlus, QuantityClosed
<1>11. (n ++ u ++ Zero ++ Zero) // eta = n1 ++ u1 ++ Zero ++ Zero
  BY <1>1, <1>5, <1>10, SlowedPlus
<1> QED BY <1>2, <1>11 DEF u, u1

-----------------------------------------------------------------------------
(* What explains points best.                                              *)

(* What is predicted for p at the peak rates.                              *)
AtPeak(p) == StepOf(p, system(p.spec), Zero)

(* A fit has positive efficiencies and a dispatch time.                    *)
Fit(e) == e.ec \in Pace /\ e.em \in Pace /\ e.td \in Quantity

LEMMA PredictedTyped ==
  ASSUME NEW p, PointTyped(p), NEW e, Fit(e)
  PROVE  predict_tpot(p, e, "conservative") \in Pace
<1> DEFINE hw == hw_from_point(p, e)
<1>1. /\ hw.f_gpu = p.spec.gpu_flops ** e.ec /\ hw.bw_hbm = p.spec.hbm_bw ** e.em
      /\ hw.f_cpu = (p.spec.cpu_flops ** p.spec.cpus_per_gpu) ** e.ec
      /\ hw.bw_cpu = (p.spec.cpu_dram_bw ** p.spec.cpus_per_gpu) ** e.em
  BY HardwareIs
<1> HIDE DEF hw
<1>2. hw.f_gpu \in Pace /\ hw.bw_hbm \in Pace /\ hw.f_cpu \in Pace /\ hw.bw_cpu \in Pace
  <2>1. e.ec \in Pace /\ e.em \in Pace
    BY DEF Fit
  <2>2. /\ p.spec.gpu_flops \in Pace /\ p.spec.hbm_bw \in Pace
        /\ p.spec.cpu_flops ** p.spec.cpus_per_gpu \in Pace
        /\ p.spec.cpu_dram_bw ** p.spec.cpus_per_gpu \in Pace
    BY PointParts
  <2> QED BY <1>1, <2>1, <2>2, PaceClosed
<1>3. e.td \in Quantity
  BY DEF Fit
<1>4. StepOf(p, hw, e.td) \in Pace
  BY <1>2, <1>3, StepTyped1
<1> QED BY <1>4, PredictedIs DEF hw

LEMMA OneEtaFits ==
  ASSUME NEW eta \in Pace
  PROVE  /\ Fit(OneEta(eta)) /\ OneEta(eta).ec = eta /\ OneEta(eta).em = eta
         /\ OneEta(eta).td = Zero
BY ShareClosed DEF Fit, OneEta

(* With one efficiency the prediction is in inverse proportion to it.      *)
LEMMA PredictedSlowed ==
  ASSUME NEW p, PointTyped(p), NEW eta \in Pace
  PROVE  /\ AtPeak(p) \in Pace
         /\ predict_tpot(p, OneEta(eta), "conservative") = AtPeak(p) // eta
<1> DEFINE peak == system(p.spec)
           hw == hw_from_point(p, OneEta(eta))
<1>1. /\ peak.f_gpu = p.spec.gpu_flops /\ peak.bw_hbm = p.spec.hbm_bw
      /\ peak.f_cpu = p.spec.cpu_flops ** p.spec.cpus_per_gpu
      /\ peak.bw_cpu = p.spec.cpu_dram_bw ** p.spec.cpus_per_gpu
  BY DEF system
<1>2. OneEta(eta).ec = eta /\ OneEta(eta).em = eta /\ OneEta(eta).td = Zero
  BY OneEtaFits
<1>3. /\ hw.f_gpu = peak.f_gpu ** eta /\ hw.bw_hbm = peak.bw_hbm ** eta
      /\ hw.f_cpu = peak.f_cpu ** eta /\ hw.bw_cpu = peak.bw_cpu ** eta
  BY <1>1, <1>2, HardwareIs
<1> HIDE DEF peak, hw
<1>4. peak.f_gpu \in Pace /\ peak.bw_hbm \in Pace /\ peak.f_cpu \in Pace /\ peak.bw_cpu \in Pace
  BY <1>1, PointParts
<1>5. StepOf(p, peak, Zero) \in Pace
  BY <1>4, ShareClosed, StepTyped1
<1>6. StepOf(p, hw, Zero) = StepOf(p, peak, Zero) // eta
  BY <1>3, <1>4, StepSlowed
<1>7. predict_tpot(p, OneEta(eta), "conservative") = StepOf(p, hw, Zero)
  BY <1>2, PredictedIs DEF hw
<1> QED BY <1>5, <1>6, <1>7 DEF AtPeak, peak

(* Points with their measurements.                                         *)
Measured(points) ==
  /\ points \in Seq({points[i] : i \in DOMAIN points})
  /\ \A i \in DOMAIN points : PointTyped(points[i]) /\ measured_tpot(points[i]) \in Pace

(* Their errors under a fit, of which mape is the mean.                    *)
ErrorsOf(points, e) ==
  [i \in DOMAIN points |->
     RelativeError(predict_tpot(points[i], e, "conservative"), measured_tpot(points[i]))]

LEMMA MapeIs ==
  ASSUME NEW points, Measured(points), NEW e, Fit(e)
  PROVE  /\ points = <<>> => mape(points, e) = Inf
         /\ points # <<>> =>
              /\ Errors(ErrorsOf(points, e), Len(points))
              /\ mape(points, e) = SumTo(ErrorsOf(points, e), Len(points)) // Q(Len(points))
              /\ mape(points, e) \in Quantity
         /\ mape(points, e) \in Rational
<1>1. CASE points = <<>>
  BY <1>1 DEF mape, Inf, Rational
<1>2. CASE points # <<>>
  <2> DEFINE n == Len(points)
             xs == ErrorsOf(points, e)
  <2>1. n \in Nat \ {0} /\ DOMAIN points = 1..n
    BY <1>2 DEF Measured
  <2>2. mape(points, e) = SumTo(xs, n) // Q(n)
    BY <1>2 DEF mape, Mean, Total, ErrorsOf
  <2>3. ASSUME NEW i \in 1..n PROVE xs[i] \in Quantity
    <3>1. PointTyped(points[i]) /\ measured_tpot(points[i]) \in Pace
      BY <2>1 DEF Measured
    <3>2. predict_tpot(points[i], e, "conservative") \in Quantity
      BY <3>1, PredictedTyped, PaceIs
    <3>3. xs[i] = RelativeError(predict_tpot(points[i], e, "conservative"), measured_tpot(points[i]))
      BY <2>1 DEF ErrorsOf
    <3> QED BY <3>1, <3>2, <3>3, ErrorIs
  <2>4. Errors(xs, n)
    BY <2>1, <2>3 DEF Errors
  <2> HIDE DEF xs, n
  <2>5. SumTo(xs, n) // Q(n) \in Quantity
    BY <2>4, MeanError
  <2>6. \A a \in Quantity : a \in Rational
    BY NormalFinite, Parts DEF Quantity
  <2> QED BY <1>2, <2>2, <2>4, <2>5, <2>6 DEF n, xs
<1> QED BY <1>1, <1>2

(* The first fit with the least error has no more error than any other.    *)
Tries(tried) == tried # <<>> /\ tried \in Seq({tried[i] : i \in DOMAIN tried})
                /\ \A i \in DOMAIN tried : tried[i].mape \in Rational
LeastIn(g, tried) ==
  g = [i \in DOMAIN tried |-> IF i = 1 THEN tried[1] ELSE LessError(g[i-1], tried[i])]

LEMMA LeastExists ==
  ASSUME NEW tried, Tries(tried)
  PROVE  \E g : LeastIn(g, tried) /\ g[Len(tried)] = LeastOf(tried)
<1> DEFINE n == Len(tried)
           D == {tried[i] : i \in 1..n}
           G == [p \in D \X (1..n) |-> IF p[2] = 1 THEN tried[1] ELSE LessError(p[1], tried[p[2]])]
<1>1. n \in Nat \ {0} /\ DOMAIN tried = 1..n /\ 1 \in 1..n
  BY DEF Tries
<1>2. tried[1] \in D /\ \A k \in 1..n : tried[k] \in D
  BY <1>1
<1> HIDE DEF D, n
<1>3. \A x \in D, k \in 1..n : G[<<x, k>>] = IF k = 1 THEN tried[1] ELSE LessError(x, tried[k])
  OBVIOUS
<1>4. \A x \in D, k \in 1..n : G[<<x, k>>] \in D
  BY <1>2, <1>3 DEF LessError
<1> HIDE DEF G
<1>5. PICK f : LoopIn(f, D, tried[1], n, G)
  <2>1. n \in Nat
    BY <1>1
  <2> QED BY <1>2, <1>4, <2>1, LoopExists
<1> DEFINE g == [i \in 1..n |-> f[i]]
<1>6. ASSUME NEW i \in 1..n PROVE g[i] = IF i = 1 THEN tried[1] ELSE LessError(g[i-1], tried[i])
  <2>1. i \in 0..n /\ i - 1 \in 0..n /\ i # 0
    BY <1>1
  <2>2. f[i-1] \in D
    BY <1>5, <2>1 DEF LoopIn
  <2>3. f[i] = IF i = 1 THEN tried[1] ELSE LessError(f[i-1], tried[i])
    BY <1>3, <1>5, <2>1, <2>2 DEF LoopIn
  <2>4. i # 1 => i - 1 \in 1..n
    BY <1>1
  <2> QED BY <2>3, <2>4
<1>7. LeastIn(g, tried)
  <2>1. g = [i \in 1..n |-> g[i]]
    OBVIOUS
  <2> HIDE DEF g
  <2> QED BY <1>1, <1>6, <2>1 DEF LeastIn
<1> DEFINE h == CHOOSE h : LeastIn(h, tried)
<1>8. LeastIn(h, tried)
  BY <1>7
<1>9. LeastOf(tried) = h[n]
  BY DEF LeastOf, LeastIn, n
<1> HIDE DEF h
<1> QED BY <1>8, <1>9 DEF n

LEMMA LeastIs ==
  ASSUME NEW tried, Tries(tried)
  PROVE  /\ \E i \in DOMAIN tried : LeastOf(tried) = tried[i]
         /\ \A i \in DOMAIN tried : LeastOf(tried).mape \preceq tried[i].mape
<1> DEFINE n == Len(tried)
<1>1. n \in Nat \ {0} /\ DOMAIN tried = 1..n /\ 1 \in 1..n
  BY DEF Tries
<1>2. PICK g : LeastIn(g, tried) /\ g[n] = LeastOf(tried)
  BY LeastExists
<1>3. \A i \in 1..n : tried[i].mape \in Rational
  BY <1>1 DEF Tries
<1> HIDE DEF n
<1> DEFINE Good(k) == /\ \E i \in 1..n : g[k] = tried[i]
                      /\ \A i \in 1..k : g[k].mape \preceq tried[i].mape
           m == n - 1
           S == {k \in 0..m : Good(k+1)}
<1>4. m \in Nat
  BY <1>1
<1>5. 0 \in S
  <2>1. g[1] = tried[1]
    BY <1>1, <1>2 DEF LeastIn
  <2>2. tried[1].mape \preceq tried[1].mape
    BY <1>1, <1>3, OrderTotal
  <2>3. \A i \in 1..1 : i = 1
    OBVIOUS
  <2>4. Good(1)
    BY <1>1, <2>1, <2>2, <2>3
  <2>5. 0 + 1 = 1 /\ 0 \in 0..m
    BY <1>4
  <2> HIDE DEF Good, m
  <2> QED BY <2>4, <2>5
<1>6. ASSUME NEW k \in 0..(m-1), k \in S PROVE k+1 \in S
  <2>1. k+1 \in 0..m /\ k+1 \in 1..n /\ (k+1)+1 \in 1..n /\ (k+1)+1 # 1 /\ ((k+1)+1)-1 = k+1
    BY <1>1
  <2>2. g[(k+1)+1] = LessError(g[k+1], tried[(k+1)+1])
    BY <1>1, <1>2, <2>1 DEF LeastIn
  <2>3. Good(k+1)
    BY <1>6
  <2> DEFINE j == k + 1
             x == g[j]
             y == tried[j+1]
             z == g[j+1]
  <2>4. x.mape \in Rational /\ y.mape \in Rational
    BY <1>3, <2>1, <2>3
  <2>5. z = (IF y.mape \prec x.mape THEN y ELSE x)
    BY <2>2 DEF LessError
  <2>6. \E i \in 1..n : z = tried[i]
    BY <2>1, <2>3, <2>5
  <2>7. z.mape \preceq x.mape /\ z.mape \preceq y.mape /\ z.mape \in Rational
    <3> HIDE DEF x, y, z
    <3> QED BY <2>4, <2>5, OrderTotal DEF \prec
  <2>8. ASSUME NEW i \in 1..(j+1) PROVE z.mape \preceq tried[i].mape
    <3>1. CASE i = j + 1
      BY <2>7, <3>1
    <3>2. CASE i # j + 1
      <4>1. i \in 1..j /\ i \in 1..n
        <5>1. j \in Nat /\ j + 1 \in 1..n /\ i \in 1..(j+1)
          BY <2>1, <2>8
        <5> HIDE DEF j
        <5> QED BY <1>1, <3>2, <5>1
      <4>2. x.mape \preceq tried[i].mape /\ tried[i].mape \in Rational
        BY <1>3, <2>3, <4>1
      <4> HIDE DEF x, y, z
      <4> QED BY <2>4, <2>7, <4>2, OrderTrans
    <3> QED BY <3>1, <3>2
  <2>9. Good(j + 1)
    <3> HIDE DEF j
    <3> QED BY <2>6, <2>8
  <2> HIDE DEF Good, m
  <2> QED BY <2>1, <2>9
<1>7. \A k \in 0..m : k \in S
  <2> HIDE DEF S, m
  <2> QED BY <1>4, <1>5, <1>6, LoopInduction
<1>8. Good(n)
  <2>1. m \in 0..m /\ m + 1 = n
    BY <1>1, <1>4
  <2> HIDE DEF Good, m
  <2> QED BY <1>7, <2>1
<1> QED BY <1>1, <1>2, <1>8

(* A list of fits, and the best of them.                                   *)
FitList(fits, n) == n \in Nat \ {0} /\ fits \in [1..n -> {e \in {fits[i] : i \in 1..n} : Fit(e)}]

LEMMA LeastErrorIs ==
  ASSUME NEW points, Measured(points), NEW fits, NEW n, FitList(fits, n)
  PROVE  LET best == LeastError(points, fits) IN
         /\ \E i \in 1..n : best = [fit |-> fits[i], mape |-> mape(points, fits[i])]
         /\ \A i \in 1..n : best.mape \preceq mape(points, fits[i])
<1> DEFINE tried == [i \in DOMAIN fits |-> [fit |-> fits[i], mape |-> mape(points, fits[i])]]
<1>1. n \in Nat \ {0} /\ DOMAIN fits = 1..n /\ \A i \in 1..n : Fit(fits[i])
  BY DEF FitList
<1>2. /\ DOMAIN tried = 1..n
      /\ \A i \in 1..n : tried[i] = [fit |-> fits[i], mape |-> mape(points, fits[i])]
  BY <1>1
<1>3. LeastError(points, fits) = LeastOf(tried)
  BY DEF LeastError
<1>4. \A i \in 1..n : tried[i].mape = mape(points, fits[i]) /\ tried[i].mape \in Rational
  BY <1>1, <1>2, MapeIs
<1>5. tried \in Seq({tried[i] : i \in DOMAIN tried}) /\ tried # <<>>
  <2>1. tried = [i \in 1..n |-> tried[i]]
    BY <1>1
  <2> DEFINE D == {tried[i] : i \in DOMAIN tried}
  <2>2. \A i \in 1..n : tried[i] \in D
    BY <1>2
  <2> HIDE DEF tried, D
  <2>3. tried \in [1..n -> D]
    BY <2>1, <2>2
  <2>4. tried \in Seq(D)
    BY <1>1, <2>3
  <2>5. Len(tried) = n
    BY <1>1, <1>2, <2>4
  <2>6. tried # <<>>
    BY <1>1, <2>5
  <2> QED BY <2>4, <2>6 DEF D
<1> HIDE DEF tried
<1>6. Tries(tried)
  BY <1>2, <1>4, <1>5 DEF Tries
<1>7. /\ \E i \in DOMAIN tried : LeastOf(tried) = tried[i]
      /\ \A i \in DOMAIN tried : LeastOf(tried).mape \preceq tried[i].mape
  BY <1>6, LeastIs
<1> QED BY <1>2, <1>3, <1>4, <1>7

(* The grids.                                                              *)
LEMMA GridsTyped ==
  /\ EtaGrid # <<>> /\ DOMAIN EtaGrid = 1..Len(EtaGrid) /\ Len(EtaGrid) \in Nat \ {0}
  /\ \A i \in DOMAIN EtaGrid : EtaGrid[i] \in Pace
  /\ DOMAIN EtaGridJoint = 1..Len(EtaGridJoint) /\ Len(EtaGridJoint) \in Nat \ {0}
  /\ \A i \in DOMAIN EtaGridJoint : EtaGridJoint[i] \in Pace
  /\ DOMAIN TdGrid = 1..Len(TdGrid) /\ Len(TdGrid) \in Nat \ {0} /\ TdGrid[1] = Zero
  /\ \A i \in DOMAIN TdGrid : TdGrid[i] \in Quantity
<1>1. \A a \in Positive \cap LowestTerms : a \in Pace
  BY LowestIsNormal DEF Pace
<1>2. \A a \in NonNegative \cap LowestTerms : a \in Quantity
  BY LowestIsNormal DEF Quantity
<1>3. /\ EtaGrid \in Seq(Positive \cap LowestTerms) /\ EtaGrid # <<>>
      /\ EtaGridJoint \in Seq(Positive \cap LowestTerms) /\ EtaGridJoint # <<>>
      /\ TdGrid \in Seq(NonNegative \cap LowestTerms) /\ TdGrid # <<>> /\ TdGrid[1] = Zero
  BY CalibrationsAreTyped
<1> DEFINE P == Positive \cap LowestTerms
           N == NonNegative \cap LowestTerms
<1> HIDE DEF P, N
<1>4. \A s \in Seq(P) : s # <<>> => DOMAIN s = 1..Len(s) /\ Len(s) \in Nat \ {0} /\ \A i \in DOMAIN s : s[i] \in P
  OBVIOUS
<1>5. \A s \in Seq(N) : s # <<>> => DOMAIN s = 1..Len(s) /\ Len(s) \in Nat \ {0} /\ \A i \in DOMAIN s : s[i] \in N
  OBVIOUS
<1> QED BY <1>1, <1>2, <1>3, <1>4, <1>5 DEF P, N

(* The fits of calibrate_eta,                                              *)
LEMMA EtaFits ==
  FitList([i \in DOMAIN EtaGrid |-> OneEta(EtaGrid[i])], Len(EtaGrid))
<1> DEFINE n == Len(EtaGrid)
           fits == [i \in DOMAIN EtaGrid |-> OneEta(EtaGrid[i])]
<1>1. n \in Nat \ {0} /\ DOMAIN EtaGrid = 1..n /\ \A i \in 1..n : Fit(OneEta(EtaGrid[i]))
  BY GridsTyped, OneEtaFits
<1>2. fits = [i \in 1..n |-> fits[i]] /\ \A i \in 1..n : Fit(fits[i])
  BY <1>1
<1> HIDE DEF n, fits
<1> QED BY <1>1, <1>2 DEF FitList, n, fits

(* of which one is the best.                                               *)
LEMMA EtaIs ==
  ASSUME NEW points, Measured(points)
  PROVE  LET best == calibrate_eta(points) IN
         /\ \E i \in DOMAIN EtaGrid :
              best = [fit |-> OneEta(EtaGrid[i]), mape |-> mape(points, OneEta(EtaGrid[i]))]
         /\ \A i \in DOMAIN EtaGrid : best.mape \preceq mape(points, OneEta(EtaGrid[i]))
<1> DEFINE n == Len(EtaGrid)
           fits == [i \in DOMAIN EtaGrid |-> OneEta(EtaGrid[i])]
<1>1. DOMAIN EtaGrid = 1..n /\ \A i \in 1..n : fits[i] = OneEta(EtaGrid[i])
  BY GridsTyped
<1>2. FitList(fits, n)
  BY EtaFits
<1>3. calibrate_eta(points) = LeastError(points, fits)
  BY DEF calibrate_eta
<1> HIDE DEF n, fits
<1>4. /\ \E i \in 1..n : LeastError(points, fits) = [fit |-> fits[i], mape |-> mape(points, fits[i])]
      /\ \A i \in 1..n : LeastError(points, fits).mape \preceq mape(points, fits[i])
  BY <1>2, LeastErrorIs
<1> QED BY <1>1, <1>3, <1>4

-----------------------------------------------------------------------------
(* Points that are made up with eta.                                       *)
MadeUp(points, eta) ==
  /\ eta \in Pace /\ points # <<>> /\ points \in Seq({points[i] : i \in DOMAIN points})
  /\ \A i \in DOMAIN points :
       PointTyped(points[i]) /\ measured_tpot(points[i]) = AtPeak(points[i]) // eta

LEMMA MadeUpMeasured ==
  ASSUME NEW points, NEW eta, MadeUp(points, eta)
  PROVE  Measured(points)
<1>1. ASSUME NEW i \in DOMAIN points PROVE measured_tpot(points[i]) \in Pace
  <2>1. PointTyped(points[i]) /\ measured_tpot(points[i]) = AtPeak(points[i]) // eta /\ eta \in Pace
    BY DEF MadeUp
  <2>2. AtPeak(points[i]) \in Pace
    BY <2>1, PredictedSlowed
  <2> QED BY <2>1, <2>2, PaceClosed
<1> QED BY <1>1 DEF MadeUp, Measured

(* The efficiency eta explains them without error, and no other does.      *)
LEMMA ErrorsAt ==
  ASSUME NEW points, NEW eta, MadeUp(points, eta), NEW other \in Pace, NEW i \in DOMAIN points
  PROVE  LET error == RelativeError(predict_tpot(points[i], OneEta(other), "conservative"),
                                    measured_tpot(points[i])) IN
         /\ other = eta => error = Zero
         /\ other # eta => error \in Pace
<1>1. /\ PointTyped(points[i]) /\ measured_tpot(points[i]) = AtPeak(points[i]) // eta /\ eta \in Pace
      /\ measured_tpot(points[i]) \in Pace
  BY MadeUpMeasured DEF MadeUp, Measured
<1>2. AtPeak(points[i]) \in Pace
      /\ predict_tpot(points[i], OneEta(other), "conservative") = AtPeak(points[i]) // other
  BY <1>1, PredictedSlowed
<1>3. AtPeak(points[i]) // other \in Quantity
  BY <1>2, PaceClosed, PaceIs
<1>4. other # eta => AtPeak(points[i]) // other # AtPeak(points[i]) // eta
  BY <1>1, <1>2, SlowedTells
<1> QED BY <1>1, <1>2, <1>3, <1>4, ErrorIs

LEMMA EtaFound ==
  ASSUME NEW points, NEW eta, MadeUp(points, eta), \E i \in DOMAIN EtaGrid : EtaGrid[i] = eta
  PROVE  calibrate_eta(points) = [fit |-> OneEta(eta), mape |-> Zero]
<1> DEFINE n == Len(points)
<1>1. points # <<>> /\ eta \in Pace /\ Measured(points)
  BY MadeUpMeasured DEF MadeUp
<1>2. n \in Nat \ {0} /\ DOMAIN points = 1..n /\ 1 \in 1..n
  BY <1>1 DEF Measured
<1>3. ASSUME NEW other \in Pace
      PROVE  /\ mape(points, OneEta(other)) \in Quantity
             /\ other = eta => mape(points, OneEta(other)) = Zero
             /\ other # eta => mape(points, OneEta(other)) # Zero
  <2> DEFINE xs == ErrorsOf(points, OneEta(other))
  <2>1. /\ Errors(xs, n) /\ mape(points, OneEta(other)) = SumTo(xs, n) // Q(n)
        /\ mape(points, OneEta(other)) \in Quantity
    BY <1>1, OneEtaFits, MapeIs
  <2>2. ASSUME NEW i \in 1..n PROVE (other = eta => xs[i] = Zero) /\ (other # eta => xs[i] \in Pace)
    BY <1>2, ErrorsAt DEF ErrorsOf
  <2> HIDE DEF xs, n
  <2> QED BY <1>2, <2>1, <2>2, MeanError
<1>4. PICK j \in DOMAIN EtaGrid : EtaGrid[j] = eta
  OBVIOUS
<1>5. PICK i \in DOMAIN EtaGrid :
        calibrate_eta(points) = [fit |-> OneEta(EtaGrid[i]), mape |-> mape(points, OneEta(EtaGrid[i]))]
  BY <1>1, EtaIs
<1>6. calibrate_eta(points).mape \preceq mape(points, OneEta(EtaGrid[j]))
  BY <1>1, EtaIs
<1>7. EtaGrid[i] \in Pace
  BY GridsTyped
<1> DEFINE m == mape(points, OneEta(EtaGrid[i]))
<1>8. m \in Quantity /\ m \preceq Zero
  BY <1>1, <1>3, <1>4, <1>5, <1>6, <1>7
<1>9. m = Zero
  <2> HIDE DEF m
  <2>1. m \in Normal /\ Zero \preceq m
    BY <1>8 DEF Quantity, NonNegative
  <2> QED BY <1>8, <2>1, PositiveUnlessZero DEF \prec
<1>10. EtaGrid[i] = eta
  BY <1>3, <1>7, <1>9
<1> QED BY <1>5, <1>9, <1>10

(* The points of the self-test are made up so,                             *)
LEMMA SyntheticMadeUp ==
  ASSUME NEW cases, cases # <<>>, cases \in Seq({cases[i] : i \in DOMAIN cases}),
         \A i \in DOMAIN cases : PointTyped(cases[i]), NEW eta \in Pace
  PROVE  MadeUp(synthetic_points(cases, eta), eta)
<1> DEFINE points == synthetic_points(cases, eta)
           n == Len(cases)
<1>1. n \in Nat \ {0} /\ DOMAIN cases = 1..n
  OBVIOUS
<1>2. points = [i \in 1..n |-> points[i]]
  BY <1>1 DEF synthetic_points
<1>3. ASSUME NEW i \in 1..n
      PROVE  PointTyped(points[i]) /\ measured_tpot(points[i]) = AtPeak(points[i]) // eta
  <2>1. points[i] = [spec |-> cases[i].spec, model |-> cases[i].model, b_d |-> cases[i].b_d,
                     context |-> cases[i].context,
                     measured |-> predict_tpot(cases[i], OneEta(eta), "conservative")]
    BY <1>1 DEF synthetic_points
  <2> DEFINE p == points[i]
             c == cases[i]
  <2>2. /\ p.spec = c.spec /\ p.model = c.model /\ p.b_d = c.b_d /\ p.context = c.context
        /\ "measured" \in DOMAIN p
        /\ p.measured = predict_tpot(c, OneEta(eta), "conservative")
    BY <2>1
  <2>3. PointTyped(c)
    BY <1>1
  <2> HIDE DEF p, c
  <2>4. PointTyped(p)
    BY <2>2, <2>3 DEF PointTyped
  <2>5. AtPeak(p) = AtPeak(c)
    BY <2>2 DEF AtPeak, StepOf, GpuFlops, Hot, Cold, PointContext
  <2>6. predict_tpot(c, OneEta(eta), "conservative") = AtPeak(c) // eta
    BY <2>3, PredictedSlowed
  <2>7. measured_tpot(p) = p.measured
    BY <2>2 DEF measured_tpot
  <2> QED BY <2>2, <2>4, <2>5, <2>6, <2>7 DEF p
<1> HIDE DEF points, n
<1>4. DOMAIN points = 1..n
  BY <1>2
<1> DEFINE D == {points[i] : i \in DOMAIN points}
<1>5. \A i \in 1..n : points[i] \in D
  BY <1>4
<1> HIDE DEF D
<1>6. points \in Seq(D) /\ points # <<>>
  <2>1. points \in [1..n -> D]
    BY <1>2, <1>5
  <2>2. points \in Seq(D)
    BY <1>1, <2>1
  <2>3. Len(points) = n
    BY <1>1, <1>4, <2>2
  <2> QED BY <1>1, <2>2, <2>3
<1> QED BY <1>3, <1>4, <1>6 DEF MadeUp, D, points

(* and so are those without one of them.                                   *)
LEMMA OthersMadeUp ==
  ASSUME NEW points, NEW eta, MadeUp(points, eta), NEW i \in DOMAIN points, Len(points) >= 2
  PROVE  MadeUp(Seqs!RemoveAt(points, i), eta)
<1> DEFINE S == {points[j] : j \in DOMAIN points}
           n == Len(points)
           before == SubSeq(points, 1, i-1)
           after == SubSeq(points, i+1, n)
           others == before \o after
<1>1. points \in Seq(S) /\ eta \in Pace
      /\ \A p \in S : PointTyped(p) /\ measured_tpot(p) = AtPeak(p) // eta
  BY DEF MadeUp
<1> HIDE DEF S
<1>2. n \in Nat /\ n >= 2 /\ i \in 1..n
  BY <1>1
<1>3. before \in Seq(S) /\ Len(before) = i - 1
  BY <1>1, <1>2
<1>4. after \in Seq(S) /\ Len(after) = n - i
  BY <1>1, <1>2
<1>5. others \in Seq(S) /\ Len(others) = n - 1
  <2> HIDE DEF before, after, n
  <2>1. before \o after \in Seq(S)
    BY <1>3, <1>4
  <2>2. Len(before \o after) = Len(before) + Len(after)
    BY <1>3, <1>4
  <2>3. Len(before) + Len(after) = n - 1
    BY <1>2, <1>3, <1>4
  <2> QED BY <2>1, <2>2, <2>3
<1>6. Seqs!RemoveAt(points, i) = others
  BY DEF Seqs!RemoveAt
<1> HIDE DEF others, n
<1>7. others # <<>>
  BY <1>2, <1>5
<1>8. \A j \in DOMAIN others : others[j] \in S
  BY <1>5
<1>9. others \in Seq({others[j] : j \in DOMAIN others})
  <2> DEFINE D == {others[j] : j \in DOMAIN others}
  <2>1. \A j \in DOMAIN others : others[j] \in D
    OBVIOUS
  <2> HIDE DEF D
  <2>2. others \in Seq(D)
    BY <1>5, <2>1
  <2> QED BY <2>2 DEF D
<1> QED BY <1>1, <1>6, <1>7, <1>8, <1>9 DEF MadeUp

(* So nothing that is left out is missed.                                  *)
LEMMA LeftOutFound ==
  ASSUME NEW points, NEW eta, MadeUp(points, eta), \E i \in DOMAIN EtaGrid : EtaGrid[i] = eta
  PROVE  leave_one_out(points, FALSE).ok => leave_one_out(points, FALSE).mape = Zero
<1> SUFFICES ASSUME leave_one_out(points, FALSE).ok PROVE leave_one_out(points, FALSE).mape = Zero
  OBVIOUS
<1> DEFINE n == Len(points)
           is == [i \in DOMAIN points |-> i]
           xs == [k \in DOMAIN is |-> LeftOutError(points, is[k], FALSE)]
<1>1. n >= 2
  BY DEF leave_one_out, MadeUp
<1>2. n \in Nat \ {0} /\ DOMAIN points = 1..n
  BY DEF MadeUp
<1>3. leave_one_out(points, FALSE).mape = SumTo(xs, Len(is)) // Q(Len(is))
  BY <1>1, <1>2 DEF leave_one_out, Mean, Total
<1>4. Len(is) = n
  BY <1>2
<1>5. \A i \in 1..n : xs[i] = LeftOutError(points, i, FALSE)
  BY <1>2
<1> HIDE DEF xs, is
<1>6. ASSUME NEW i \in 1..n PROVE xs[i] = Zero
  <2>1. i \in DOMAIN points
    BY <1>2
  <2>2. MadeUp(Seqs!RemoveAt(points, i), eta)
    BY <1>1, <2>1, OthersMadeUp
  <2>3. calibrate_eta(Seqs!RemoveAt(points, i)) = [fit |-> OneEta(eta), mape |-> Zero]
    BY <2>2, EtaFound
  <2>4. FitTo(Seqs!RemoveAt(points, i), FALSE) = OneEta(eta)
    BY <2>3 DEF FitTo
  <2>5. eta \in Pace
    BY DEF MadeUp
  <2>6. LeftOutError(points, i, FALSE) = Zero
    BY <2>1, <2>4, <2>5, ErrorsAt DEF LeftOutError
  <2> QED BY <1>5, <2>6
<1>7. Errors(xs, n)
  BY <1>2, <1>6, ShareClosed DEF Errors
<1> HIDE DEF n
<1>8. SumTo(xs, n) // Q(n) = Zero
  BY <1>6, <1>7, MeanError
<1> QED BY <1>3, <1>4, <1>8

-----------------------------------------------------------------------------
(* The loops of the joint fit, counted in one list.                        *)

(* Quotient and remainder are the only ones.                               *)
LEMMA QuotientIs ==
  ASSUME NEW k \in Int, NEW g \in Nat \ {0}, NEW j \in 0..(g-1)
  PROVE  (k * g + j) \div g = k /\ (k * g + j) % g = j
<1> DEFINE x == k * g + j
           e == x \div g
           r == x % g
<1>1. x \in Int
  OBVIOUS
<1> HIDE DEF x
<1>2. e \in Int /\ r \in 0..(g-1) /\ x = g * e + r
  BY <1>1, DivMod
<1> HIDE DEF e, r
<1> DEFINE w == k - e
<1>3. w \in Int /\ (w = 0 => k = e)
  BY <1>2
<1>4. g * w = r - j
  <2> DEFINE u == k * g
             v == g * e
  <2>1. g * w = u - v /\ u \in Int /\ v \in Int
    BY <1>2
  <2>2. u + j = v + r
    BY <1>2 DEF x
  <2> HIDE DEF u, v
  <2> QED BY <1>2, <2>1, <2>2
<1> HIDE DEF w
<1>5. w >= 1 => g * w >= g * 1
  BY <1>3
<1>6. w <= -1 => g * w <= -g
  <2>1. w <= -1 => g * (w + 1) <= 0
    BY <1>3
  <2>2. g * (w + 1) = g * w + g
    BY <1>3
  <2> DEFINE u == g * w
  <2>3. u \in Int /\ (w <= -1 => u + g <= 0)
    BY <1>3, <2>1, <2>2
  <2> HIDE DEF u
  <2>4. w <= -1 => u <= -g
    BY <2>3
  <2> QED BY <2>4 DEF u
<1>7. w = 0
  <2> DEFINE u == g * w
  <2>1. u = r - j
    BY <1>4
  <2>2. (w >= 1 => u >= g) /\ (w <= -1 => u <= -g)
    BY <1>5, <1>6
  <2> HIDE DEF u
  <2> QED BY <1>2, <1>3, <2>1, <2>2
<1>8. k = e /\ r = j
  <2>1. k = e
    BY <1>3, <1>7
  <2>2. g * w = 0
    BY <1>7
  <2> QED BY <1>2, <1>4, <2>1, <2>2
<1> QED BY <1>8 DEF e, r, x

LEMMA QuotientBelow ==
  ASSUME NEW n \in Nat, NEW b \in Nat \ {0}, NEW a \in 0..(n * b - 1)
  PROVE  a \div b \in 0..(n-1)
<1> DEFINE q == a \div b
           r == a % b
<1>1. a \in Nat /\ a < n * b
  OBVIOUS
<1>2. q \in Int /\ r \in 0..(b-1) /\ a = b * q + r
  BY <1>1, DivMod
<1> HIDE DEF q, r
<1>3. q >= 0
  <2>1. q <= -1 => b * (q + 1) <= 0
    BY <1>2
  <2>2. b * (q + 1) = b * q + b
    BY <1>2
  <2> DEFINE u == b * q
  <2>3. u \in Int /\ (q <= -1 => u + b <= 0) /\ a = u + r
    BY <1>2, <2>1, <2>2
  <2> HIDE DEF u
  <2> QED BY <1>1, <1>2, <2>3
<1>4. q <= n - 1
  <2>1. q >= n => b * (q - n) >= 0
    BY <1>2
  <2>2. b * (q - n) = b * q - n * b
    BY <1>2
  <2> DEFINE u == b * q
             v == n * b
  <2>3. u \in Int /\ v \in Int /\ a = u + r /\ a < v /\ (q >= n => u - v >= 0)
    BY <1>1, <1>2, <2>1, <2>2
  <2> HIDE DEF u, v
  <2> QED BY <1>1, <1>2, <2>3
<1> QED BY <1>2, <1>3, <1>4 DEF q

(* The three loops cover the list, and in it the turns in which the two    *)
(* efficiencies are the same and the dispatch time is the first.           *)
LoopTurns(n, m) == n * n * m
LEMMA TurnParts ==
  ASSUME NEW n \in Nat \ {0}, NEW m \in Nat \ {0}, NEW i \in 1..LoopTurns(n, m)
  PROVE  /\ ((i - 1) \div (n * m)) + 1 \in 1..n /\ (((i - 1) \div m) % n) + 1 \in 1..n
         /\ ((i - 1) % m) + 1 \in 1..m
<1> DEFINE x == i - 1
           b == n * m
<1>1. b \in Nat \ {0}
  <2>1. n * m > 0 /\ n * m \in Int
    OBVIOUS
  <2> QED BY <2>1
<1>2. n * b = LoopTurns(n, m)
  BY DEF LoopTurns
<1>3. x \in 0..(n * b - 1) /\ x \in Int
  <2>1. n * b \in Int
    BY <1>1
  <2> HIDE DEF b
  <2> QED BY <1>2, <2>1
<1> HIDE DEF x, b
<1>4. x \div b \in 0..(n-1)
  BY <1>1, <1>3, QuotientBelow
<1>5. x \div m \in Int /\ x % m \in 0..(m-1)
  BY <1>3, DivMod
<1>6. (x \div m) % n \in 0..(n-1)
  BY <1>5, DivMod
<1> QED BY <1>4, <1>5, <1>6 DEF x, b

(* Turn i is the one that tries k for both efficiencies and the first      *)
(* overhead: there is such a turn.                                         *)
Hits(i, n, m, k) ==
  /\ ((i - 1) \div (n * m)) + 1 = k
  /\ (((i - 1) \div m) % n) + 1 = k
  /\ ((i - 1) % m) + 1 = 1

LEMMA SameTurn ==
  ASSUME NEW n \in Nat \ {0}, NEW m \in Nat \ {0}, NEW k \in 1..n
  PROVE  \E i \in 1..LoopTurns(n, m) : Hits(i, n, m, k)
<1> DEFINE j == k - 1
           b == n * m
           u == j * n + j
           x == u * m
           i == x + 1
<1>1. j \in 0..(n-1) /\ j \in Nat /\ j + 1 = k
  OBVIOUS
<1>2. b \in Nat \ {0}
  <2>1. n * m > 0 /\ n * m \in Int
    OBVIOUS
  <2> QED BY <2>1
<1> HIDE DEF j
<1>3. u \in Nat /\ u \div n = j /\ u % n = j
  <2>1. u \in Nat
    BY <1>1
  <2> QED BY <1>1, <2>1, QuotientIs
<1>4. u <= n * n - 1
  <2>1. j * n <= (n - 1) * n
    BY <1>1
  <2>2. (n - 1) * n = n * n - n
    OBVIOUS
  <2> DEFINE v == j * n
             w == n * n
  <2>3. v \in Int /\ w \in Int /\ v <= w - n
    BY <1>1, <2>1, <2>2
  <2> HIDE DEF v, w
  <2>4. v + j <= w - 1
    BY <1>1, <2>3
  <2> QED BY <2>4 DEF v, w
<1>5. x = j * b + j * m
  <2>1. x = (j * n) * m + j * m
    BY <1>1
  <2>2. (j * n) * m = j * b
    BY <1>1
  <2> QED BY <2>1, <2>2
<1>6. j * m \in 0..(b - 1)
  <2>1. j * m >= 0 /\ j * m \in Int
    BY <1>1
  <2>2. (n - j) * m >= 1
    <3>1. n - j \in Nat \ {0}
      BY <1>1
    <3> DEFINE d == n - j
    <3> HIDE DEF d
    <3>2. d \in Nat \ {0} => d * m >= 1
      OBVIOUS
    <3> QED BY <3>1, <3>2 DEF d
  <2>3. (n - j) * m = b - j * m
    BY <1>1
  <2> DEFINE v == j * m
  <2>4. v \in Int /\ v >= 0 /\ b - v >= 1
    BY <2>1, <2>2, <2>3
  <2> HIDE DEF v, b
  <2>5. v \in 0..(b - 1)
    BY <1>2, <2>4
  <2> QED BY <2>5 DEF v
<1>7. x \in Nat /\ x <= (n * n - 1) * m
  <2> DEFINE w == n * n - 1
  <2>1. w \in Int
    OBVIOUS
  <2> HIDE DEF u, w
  <2>2. u <= w
    BY <1>4 DEF w
  <2>3. u * m \in Nat
    BY <1>3
  <2>4. (w - u) * m >= 0
    BY <1>3, <2>1, <2>2
  <2>5. (w - u) * m = w * m - u * m
    BY <1>3, <2>1
  <2>6. w * m \in Int
    BY <2>1
  <2>7. u * m <= w * m
    <3> DEFINE p == u * m
               q == w * m
    <3>1. p \in Nat /\ q \in Int /\ q - p >= 0
      BY <2>3, <2>4, <2>5, <2>6
    <3> HIDE DEF p, q
    <3>2. p <= q
      BY <3>1
    <3> QED BY <3>2 DEF p, q
  <2> QED BY <2>3, <2>7 DEF w
<1>8. i \in 1..LoopTurns(n, m)
  <2> DEFINE t == n * n * m
  <2>1. (n * n - 1) * m = t - m /\ t \in Int
    OBVIOUS
  <2> HIDE DEF x, t
  <2>2. x \in Nat /\ x <= t - m
    BY <1>7, <2>1
  <2>3. x + 1 \in 1..t
    BY <2>1, <2>2
  <2> QED BY <2>3 DEF LoopTurns, t
<1>9. i - 1 = x
  <2> HIDE DEF x
  <2> QED BY <1>7
<1>10. x \div m = u /\ x % m = 0
  <2>1. 0 \in 0..(m-1)
    OBVIOUS
  <2> HIDE DEF u
  <2>2. (u * m + 0) \div m = u /\ (u * m + 0) % m = 0
    BY <1>3, <2>1, QuotientIs
  <2>3. u * m + 0 = u * m
    BY <1>3
  <2> QED BY <2>2, <2>3
<1>11. x \div b = j
  <2> DEFINE v == j * m
  <2> HIDE DEF x, b, v
  <2>1. (j * b + v) \div b = j
    BY <1>1, <1>2, <1>6, QuotientIs DEF v
  <2> QED BY <1>5, <2>1 DEF v
<1> HIDE DEF i, x, u, b
<1>12. /\ ((i - 1) \div b) + 1 = k /\ (((i - 1) \div m) % n) + 1 = k
       /\ ((i - 1) % m) + 1 = 1
  BY <1>1, <1>3, <1>9, <1>10, <1>11
<1>13. Hits(i, n, m, k)
  BY <1>12 DEF Hits, b
<1> QED BY <1>8, <1>13

(* The fits of calibrate_joint,                                            *)
JointFit(i) ==
  LET n == Len(EtaGridJoint)
      m == Len(TdGrid)
  IN  [ec |-> EtaGridJoint[((i - 1) \div (n * m)) + 1],
       em |-> EtaGridJoint[(((i - 1) \div m) % n) + 1],
       td |-> TdGrid[((i - 1) % m) + 1]]
JointTurns == LoopTurns(Len(EtaGridJoint), Len(TdGrid))

LEMMA JointFits ==
  FitList([i \in 1..JointTurns |-> JointFit(i)], JointTurns)
<1> DEFINE n == Len(EtaGridJoint)
           m == Len(TdGrid)
           N == LoopTurns(n, m)
           fits == [i \in 1..N |-> JointFit(i)]
<1>1. n \in Nat \ {0} /\ m \in Nat \ {0} /\ DOMAIN EtaGridJoint = 1..n /\ DOMAIN TdGrid = 1..m
      /\ (\A i \in 1..n : EtaGridJoint[i] \in Pace) /\ (\A i \in 1..m : TdGrid[i] \in Quantity)
  BY GridsTyped
<1>2. N \in Nat \ {0}
  <2> HIDE DEF n, m
  <2>1. n * n > 0 /\ n * n \in Int
    BY <1>1
  <2> DEFINE k == n * n
  <2> HIDE DEF k
  <2>2. k * m > 0 /\ k * m \in Int
    BY <1>1, <2>1 DEF k
  <2> QED BY <2>2 DEF LoopTurns, k
<1>3. ASSUME NEW i \in 1..N PROVE Fit(JointFit(i))
  <2>1. /\ ((i - 1) \div (n * m)) + 1 \in 1..n /\ (((i - 1) \div m) % n) + 1 \in 1..n
        /\ ((i - 1) % m) + 1 \in 1..m
    <3> HIDE DEF n, m
    <3> QED BY <1>1, <1>3, TurnParts
  <2>2. /\ JointFit(i).ec = EtaGridJoint[((i - 1) \div (n * m)) + 1]
        /\ JointFit(i).em = EtaGridJoint[(((i - 1) \div m) % n) + 1]
        /\ JointFit(i).td = TdGrid[((i - 1) % m) + 1]
    BY DEF JointFit
  <2> HIDE DEF n, m
  <2> QED BY <1>1, <2>1, <2>2 DEF Fit
<1> HIDE DEF N
<1>4. fits = [i \in 1..N |-> fits[i]] /\ \A i \in 1..N : Fit(fits[i])
  BY <1>3
<1> HIDE DEF fits
<1>5. FitList(fits, N)
  BY <1>2, <1>4 DEF FitList
<1> QED BY <1>5 DEF fits, N, JointTurns

(* among which are those of one efficiency.                                *)
LEMMA JointNoWorse ==
  ASSUME NEW points, Measured(points), NEW k \in DOMAIN EtaGridJoint
  PROVE  calibrate_joint(points).mape \preceq mape(points, OneEta(EtaGridJoint[k]))
<1> DEFINE n == Len(EtaGridJoint)
           m == Len(TdGrid)
           N == JointTurns
           fits == [i \in 1..N |-> JointFit(i)]
<1>1. n \in Nat \ {0} /\ m \in Nat \ {0} /\ k \in 1..n /\ TdGrid[1] = Zero
  BY GridsTyped
<1>2. PICK i \in 1..LoopTurns(n, m) : Hits(i, n, m, k)
  <2> HIDE DEF n, m
  <2> QED BY <1>1, SameTurn
<1>3. JointFit(i) = OneEta(EtaGridJoint[k])
  BY <1>1, <1>2 DEF Hits, JointFit, OneEta
<1>4. i \in 1..N
  BY DEF JointTurns
<1>5. FitList(fits, N)
  BY JointFits
<1>6. calibrate_joint(points) = LeastError(points, fits)
  BY DEF calibrate_joint, JointFit, JointTurns, LoopTurns
<1>7. fits[i] = OneEta(EtaGridJoint[k])
  BY <1>3, <1>4
<1> HIDE DEF fits, N
<1>8. LeastError(points, fits).mape \preceq mape(points, fits[i])
  BY <1>4, <1>5, LeastErrorIs
<1> QED BY <1>6, <1>7, <1>8

-----------------------------------------------------------------------------
(* The file of measurements, and the whole calibration.                    *)

(* What is kept of a file was in it.                                       *)
LEMMA KeptMeasured ==
  ASSUME NEW file, Measured(file)
  PROVE  Measured(load_measurements(file))
<1> DEFINE S == {file[i] : i \in DOMAIN file}
           ss == [i \in DOMAIN file |-> IF file[i].skip THEN <<>> ELSE <<file[i]>>]
           n == Len(file)
           kept == load_measurements(file)
<1>1. file \in Seq(S) /\ \A p \in S : PointTyped(p) /\ measured_tpot(p) \in Pace
  BY DEF Measured
<1>2. n \in Nat /\ DOMAIN file = 1..n /\ \A i \in 1..n : file[i] \in S
  BY <1>1
<1> HIDE DEF S, n
<1>3. ASSUME NEW i \in 1..n PROVE ss[i] \in Seq(S)
  <2>1. ss[i] = IF file[i].skip THEN <<>> ELSE <<file[i]>>
    BY <1>2
  <2>2. file[i] \in S
    BY <1>2
  <2> HIDE DEF ss
  <2>3. <<>> \in Seq(S) /\ <<file[i]>> \in Seq(S)
    BY <2>2
  <2> QED BY <2>1, <2>3
<1>4. ss \in Seq(Seq(S))
  <2> DEFINE A == Seq(S)
  <2>1. ss = [i \in 1..n |-> ss[i]]
    BY <1>2
  <2>2. \A i \in 1..n : ss[i] \in A
    BY <1>3
  <2> HIDE DEF ss, A
  <2>3. ss \in [1..n -> A]
    BY <2>1, <2>2
  <2>4. ss \in Seq(A)
    BY <1>2, <2>3
  <2> QED BY <2>4 DEF A
<1>5. kept = Seqs!FlattenSeq(ss)
  BY DEF load_measurements
<1> HIDE DEF ss, kept
<1>6. kept \in Seq(S)
  BY <1>4, <1>5, FlattenTyped
<1>7. \A i \in DOMAIN kept : kept[i] \in S
  BY <1>6
<1>8. kept \in Seq({kept[i] : i \in DOMAIN kept})
  <2> DEFINE D == {kept[i] : i \in DOMAIN kept}
  <2>1. \A i \in DOMAIN kept : kept[i] \in D
    OBVIOUS
  <2> HIDE DEF D
  <2>2. kept \in Seq(D)
    BY <1>6, <2>1
  <2> QED BY <2>2 DEF D
<1> QED BY <1>1, <1>7, <1>8 DEF Measured, kept

(* What CalibrationRecovers says of one calibration.                       *)
Recovered(in, out) ==
  /\ in.eta # Zero =>
       /\ out.fit = [fit |-> OneEta(in.eta), mape |-> Zero]
       /\ out.loo[FALSE].ok => out.loo[FALSE].mape = Zero
  /\ (\E i \in DOMAIN EtaGridJoint : EtaGridJoint[i] = out.fit.fit.ec) =>
       out.joint.mape \preceq out.fit.mape

CalibratedPoints(c) ==
  IF c.eta = Zero THEN load_measurements(c.points) ELSE synthetic_points(c.points, c.eta)

LEMMA PointsCalibrated ==
  ASSUME NEW c \in Cases.calibration
  PROVE  /\ Measured(CalibratedPoints(c))
         /\ c.eta # Zero =>
              /\ MadeUp(CalibratedPoints(c), c.eta)
              /\ \E i \in DOMAIN EtaGrid : EtaGrid[i] = c.eta
<1>1. /\ c.points \in Seq({c.points[i] : i \in DOMAIN c.points})
      /\ \A i \in DOMAIN c.points : PointTyped(c.points[i])
      /\ IF c.eta = Zero
         THEN \A i \in DOMAIN c.points : measured_tpot(c.points[i]) \in Positive \cap LowestTerms
         ELSE c.points # <<>> /\ \E i \in DOMAIN EtaGrid : EtaGrid[i] = c.eta
  BY CalibrationsAreTyped
<1>2. CASE c.eta = Zero
  <2>1. \A i \in DOMAIN c.points : measured_tpot(c.points[i]) \in Pace
    BY <1>1, <1>2, LowestIsNormal DEF Pace
  <2>2. Measured(c.points)
    BY <1>1, <2>1 DEF Measured
  <2> QED BY <1>2, <2>2, KeptMeasured DEF CalibratedPoints
<1>3. CASE c.eta # Zero
  <2>1. c.eta \in Pace
    BY <1>1, <1>3, GridsTyped
  <2>2. MadeUp(synthetic_points(c.points, c.eta), c.eta)
    BY <1>1, <1>3, <2>1, SyntheticMadeUp
  <2> QED BY <1>1, <1>3, <2>2, MadeUpMeasured DEF CalibratedPoints
<1> QED BY <1>2, <1>3

LEMMA CalibratedRecovers ==
  ASSUME NEW c \in Cases.calibration
  PROVE  Recovered(c, Calibrated(CalibratedPoints(c)))
<1> DEFINE points == CalibratedPoints(c)
           out == Calibrated(points)
<1>1. /\ out.fit = calibrate_eta(points) /\ out.joint = calibrate_joint(points)
      /\ out.loo[FALSE] = leave_one_out(points, FALSE)
  BY DEF Calibrated
<1>2. Measured(points) /\ (c.eta # Zero => MadeUp(points, c.eta)
                                            /\ \E i \in DOMAIN EtaGrid : EtaGrid[i] = c.eta)
  BY PointsCalibrated
<1> HIDE DEF points, out
<1>3. c.eta # Zero => /\ out.fit = [fit |-> OneEta(c.eta), mape |-> Zero]
                      /\ out.loo[FALSE].ok => out.loo[FALSE].mape = Zero
  BY <1>1, <1>2, EtaFound, LeftOutFound
<1>4. ASSUME NEW k \in DOMAIN EtaGridJoint, EtaGridJoint[k] = out.fit.fit.ec
      PROVE  out.joint.mape \preceq out.fit.mape
  <2>1. PICK i \in DOMAIN EtaGrid :
          out.fit = [fit |-> OneEta(EtaGrid[i]), mape |-> mape(points, OneEta(EtaGrid[i]))]
    BY <1>1, <1>2, EtaIs
  <2>2. out.fit.fit.ec = EtaGrid[i] /\ out.fit.mape = mape(points, OneEta(EtaGrid[i]))
    BY <2>1 DEF OneEta
  <2>3. calibrate_joint(points).mape \preceq mape(points, OneEta(EtaGridJoint[k]))
    BY <1>2, JointNoWorse
  <2> QED BY <1>1, <1>4, <2>2, <2>3
<1>5. Recovered(c, out)
  BY <1>3, <1>4 DEF Recovered
<1> QED BY <1>5 DEF out, points

LEMMA RanRecovered ==
  ASSUME NEW driver, NEW in, NEW out, Ran(driver, in, out),
         driver = "calibration" => Recovered(in, out)
  PROVE  CalibrationRecovers'
<1>1. study'.driver = driver /\ study'.in = in /\ study'.out = out
  BY DEF Ran
<1>2. study'.driver = "calibration" => Recovered(study'.in, study'.out)
  BY <1>1
<1> QED BY <1>2 DEF Recovered, CalibrationRecovers, Study

LEMMA StudyRecovered ==
  ASSUME StudyNext
  PROVE  CalibrationRecovers'
<1>1. CASE Sweep
  BY <1>1, RanRecovered DEF Sweep
<1>2. CASE Optimize
  BY <1>2, RanRecovered DEF Optimize
<1>3. CASE Mix
  BY <1>3, RanRecovered DEF Mix
<1>4. CASE Offload
  BY <1>4, RanRecovered DEF Offload
<1>5. CASE Overlap
  BY <1>5, RanRecovered DEF Overlap
<1>6. CASE CpuDecode
  BY <1>6, RanRecovered DEF CpuDecode
<1>7. CASE Split
  BY <1>7, RanRecovered DEF Split
<1>8. CASE Contention
  BY <1>8, RanRecovered DEF Contention
<1>9. CASE Ceiling
  BY <1>9, RanRecovered DEF Ceiling
<1>10. CASE Deployments
  BY <1>10, RanRecovered DEF Deployments
<1>11. CASE Calibration
  BY <1>11, RanRecovered, CalibratedRecovers DEF Calibration, CalibratedPoints
<1> QED BY <1>1, <1>2, <1>3, <1>4, <1>5, <1>6, <1>7, <1>8, <1>9, <1>10, <1>11 DEF StudyNext

(* The self-test of validate.py: calibrate_eta finds the efficiency that   *)
(* made the points, without error, and so it does for every point that     *)
(* leave_one_out holds back; calibrate_joint, which has three parameters,  *)
(* never fits worse than one efficiency that its grid has as well.         *)
THEOREM CalibrationIsRecovered == ToolsSpec => []CalibrationRecovers
<1>1. ToolsInit => CalibrationRecovers
  <2> SUFFICES ASSUME ToolsInit PROVE CalibrationRecovers
    OBVIOUS
  <2>1. study.driver = "none"
    BY DEF ToolsInit, StudyInit, NoStudy
  <2> QED BY <2>1 DEF CalibrationRecovers, Study
<1>2. CalibrationRecovers /\ [ToolsNext]_toolVars => CalibrationRecovers'
  <2> SUFFICES ASSUME CalibrationRecovers, [ToolsNext]_toolVars PROVE CalibrationRecovers'
    OBVIOUS
  <2>1. CASE StudyRuns
    BY <2>1, StudyRecovered DEF StudyRuns
  <2>2. CASE UNCHANGED study
    BY <2>2 DEF CalibrationRecovers, Study
  <2>3. TraceRuns \/ ScenarioRuns \/ UNCHANGED toolVars => UNCHANGED study
    BY DEF TraceRuns, ScenarioRuns, toolVars
  <2> QED BY <2>1, <2>2, <2>3 DEF ToolsNext
<1> QED BY <1>1, <1>2, PTL DEF ToolsSpec

-----------------------------------------------------------------------------
(* The overlap that explains a measured throughput.                        *)

(* What shrinks without vanishing: b is at most a, and positive if a is.   *)
Shrinks(a, b) == Rises(b, a) /\ (a \in Positive => b \in Positive)

LEMMA ShrinksOver ==
  ASSUME NEW a, NEW b, NEW i, NEW j, NEW D, Over(a, i, D), Over(b, j, D)
  PROVE  Shrinks(a, b) <=> 0 <= j /\ j <= i /\ (i > 0 => j > 0)
<1>1. Rises(b, a) <=> 0 <= j /\ j <= i
  BY RisesOver
<1>2. (a \in Positive <=> i > 0) /\ (b \in Positive <=> j > 0)
  BY OverSign
<1> QED BY <1>1, <1>2 DEF Shrinks

LEMMA ShrinksTyped ==
  ASSUME NEW a, NEW b, Shrinks(a, b)
  PROVE  a \in NonNegative /\ b \in NonNegative /\ a \in Finite /\ b \in Finite /\ b \preceq a
BY DEF Shrinks, Rises, NonNegative

LEMMA ShrinksConstant ==
  ASSUME NEW a \in NonNegative
  PROVE  Shrinks(a, a)
BY RisesConstant DEF Shrinks

LEMMA ShrinksPlus ==
  ASSUME NEW a, NEW b, NEW c, NEW d, Shrinks(a, b), Shrinks(c, d)
  PROVE  Shrinks(a ++ c, b ++ d)
<1>1. a \in Finite /\ b \in Finite /\ c \in Finite /\ d \in Finite
  BY ShrinksTyped
<1>2. PICK D, i, j, k, l : Over(a, i, D) /\ Over(b, j, D) /\ Over(c, k, D) /\ Over(d, l, D)
  BY <1>1, CommonDenominator
<1>3. /\ 0 <= j /\ j <= i /\ (i > 0 => j > 0) /\ 0 <= l /\ l <= k /\ (k > 0 => l > 0)
      /\ i \in Int /\ j \in Int /\ k \in Int /\ l \in Int
  BY <1>2, ShrinksOver DEF Over
<1>4. Over(a ++ c, i + k, D) /\ Over(b ++ d, j + l, D)
  BY <1>2, OverPlus
<1>5. 0 <= j + l /\ j + l <= i + k /\ (i + k > 0 => j + l > 0)
  BY <1>3
<1> QED BY <1>4, <1>5, ShrinksOver

LEMMA ShrinksTimes ==
  ASSUME NEW a, NEW b, NEW c \in NonNegative, Shrinks(a, b)
  PROVE  Shrinks(a ** c, b ** c) /\ Shrinks(c ** a, c ** b)
<1>1. a \in Finite /\ b \in Finite /\ c \in Finite
  BY ShrinksTyped DEF NonNegative
<1>2. PICK D, i, j, k, l : Over(a, i, D) /\ Over(b, j, D) /\ Over(c, k, D) /\ Over(c, l, D)
  BY <1>1, CommonDenominator
<1>3. /\ 0 <= j /\ j <= i /\ (i > 0 => j > 0) /\ 0 <= k
      /\ i \in Int /\ j \in Int /\ k \in Int
  BY <1>2, ShrinksOver, OverSign DEF Over
<1>4. /\ Over(a ** c, i * k, D * D) /\ Over(b ** c, j * k, D * D)
      /\ Over(c ** a, k * i, D * D) /\ Over(c ** b, k * j, D * D)
  BY <1>2, OverTimes
<1>5. i * k > 0 => j * k > 0
  <2>1. CASE k = 0 \/ i = 0
    BY <1>3, <2>1
  <2>2. CASE k > 0 /\ i > 0
    <3>1. j > 0 /\ k > 0
      BY <1>3, <2>2
    <3> QED BY <1>3, <3>1
  <2> QED BY <1>3, <2>1, <2>2
<1>6. 0 <= j * k /\ j * k <= i * k
  <2>1. 0 <= j * k /\ 0 <= (i - j) * k
    BY <1>3
  <2>2. (i - j) * k = i * k - j * k /\ i * k \in Int /\ j * k \in Int
    BY <1>3
  <2> DEFINE x == i * k
             y == j * k
             z == (i - j) * k
  <2>3. z = x - y /\ 0 <= z /\ 0 <= y /\ x \in Int /\ y \in Int
    BY <2>1, <2>2
  <2> HIDE DEF x, y, z
  <2>4. 0 <= y /\ y <= x
    BY <2>3
  <2> QED BY <2>4 DEF x, y
<1>7. k * i = i * k /\ k * j = j * k
  BY <1>3
<1> DEFINE x == i * k
           y == j * k
           E == D * D
<1>8. /\ Over(a ** c, x, E) /\ Over(b ** c, y, E) /\ Over(c ** a, x, E) /\ Over(c ** b, y, E)
      /\ 0 <= y /\ y <= x /\ (x > 0 => y > 0)
  BY <1>4, <1>5, <1>6, <1>7
<1> HIDE DEF x, y, E
<1> QED BY <1>8, ShrinksOver

LEMMA ShrinksQuotient ==
  ASSUME NEW a, NEW b, NEW c \in Positive, Shrinks(a, b)
  PROVE  Shrinks(a // c, b // c)
<1>1. c \in Finite /\ c[1] > 0 /\ c[1] \in Int /\ c[2] \in Nat \ {0}
  BY Parts, PositiveIs DEF Positive
<1> DEFINE r == <<c[2], c[1]>>
<1>2. r \in Finite /\ r[1] = c[2]
  BY <1>1 DEF Finite
<1>3. a // c = a ** r /\ b // c = b ** r
  BY DEF //
<1> HIDE DEF r
<1>4. r[1] >= 0
  BY <1>1, <1>2
<1>5. r \in NonNegative
  BY <1>2, <1>4, PositiveIs DEF NonNegative
<1> QED BY <1>3, <1>5, ShrinksTimes

(* A larger divisor.                                                       *)
LEMMA ShrinksDivided ==
  ASSUME NEW a \in NonNegative, NEW c \in Positive, NEW d \in Positive, c \preceq d
  PROVE  Shrinks(a // c, a // d)
<1>1. a \in Finite /\ c \in Finite /\ d \in Finite
  BY DEF NonNegative, Positive
<1>2. PICK D, i, j, k, l : Over(a, i, D) /\ Over(c, j, D) /\ Over(d, k, D) /\ Over(a, l, D)
  BY <1>1, CommonDenominator
<1>3. /\ 0 <= i /\ 0 < j /\ j > 0 /\ k > 0 /\ j <= k
      /\ i \in Int /\ j \in Nat \ {0} /\ k \in Nat \ {0} /\ D \in Nat \ {0}
  BY <1>2, OverOrder, OverSign DEF Over
<1> DEFINE n == i * D
<1>4. Over(a // c, n, D * j) /\ Over(a // d, n, D * k)
  BY <1>2, <1>3, OverQuotient
<1>5. n \in Int /\ 0 <= n /\ (n > 0 \/ n = 0)
  <2>1. 0 <= i * D /\ i * D \in Int
    BY <1>3
  <2> QED BY <2>1
<1> HIDE DEF n
<1>6. Over(a // c, n * (D * k), (D * j) * (D * k)) /\ Over(a // d, n * (D * j), (D * j) * (D * k))
  BY <1>4, TwoOver
<1>7. D * k > 0 /\ D * j > 0 /\ D * k \in Int /\ D * j \in Int /\ D * j <= D * k
  <2>1. D * k > 0 /\ D * j > 0 /\ D * k \in Int /\ D * j \in Int
    BY <1>3
  <2>2. j * D <= k * D
    BY <1>3, Scaled
  <2>3. j * D = D * j /\ k * D = D * k
    BY <1>3
  <2> QED BY <2>1, <2>2, <2>3
<1> DEFINE u == D * j
           v == D * k
           E == u * v
<1>8. u > 0 /\ v > 0 /\ u \in Int /\ v \in Int /\ u <= v
      /\ Over(a // c, n * v, E) /\ Over(a // d, n * u, E)
  BY <1>6, <1>7
<1> HIDE DEF u, v, E
<1>9. 0 <= n * u /\ n * u <= n * v /\ (n * v > 0 => n * u > 0)
  <2>1. CASE n = 0
    BY <1>8, <2>1
  <2>2. CASE n > 0
    <3>1. n * u > 0
      BY <1>5, <1>8, <2>2
    <3>2. u * n <= v * n
      <4>1. n \in Nat \ {0}
        BY <1>5, <2>2
      <4> QED BY <1>8, <4>1, Scaled
    <3>3. u * n = n * u /\ v * n = n * v /\ n * u \in Int
      BY <1>5, <1>8
    <3> QED BY <3>1, <3>2, <3>3
  <2> QED BY <1>5, <2>1, <2>2
<1> DEFINE x == n * v
           y == n * u
<1>10. Over(a // c, x, E) /\ Over(a // d, y, E) /\ 0 <= y /\ y <= x /\ (x > 0 => y > 0)
  BY <1>8, <1>9
<1> HIDE DEF x, y
<1> QED BY <1>10, ShrinksOver

(* More overlap hides more.                                                *)
LEMMA MoreHidden ==
  ASSUME NEW a \in NonNegative, NEW c \in NonNegative, NEW o \in Share, NEW q \in Share,
         o \preceq q
  PROVE  Shrinks(combine(a, c, o), combine(a, c, q))
<1>1. a \in Finite /\ c \in Finite /\ o \in Finite /\ q \in Finite
  BY DEF NonNegative, Share
<1>2. PICK D, i, k, l, m : Over(a, i, D) /\ Over(c, k, D) /\ Over(a, l, D) /\ Over(c, m, D)
  BY <1>1, CommonDenominator
<1>3. PICK E, u, v, w, z : Over(o, u, E) /\ Over(q, v, E) /\ Over(o, w, E) /\ Over(q, z, E)
  BY <1>1, CommonDenominator
<1>4. /\ 0 <= i /\ 0 <= k /\ i \in Int /\ k \in Int /\ E \in Nat \ {0}
      /\ 0 <= u /\ u <= v /\ v <= E /\ u \in Int /\ v \in Int
  BY <1>2, <1>3, OverSign, OverOrder DEF Share
<1> DEFINE n == Least(i, k)
           p == (i + k) - n
           F == D * E
<1>5. /\ n \in Int /\ 0 <= n /\ n <= p /\ p \in Int /\ i + k = p + n
  BY <1>4 DEF Least
<1>6. Over(combine(a, c, o), (i + k) * E - u * n, F) /\ Over(combine(a, c, q), (i + k) * E - v * n, F)
  BY <1>2, <1>3, OverCombine
<1> HIDE DEF n, p, F
<1> DEFINE y == p * E + n * (E - v)
           r == n * (v - u)
<1>7. (i + k) * E - v * n = y /\ (i + k) * E - u * n = y + r
  <2>1. (p + n) * E - v * n = p * E + n * (E - v)
        /\ (p + n) * E - u * n = p * E + n * (E - v) + n * (v - u)
    BY <1>4, <1>5
  <2> QED BY <1>5, <2>1
<1>8. y \in Int /\ r \in Int /\ 0 <= y /\ 0 <= r
  <2>1. p * E >= 0 /\ p * E \in Int
    BY <1>4, <1>5
  <2>2. n * (E - v) >= 0 /\ n * (E - v) \in Int
    <3> DEFINE e == E - v
    <3>1. e \in Int /\ 0 <= e
      BY <1>4
    <3> HIDE DEF e
    <3>2. n * e >= 0 /\ n * e \in Int
      BY <1>5, <3>1
    <3> QED BY <3>2 DEF e
  <2>3. n * (v - u) >= 0 /\ n * (v - u) \in Int
    <3> DEFINE e == v - u
    <3>1. e \in Int /\ 0 <= e
      BY <1>4
    <3> HIDE DEF e
    <3>2. n * e >= 0 /\ n * e \in Int
      BY <1>5, <3>1
    <3> QED BY <3>2 DEF e
  <2> QED BY <2>1, <2>2, <2>3
<1>9. y + r > 0 => y > 0
  <2>1. CASE p = 0
    <3>1. n = 0
      BY <1>5, <2>1
    <3>2. n * (E - v) = 0 /\ n * (v - u) = 0 /\ p * E = 0
      BY <1>4, <2>1, <3>1
    <3> QED BY <3>2
  <2>2. CASE p > 0
    <3>1. p * E > 0
      BY <1>4, <1>5, <2>2
    <3>2. n * (E - v) >= 0 /\ n * (E - v) \in Int /\ p * E \in Int
      <4> DEFINE e == E - v
      <4>1. e \in Int /\ 0 <= e
        BY <1>4
      <4> HIDE DEF e
      <4>2. n * e >= 0 /\ n * e \in Int /\ p * E \in Int
        BY <1>4, <1>5, <4>1
      <4> QED BY <4>2 DEF e
    <3> QED BY <3>1, <3>2
  <2> QED BY <1>5, <2>1, <2>2
<1>10. Over(combine(a, c, o), y + r, F) /\ Over(combine(a, c, q), y, F)
  BY <1>6, <1>7
<1> HIDE DEF y, r
<1>11. 0 <= y /\ y <= y + r
  BY <1>8
<1> QED BY <1>9, <1>10, <1>11, ShrinksOver

(* What two resources take is positive if one of the demands is.           *)
LEMMA CombinePositive ==
  ASSUME NEW a \in NonNegative, NEW c \in NonNegative, NEW o \in Share
  PROVE  /\ combine(a, c, o) \in NonNegative
         /\ combine(a, c, o) \in Positive <=> a \in Positive \/ c \in Positive
<1>1. a \in Finite /\ c \in Finite /\ o \in Finite
  BY DEF NonNegative, Share
<1>2. PICK D, i, k, l, m : Over(a, i, D) /\ Over(c, k, D) /\ Over(a, l, D) /\ Over(c, m, D)
  BY <1>1, CommonDenominator
<1>3. PICK E, u, v, w, z : Over(o, u, E) /\ Over(o, v, E) /\ Over(o, w, E) /\ Over(o, z, E)
  BY <1>1, CommonDenominator
<1>4. /\ 0 <= i /\ 0 <= k /\ i \in Int /\ k \in Int /\ E \in Nat \ {0}
      /\ 0 <= u /\ u <= E /\ u \in Int
  BY <1>2, <1>3, OverSign DEF Share
<1> DEFINE n == Least(i, k)
           p == (i + k) - n
           e == E - u
           F == D * E
<1>5. /\ n \in Int /\ 0 <= n /\ n <= p /\ p \in Int /\ i + k = p + n /\ e \in Int /\ 0 <= e
      /\ p > 0 <=> i > 0 \/ k > 0
  BY <1>4 DEF Least
<1>6. Over(combine(a, c, o), (i + k) * E - u * n, F)
  BY <1>2, <1>3, OverCombine
<1> HIDE DEF n, p, F, e
<1>7. (i + k) * E - u * n = p * E + n * e
  <2>1. (p + n) * E - u * n = p * E + n * (E - u)
    BY <1>4, <1>5
  <2> QED BY <1>5, <2>1 DEF e
<1>8. p * E \in Int /\ n * e \in Int /\ 0 <= p * E /\ 0 <= n * e /\ (p > 0 => p * E > 0)
      /\ (p = 0 => p * E = 0 /\ n * e = 0)
  <2>1. p * E \in Int /\ 0 <= p * E /\ (p > 0 => p * E > 0) /\ (p = 0 => p * E = 0)
    BY <1>4, <1>5
  <2>2. n * e \in Int /\ 0 <= n * e /\ (n = 0 => n * e = 0)
    BY <1>5
  <2> QED BY <1>5, <2>1, <2>2
<1> DEFINE x == p * E
           y == n * e
<1>9. /\ x \in Int /\ y \in Int /\ 0 <= x /\ 0 <= y /\ (p > 0 => x > 0) /\ (p = 0 => x = 0 /\ y = 0)
      /\ Over(combine(a, c, o), x + y, F)
  BY <1>6, <1>7, <1>8
<1> HIDE DEF x, y
<1>10. x + y >= 0 /\ (x + y > 0 <=> p > 0)
  BY <1>5, <1>9
<1>11. (a \in Positive <=> i > 0) /\ (c \in Positive <=> k > 0)
  BY <1>2, OverSign
<1> QED BY <1>5, <1>9, <1>10, <1>11, OverSign

LEMMA ShrinksCombine ==
  ASSUME NEW a, NEW b, NEW c, NEW d, Shrinks(a, b), Shrinks(c, d),
         NEW o \in Share, NEW q \in Share, o \preceq q
  PROVE  Shrinks(combine(a, c, o), combine(b, d, q))
<1>1. a \in NonNegative /\ b \in NonNegative /\ c \in NonNegative /\ d \in NonNegative
  BY ShrinksTyped
<1> DEFINE x == combine(a, c, o)
           y == combine(a, c, q)
           z == combine(b, d, q)
<1>2. Shrinks(x, y)
  BY <1>1, MoreHidden
<1>3. Rises(z, y)
  BY RisesCombine DEF Shrinks
<1>4. x \in Positive <=> a \in Positive \/ c \in Positive
  BY <1>1, CombinePositive
<1>5. z \in Positive <=> b \in Positive \/ d \in Positive
  BY <1>1, CombinePositive
<1> HIDE DEF x, y, z
<1>6. x \in Rational /\ y \in Rational /\ z \in Rational /\ y \preceq x /\ z \preceq y
      /\ x \in NonNegative /\ z \in NonNegative
  BY <1>2, <1>3, RisesTyped, Parts DEF Shrinks, Rises
<1>7. z \preceq x
  BY <1>6, OrderTrans
<1>8. Shrinks(x, z)
  BY <1>4, <1>5, <1>6, <1>7 DEF Shrinks, Rises
<1> QED BY <1>8 DEF x, z

(* A sum shrinks if each of its parts does.                                *)
LEMMA ShrinksSum ==
  ASSUME NEW xs, NEW ys, NEW n \in Nat, \A i \in 1..n : Shrinks(xs[i], ys[i])
  PROVE  Shrinks(SumTo(xs, n), SumTo(ys, n))
<1>1. AllFinite(xs, n) /\ AllFinite(ys, n)
  BY ShrinksTyped DEF AllFinite
<1>2. PICK g : /\ g[n] = SumTo(xs, n) /\ g[0] = Zero
               /\ \A k \in 0..(n-1) : g[k+1] = g[k] ++ xs[k+1]
  BY <1>1, SumsFinite
<1>3. PICK h : /\ h[n] = SumTo(ys, n) /\ h[0] = Zero
               /\ \A k \in 0..(n-1) : h[k+1] = h[k] ++ ys[k+1]
  BY <1>1, SumsFinite
<1> DEFINE K == {k \in 0..n : Shrinks(g[k], h[k])}
<1>4. 0 \in K
  BY <1>2, <1>3, ZeroNonNegative, ShrinksConstant
<1>5. ASSUME NEW k \in 0..(n-1), k \in K PROVE k+1 \in K
  <2>1. k+1 \in 0..n /\ k+1 \in 1..n
    OBVIOUS
  <2>2. Shrinks(g[k] ++ xs[k+1], h[k] ++ ys[k+1])
    BY <1>5, <2>1, ShrinksPlus
  <2> QED BY <1>2, <1>3, <2>1, <2>2
<1>6. \A k \in 0..n : k \in K
  <2> HIDE DEF K
  <2> QED BY <1>4, <1>5, LoopInduction
<1>7. n \in K
  BY <1>6
<1> QED BY <1>2, <1>3, <1>7

-----------------------------------------------------------------------------
(* The overlap of a step.                                                  *)
LEMMA StepAt ==
  ASSUME NEW x, NEW s, StepTyped(Zero, x, s), NEW S \in NonNegative
  PROVE  StepTyped(S, x, s)
BY DEF StepTyped

LEMMA OverlapOf ==
  ASSUME NEW s \in Settled, NEW o \in Share
  PROVE  /\ WithOverlap(s, o) \in Settled
         /\ WithOverlap(s, o).f = s.f /\ WithOverlap(s, o).sparse = s.sparse
         /\ WithOverlap(s, o).pool = s.pool /\ WithOverlap(s, o).overlap = o
         /\ WithOverlap(s, o).cpus_per_gpu = s.cpus_per_gpu
BY DEF Settled, WithOverlap

LEMMA StepWith ==
  ASSUME NEW x, NEW s \in Settled, NEW S, StepTyped(S, x, s), NEW o \in Share
  PROVE  StepTyped(S, x, WithOverlap(s, o))
<1> DEFINE t == WithOverlap(s, o)
<1>1. t.f = s.f /\ t.sparse = s.sparse /\ t.overlap = o
  BY OverlapOf
<1> HIDE DEF t
<1>2. StepTyped(S, x, t)
  BY <1>1 DEF StepTyped
<1> QED BY <1>2 DEF t

(* A step takes no longer with more overlap.                               *)
LEMMA TpotShrinks ==
  ASSUME NEW x, NEW s \in Settled, NEW S, StepTyped(S, x, s), NEW B \in NonNegative,
         NEW o \in Share, NEW q \in Share, o \preceq q
  PROVE  Shrinks(decode_tpot(B, S, x, WithOverlap(s, o)), decode_tpot(B, S, x, WithOverlap(s, q)))
<1> DEFINE t == WithOverlap(s, o)
           u == WithOverlap(s, q)
           compute == StepCompute(B, S, x, s)
           hbm == StepHbm(B, S, x, s)
           away == IF Zero \prec s.f THEN CpuTime(B ** s.f ** s.sparse, S, x) ++ StepC2c(B, x, s)
                   ELSE Zero
           merge == IF Zero \prec s.f THEN x.coeffs.t_merge ELSE Zero
<1>1. t.f = s.f /\ t.sparse = s.sparse /\ t.overlap = o
      /\ u.f = s.f /\ u.sparse = s.sparse /\ u.overlap = q
  BY OverlapOf
<1>2. Rises(B, B)
  BY RisesConstant
<1>3. compute \in NonNegative /\ hbm \in NonNegative
  BY <1>2, GpuStepRises DEF Rises
<1>4. away \in NonNegative
  <2>1. Rises(CpuTime(B ** s.f ** s.sparse, S, x), CpuTime(B ** s.f ** s.sparse, S, x))
        /\ Rises(StepC2c(B, x, s), StepC2c(B, x, s))
    BY <1>2, AwayRises
  <2>2. CpuTime(B ** s.f ** s.sparse, S, x) ++ StepC2c(B, x, s) \in NonNegative
    BY <2>1, RisesPlus DEF Rises
  <2> QED BY <2>2, ZeroNonNegative
<1>5. x.coeffs.t_dispatch \in NonNegative /\ merge \in NonNegative
  BY ZeroNonNegative DEF StepTyped
<1> HIDE DEF t, u
<1>6. /\ decode_tpot(B, S, x, t)
           = combine(combine(compute, hbm, o), away, o) ++ x.coeffs.t_dispatch ++ merge
      /\ decode_tpot(B, S, x, u)
           = combine(combine(compute, hbm, q), away, q) ++ x.coeffs.t_dispatch ++ merge
  BY <1>1 DEF decode_tpot, StepCompute, StepHbm, StepC2c
<1> HIDE DEF compute, hbm, away, merge
<1>7. Shrinks(combine(compute, hbm, o), combine(compute, hbm, q))
  BY <1>3, MoreHidden
<1>8. Shrinks(combine(combine(compute, hbm, o), away, o), combine(combine(compute, hbm, q), away, q))
  BY <1>4, <1>7, ShrinksConstant, ShrinksCombine
<1>9. Shrinks(decode_tpot(B, S, x, t), decode_tpot(B, S, x, u))
  BY <1>5, <1>6, <1>8, ShrinksConstant, ShrinksPlus
<1> QED BY <1>9 DEF t, u

LEMMA MoreOverlapMeets ==
  ASSUME NEW x, NEW s \in Settled, NEW S, StepTyped(S, x, s), NEW B \in NonNegative,
         NEW o \in Share, NEW q \in Share, o \preceq q, MeetsSlo(B, S, x, WithOverlap(s, o))
  PROVE  MeetsSlo(B, S, x, WithOverlap(s, q))
<1> DEFINE t == decode_tpot(B, S, x, WithOverlap(s, o))
           u == decode_tpot(B, S, x, WithOverlap(s, q))
           v == x.slo.slo_tpot
<1>1. Shrinks(t, u)
  BY TpotShrinks
<1>2. u \preceq t /\ t \preceq v /\ t \in Finite /\ u \in Finite /\ v \in Finite
  BY <1>1, ShrinksTyped DEF MeetsSlo, StepTyped
<1> HIDE DEF t, u, v
<1>3. u \preceq v
  BY <1>2, OrderTrans, Parts
<1> QED BY <1>3 DEF MeetsSlo, u, v

-----------------------------------------------------------------------------
(* What meets the SLO with t meets it with u.                              *)
Eases(t, u, S, x) ==
  \A B \in NonNegative : MeetsSlo(B, S, x, t) => MeetsSlo(B, S, x, u)

(* The doublings of one are those of the other, or it has stopped before.  *)
Behind(h, i, S, x, t) ==
  h \in Nat \ {0} /\ i \in Nat \ {0} /\ (h = i \/ (Misses(h, S, x, t) /\ 2 * h <= i))
Further(h, S, x, t) == IF Misses(h, S, x, t) THEN h ELSE 2 * h

LEMMA BehindNext ==
  ASSUME NEW S, NEW x, NEW t, NEW u, Eases(t, u, S, x), NEW h, NEW i, Behind(h, i, S, x, t)
  PROVE  Behind(Further(h, S, x, t), Further(i, S, x, u), S, x, t)
<1>1. h \in Nat \ {0} /\ i \in Nat \ {0} /\ 2 * h \in Nat \ {0} /\ 2 * i \in Nat \ {0}
  BY DEF Behind
<1>2. Misses(i, S, x, u) => Misses(i, S, x, t)
  <2>1. Q(i) \in NonNegative
    BY <1>1, OverWhole, OverSign
  <2> QED BY <2>1 DEF Misses, Eases
<1>3. CASE h = i
  <2>1. CASE Misses(h, S, x, t) /\ ~Misses(i, S, x, u)
    <3>1. Further(h, S, x, t) = h /\ Further(i, S, x, u) = 2 * h
      BY <1>3, <2>1 DEF Further
    <3> QED BY <1>1, <2>1, <3>1 DEF Behind
  <2>2. CASE Misses(h, S, x, t) <=> Misses(i, S, x, u)
    <3>1. Further(h, S, x, t) = Further(i, S, x, u) /\ Further(h, S, x, t) \in Nat \ {0}
      BY <1>1, <1>3, <2>2 DEF Further
    <3> QED BY <3>1 DEF Behind
  <2> QED BY <1>2, <1>3, <2>1, <2>2
<1>4. CASE Misses(h, S, x, t) /\ 2 * h <= i
  <2>1. Further(h, S, x, t) = h
    BY <1>4 DEF Further
  <2>2. Further(i, S, x, u) \in Nat \ {0} /\ i <= Further(i, S, x, u)
    BY <1>1 DEF Further
  <2> DEFINE j == Further(i, S, x, u)
  <2>3. j \in Nat \ {0} /\ i <= j
    BY <2>2
  <2> HIDE DEF j
  <2>4. 2 * h <= j
    BY <1>1, <1>4, <2>3
  <2>5. Behind(h, j, S, x, t)
    BY <1>1, <1>4, <2>3, <2>4 DEF Behind
  <2> QED BY <2>1, <2>5 DEF j
<1> QED BY <1>3, <1>4 DEF Behind

LEMMA DoublingsAre ==
  ASSUME NEW S, NEW x, NEW s
  PROVE  \E h : /\ h[0] = 1 /\ h[BatchMax] = FirstMiss(S, x, s)
                /\ \A k \in 0..(BatchMax-1) : h[k+1] = Further(h[k], S, x, s)
<1> DEFINE D == Nat
           v == 1
           f == [hi \in D |-> IF Misses(hi, S, x, s) THEN hi ELSE 2 * hi]
           n == BatchMax
<1>1. f \in [D -> D] /\ v \in D /\ n \in Nat
  BY MixesAreTyped
<1>2. \A hi \in D : f[hi] = Further(hi, S, x, s)
  BY DEF Further
<1>3. FirstMiss(S, x, s) = Turns(f, n, v)
  BY DEF FirstMiss
<1> HIDE DEF D, v, f, n
<1>4. PICK g : TurnsIn(g, f, n, v) /\ g[n] = Turns(f, n, v) /\ \A k \in 0..n : g[k] \in D
  BY <1>1, TurnsExist
<1>5. 0 \in 0..n /\ g[0] = v
  BY <1>1, <1>4 DEF TurnsIn
<1>6. ASSUME NEW k \in 0..(n-1) PROVE g[k+1] = Further(g[k], S, x, s)
  <2>1. k+1 \in 0..n /\ k+1 # 0 /\ (k+1)-1 = k /\ k \in 0..n
    BY <1>1
  <2>2. g[k+1] = f[g[k]]
    BY <1>4, <2>1 DEF TurnsIn
  <2> QED BY <1>2, <1>4, <2>1, <2>2
<1> QED BY <1>3, <1>4, <1>5, <1>6 DEF v, n

LEMMA MissesRise ==
  ASSUME NEW S, NEW x, NEW t, NEW u, Eases(t, u, S, x)
  PROVE  \/ FirstMiss(S, x, t) = FirstMiss(S, x, u)
         \/ 2 * FirstMiss(S, x, t) <= FirstMiss(S, x, u)
<1>1. PICK g : /\ g[0] = 1 /\ g[BatchMax] = FirstMiss(S, x, t)
               /\ \A k \in 0..(BatchMax-1) : g[k+1] = Further(g[k], S, x, t)
  BY DoublingsAre
<1>2. PICK h : /\ h[0] = 1 /\ h[BatchMax] = FirstMiss(S, x, u)
               /\ \A k \in 0..(BatchMax-1) : h[k+1] = Further(h[k], S, x, u)
  BY DoublingsAre
<1> DEFINE K == {k \in 0..BatchMax : Behind(g[k], h[k], S, x, t)}
<1>3. BatchMax \in Nat
  BY MixesAreTyped
<1>4. 0 \in K
  BY <1>1, <1>2, <1>3 DEF Behind
<1>5. ASSUME NEW k \in 0..(BatchMax-1), k \in K PROVE k+1 \in K
  <2>1. k+1 \in 0..BatchMax
    BY <1>3
  <2>2. Behind(Further(g[k], S, x, t), Further(h[k], S, x, u), S, x, t)
    BY <1>5, BehindNext
  <2> QED BY <1>1, <1>2, <2>1, <2>2
<1>6. \A k \in 0..BatchMax : k \in K
  <2> HIDE DEF K
  <2> QED BY <1>3, <1>4, <1>5, LoopInduction
<1>7. BatchMax \in K
  BY <1>3, <1>6
<1> QED BY <1>1, <1>2, <1>7 DEF Behind

(* What the bisection settles on: 1, the bound, or the lower end.          *)
Halved(p, S, x, s) == Between(BisectedFrom(p, S, x, s), p, Resolution, S, x, s)
LEMMA CapIs ==
  ASSUME NEW S, NEW x, NEW s
  PROVE  /\ FirstMiss(S, x, s) \in Nat \ {0}
         /\ \/ FirstMiss(S, x, s) = 1 /\ batch_slo_cap(S, x, s) = One
            \/ \E p \in Nat \ {0} :
                 /\ FirstMiss(S, x, s) = 2 * p /\ p <= BatchMax
                 /\ \/ BatchMax < 2 * p /\ batch_slo_cap(S, x, s) = Q(BatchMax)
                    \/ /\ 2 * p <= BatchMax /\ ~MeetsSlo(Q(2 * p), S, x, s)
                       /\ batch_slo_cap(S, x, s) = BisectedFrom(p, S, x, s)[1]
                       /\ Halved(p, S, x, s)
<1> DEFINE top == FirstMiss(S, x, s)
           cap == batch_slo_cap(S, x, s)
<1>1. /\ top \in Nat \ {0} /\ Misses(top, S, x, s)
      /\ top = 1 \/ \E g \in Nat \ {0} : top = 2 * g /\ ~Misses(g, S, x, s)
  BY FirstMissIs
<1>2. BatchMax \in Nat \ {0}
  BY MixesAreTyped
<1>3. cap = SloBracket(top, S, x, s)[1]
  BY DEF batch_slo_cap
<1> HIDE DEF top, cap
<1>4. CASE top = 1
  <2>1. cap = One
    BY <1>3, <1>4 DEF SloBracket
  <2> QED BY <1>1, <1>4, <2>1 DEF top, cap
<1>5. CASE top # 1
  <2>1. PICK p \in Nat \ {0} : top = 2 * p /\ ~Misses(p, S, x, s)
    BY <1>1, <1>5
  <2>2. MeetsSlo(Q(p), S, x, s) /\ p <= BatchMax
    BY <1>2, <2>1 DEF Misses
  <2>3. CASE BatchMax < top
    <3>1. cap = Q(BatchMax)
      BY <1>3, <1>5, <2>3 DEF SloBracket
    <3> QED BY <1>1, <2>1, <2>2, <2>3, <3>1 DEF top, cap
  <2>4. CASE top <= BatchMax
    <3>1. ~MeetsSlo(Q(2 * p), S, x, s)
      BY <1>1, <1>2, <2>1, <2>4 DEF Misses
    <3>2. Halved(p, S, x, s)
      BY <2>2, <3>1, BisectIs DEF Halved
    <3>3. top \div 2 = p
      <4>1. (p * 2) \div 2 = p
        BY DivExact
      <4>2. p * 2 = 2 * p
        OBVIOUS
      <4> QED BY <2>1, <4>1, <4>2
    <3>4. cap = BisectedFrom(p, S, x, s)[1]
      <4>1. ~(top = 1) /\ ~(BatchMax < top)
        BY <1>1, <1>2, <1>5, <2>4
      <4>2. SloBracket(top, S, x, s) = BisectedFrom(p, S, x, s)
        BY <2>1, <3>3, <4>1 DEF SloBracket, Bisect, BisectedFrom
      <4> QED BY <1>3, <4>2
    <3> QED BY <1>1, <2>1, <2>2, <2>4, <3>1, <3>2, <3>4 DEF top, cap
  <2> QED BY <1>1, <1>2, <2>3, <2>4
<1> QED BY <1>4, <1>5

(* It lies between the last batch of the doublings and the first miss.     *)
LEMMA CapBounds ==
  ASSUME NEW S, NEW x, NEW s, StepTyped(S, x, s)
  PROVE  /\ batch_slo_cap(S, x, s) \in NonNegative
         /\ batch_slo_cap(S, x, s) \preceq Q(FirstMiss(S, x, s))
         /\ \A p \in Nat \ {0} : FirstMiss(S, x, s) = 2 * p => Q(p) \preceq batch_slo_cap(S, x, s)
<1> DEFINE top == FirstMiss(S, x, s)
           cap == batch_slo_cap(S, x, s)
<1>1. BatchMax \in Nat \ {0} /\ One = Q(1)
  BY MixesAreTyped DEF One
<1>2. CASE top = 1 /\ cap = One
  <2>1. Q(1) \preceq Q(1) /\ Q(1) \in NonNegative
    <3>1. 1 \in Nat /\ 1 <= 1
      OBVIOUS
    <3> QED BY <3>1, WholeOrder, ZeroNonNegative, <1>1
  <2>2. \A p \in Nat \ {0} : 1 # 2 * p
    OBVIOUS
  <2> QED BY <1>1, <1>2, <2>1, <2>2
<1>3. ASSUME NEW p \in Nat \ {0}, top = 2 * p, p <= BatchMax, BatchMax < 2 * p, cap = Q(BatchMax)
      PROVE  cap \in NonNegative /\ cap \preceq Q(top) /\ Q(p) \preceq cap
  <2>1. 2 * p \in Nat /\ BatchMax \in Nat /\ BatchMax <= 2 * p /\ p \in Nat
    BY <1>1, <1>3
  <2>2. Rises(Q(p), Q(BatchMax)) /\ Q(BatchMax) \preceq Q(2 * p)
    BY <1>3, <2>1, WholeOrder
  <2> QED BY <1>3, <2>2 DEF Rises
<1>4. ASSUME NEW p \in Nat \ {0}, top = 2 * p, ~MeetsSlo(Q(2 * p), S, x, s),
             cap = BisectedFrom(p, S, x, s)[1], Halved(p, S, x, s)
      PROVE  cap \in NonNegative /\ cap \preceq Q(top) /\ Q(p) \preceq cap
  <2> DEFINE c == BisectedFrom(p, S, x, s)
  <2>1. Between(c, p, Resolution, S, x, s)
    BY <1>4 DEF Halved
  <2> HIDE DEF c
  <2>2. c[1] \in NonNegative /\ c[1] \in Finite /\ c[1] \in Rational
    BY <2>1, BetweenIsNear, Parts DEF NonNegative
  <2>3. MeetsSlo(c[1], S, x, s)
    BY <2>1 DEF Between
  <2>4. Q(2 * p) \in Finite /\ Q(2 * p) \in Rational /\ Q(2 * p) \in NonNegative
    <3>1. 2 * p \in Int /\ 2 * p >= 0
      OBVIOUS
    <3>2. Over(Q(2 * p), 2 * p, 1) /\ Q(2 * p) \in Finite
      BY <3>1, OverWhole
    <3> QED BY <3>1, <3>2, OverSign, Parts
  <2>5. c[1] \preceq Q(2 * p)
    <3> SUFFICES ASSUME ~(c[1] \preceq Q(2 * p)) PROVE FALSE
      OBVIOUS
    <3>1. Q(2 * p) \preceq c[1]
      BY <2>2, <2>4, OrderTotal
    <3>2. Rises(Q(2 * p), c[1])
      BY <2>2, <2>4, <3>1 DEF Rises
    <3> QED BY <1>4, <2>3, <3>2, SmallerMeets
  <2>6. Q(p) \preceq c[1]
    <3>1. PICK w \in Nat \ {0}, m \in Nat \ {0} : w <= m /\ Over(c[1], p * m, w)
      BY <2>1 DEF Between
    <3>2. Over(Q(p), p * w, w)
      <4>1. Q(p)[1] * w = (p * w) * Q(p)[2] /\ p * w \in Int /\ Q(p) \in Finite
        BY OverWhole DEF Q
      <4> QED BY <4>1 DEF Over, Valued
    <3>3. p * w <= p * m
      <4>1. w * p <= m * p
        BY <3>1, Scaled
      <4>2. w * p = p * w /\ m * p = p * m
        OBVIOUS
      <4> QED BY <4>1, <4>2
    <3> DEFINE i == p * w
               j == p * m
    <3>4. Over(Q(p), i, w) /\ Over(c[1], j, w) /\ i <= j
      BY <3>1, <3>2, <3>3
    <3> HIDE DEF i, j
    <3> QED BY <3>4, OverOrder
  <2> QED BY <1>4, <2>2, <2>5, <2>6 DEF c
<1> HIDE DEF top, cap
<1>5. \A p, r \in Nat \ {0} : 2 * p = 2 * r => p = r
  OBVIOUS
<1>6. cap \in NonNegative /\ cap \preceq Q(top) /\ \A p \in Nat \ {0} : top = 2 * p => Q(p) \preceq cap
  <2>1. \/ top = 1 /\ cap = One
        \/ \E p \in Nat \ {0} :
             /\ top = 2 * p /\ p <= BatchMax
             /\ \/ BatchMax < 2 * p /\ cap = Q(BatchMax)
                \/ /\ ~MeetsSlo(Q(2 * p), S, x, s) /\ cap = BisectedFrom(p, S, x, s)[1]
                   /\ Halved(p, S, x, s)
    BY CapIs DEF top, cap
  <2>2. CASE top = 1 /\ cap = One
    BY <1>2, <2>2 DEF top, cap
  <2>3. CASE ~(top = 1 /\ cap = One)
    <3>1. PICK p \in Nat \ {0} :
             /\ top = 2 * p /\ p <= BatchMax
             /\ \/ BatchMax < 2 * p /\ cap = Q(BatchMax)
                \/ /\ ~MeetsSlo(Q(2 * p), S, x, s) /\ cap = BisectedFrom(p, S, x, s)[1]
                   /\ Halved(p, S, x, s)
      BY <2>1, <2>3
    <3>2. cap \in NonNegative /\ cap \preceq Q(top) /\ Q(p) \preceq cap
      BY <1>3, <1>4, <3>1
    <3> QED BY <1>5, <3>1, <3>2
  <2> QED BY <2>2, <2>3
<1> QED BY <1>6 DEF top, cap

(* On the same grid, what meets more does not end lower.                   *)
LEMMA HalvedRises ==
  ASSUME NEW S, NEW x, NEW t, NEW u, StepTyped(S, x, u), Eases(t, u, S, x),
         NEW p \in Nat \ {0}, Halved(p, S, x, t), Halved(p, S, x, u)
  PROVE  BisectedFrom(p, S, x, t)[1] \preceq BisectedFrom(p, S, x, u)[1]
<1> DEFINE c == BisectedFrom(p, S, x, t)
           d == BisectedFrom(p, S, x, u)
<1>1. Between(c, p, Resolution, S, x, t) /\ Between(d, p, Resolution, S, x, u)
  BY DEF Halved
<1> HIDE DEF c, d
<1>2. PICK w \in Nat \ {0}, m \in Nat \ {0} :
        /\ Over(Resolution, 1, w) /\ Over(c[1], p * m, w) /\ MeetsSlo(c[1], S, x, t)
  BY <1>1 DEF Between
<1>3. PICK v \in Nat \ {0}, n \in Nat \ {0} :
        /\ Over(Resolution, 1, v) /\ Over(d[1], p * n, v) /\ Over(d[2], p * (n + 1), v)
        /\ ~MeetsSlo(d[2], S, x, u)
  BY <1>1 DEF Between
<1>4. v = w
  <2> DEFINE a == Resolution[1]
             b == Resolution[2]
  <2>1. a * w = 1 * b /\ a * v = 1 * b /\ a \in Int /\ b \in Nat \ {0}
    BY <1>2, <1>3, Parts DEF Over, Valued
  <2> HIDE DEF a, b
  <2>2. a * w > 0
    BY <2>1
  <2>3. a > 0
    BY <2>1, <2>2
  <2>4. a * (w - v) = 0
    BY <2>1
  <2>5. w - v = 0
    <3> DEFINE e == w - v
    <3>1. a * e = 0 /\ e \in Int /\ a \in Nat \ {0}
      BY <2>1, <2>3, <2>4
    <3> HIDE DEF e
    <3>2. e = 0
      BY <3>1
    <3> QED BY <3>2 DEF e
  <2> QED BY <2>5
<1>5. c[1] \in NonNegative /\ d[2] \in NonNegative
  BY <1>1, BetweenIsNear
<1>6. MeetsSlo(c[1], S, x, u)
  BY <1>2, <1>5 DEF Eases
<1>7. m <= n
  <2> SUFFICES ASSUME n + 1 <= m PROVE FALSE
    BY <1>2, <1>3
  <2>1. p * (n + 1) <= p * m
    <3> DEFINE e == n + 1
    <3>1. e \in Int /\ m \in Int /\ e <= m
      BY <1>2, <1>3
    <3> HIDE DEF e
    <3>2. e * p <= m * p
      BY <3>1, Scaled
    <3>3. e * p = p * e /\ m * p = p * m
      BY <3>1
    <3>4. p * e <= p * m
      BY <3>2, <3>3
    <3> QED BY <3>4 DEF e
  <2> DEFINE i == p * (n + 1)
             j == p * m
  <2>2. Over(d[2], i, w) /\ Over(c[1], j, w) /\ i <= j
    BY <1>2, <1>3, <1>4, <2>1
  <2> HIDE DEF i, j
  <2>3. Rises(d[2], c[1])
    BY <1>5, <2>2, OverOrder DEF Rises
  <2> QED BY <1>3, <1>6, <2>3, SmallerMeets
<1>8. p * m <= p * n
  <2>1. m * p <= n * p
    BY <1>7, Scaled
  <2>2. m * p = p * m /\ n * p = p * n
    OBVIOUS
  <2> QED BY <2>1, <2>2
<1> DEFINE i == p * m
           j == p * n
<1>9. Over(c[1], i, w) /\ Over(d[1], j, w) /\ i <= j
  BY <1>2, <1>3, <1>4, <1>8
<1> HIDE DEF i, j
<1>10. c[1] \preceq d[1]
  BY <1>9, OverOrder
<1> QED BY <1>10 DEF c, d

(* What meets more of the SLO has no smaller batch.                        *)
LEMMA CapRises ==
  ASSUME NEW S, NEW x, NEW t, NEW u, StepTyped(S, x, t), StepTyped(S, x, u), Eases(t, u, S, x)
  PROVE  Rises(batch_slo_cap(S, x, t), batch_slo_cap(S, x, u))
<1> DEFINE h == FirstMiss(S, x, t)
           i == FirstMiss(S, x, u)
           a == batch_slo_cap(S, x, t)
           b == batch_slo_cap(S, x, u)
<1>1. /\ h \in Nat \ {0} /\ i \in Nat \ {0}
      /\ (h = i \/ 2 * h <= i)
  BY CapIs, MissesRise
<1>2. /\ a \in NonNegative /\ a \preceq Q(h)
      /\ b \in NonNegative /\ \A p \in Nat \ {0} : i = 2 * p => Q(p) \preceq b
  BY CapBounds
<1>3. a \in Rational /\ b \in Rational /\ BatchMax \in Nat
  BY <1>2, Parts, MixesAreTyped DEF NonNegative
<1>4. a \preceq a
  BY <1>3, OrderTotal
<1>5. \/ i = 1 /\ b = One
      \/ \E p \in Nat \ {0} :
           /\ i = 2 * p /\ p <= BatchMax
           /\ \/ BatchMax < 2 * p /\ b = Q(BatchMax)
              \/ 2 * p <= BatchMax /\ b = BisectedFrom(p, S, x, u)[1] /\ Halved(p, S, x, u)
  BY CapIs
<1>6. \/ h = 1 /\ a = One
      \/ \E p \in Nat \ {0} :
           /\ h = 2 * p /\ p <= BatchMax
           /\ \/ BatchMax < 2 * p /\ a = Q(BatchMax)
              \/ 2 * p <= BatchMax /\ a = BisectedFrom(p, S, x, t)[1] /\ Halved(p, S, x, t)
  BY CapIs
<1> HIDE DEF h, i, a, b
<1>7. \A p \in Nat \ {0} : 1 # 2 * p
  OBVIOUS
<1>8. CASE h = i /\ i = 1
  BY <1>2, <1>4, <1>5, <1>6, <1>7, <1>8 DEF Rises, a, b
<1>9. CASE h = i /\ i # 1
  <2>1. PICK p \in Nat \ {0} :
           /\ i = 2 * p /\ p <= BatchMax
           /\ \/ BatchMax < 2 * p /\ b = Q(BatchMax)
              \/ 2 * p <= BatchMax /\ b = BisectedFrom(p, S, x, u)[1] /\ Halved(p, S, x, u)
    BY <1>5, <1>9
  <2>2. PICK r \in Nat \ {0} :
           /\ h = 2 * r /\ r <= BatchMax
           /\ \/ BatchMax < 2 * r /\ a = Q(BatchMax)
              \/ 2 * r <= BatchMax /\ a = BisectedFrom(r, S, x, t)[1] /\ Halved(r, S, x, t)
    BY <1>6, <1>9
  <2>3. r = p
    BY <1>9, <2>1, <2>2
  <2>4. a \preceq b
    <3>1. CASE BatchMax < 2 * p
      BY <1>3, <1>4, <2>1, <2>2, <2>3, <3>1
    <3>2. CASE 2 * p <= BatchMax
      <4>1. a = BisectedFrom(p, S, x, t)[1] /\ Halved(p, S, x, t)
            /\ b = BisectedFrom(p, S, x, u)[1] /\ Halved(p, S, x, u)
        BY <1>3, <2>1, <2>2, <2>3, <3>2
      <4> QED BY <4>1, HalvedRises
    <3> QED BY <1>3, <3>1, <3>2
  <2> QED BY <1>2, <2>4 DEF Rises, a, b
<1>10. CASE 2 * h <= i
  <2>1. i # 1
    BY <1>1, <1>10
  <2>2. PICK p \in Nat \ {0} : i = 2 * p
    BY <1>5, <2>1
  <2>3. h <= p /\ h \in Nat /\ p \in Nat
    BY <1>1, <1>10, <2>2
  <2>4. Q(h) \preceq Q(p) /\ Q(p) \preceq b
    BY <1>2, <2>2, <2>3, WholeOrder
  <2>5. Q(h) \in Rational /\ Q(p) \in Rational
    BY <2>3, OverWhole, Parts
  <2>6. a \preceq b
    BY <1>2, <1>3, <2>4, <2>5, OrderTrans
  <2> QED BY <1>2, <2>6 DEF Rises, a, b
<1> QED BY <1>1, <1>8, <1>9, <1>10

LEMMA OverlapEases ==
  ASSUME NEW x, NEW s \in Settled, NEW S, StepTyped(S, x, s),
         NEW o \in Share, NEW q \in Share, o \preceq q
  PROVE  /\ Eases(WithOverlap(s, o), WithOverlap(s, q), S, x)
         /\ Rises(batch_slo_cap(S, x, WithOverlap(s, o)), batch_slo_cap(S, x, WithOverlap(s, q)))
<1>1. Eases(WithOverlap(s, o), WithOverlap(s, q), S, x)
  BY MoreOverlapMeets DEF Eases
<1>2. StepTyped(S, x, WithOverlap(s, o)) /\ StepTyped(S, x, WithOverlap(s, q))
  BY StepWith
<1> QED BY <1>1, <1>2, CapRises

-----------------------------------------------------------------------------
(* The batch of a mix.                                                     *)
Most(i, j) == IF i < j THEN j ELSE i
LEMMA OverMax ==
  ASSUME NEW a, NEW b, NEW i, NEW j, NEW D, Over(a, i, D), Over(b, j, D)
  PROVE  Over(a \sqcup b, Most(i, j), D)
<1>1. i \in Int /\ j \in Int
  BY DEF Over
<1>2. a \prec b <=> i < j
  BY OverOrder
<1> QED BY <1>1, <1>2 DEF \sqcup, Most

LEMMA OverUnit ==
  ASSUME NEW a, NEW n, NEW D, Over(a, n, D)
  PROVE  Over(One, D, D)
<1>1. D \in Nat \ {0} /\ One[1] * D = D * One[2]
  BY ZeroOne DEF Over
<1> QED BY <1>1, ZeroOne DEF Over, Valued

LEMMA BatchOrder ==
  ASSUME NEW a \in Finite, NEW b \in Finite, NEW c \in Finite, NEW d \in Finite, a \preceq b
  PROVE  /\ Rises(One \sqcup ((c \sqcap a) \sqcap d), One \sqcup ((c \sqcap b) \sqcap d))
         /\ One \preceq One \sqcup ((c \sqcap a) \sqcap d)
         /\ One \preceq One \sqcup ((c \sqcap b) \sqcap d)
<1>1. PICK D, i, j, k, l : Over(a, i, D) /\ Over(b, j, D) /\ Over(c, k, D) /\ Over(d, l, D)
  BY CommonDenominator
<1>2. Over(One, D, D)
  BY <1>1, OverUnit
<1>3. i <= j /\ i \in Int /\ j \in Int /\ k \in Int /\ l \in Int /\ D \in Nat \ {0}
  BY <1>1, OverOrder DEF Over
<1> DEFINE m == Most(D, Least(Least(k, i), l))
           n == Most(D, Least(Least(k, j), l))
           y == One \sqcup ((c \sqcap a) \sqcap d)
           z == One \sqcup ((c \sqcap b) \sqcap d)
<1>4. Over(y, m, D) /\ Over(z, n, D)
  <2>1. Over(c \sqcap a, Least(k, i), D) /\ Over(c \sqcap b, Least(k, j), D)
    BY <1>1, OverMin
  <2>2. Over((c \sqcap a) \sqcap d, Least(Least(k, i), l), D)
        /\ Over((c \sqcap b) \sqcap d, Least(Least(k, j), l), D)
    BY <1>1, <2>1, OverMin
  <2> QED BY <1>2, <2>2, OverMax
<1>5. 0 <= m /\ m <= n /\ D <= m /\ D <= n
  BY <1>3 DEF Most, Least
<1> HIDE DEF m, n, y, z
<1>6. Rises(y, z) /\ One \preceq y /\ One \preceq z
  BY <1>2, <1>4, <1>5, RisesOver, OverOrder
<1> QED BY <1>6 DEF y, z

LEMMA MaxFinite ==
  ASSUME NEW a \in Finite, NEW b \in Finite
  PROVE  a \sqcup b \in Finite /\ a \sqcap b \in Finite
BY DEF \sqcup, \sqcap

LEMMA QuotientFinite ==
  ASSUME NEW a \in Finite, NEW b \in Positive
  PROVE  a // b \in Finite
<1>1. b \in Finite /\ b[1] > 0
  BY PositiveIs DEF Positive
<1>2. Over(a, a[1], a[2]) /\ Over(b, b[1], b[2])
  BY <1>1, OwnValue DEF Over
<1>3. Over(a // b, a[1] * b[2], a[2] * b[1])
  BY <1>1, <1>2, OverQuotient
<1> QED BY <1>3 DEF Over, Valued

(* What is not negative and not at most Zero is positive.                  *)
LEMMA NotZeroPositive ==
  ASSUME NEW a \in NonNegative
  PROVE  a \preceq Zero \/ a \in Positive
BY DEF NonNegative, Positive, \prec

LEMMA CapacityFinite ==
  ASSUME NEW S, NEW x, NEW s, StepTyped(S, x, s), FreeHbm(x) \in Finite, x.hw.m_cpu \in Finite,
         NEW kv \in NonNegative
  PROVE  CapacityBatch(kv, x, s) \in Finite
<1> DEFINE hot == (One -- s.f) ** kv
           cold == s.f ** kv
           free == FreeHbm(x)
           dram == x.hw.m_cpu
           some == One \sqcup (free // hot)
           rest == IF Zero \prec cold THEN One \sqcup (dram // cold) ELSE Inf
<1>1. hot \in NonNegative /\ cold \in NonNegative
  <2>1. s.f \in Share /\ One -- s.f \in NonNegative
    BY RestNonNegative DEF StepTyped
  <2> QED BY <2>1, NonNegativeTimes DEF Share
<1>2. Q(BatchMax) \in Finite /\ One \in Finite
  BY MixesAreTyped, OverWhole, ZeroOne
<1>3. free \in Finite /\ dram \in Finite
  OBVIOUS
<1>4. CapacityBatch(kv, x, s) = IF hot \preceq Zero THEN Q(BatchMax) ELSE some \sqcap rest
  BY DEF CapacityBatch
<1> HIDE DEF hot, cold, free, dram
<1>5. CASE hot \preceq Zero
  BY <1>2, <1>4, <1>5
<1>6. CASE ~(hot \preceq Zero)
  <2>1. hot \in Positive
    BY <1>1, <1>6, NotZeroPositive
  <2>2. some \in Finite
    BY <1>2, <1>3, <2>1, QuotientFinite, MaxFinite
  <2>3. CASE Zero \prec cold
    <3>1. cold \in Positive
      BY <1>1, <2>3 DEF Positive, NonNegative
    <3>2. One \sqcup (dram // cold) \in Finite
      BY <1>2, <1>3, <3>1, QuotientFinite, MaxFinite
    <3>3. rest \in Finite
      BY <2>3, <3>2
    <3> HIDE DEF some, rest
    <3> QED BY <1>4, <1>6, <2>2, <3>3, MaxFinite
  <2>4. CASE ~(Zero \prec cold)
    <3>1. rest = Inf
      BY <2>4
    <3> HIDE DEF some, rest
    <3>2. some \preceq Inf
      <4>1. some \in Rational /\ Inf \in Rational /\ Inf[2] = 0
        BY <2>2, Parts DEF Inf, Rational
      <4> QED BY <4>1, CrosswiseOrder DEF Cross, Crosswise
    <3>3. some \sqcap Inf = some
      BY <3>2 DEF \sqcap, \prec
    <3> QED BY <1>4, <1>6, <2>2, <3>1, <3>3
  <2> QED BY <2>3, <2>4
<1> QED BY <1>5, <1>6

(* More overlap allows for no smaller batch.                               *)
LEMMA BatchRises ==
  ASSUME NEW norm, NEW x, NEW s \in Settled, NEW S \in NonNegative, StepTyped(S, x, s),
         FreeHbm(x) \in Finite, x.hw.m_cpu \in Finite,
         NEW o \in Share, NEW q \in Share, o \preceq q
  PROVE  /\ Rises(MixBatch(norm, S, x, WithOverlap(s, o)), MixBatch(norm, S, x, WithOverlap(s, q)))
         /\ One \preceq MixBatch(norm, S, x, WithOverlap(s, o))
         /\ One \preceq MixBatch(norm, S, x, WithOverlap(s, q))
<1> DEFINE t == WithOverlap(s, o)
           u == WithOverlap(s, q)
           kv == kv_size(S, x.model)
           c == CapacityBatch(kv, x, s)
           a == batch_slo_cap(S, x, t)
           b == batch_slo_cap(S, x, u)
           d == Q(BatchMax)
<1>1. t.f = s.f /\ u.f = s.f
  BY OverlapOf
<1>2. Rises(a, b)
  BY OverlapEases
<1>3. a \in Finite /\ b \in Finite /\ a \preceq b
  BY <1>2, RisesTyped DEF Rises
<1>4. d \in Finite
  BY MixesAreTyped, OverWhole
<1>5. c \in Finite
  BY ModelTyped, CapacityFinite
<1> HIDE DEF t, u
<1>6. (MixFits(norm, x, t) <=> MixFits(norm, x, s)) /\ (MixFits(norm, x, u) <=> MixFits(norm, x, s))
  BY <1>1 DEF MixFits, HbmHoldsOne, CpuHoldsOne
<1>7. CapacityBatch(kv, x, t) = c /\ CapacityBatch(kv, x, u) = c
  BY <1>1 DEF CapacityBatch
<1> HIDE DEF a, b, c, d, kv
<1>8. CASE ~MixFits(norm, x, s)
  <2>1. MixBatch(norm, S, x, t) = One /\ MixBatch(norm, S, x, u) = One
    BY <1>6, <1>8 DEF MixBatch
  <2>2. Rises(One, One) /\ One \preceq One
    BY ZeroNonNegative, RisesConstant DEF Rises
  <2> QED BY <2>1, <2>2 DEF t, u
<1>9. CASE MixFits(norm, x, s)
  <2>1. /\ MixBatch(norm, S, x, t) = One \sqcup ((c \sqcap a) \sqcap d)
        /\ MixBatch(norm, S, x, u) = One \sqcup ((c \sqcap b) \sqcap d)
    BY <1>6, <1>7, <1>9 DEF MixBatch, a, b, d, kv
  <2> DEFINE y == One \sqcup ((c \sqcap a) \sqcap d)
             z == One \sqcup ((c \sqcap b) \sqcap d)
  <2>2. Rises(y, z) /\ One \preceq y /\ One \preceq z
    BY <1>3, <1>4, <1>5, BatchOrder
  <2> HIDE DEF y, z
  <2>3. MixBatch(norm, S, x, t) = y /\ MixBatch(norm, S, x, u) = z
    BY <2>1 DEF y, z
  <2> QED BY <2>2, <2>3 DEF t, u
<1> QED BY <1>8, <1>9

-----------------------------------------------------------------------------
(* What a call asks for.                                                   *)
LEMMA NonNegativePlus ==
  ASSUME NEW a \in NonNegative, NEW b \in NonNegative
  PROVE  a ++ b \in NonNegative
<1>1. Rises(a, a) /\ Rises(b, b)
  BY RisesConstant
<1> QED BY <1>1, RisesPlus DEF Rises

LEMMA NonNegativeOver ==
  ASSUME NEW a \in NonNegative, NEW b \in Positive
  PROVE  a // b \in NonNegative
<1>1. Rises(a, a)
  BY RisesConstant
<1> QED BY <1>1, RisesQuotient DEF Rises

LEMMA WorkTyped ==
  ASSUME NEW w \in Work
  PROVE  /\ w.s_cached \in NonNegative /\ w.a_append \in NonNegative /\ w.o_output \in NonNegative
         /\ s_context(w) \in NonNegative
<1>1. w.s_cached \in NonNegative /\ w.a_append \in NonNegative /\ w.o_output \in NonNegative
  BY DEF Work
<1> QED BY <1>1, NonNegativePlus DEF s_context

(* What does not depend on the batch.                                      *)
LEMMA FlopsTyped ==
  ASSUME NEW x, NEW s, StepTyped(Zero, x, s), x.coeffs.gamma \in NonNegative, NEW w \in Work
  PROVE  CallFlops(w, x, s) \in NonNegative
<1>1. /\ w.s_cached \in NonNegative /\ w.a_append \in NonNegative /\ w.o_output \in NonNegative
      /\ s_context(w) \in NonNegative
  BY WorkTyped
<1>2. /\ Q(2) \in NonNegative /\ Q(2) \in Positive /\ One \in NonNegative
      /\ x.model.p_act \in NonNegative /\ x.model.layers \in NonNegative
      /\ x.model.kv_decompress_flops \in NonNegative /\ s.sparse \in NonNegative
      /\ One -- s.f \in NonNegative
  BY ZeroNonNegative, PositiveNonNegative, RestNonNegative DEF StepTyped
<1>3. StepTyped(s_context(w), x, s)
  BY <1>1, StepAt
<1>4. d_attn(x.model) \in NonNegative /\ kv_elems(s_context(w), x.model) \in NonNegative
  BY <1>3, ModelTyped
<1>5. PrefillFlops(w, x) \in NonNegative
  BY <1>1, <1>2, NonNegativeTimes DEF PrefillFlops
<1>6. PrefillAttnFlops(w, x) \in NonNegative
  <2>1. w.s_cached ++ (w.a_append // Q(2)) \in NonNegative
    BY <1>1, <1>2, NonNegativeOver, NonNegativePlus
  <2> DEFINE e == w.s_cached ++ (w.a_append // Q(2))
  <2>2. e \in NonNegative
    BY <2>1
  <2> HIDE DEF e
  <2>3. x.coeffs.gamma ** x.model.layers ** w.a_append ** e ** d_attn(x.model) \in NonNegative
    BY <1>1, <1>2, <1>4, <2>2, NonNegativeTimes
  <2> QED BY <2>3 DEF PrefillAttnFlops, e
<1>7. w.o_output ** Q(2) ** x.model.p_act \in NonNegative
  BY <1>1, <1>2, NonNegativeTimes
<1> DEFINE a == w.o_output ** (One -- s.f) ** s.sparse
<1>8. a \in NonNegative
  <2>1. w.o_output ** (One -- s.f) \in NonNegative
    BY <1>1, <1>2, NonNegativeTimes
  <2> QED BY <1>2, <2>1, NonNegativeTimes
<1> HIDE DEF a
<1>9. AttnFlops(a, One, s_context(w), x.model) \in NonNegative
  <2>1. One ** a ** x.model.layers ** s_context(w) ** d_attn(x.model) \in NonNegative
    BY <1>1, <1>2, <1>4, <1>8, NonNegativeTimes
  <2>2. a ** kv_elems(s_context(w), x.model) ** x.model.kv_decompress_flops \in NonNegative
    BY <1>2, <1>4, <1>8, NonNegativeTimes
  <2> QED BY <2>1, <2>2, NonNegativePlus DEF AttnFlops
<1> QED BY <1>5, <1>6, <1>7, <1>9, NonNegativePlus DEF CallFlops, a

LEMMA CpuTyped ==
  ASSUME NEW x, NEW s, StepTyped(Zero, x, s), NEW w \in Work
  PROVE  CpuTime(w.o_output ** s.f ** s.sparse, s_context(w), x) \in NonNegative
<1>1. w.o_output \in NonNegative /\ s_context(w) \in NonNegative
  BY WorkTyped
<1>2. Rises(w.o_output, w.o_output)
  BY <1>1, RisesConstant
<1>3. StepTyped(s_context(w), x, s)
  BY <1>1, StepAt
<1> DEFINE t == CpuTime(w.o_output ** s.f ** s.sparse, s_context(w), x)
<1>4. Rises(t, t)
  BY <1>2, <1>3, AwayRises
<1> QED BY <1>4 DEF Rises

LEMMA C2cTyped ==
  ASSUME NEW x, NEW s, StepTyped(Zero, x, s), NEW w \in Work
  PROVE  CallC2cBytes(w, x, s) \in NonNegative
<1>1. /\ w.s_cached \in NonNegative /\ w.a_append \in NonNegative /\ w.o_output \in NonNegative
      /\ s_context(w) \in NonNegative
  BY WorkTyped
<1>2. /\ Q(2) \in NonNegative /\ Zero \in NonNegative /\ s.f \in NonNegative
      /\ x.model.layers \in NonNegative /\ x.model.q_act \in NonNegative
  BY ZeroNonNegative, PositiveNonNegative DEF StepTyped, Share
<1>3. StepTyped(s_context(w), x, s) /\ StepTyped(w.s_cached, x, s) /\ StepTyped(w.a_append, x, s)
  BY <1>1, StepAt
<1>4. /\ d_io(x.model) \in NonNegative /\ kv_size(s_context(w), x.model) \in NonNegative
      /\ kv_size(w.s_cached, x.model) \in NonNegative
      /\ kv_size(w.a_append, x.model) \in NonNegative
  BY <1>3, ModelTyped
<1>5. w.o_output ** s.f ** x.model.layers ** Q(2) ** d_io(x.model) ** x.model.q_act \in NonNegative
  BY <1>1, <1>2, <1>4, NonNegativeTimes
<1>6. s.f ** (kv_size(w.s_cached, x.model) ++ kv_size(w.a_append, x.model)) \in NonNegative
  BY <1>2, <1>4, NonNegativePlus, NonNegativeTimes
<1>7. kv_size(w.s_cached, x.model) ++ kv_size(s_context(w), x.model) \in NonNegative
  BY <1>4, NonNegativePlus
<1> DEFINE e == IF s.pool THEN kv_size(w.s_cached, x.model) ++ kv_size(s_context(w), x.model)
                          ELSE Zero
<1>8. e \in NonNegative
  BY <1>2, <1>7
<1> HIDE DEF e
<1>9. (w.o_output ** s.f ** x.model.layers ** Q(2) ** d_io(x.model) ** x.model.q_act)
        ++ (s.f ** (kv_size(w.s_cached, x.model) ++ kv_size(w.a_append, x.model))) ++ e
        \in NonNegative
  BY <1>5, <1>6, <1>8, NonNegativePlus
<1> QED BY <1>9 DEF CallC2cBytes, e

(* A larger batch shares the reading of the weights.                       *)
LEMMA BytesShrink ==
  ASSUME NEW x, NEW s, StepTyped(Zero, x, s), NEW w \in Work,
         NEW A, NEW B, Rises(A, B), One \preceq A
  PROVE  Shrinks(CallHbmBytes(w, x, s, A), CallHbmBytes(w, x, s, B))
<1>1. /\ w.s_cached \in NonNegative /\ w.a_append \in NonNegative /\ w.o_output \in NonNegative
      /\ s_context(w) \in NonNegative
  BY WorkTyped
<1>2. s.sparse \in NonNegative /\ One -- s.f \in NonNegative
  BY RestNonNegative DEF StepTyped
<1>3. StepTyped(s_context(w), x, s) /\ StepTyped(w.a_append, x, s)
  BY <1>1, StepAt
<1> DEFINE p == x.model.p_act ** x.model.q_weight
<1>4. /\ p \in NonNegative
      /\ weight_read_bytes(x.model, A) = p /\ weight_read_bytes(x.model, B) = p
      /\ weight_read_bytes(x.model, w.a_append) = p
      /\ kv_size(s_context(w), x.model) \in NonNegative
      /\ kv_size(w.a_append, x.model) \in NonNegative
  BY <1>3, ModelTyped
<1> HIDE DEF p
<1>5. Rises(A \sqcup One, B \sqcup One)
  BY ZeroNonNegative, RisesConstant, RisesMax
<1>6. A \sqcup One \in Positive /\ B \sqcup One \in Positive /\ A \sqcup One \preceq B \sqcup One
  <2>1. A \in Finite /\ B \in Finite /\ One \in Finite /\ One \preceq A /\ A \preceq B
    BY RisesTyped, ZeroOne DEF Rises
  <2>2. One \preceq B
    BY <2>1, Parts, OrderTrans
  <2>3. One \in Positive
    BY OverOne, ZeroOne DEF Positive
  <2>4. ASSUME NEW c \in Finite, One \preceq c PROVE c \sqcup One \in Positive
    <3>1. c[1] > 0
      <4>1. PICK D, i, j, k, l : Over(One, i, D) /\ Over(c, j, D) /\ Over(One, k, D) /\ Over(c, l, D)
        BY <2>1, CommonDenominator
      <4>2. i <= j /\ i > 0 /\ i \in Int /\ j \in Int
        BY <2>3, <2>4, <4>1, OverOrder, OverSign DEF Over
      <4>3. c \in Positive
        BY <4>1, <4>2, OverSign
      <4> QED BY <4>3, PositiveIs DEF Positive
    <3>2. c \in Positive
      BY <3>1, PositiveIs DEF Positive
    <3> QED BY <2>3, <3>2 DEF \sqcup
  <2> QED BY <1>5, <2>1, <2>2, <2>4 DEF Rises
<1>7. w.o_output ** p \in NonNegative
  BY <1>1, <1>4, NonNegativeTimes
<1>8. Shrinks((w.o_output ** p) // (A \sqcup One), (w.o_output ** p) // (B \sqcup One))
  BY <1>6, <1>7, ShrinksDivided
<1> DEFINE e == AttnBytes(w.o_output ** (One -- s.f) ** s.sparse, s_context(w), x.model)
           g == kv_size(w.a_append, x.model)
<1>9. e \in NonNegative
  BY <1>1, <1>2, <1>4, NonNegativeTimes DEF AttnBytes
<1>10. Shrinks(e, e) /\ Shrinks(p, p) /\ Shrinks(g, g)
  BY <1>4, <1>9, ShrinksConstant
<1>11. /\ CallHbmBytes(w, x, s, A) = ((w.o_output ** p) // (A \sqcup One)) ++ e ++ p ++ g
       /\ CallHbmBytes(w, x, s, B) = ((w.o_output ** p) // (B \sqcup One)) ++ e ++ p ++ g
  BY <1>4 DEF CallHbmBytes
<1> HIDE DEF e, g
<1> QED BY <1>8, <1>10, <1>11, ShrinksPlus

Resources == {"compute", "hbm", "cpu", "c2c"}
LEMMA DemandShrinks ==
  ASSUME NEW x, NEW s \in Settled, StepTyped(Zero, x, s), x.coeffs.gamma \in NonNegative,
         NEW w \in Work, NEW A, NEW B, Rises(A, B), One \preceq A,
         NEW o \in Share, NEW q \in Share, NEW r \in Resources
  PROVE  Shrinks(class_demand(w, x, WithOverlap(s, o), A)[r],
                 class_demand(w, x, WithOverlap(s, q), B)[r])
<1> DEFINE t == WithOverlap(s, o)
           u == WithOverlap(s, q)
           compute == CallFlops(w, x, s) // x.hw.f_gpu
           cpu == CpuTime(w.o_output ** s.f ** s.sparse, s_context(w), x)
           c2c == CallC2cBytes(w, x, s) // bw_c2c_oneway(x.hw)
<1>1. t.f = s.f /\ t.sparse = s.sparse /\ t.pool = s.pool
      /\ u.f = s.f /\ u.sparse = s.sparse /\ u.pool = s.pool
  BY OverlapOf
<1>2. x.hw.f_gpu \in Positive /\ x.hw.bw_hbm \in Positive /\ bw_c2c_oneway(x.hw) \in Positive
  BY ModelTyped DEF StepTyped
<1>3. compute \in NonNegative /\ cpu \in NonNegative /\ c2c \in NonNegative
  BY <1>2, FlopsTyped, CpuTyped, C2cTyped, NonNegativeOver
<1> HIDE DEF t, u
<1>4. /\ CallFlops(w, x, t) = CallFlops(w, x, s) /\ CallFlops(w, x, u) = CallFlops(w, x, s)
      /\ CallC2cBytes(w, x, t) = CallC2cBytes(w, x, s)
      /\ CallC2cBytes(w, x, u) = CallC2cBytes(w, x, s)
      /\ CallHbmBytes(w, x, t, A) = CallHbmBytes(w, x, s, A)
      /\ CallHbmBytes(w, x, u, B) = CallHbmBytes(w, x, s, B)
  BY <1>1 DEF CallFlops, CallC2cBytes, CallHbmBytes
<1>5. /\ class_demand(w, x, t, A)
           = [compute |-> compute, hbm |-> CallHbmBytes(w, x, s, A) // x.hw.bw_hbm,
              cpu |-> cpu, c2c |-> c2c]
      /\ class_demand(w, x, u, B)
           = [compute |-> compute, hbm |-> CallHbmBytes(w, x, s, B) // x.hw.bw_hbm,
              cpu |-> cpu, c2c |-> c2c]
  BY <1>1, <1>4 DEF class_demand
<1> DEFINE g == CallHbmBytes(w, x, s, A) // x.hw.bw_hbm
           h == CallHbmBytes(w, x, s, B) // x.hw.bw_hbm
<1>6. Shrinks(g, h)
  BY <1>2, BytesShrink, ShrinksQuotient
<1>7. Shrinks(compute, compute) /\ Shrinks(cpu, cpu) /\ Shrinks(c2c, c2c)
  BY <1>3, ShrinksConstant
<1> HIDE DEF compute, cpu, c2c, g, h
<1>8. r = "compute" \/ r = "hbm" \/ r = "cpu" \/ r = "c2c"
  BY DEF Resources
<1>9. /\ class_demand(w, x, t, A) = [compute |-> compute, hbm |-> g, cpu |-> cpu, c2c |-> c2c]
      /\ class_demand(w, x, u, B) = [compute |-> compute, hbm |-> h, cpu |-> cpu, c2c |-> c2c]
  BY <1>5 DEF g, h
<1> DEFINE y == class_demand(w, x, t, A)
           z == class_demand(w, x, u, B)
<1>10. /\ y["compute"] = compute /\ y["hbm"] = g /\ y["cpu"] = cpu /\ y["c2c"] = c2c
       /\ z["compute"] = compute /\ z["hbm"] = h /\ z["cpu"] = cpu /\ z["c2c"] = c2c
  BY <1>9
<1> HIDE DEF y, z
<1>11. Shrinks(y[r], z[r])
  BY <1>6, <1>7, <1>8, <1>10
<1> QED BY <1>11 DEF t, u, y, z

-----------------------------------------------------------------------------
(* The classes of a mix, with weights that add up to One.                  *)
LEMMA ClassParts ==
  ASSUME NEW classes \in Seq(Class)
  PROVE  /\ Len(classes) \in Nat /\ DOMAIN classes = 1..Len(classes)
         /\ \A k \in 1..Len(classes) :
              classes[k] \in Class /\ classes[k].p \in NonNegative /\ classes[k].work \in Work
<1>1. Len(classes) \in Nat /\ DOMAIN classes = 1..Len(classes)
      /\ \A k \in 1..Len(classes) : classes[k] \in Class
  OBVIOUS
<1>2. \A c \in Class : c.p \in NonNegative /\ c.work \in Work
  BY DEF Class, Work
<1> QED BY <1>1, <1>2

LEMMA WeightsTyped ==
  ASSUME NEW classes \in Seq(Class), Zero \prec Total(LAMBDA c : c.p, classes)
  PROVE  Normalized(classes) \in Seq(Class)
<1> DEFINE tot == Total(LAMBDA c : c.p, classes)
           n == Len(classes)
           ps == [k \in DOMAIN classes |-> classes[k].p]
<1>1. n \in Nat /\ DOMAIN classes = 1..n
      /\ \A k \in 1..n : classes[k] \in Class /\ classes[k].p \in NonNegative
  BY ClassParts
<1>2. tot = SumTo(ps, n)
  BY DEF Total
<1>3. \A k \in 1..n : ps[k] = classes[k].p
  BY <1>1
<1> HIDE DEF ps
<1>4. tot \in Positive
  <2>1. \A k \in 1..n : Shrinks(ps[k], ps[k])
    BY <1>1, <1>3, ShrinksConstant
  <2>2. Shrinks(SumTo(ps, n), SumTo(ps, n))
    <3> HIDE DEF n
    <3> QED BY <1>1, <2>1, ShrinksSum
  <2>3. SumTo(ps, n) \in Finite
    BY <2>2, ShrinksTyped
  <2> QED BY <1>2, <2>3 DEF Positive
<1>5. Normalized(classes) = [i \in 1..n |-> [classes[i] EXCEPT !.p = @ // tot]]
  BY <1>1 DEF Normalized, Weighted
<1> HIDE DEF tot, n
<1>6. ASSUME NEW k \in 1..n PROVE [classes[k] EXCEPT !.p = @ // tot] \in Class
  <2>1. classes[k] \in Class /\ classes[k].p // tot \in NonNegative
    BY <1>1, <1>4, NonNegativeOver
  <2> QED BY <2>1 DEF Class
<1> QED BY <1>1, <1>5, <1>6

(* A sum over the classes is not negative if what is added is not.         *)
LEMMA TotalTyped ==
  ASSUME NEW norm \in Seq(Class), NEW xs, DOMAIN xs = DOMAIN norm,
         \A k \in 1..Len(norm) : xs[k] \in NonNegative
  PROVE  SumTo(xs, Len(norm)) \in NonNegative
<1> DEFINE n == Len(norm)
<1>1. n \in Nat
  BY ClassParts
<1>2. \A k \in 1..n : Shrinks(xs[k], xs[k])
  BY ShrinksConstant
<1> HIDE DEF n
<1>3. Shrinks(SumTo(xs, n), SumTo(xs, n))
  BY <1>1, <1>2, ShrinksSum
<1> QED BY <1>3, ShrinksTyped DEF n

LEMMA MixAverages ==
  ASSUME NEW norm \in Seq(Class)
  PROVE  OutputTokens(norm) \in NonNegative /\ AvgContext(norm) \in NonNegative
<1> DEFINE n == Len(norm)
           os == [k \in DOMAIN norm |-> norm[k].p ** norm[k].work.o_output]
           ts == [k \in DOMAIN norm |-> norm[k].p ** norm[k].work.o_output ** s_context(norm[k].work)]
           cs == [k \in DOMAIN norm |-> norm[k].p ** s_context(norm[k].work)]
<1>1. DOMAIN norm = 1..n
      /\ \A k \in 1..n : /\ norm[k].p \in NonNegative
                         /\ norm[k].work.o_output \in NonNegative
                         /\ s_context(norm[k].work) \in NonNegative
  BY ClassParts, WorkTyped
<1>2. \A k \in 1..n : os[k] \in NonNegative /\ ts[k] \in NonNegative /\ cs[k] \in NonNegative
  BY <1>1, NonNegativeTimes
<1>3. DOMAIN os = DOMAIN norm /\ DOMAIN ts = DOMAIN norm /\ DOMAIN cs = DOMAIN norm
  OBVIOUS
<1>4. OutputTokens(norm) = SumTo(os, n)
  BY DEF OutputTokens, Total
<1>5. AvgContext(norm) = IF Zero \prec OutputTokens(norm) THEN SumTo(ts, n) // OutputTokens(norm)
                         ELSE SumTo(cs, n)
  BY DEF AvgContext, Total
<1> HIDE DEF os, ts, cs
<1>6. SumTo(os, n) \in NonNegative /\ SumTo(ts, n) \in NonNegative /\ SumTo(cs, n) \in NonNegative
  BY <1>2, <1>3, TotalTyped
<1>7. OutputTokens(norm) \in NonNegative
  BY <1>4, <1>6
<1>8. CASE Zero \prec OutputTokens(norm)
  <2>1. OutputTokens(norm) \in Positive
    BY <1>7, <1>8 DEF NonNegative, Positive
  <2> QED BY <1>5, <1>6, <1>7, <1>8, <2>1, NonNegativeOver
<1>9. CASE ~(Zero \prec OutputTokens(norm))
  BY <1>5, <1>6, <1>7, <1>9
<1> QED BY <1>8, <1>9

(* What the mix asks for.                                                  *)
LEMMA MixDemandShrinks ==
  ASSUME NEW norm \in Seq(Class), NEW x, NEW s \in Settled, StepTyped(Zero, x, s),
         x.coeffs.gamma \in NonNegative, NEW A, NEW B, Rises(A, B), One \preceq A,
         NEW o \in Share, NEW q \in Share, NEW r \in Resources
  PROVE  Shrinks(MixDemand(norm, x, WithOverlap(s, o), A)[r],
                 MixDemand(norm, x, WithOverlap(s, q), B)[r])
<1> DEFINE n == Len(norm)
           t == WithOverlap(s, o)
           u == WithOverlap(s, q)
           ys == [k \in DOMAIN norm |-> norm[k].p ** class_demand(norm[k].work, x, t, A)[r]]
           zs == [k \in DOMAIN norm |-> norm[k].p ** class_demand(norm[k].work, x, u, B)[r]]
<1>1. n \in Nat /\ DOMAIN norm = 1..n
      /\ \A k \in 1..n : norm[k].p \in NonNegative /\ norm[k].work \in Work
  BY ClassParts
<1>2. MixDemand(norm, x, t, A)[r] = SumTo(ys, n) /\ MixDemand(norm, x, u, B)[r] = SumTo(zs, n)
  BY DEF MixDemand, Total, Resources
<1>3. ASSUME NEW k \in 1..n PROVE Shrinks(ys[k], zs[k])
  <2> DEFINE y == class_demand(norm[k].work, x, t, A)[r]
             z == class_demand(norm[k].work, x, u, B)[r]
  <2>1. Shrinks(y, z)
    BY <1>1, DemandShrinks
  <2>2. ys[k] = norm[k].p ** y /\ zs[k] = norm[k].p ** z
    BY <1>1
  <2> HIDE DEF y, z, ys, zs
  <2> QED BY <1>1, <2>1, <2>2, ShrinksTimes
<1> HIDE DEF n, ys, zs, t, u
<1>4. Shrinks(SumTo(ys, n), SumTo(zs, n))
  BY <1>1, <1>3, ShrinksSum
<1> QED BY <1>2, <1>4 DEF t, u

(* The reciprocal, 0 for a time that vanishes, of what shrinks.            *)
LEMMA ReciprocalRises ==
  ASSUME NEW a, NEW b, Shrinks(a, b)
  PROVE  Rises(OverOrZero(One, a), OverOrZero(One, b))
<1>1. a \in NonNegative /\ b \in NonNegative /\ b \preceq a /\ (a \in Positive => b \in Positive)
  BY ShrinksTyped DEF Shrinks
<1>2. a \in Positive <=> Zero \prec a
  BY <1>1 DEF Positive, NonNegative
<1>3. b \in Positive <=> Zero \prec b
  BY <1>1 DEF Positive, NonNegative
<1>4. CASE a \in Positive
  <2>1. Shrinks(One // b, One // a)
    BY <1>1, <1>4, ZeroNonNegative, ShrinksDivided
  <2> QED BY <1>1, <1>2, <1>3, <1>4, <2>1 DEF OverOrZero, Shrinks
<1>5. CASE a \notin Positive
  <2>1. OverOrZero(One, a) = Zero
    BY <1>2, <1>5 DEF OverOrZero
  <2>2. OverOrZero(One, b) \in NonNegative
    BY <1>3, ZeroNonNegative, NonNegativeOver DEF OverOrZero
  <2> QED BY <2>1, <2>2, ZeroNonNegative DEF Rises, NonNegative
<1> QED BY <1>4, <1>5

LEMMA CallTimeShrinks ==
  ASSUME NEW su, NEW sv, \A r \in Resources : Shrinks(su[r], sv[r]),
         NEW o \in Share, NEW q \in Share, o \preceq q
  PROVE  Shrinks(CallTime(su, o), CallTime(sv, q))
<1>1. "compute" \in Resources /\ "hbm" \in Resources /\ "cpu" \in Resources /\ "c2c" \in Resources
  BY DEF Resources
<1>2. /\ Shrinks(su["compute"], sv["compute"]) /\ Shrinks(su["hbm"], sv["hbm"])
      /\ Shrinks(su["cpu"], sv["cpu"]) /\ Shrinks(su["c2c"], sv["c2c"])
  BY <1>1
<1>3. Shrinks(combine(su["compute"], su["hbm"], o), combine(sv["compute"], sv["hbm"], q))
  BY <1>2, ShrinksCombine
<1>4. Shrinks(su["cpu"] ++ su["c2c"], sv["cpu"] ++ sv["c2c"])
  BY <1>2, ShrinksPlus
<1>5. Shrinks(combine(combine(su["compute"], su["hbm"], o), su["cpu"] ++ su["c2c"], o),
              combine(combine(sv["compute"], sv["hbm"], q), sv["cpu"] ++ sv["c2c"], q))
  BY <1>3, <1>4, ShrinksCombine
<1> QED BY <1>5 DEF CallTime

(* The throughput rises with the overlap.                                  *)
MixTpsOn(norm, S, x, s) == MixWith(norm, S, x, s).tps

LEMMA TpsIs ==
  ASSUME NEW norm, NEW S, NEW x, NEW s
  PROVE  MixTpsOn(norm, S, x, s) =
           IF MixFits(norm, x, s)
           THEN OverOrZero(One, CallTime(MixDemand(norm, x, s, MixBatch(norm, S, x, s)), s.overlap))
                  ** OutputTokens(norm)
           ELSE Zero
BY DEF MixTpsOn, MixWith, MixAt, MixResult

LEMMA MixTpsRises ==
  ASSUME NEW classes, NEW x, NEW s, MixTyped(classes, WithCpus(x, s.cpus_per_gpu), s),
         NEW o \in Share, NEW q \in Share, o \preceq q
  PROVE  Rises(MixTps(classes, x, s, o), MixTps(classes, x, s, q))
<1> DEFINE y == WithCpus(x, s.cpus_per_gpu)
           norm == Normalized(classes)
           S == AvgContext(norm)
           t == WithOverlap(s, o)
           u == WithOverlap(s, q)
<1>1. /\ s \in Settled /\ classes \in Seq(Class) /\ Zero \prec Total(LAMBDA c : c.p, classes)
      /\ StepTyped(Zero, y, s) /\ y.coeffs.gamma \in NonNegative
      /\ FreeHbm(y) \in Finite /\ y.hw.m_cpu \in Finite
  BY DEF MixTyped, Settled
<1>2. norm \in Seq(Class)
  BY <1>1, WeightsTyped
<1>3. S \in NonNegative /\ OutputTokens(norm) \in NonNegative
  BY <1>2, MixAverages
<1>4. t.cpus_per_gpu = s.cpus_per_gpu /\ t.f = s.f /\ t.overlap = o
      /\ u.cpus_per_gpu = s.cpus_per_gpu /\ u.f = s.f /\ u.overlap = q
  BY <1>1, OverlapOf
<1>5. MixTps(classes, x, s, o) = MixTpsOn(norm, S, y, t)
      /\ MixTps(classes, x, s, q) = MixTpsOn(norm, S, y, u)
  <2> HIDE DEF t, u
  <2>1. MixTps(classes, x, s, o) = serving_mix(classes, x, t).tps
        /\ MixTps(classes, x, s, q) = serving_mix(classes, x, u).tps
    BY DEF MixTps, t, u
  <2>2. serving_mix(classes, x, t) = MixWith(norm, S, y, t)
        /\ serving_mix(classes, x, u) = MixWith(norm, S, y, u)
    BY <1>4 DEF serving_mix, MixOn
  <2> QED BY <2>1, <2>2 DEF MixTpsOn
<1> HIDE DEF y, norm, S
<1>6. StepTyped(S, y, s)
  BY <1>1, <1>3, StepAt
<1> DEFINE A == MixBatch(norm, S, y, t)
           B == MixBatch(norm, S, y, u)
<1>7. Rises(A, B) /\ One \preceq A
  BY <1>1, <1>3, <1>6, BatchRises
<1> DEFINE su == MixDemand(norm, y, t, A)
           sv == MixDemand(norm, y, u, B)
<1>8. \A r \in Resources : Shrinks(su[r], sv[r])
  <2> HIDE DEF A, B
  <2> QED BY <1>1, <1>2, <1>7, MixDemandShrinks
<1> HIDE DEF t, u
<1>9. MixFits(norm, y, t) <=> MixFits(norm, y, u)
  BY <1>4 DEF MixFits, HbmHoldsOne, CpuHoldsOne
<1>10. /\ MixTpsOn(norm, S, y, t) = IF MixFits(norm, y, t)
                                    THEN OverOrZero(One, CallTime(su, o)) ** OutputTokens(norm)
                                    ELSE Zero
       /\ MixTpsOn(norm, S, y, u) = IF MixFits(norm, y, t)
                                    THEN OverOrZero(One, CallTime(sv, q)) ** OutputTokens(norm)
                                    ELSE Zero
  BY <1>4, <1>9, TpsIs
<1> HIDE DEF su, sv
<1>11. Rises(OverOrZero(One, CallTime(su, o)), OverOrZero(One, CallTime(sv, q)))
  BY <1>8, CallTimeShrinks, ReciprocalRises
<1>12. Rises(OverOrZero(One, CallTime(su, o)) ** OutputTokens(norm),
             OverOrZero(One, CallTime(sv, q)) ** OutputTokens(norm))
  BY <1>3, <1>11, RisesTimes
<1>13. Rises(Zero, Zero)
  BY ZeroNonNegative, RisesConstant
<1> QED BY <1>5, <1>10, <1>12, <1>13

-----------------------------------------------------------------------------
(* The interval that holds the overlap after k halvings: its ends are      *)
(* neighbours on a grid of w parts.                                        *)
Enclosing(c, w, measured, classes, x, s) ==
  \E m \in Nat :
    /\ w \in Nat \ {0} /\ m + 1 <= w
    /\ Over(c[1], m, w) /\ Over(c[2], m + 1, w)
    /\ c[1] \in Normal /\ c[2] \in Normal
    /\ c[1] = Zero \/ MixTps(classes, x, s, c[1]) \prec measured
    /\ c[2] = One \/ ~(MixTps(classes, x, s, c[2]) \prec measured)
Narrower(c, measured, classes, x, s) ==
  IF MixTps(classes, x, s, Midpoint(c)) \prec measured THEN <<Midpoint(c), c[2]>>
  ELSE <<c[1], Midpoint(c)>>

LEMMA MidpointIs ==
  ASSUME NEW a \in Finite, NEW b \in Finite
  PROVE  Midpoint(<<a, b>>) \in Normal
<1>1. a ++ b \in Normal
  BY NormalPlus
<1>2. Q(2) \in Normal /\ Q(2)[1] > 0
  <2>1. 2 \in Int /\ Q(2)[1] = 2
    BY DEF Q
  <2> QED BY <2>1, NormalWhole
<1>3. (a ++ b) // Q(2) \in Normal
  BY <1>1, <1>2, NormalQuotient
<1> QED BY <1>3 DEF Midpoint

LEMMA EnclosingNext ==
  ASSUME NEW c \in Finite \X Finite, NEW w, NEW measured, NEW classes, NEW x, NEW s,
         Enclosing(c, w, measured, classes, x, s)
  PROVE  Enclosing(Narrower(c, measured, classes, x, s), 2 * w, measured, classes, x, s)
<1>1. PICK m \in Nat :
        /\ w \in Nat \ {0} /\ m + 1 <= w
        /\ Over(c[1], m, w) /\ Over(c[2], m + 1, w)
        /\ c[1] \in Normal /\ c[2] \in Normal
        /\ c[1] = Zero \/ MixTps(classes, x, s, c[1]) \prec measured
        /\ c[2] = One \/ ~(MixTps(classes, x, s, c[2]) \prec measured)
  BY DEF Enclosing
<1> DEFINE lo == c[1]
           hi == c[2]
           mid == Midpoint(c)
           v == 2 * w
<1>2. c = <<lo, hi>> /\ lo \in Finite /\ hi \in Finite
  OBVIOUS
<1>3. mid \in Normal
  BY <1>2, MidpointIs
<1>4. Over(mid, 2 * m + 1, v)
  <2>1. Over(lo ++ hi, m + (m + 1), w)
    BY <1>1, OverPlus
  <2>2. m + (m + 1) = 2 * m + 1
    OBVIOUS
  <2> QED BY <2>1, <2>2, OverHalf DEF Midpoint
<1>5. Over(lo, 2 * m, v) /\ Over(hi, (2 * m + 1) + 1, v)
  <2>1. Over(lo, m * 2, w * 2) /\ Over(hi, (m + 1) * 2, w * 2)
    <3> DEFINE j == m + 1
    <3>1. Over(hi, j, w) /\ j \in Int
      BY <1>1
    <3> HIDE DEF j
    <3>2. Valued(lo, m, w) /\ Valued(hi, j, w) /\ m \in Int /\ 2 \in Nat \ {0}
      BY <1>1, <3>1 DEF Over
    <3>3. Over(lo, m * 2, w * 2) /\ Over(hi, j * 2, w * 2)
      BY <1>1, <3>1, <3>2, Widened DEF Over
    <3> QED BY <3>3 DEF j
  <2>2. m * 2 = 2 * m /\ (m + 1) * 2 = (2 * m + 1) + 1 /\ w * 2 = 2 * w
    BY <1>1
  <2> QED BY <2>1, <2>2
<1>6. /\ v \in Nat \ {0} /\ 2 * m \in Nat /\ 2 * m + 1 \in Nat
      /\ 2 * m + 1 <= v /\ (2 * m + 1) + 1 <= v
  BY <1>1
<1>7. /\ lo \in Normal /\ hi \in Normal
      /\ lo = Zero \/ MixTps(classes, x, s, lo) \prec measured
      /\ hi = One \/ ~(MixTps(classes, x, s, hi) \prec measured)
  BY <1>1
<1> DEFINE even == 2 * m
           odd == 2 * m + 1
<1>8. /\ Over(mid, odd, v) /\ Over(lo, even, v) /\ Over(hi, odd + 1, v) /\ even + 1 = odd
      /\ even \in Nat /\ odd \in Nat /\ odd <= v /\ odd + 1 <= v
  BY <1>4, <1>5, <1>6
<1> HIDE DEF lo, hi, mid, v, even, odd
<1>9. CASE MixTps(classes, x, s, mid) \prec measured
  <2>1. Enclosing(<<mid, hi>>, v, measured, classes, x, s)
    BY <1>3, <1>6, <1>7, <1>8, <1>9 DEF Enclosing
  <2> QED BY <1>9, <2>1 DEF Narrower, mid, hi, v
<1>10. CASE ~(MixTps(classes, x, s, mid) \prec measured)
  <2>1. Enclosing(<<lo, mid>>, v, measured, classes, x, s)
    BY <1>3, <1>6, <1>7, <1>8, <1>10 DEF Enclosing
  <2> QED BY <1>10, <2>1 DEF Narrower, mid, lo, v
<1> QED BY <1>9, <1>10

(* What the bisection of fit_overlap leaves.                               *)
Fitted(measured, classes, x, s) ==
  Turns([c \in Finite \X Finite |->
           IF MixTps(classes, x, s, Midpoint(c)) \prec measured THEN <<Midpoint(c), c[2]>>
           ELSE <<c[1], Midpoint(c)>>], FitBisections, <<Zero, One>>)

LEMMA FittedEncloses ==
  ASSUME NEW measured, NEW classes, NEW x, NEW s
  PROVE  /\ Fitted(measured, classes, x, s) \in Finite \X Finite
         /\ \E w : /\ Enclosing(Fitted(measured, classes, x, s), w, measured, classes, x, s)
                   /\ FitSteps = 2 * w
<1> DEFINE I == Finite \X Finite
           D == Nat
           b == <<Zero, One>>
           unit == 1
           f == [c \in I |-> IF MixTps(classes, x, s, Midpoint(c)) \prec measured
                             THEN <<Midpoint(c), c[2]>> ELSE <<c[1], Midpoint(c)>>]
           g == [w \in D |-> 2 * w]
           n == FitBisections
           at(k) == Turns(f, k, b)
           parts(k) == Turns(g, k, unit)
           K == {k \in 0..n : Enclosing(at(k), parts(k), measured, classes, x, s)}
<1>1. n \in Nat
  BY OverlapsAreTyped
<1>2. Fitted(measured, classes, x, s) = at(n) /\ FitSteps = parts(n + 1)
  BY DEF Fitted, FitSteps
<1>3. \A c \in I : f[c] = Narrower(c, measured, classes, x, s)
  BY DEF Narrower
<1>4. f \in [I -> I]
  <2> SUFFICES ASSUME NEW c \in I
               PROVE (IF MixTps(classes, x, s, Midpoint(c)) \prec measured
                      THEN <<Midpoint(c), c[2]>> ELSE <<c[1], Midpoint(c)>>) \in I
    OBVIOUS
  <2>1. c[1] \in Finite /\ c[2] \in Finite /\ c = <<c[1], c[2]>>
    OBVIOUS
  <2>2. Midpoint(c) \in Finite
    BY <2>1, MidpointIs, NormalFinite
  <2> QED BY <2>1, <2>2
<1>5. g \in [D -> D] /\ unit \in D /\ \A w \in D : g[w] = 2 * w
  OBVIOUS
<1>6. b \in I /\ b[1] = Zero /\ b[2] = One
  BY ZeroOne
<1> HIDE DEF f, g, b, n
<1>7. at(0) = b /\ \A k \in Nat : at(k) \in I /\ at(k+1) = f[at(k)]
  <2> HIDE DEF I
  <2> QED BY <1>4, <1>6, OneTurn
<1>8. parts(0) = 1 /\ \A k \in Nat : parts(k) \in Nat /\ parts(k+1) = 2 * parts(k)
  <2> HIDE DEF D, unit
  <2>1. Turns(g, 0, unit) = unit
        /\ \A k \in Nat : Turns(g, k, unit) \in D /\ Turns(g, k+1, unit) = g[Turns(g, k, unit)]
    BY <1>5, OneTurn
  <2> QED BY <1>5, <2>1 DEF D, unit
<1> HIDE DEF at, parts
<1>9. 0 \in K
  <2> DEFINE z == 0
             w == 1
  <2>1. /\ z \in Nat /\ w \in Nat \ {0} /\ z + 1 <= w /\ z + 1 = w
        /\ Over(Zero, z, w) /\ Over(One, w, w) /\ Zero \in Normal /\ One \in Normal
    BY OverWhole, ZeroLaws, OverOne DEF Zero, One
  <2> HIDE DEF z, w
  <2>2. Enclosing(b, w, measured, classes, x, s)
    BY <1>6, <2>1 DEF Enclosing
  <2> QED BY <1>1, <1>7, <1>8, <2>2 DEF w
<1>10. ASSUME NEW k \in 0..(n-1), k \in K PROVE k+1 \in K
  <2>1. k \in Nat /\ k+1 \in 0..n
    BY <1>1
  <2>2. Enclosing(at(k), parts(k), measured, classes, x, s) /\ at(k) \in Finite \X Finite
    BY <1>7, <1>10, <2>1
  <2>3. at(k+1) = Narrower(at(k), measured, classes, x, s) /\ parts(k+1) = 2 * parts(k)
    BY <1>3, <1>7, <1>8, <2>1
  <2>4. Enclosing(at(k+1), parts(k+1), measured, classes, x, s)
    BY <2>2, <2>3, EnclosingNext
  <2> QED BY <2>1, <2>4
<1>11. n \in K
  <2> HIDE DEF K
  <2>1. \A k \in 0..n : k \in K
    BY <1>1, <1>9, <1>10, LoopInduction
  <2> QED BY <1>1, <2>1
<1>12. at(n) \in Finite \X Finite /\ parts(n + 1) = 2 * parts(n)
  BY <1>1, <1>7, <1>8
<1> QED BY <1>2, <1>11, <1>12

LEMMA FitIs ==
  ASSUME NEW measured, NEW classes, NEW x, NEW s
  PROVE  LET out == fit_overlap(classes, x, s, measured)
             con == MixTps(classes, x, s, Zero)
             opt == MixTps(classes, x, s, One)
         IN  /\ out.ok <=> con \preceq measured /\ measured \preceq opt
             /\ out.ok => out.ov = Midpoint(Fitted(measured, classes, x, s))
<1> DEFINE con == MixTps(classes, x, s, Zero)
           opt == MixTps(classes, x, s, One)
           mid == Midpoint(Fitted(measured, classes, x, s))
<1>1. serving_band(classes, x, s).con = con /\ serving_band(classes, x, s).opt = opt
  BY DEF serving_band
<1>2. fit_overlap(classes, x, s, measured) = FitIn(serving_band(classes, x, s), measured, mid)
  BY DEF fit_overlap, Bisect, Fitted
<1> HIDE DEF con, opt, mid
<1>3. fit_overlap(classes, x, s, measured)
        = IF con \preceq measured /\ measured \preceq opt THEN [ok |-> TRUE, ov |-> mid]
          ELSE [ok |-> FALSE]
  BY <1>1, <1>2 DEF FitIn
<1>4. [ok |-> TRUE, ov |-> mid].ok /\ ~[ok |-> FALSE].ok /\ [ok |-> TRUE, ov |-> mid].ov = mid
  OBVIOUS
<1>5. CASE con \preceq measured /\ measured \preceq opt
  BY <1>3, <1>4, <1>5 DEF con, opt, mid
<1>6. CASE ~(con \preceq measured /\ measured \preceq opt)
  BY <1>3, <1>4, <1>6 DEF con, opt
<1> QED BY <1>5, <1>6

(* The overlaps of the grid, among them none and perfect overlap.          *)
LEMMA OnGrid ==
  ASSUME NEW a \in Normal, NEW n \in 0..FitSteps, FitSteps \in Nat \ {0}, Over(a, n, FitSteps)
  PROVE  a \in Overlaps
<1>1. Over(Ratio(n, FitSteps), n, FitSteps) /\ Ratio(n, FitSteps) \in Normal
  BY RatioOver
<1>2. a = Ratio(n, FitSteps)
  BY <1>1, SameValue
<1> QED BY <1>2 DEF Overlaps

LEMMA GridShares ==
  ASSUME FitSteps \in Nat \ {0}, NEW a \in Overlaps
  PROVE  a \in Share
<1>1. PICK n \in 0..FitSteps : a = Ratio(n, FitSteps)
  BY DEF Overlaps
<1>2. Over(a, n, FitSteps)
  BY <1>1, RatioOver
<1>3. n >= 0 /\ n <= FitSteps
  OBVIOUS
<1> QED BY <1>2, <1>3, OverSign DEF Share

LEMMA FitExplains ==
  ASSUME NEW measured \in Finite, NEW classes, NEW x, NEW s,
         MixTyped(classes, WithCpus(x, s.cpus_per_gpu), s)
  PROVE  Explains(fit_overlap(classes, x, s, measured), measured,
                  [ov \in Overlaps |-> MixTps(classes, x, s, ov)])
<1> DEFINE T(ov) == MixTps(classes, x, s, ov)
           at == [ov \in Overlaps |-> T(ov)]
           out == fit_overlap(classes, x, s, measured)
           near == Ratio(1, FitSteps)
           c == Fitted(measured, classes, x, s)
           mid == Midpoint(c)
<1>1. PICK w : Enclosing(c, w, measured, classes, x, s) /\ FitSteps = 2 * w
  BY FittedEncloses
<1>2. c \in Finite \X Finite
  BY FittedEncloses
<1> HIDE DEF c
<1>3. PICK m \in Nat :
        /\ w \in Nat \ {0} /\ m + 1 <= w
        /\ Over(c[1], m, w) /\ Over(c[2], m + 1, w)
        /\ c[1] \in Normal /\ c[2] \in Normal
        /\ c[1] = Zero \/ T(c[1]) \prec measured
        /\ c[2] = One \/ ~(T(c[2]) \prec measured)
  BY <1>1 DEF Enclosing
<1>4. /\ FitSteps \in Nat \ {0} /\ 2 * m \in 0..FitSteps /\ 2 * m + 2 \in 0..FitSteps
      /\ 0 \in 0..FitSteps /\ FitSteps \in 0..FitSteps
  BY <1>1, <1>3
<1>5. /\ Over(c[1], 2 * m, FitSteps) /\ Over(c[2], 2 * m + 2, FitSteps)
  <2> DEFINE j == m + 1
  <2>1. Over(c[2], j, w) /\ Over(c[1], m, w) /\ j \in Int /\ j * 2 = 2 * m + 2
    BY <1>3
  <2> HIDE DEF j
  <2>2. Valued(c[1], m, w) /\ Valued(c[2], j, w) /\ m \in Int /\ 2 \in Nat \ {0}
    BY <2>1 DEF Over
  <2>3. Over(c[1], m * 2, w * 2) /\ Over(c[2], j * 2, w * 2)
    BY <1>3, <2>1, <2>2, Widened DEF Over
  <2>4. m * 2 = 2 * m /\ w * 2 = FitSteps
    BY <1>1, <1>3
  <2> QED BY <2>1, <2>3, <2>4
<1>6. mid \in Normal /\ Over(mid, 2 * m + 1, FitSteps)
  <2>1. mid \in Normal
    <3>1. c = <<c[1], c[2]>> /\ c[1] \in Finite /\ c[2] \in Finite
      BY <1>2
    <3> QED BY <3>1, MidpointIs
  <2>2. Over(c[1] ++ c[2], m + (m + 1), w)
    BY <1>3, OverPlus
  <2>3. m + (m + 1) = 2 * m + 1
    OBVIOUS
  <2>4. Over(mid, 2 * m + 1, 2 * w)
    BY <2>2, <2>3, OverHalf DEF Midpoint
  <2> QED BY <1>1, <2>1, <2>4
<1>7. near \in Normal /\ Over(near, 1, FitSteps)
  BY <1>4, RatioOver
<1> HIDE DEF mid, near
<1>8. mid ++ near = c[2]
  <2>1. Over(mid ++ near, (2 * m + 1) + 1, FitSteps)
    BY <1>6, <1>7, OverPlus
  <2>2. (2 * m + 1) + 1 = 2 * m + 2
    OBVIOUS
  <2>3. mid ++ near \in Normal
    BY <1>6, <1>7, NormalFinite, NormalPlus
  <2> QED BY <1>3, <1>5, <2>1, <2>2, <2>3, SameValue
<1>9. mid -- near = c[1]
  <2>1. Over(mid -- near, (2 * m + 1) - 1, FitSteps)
    BY <1>6, <1>7, OverMinus
  <2>2. (2 * m + 1) - 1 = 2 * m
    OBVIOUS
  <2>3. mid -- near \in Normal
    <3> DEFINE r == <<-near[1], near[2]>>
    <3>1. mid \in Finite /\ near[1] \in Int /\ near[2] \in Nat \ {0}
      BY <1>6, <1>7, NormalFinite, Parts
    <3>2. r \in Finite
      BY <3>1 DEF Finite
    <3>3. mid -- near = mid ++ r
      BY DEF --
    <3> HIDE DEF r
    <3> QED BY <3>1, <3>2, <3>3, NormalPlus
  <2> QED BY <1>3, <1>5, <2>1, <2>2, <2>3, SameValue
<1>10. c[1] \in Overlaps /\ c[2] \in Overlaps
  BY <1>3, <1>4, <1>5, OnGrid
<1>11. Zero \in Overlaps /\ One \in Overlaps
  <2>1. Over(One, FitSteps, FitSteps) /\ One \in Normal
    BY <1>7, OverUnit, OverOne
  <2>2. Over(Zero, 0, FitSteps) /\ Zero \in Normal
    <3>1. Zero[1] * FitSteps = 0 * Zero[2] /\ 0 \in Int
      BY <1>4, ZeroOne
    <3> QED BY <1>4, <3>1, ZeroOne, ZeroLaws DEF Over, Valued
  <2> DEFINE z == 0
  <2>3. z \in 0..FitSteps /\ Over(Zero, z, FitSteps)
    BY <1>4, <2>2
  <2> HIDE DEF z
  <2> QED BY <1>4, <2>1, <2>2, <2>3, OnGrid
<1>12. \A ov \in Overlaps : at[ov] = T(ov)
  OBVIOUS
<1>13. \A lo, hi \in Overlaps : lo \preceq hi => Rises(T(lo), T(hi))
  BY <1>4, GridShares, MixTpsRises
<1>14. \A ov \in Overlaps : T(ov) \in Rational
  <2> SUFFICES ASSUME NEW ov \in Overlaps PROVE T(ov) \in Rational
    OBVIOUS
  <2>1. ov \in Rational
    BY <1>4, GridShares, Parts DEF Share, NonNegative
  <2>2. Rises(T(ov), T(ov))
    BY <1>13, <2>1, OrderTotal
  <2> HIDE DEF T
  <2> QED BY <2>2, RisesTyped, Parts
<1>15. /\ out.ok <=> T(Zero) \preceq measured /\ measured \preceq T(One)
       /\ out.ok => out.ov = mid
  BY FitIs DEF mid, c
<1> HIDE DEF T, at, out
<1>16. ASSUME NEW lo \in Overlaps, NEW hi \in Overlaps, lo \prec hi PROVE at[lo] \preceq at[hi]
  <2>1. lo \in Rational /\ hi \in Rational
    BY <1>4, GridShares, Parts DEF Share, NonNegative
  <2>2. lo \preceq hi
    BY <1>16, <2>1, OrderTotal DEF \prec
  <2> QED BY <1>12, <1>13, <2>2 DEF Rises
<1>17. out.ok <=> at[Zero] \preceq measured /\ measured \preceq at[One]
  BY <1>11, <1>12, <1>15
<1>18. ASSUME out.ok PROVE at[out.ov -- near] \preceq measured /\ measured \preceq at[out.ov ++ near]
  <2>1. out.ov -- near = c[1] /\ out.ov ++ near = c[2]
    BY <1>8, <1>9, <1>15, <1>18
  <2>2. T(c[1]) \preceq measured
    <3>1. CASE c[1] = Zero
      BY <1>15, <1>18, <3>1
    <3>2. CASE T(c[1]) \prec measured
      <4>1. T(c[1]) \in Rational /\ measured \in Rational
        BY <1>10, <1>14, Parts
      <4> QED BY <3>2, <4>1, OrderTotal DEF \prec
    <3> QED BY <1>3, <3>1, <3>2
  <2>3. measured \preceq T(c[2])
    <3>1. CASE c[2] = One
      BY <1>15, <1>18, <3>1
    <3>2. CASE ~(T(c[2]) \prec measured)
      BY <3>2 DEF \prec
    <3> QED BY <1>3, <3>1, <3>2
  <2> QED BY <1>10, <1>12, <2>1, <2>2, <2>3
<1>19. Explains(out, measured, at)
  BY <1>16, <1>17, <1>18 DEF Explains, near
<1> QED BY <1>19 DEF out, at, T

LEMMA RanExplained ==
  ASSUME NEW driver, NEW in, NEW out, Ran(driver, in, out),
         driver = "overlap" =>
           Explains(out, in.measured, [ov \in Overlaps |-> MixTps(in.classes, in.x, in.s, ov)])
  PROVE  OverlapFitted'
<1> DEFINE Good(c, fit) ==
             Explains(fit, c.measured, [ov \in Overlaps |-> MixTps(c.classes, c.x, c.s, ov)])
<1>1. study'.driver = driver /\ study'.in = in /\ study'.out = out
  BY DEF Ran
<1>2. driver = "overlap" => Good(in, out)
  OBVIOUS
<1> HIDE DEF Good
<1>3. study'.driver = "overlap" => Good(study'.in, study'.out)
  BY <1>1, <1>2
<1> QED BY <1>3 DEF Good, OverlapFitted, Study

LEMMA StudyExplained ==
  ASSUME StudyNext
  PROVE  OverlapFitted'
<1>1. CASE Sweep
  BY <1>1, RanExplained DEF Sweep
<1>2. CASE Optimize
  BY <1>2, RanExplained DEF Optimize
<1>3. CASE Mix
  BY <1>3, RanExplained DEF Mix
<1>4. CASE Offload
  BY <1>4, RanExplained DEF Offload
<1>5. CASE Overlap
  <2>1. PICK c \in Cases.overlap :
          Ran("overlap", c, fit_overlap(c.classes, c.x, c.s, c.measured))
    BY <1>5 DEF Overlap
  <2>2. Explains(fit_overlap(c.classes, c.x, c.s, c.measured), c.measured,
                 [ov \in Overlaps |-> MixTps(c.classes, c.x, c.s, ov)])
    BY OverlapsAreTyped, FitExplains
  <2> QED BY <2>1, <2>2, RanExplained
<1>6. CASE CpuDecode
  BY <1>6, RanExplained DEF CpuDecode
<1>7. CASE Split
  BY <1>7, RanExplained DEF Split
<1>8. CASE Contention
  BY <1>8, RanExplained DEF Contention
<1>9. CASE Ceiling
  BY <1>9, RanExplained DEF Ceiling
<1>10. CASE Deployments
  BY <1>10, RanExplained DEF Deployments
<1>11. CASE Calibration
  BY <1>11, RanExplained DEF Calibration
<1> QED BY <1>1, <1>2, <1>3, <1>4, <1>5, <1>6, <1>7, <1>8, <1>9, <1>10, <1>11 DEF StudyNext

(* The fit of fit_overlap: it reports an overlap exactly if the measured   *)
(* throughput lies in the band of serving_band; the throughputs half a     *)
(* step of the bisection below and above that overlap enclose the measured *)
(* one; and the band is one, for more overlap never costs throughput, even *)
(* though the batch is chosen anew for each.                               *)
THEOREM OverlapIsFitted == ToolsSpec => []OverlapFitted
<1>1. ToolsInit => OverlapFitted
  <2> SUFFICES ASSUME ToolsInit PROVE OverlapFitted
    OBVIOUS
  <2>1. study.driver = "none"
    BY DEF ToolsInit, StudyInit, NoStudy
  <2> QED BY <2>1 DEF OverlapFitted, Study
<1>2. OverlapFitted /\ [ToolsNext]_toolVars => OverlapFitted'
  <2> SUFFICES ASSUME OverlapFitted, [ToolsNext]_toolVars PROVE OverlapFitted'
    OBVIOUS
  <2>1. CASE StudyRuns
    BY <2>1, StudyExplained DEF StudyRuns
  <2>2. CASE UNCHANGED study
    BY <2>2 DEF OverlapFitted, Study
  <2>3. TraceRuns \/ ScenarioRuns \/ UNCHANGED toolVars => UNCHANGED study
    BY DEF TraceRuns, ScenarioRuns, toolVars
  <2> QED BY <2>1, <2>2, <2>3 DEF ToolsNext
<1> QED BY <1>1, <1>2, PTL DEF ToolsSpec

-----------------------------------------------------------------------------
(* The programs together.                                                  *)

(* Whatever the programs of model/ do, all that happens to the trace is a  *)
(* download, its memory and its file: a parse ends it, and load_calls only *)
(* reads.                                                                  *)
THEOREM ToolsDownload == ToolsSpec => Spec
<1>1. ToolsInit => Init
  BY DEF ToolsInit, TraceInit
<1>2. [ToolsNext]_toolVars => [Next]_vars
  <2>1. TraceStep => Next
    BY DEF TraceStep, Next
  <2>2. Analyze => Next
    BY DEF Analyze, Next
  <2>3. LoadCalls \/ StudyRuns \/ ScenarioRuns \/ UNCHANGED toolVars => UNCHANGED vars
    BY DEF LoadCalls, StudyRuns, ScenarioRuns, toolVars, traceVars
  <2> QED BY <2>1, <2>2, <2>3 DEF ToolsNext, TraceRuns, TraceNext
<1> QED BY <1>1, <1>2, PTL DEF ToolsSpec, Spec

(* So no program ever reads a part of the trace as the trace.              *)
THEOREM ToolsReadTheWhole == ToolsSpec => [](TypeOK /\ TraceUsable)
  BY ToolsDownload, TraceTypeCorrect, TraceIsWhole, PTL

(* The calls of the trace lie end to end in every report, whose mean input *)
(* is the documented one, whose percentiles rise and whose fraction that   *)
(* is not cached is that of the means; and the simulators replay calls     *)
(* that lie end to end, or made-up ones: for any server and documented     *)
(* numbers.                                                                *)
THEOREM CallsLieEndToEnd == ToolsSpec => []SegmentsTile
<1>1. ToolsInit => SegmentsTile
  BY DEF ToolsInit, TraceInit, NotYet, SegmentsTile
<1>2. SegmentsTile /\ TypeOK /\ [ToolsNext]_toolVars => SegmentsTile'
  <2> SUFFICES ASSUME SegmentsTile, TypeOK, [ToolsNext]_toolVars PROVE SegmentsTile'
    OBVIOUS
  <2>1. fetch.rows \in Seq(Seq(Nat)) /\ cache.rows \in Seq(Row)
    BY TypedTrace, RowsAreTurns
  <2>2. CASE Analyze
    <3> DEFINE cpt == calibrate_cpt(fetch.rows)
               trials == parse_trials(fetch.rows, cpt)
    <3>1. /\ CallsOf(parse_trials(fetch.rows, One)) # <<>> /\ cpt # Zero
          /\ report' = [is |-> "written", trials |-> trials, stats |-> compute_stats(trials, cpt)]
          /\ sessions' = sessions
      BY <2>2 DEF Analyze
    <3>2. trials \in Seq(Trials) /\ Tallies(compute_stats(trials, cpt))
      BY <2>1, <3>1, TalliesHold
    <3>3. \A j \in DOMAIN trials : EndToEnd(trials[j].calls)
      BY <3>2 DEF Trials
    <3> HIDE DEF cpt, trials
    <3> QED BY <3>1, <3>2, <3>3 DEF SegmentsTile
  <2>3. CASE LoadCalls
    <3>1. PICK bounds \in LoadBounds : /\ sessions' = load_calls(bounds[1], bounds[2])
                                       /\ report' = report
      BY <2>3 DEF LoadCalls, traceVars
    <3>2. bounds[1] \in Nat /\ bounds[2] \in Nat
      BY TraceAssumption
    <3>3. \A j \in DOMAIN sessions' : Replayed(sessions'[j])
      BY <2>1, <3>1, <3>2, SessionsReplay
    <3> QED BY <3>1, <3>3 DEF SegmentsTile
  <2>4. CASE UNCHANGED <<report, sessions>>
    BY <2>4 DEF SegmentsTile
  <2>5. TraceStep \/ StudyRuns \/ ScenarioRuns \/ UNCHANGED toolVars => UNCHANGED <<report, sessions>>
    BY DEF TraceStep, StudyRuns, ScenarioRuns, toolVars, traceVars
  <2> QED BY <2>2, <2>3, <2>4, <2>5 DEF ToolsNext, TraceRuns, TraceNext
<1>3. ToolsSpec => []TypeOK
  BY ToolsReadTheWhole, PTL
<1> QED BY <1>1, <1>2, <1>3, PTL DEF ToolsSpec
=============================================================================
