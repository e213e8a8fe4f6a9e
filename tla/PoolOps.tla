------------------------------ MODULE PoolOps ------------------------------
(***************************************************************************)
(* The counting capacity pool of sim/event_sim.py (class Pool), as         *)
(* operators on a value [free, q]: the free bytes and the queue of clients *)
(* that wait for bytes.  Both simulators hold one such pool for the HBM of *)
(* the GPU and one for the DRAM of the CPU.                                *)
(*                                                                         *)
(* need[c] is the number of bytes client c asks for and later returns;     *)
(* bytes are counted in an abstract unit.  The callback `done` of a client *)
(* is left to the module that uses the pool: Granted names the clients     *)
(* whose callbacks a release runs, in the order it runs them.              *)
(***************************************************************************)
EXTENDS Integers, Sequences

Lesser(a, b) == IF a <= b THEN a ELSE b

(* The values a pool can take.                                             *)
Pools(C) == [free : Int, q : Seq(C)]

EmptyPool(cap) == [free |-> cap, q |-> <<>>]

(* The test of acquire: enough bytes are free.  It does not look at the    *)
(* queue, so a small request may pass requests that wait.                  *)
Fits(p, need, c) == p.free >= need[c]

(* acquire: the bytes are taken at once, or the request is queued.         *)
Acquire(p, need, c) ==
  IF Fits(p, need, c) THEN [p EXCEPT !.free = @ - need[c]]
                      ELSE [p EXCEPT !.q = Append(@, c)]

(* Mutants of GrantHead: the head is granted without the test, nobody is   *)
(* granted, and the queue is served from its end.                          *)
GrantAnyHead(p, need) ==
  IF p.q = <<>> THEN p
  ELSE [free |-> p.free - need[Head(p.q)], q |-> Tail(p.q)]

GrantNoHead(p, need) == p

GrantLastFirst(p, need) ==
  IF p.q = <<>> \/ p.free < need[p.q[Len(p.q)]] THEN p
  ELSE [free |-> p.free - need[p.q[Len(p.q)]], q |-> SubSeq(p.q, 1, Len(p.q) - 1)]

(* One turn of the loop of release: the head of the queue is granted if it *)
(* fits; otherwise the loop is over and every later turn changes nothing.  *)
GrantHead(p, need) ==
  IF p.q = <<>> \/ ~Fits(p, need, Head(p.q)) THEN p
  ELSE [free |-> p.free - need[Head(p.q)], q |-> Tail(p.q)]

(* The pool after the first k turns of the loop.                           *)
GrantLoop(p, need) ==
  LET loop[k \in 0..Len(p.q)] == IF k = 0 THEN p ELSE GrantHead(loop[k-1], need)
  IN  loop

(* Mutant of Release: the amount replaces what was free.                   *)
ReleaseOverwrites(p, need, cap, amount) ==
  LET freed == [p EXCEPT !.free = Lesser(cap, amount)]
  IN  GrantLoop(freed, need)[Len(p.q)]

Release(p, need, cap, amount) ==
  LET freed == [p EXCEPT !.free = Lesser(cap, @ + amount)]
  IN  GrantLoop(freed, need)[Len(p.q)]

(* One element for each byte that the clients of S take: its cardinality   *)
(* is the sum of their needs.                                              *)
Bytes(S, need) == UNION {{c} \X (1..need[c]) : c \in S}

(* The clients that left the queue between two states of a pool, in order. *)
Granted(before, after) == SubSeq(before.q, 1, Len(before.q) - Len(after.q))

=============================================================================
