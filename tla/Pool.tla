-------------------------------- MODULE Pool --------------------------------
(***************************************************************************)
(* One capacity pool of sim/event_sim.py with its clients.  A client asks  *)
(* once, is granted at once or from the queue, and returns what it took.   *)
(* In the simulators a client is a call that holds KV bytes: it asks in    *)
(* _arrive or _admitted and returns the bytes in _finish.  Each action is  *)
(* one call of a method of the pool, with the callbacks it runs.           *)
(***************************************************************************)
EXTENDS PoolOps, FiniteSets, Functions

CONSTANTS Clients,  \* the calls that use the pool
          Cap,      \* its capacity; Sim does not clamp it at 0, so any integer
          Need      \* the bytes of each client

ASSUME PoolAssumption ==
  /\ IsFiniteSet(Clients)
  /\ Cap \in Int
  /\ Need \in [Clients -> Nat]

VARIABLES pool,   \* the object's own state: free bytes and queue
          held    \* the clients whose callback ran and that have not released
vars == <<pool, held>>

Init == pool = EmptyPool(Cap) /\ held = {}

AcquireBy(c) ==
  /\ c \notin held \cup Range(pool.q)
  /\ pool' = Acquire(pool, Need, c)
  /\ held' = IF Fits(pool, Need, c) THEN held \cup {c} ELSE held

ReleaseBy(c) ==
  /\ c \in held
  /\ pool' = Release(pool, Need, Cap, Need[c])
  /\ held' = (held \ {c}) \cup Range(Granted(pool, pool'))

Next == \E c \in Clients : AcquireBy(c) \/ ReleaseBy(c)

Spec == Init /\ [][Next]_vars

-----------------------------------------------------------------------------
(* Type invariant.  The pool is never overdrawn: only a capacity that was  *)
(* negative from the start makes the free bytes negative.                  *)
TypeOK ==
  /\ pool \in [free : Lesser(0, Cap)..Cap, q : Seq(Clients)]
  /\ held \subseteq Clients

(* No byte is lost and none is created by acquire and release: what is     *)
(* free and what is held add up to the capacity, so the pool never hands   *)
(* out more than it has, and the min of release never cuts anything off.   *)
(* This takes for granted that a client returns what it took; that the     *)
(* simulators do, which compute the size anew, is BytesConserved.          *)
Conservation == pool.free = Cap - Cardinality(Bytes(held, Need))

(* A client waits once, and never for bytes it already has.                *)
NobodyWaitsTwice ==
  /\ \A i, j \in DOMAIN pool.q : pool.q[i] = pool.q[j] => i = j
  /\ Range(pool.q) \cap held = {}

(* No lost wake-up: when acquire and release return, the client at the     *)
(* head of the queue really does not fit.                                  *)
HeadBlocked == pool.q # <<>> => ~Fits(pool, Need, Head(pool.q))

(* Among the clients in the queue, grants follow the order of the queue:   *)
(* a client behind the head is never granted before it, so what remains    *)
(* is a suffix of the queue, with at most the newcomer behind it.          *)
QueueOrder ==
  [][\E n \in 0..Len(pool.q) :
        LET rest == SubSeq(pool.q, n + 1, Len(pool.q))
        IN  \/ pool'.q = rest
            \/ \E c \in Clients : pool'.q = Append(rest, c)]_vars

(* "Counting capacity pool with FIFO admission (bytes)", the docstring of  *)
(* the class: a client that waits is not passed by one that asked later.   *)
FifoAdmission ==
  [][\A c \in held' \ (held \cup Range(pool.q)) : pool.q = <<>>]_vars
=============================================================================
