--------------------------- MODULE EventSimProofs ---------------------------
(***************************************************************************)
(* Theorems about the simulator, for any sessions, calls and capacities.   *)
(*                                                                         *)
(* The handlers run loops of callbacks, so the lemmas go from the methods  *)
(* up to the handlers: what each keeps of the type of the simulator, and   *)
(* what it leaves alone of the GPU.                                        *)
(***************************************************************************)
EXTENDS EventSim, OpsProofs

(* What a handler leaves alone that does not use the GPU.                  *)
SameGpu(x, m) ==
  x.gpuBusy = m.gpuBusy /\ x.gpuEvent = m.gpuEvent /\ x.prefillQ = m.prefillQ

(* GpuExclusive of any value of sim.                                       *)
Exclusive(m) ==
  IF m.gpuBusy THEN \E e \in Sessions \cup {Tick} : m.gpuEvent = {e}
               ELSE m.gpuEvent = {}

(* The sizes of the present calls are numbers of bytes.                    *)
LEMMA NeedTypes ==
  ASSUME NEW m \in SimType
  PROVE  HbmNeed(m) \in [Sessions -> Nat] /\ CpuNeed(m) \in [Sessions -> Nat]
<1>1. \A s \in Sessions : Trace[s] \in Seq(CallSizes)
  BY SimAssumption
<1>2. ASSUME NEW s \in Sessions, NEW i \in DOMAIN Trace[s]
      PROVE  Trace[s][i].hbm \in Nat /\ Trace[s][i].cpu \in Nat
  <2>1. Trace[s][i] \in CallSizes
    BY <1>1
  <2> QED BY <2>1 DEF CallSizes
<1> QED BY <1>2 DEF HbmNeed, CpuNeed

(* A job of the link is a load or a flush of a session.                    *)
LEMMA JobTypes ==
  ASSUME NEW s \in Sessions
  PROVE  Load(s) \in LinkJobs /\ Flush(s) \in LinkJobs
  BY DEF Load, Flush, LinkJobs

-----------------------------------------------------------------------------
(* The order on the link: a flush is on the link or queued before the next *)
(* load of its session.                                                    *)
QueuedFirst(q) ==
  \A s \in Sessions : \A i, j \in 1..Len(q) : q[i] = Load(s) /\ q[j] = Flush(s) => j < i

FlushesFirst(l) ==
  /\ IF l.busy THEN \E j \in LinkJobs : l.flying = {j} ELSE l.flying = {} /\ l.q = <<>>
  /\ \A s \in Sessions : Load(s) \in l.flying => Flush(s) \notin Range(l.q)
  /\ QueuedFirst(l.q)

(* _next takes the oldest job.                                             *)
LEMMA NextFlushes ==
  ASSUME NEW l \in Links(LinkJobs), l.flying = {}, QueuedFirst(l.q)
  PROVE  FlushesFirst(NextTransfer(l))
<1>1. CASE l.q = <<>>
  <2>1. /\ NextTransfer(l).busy = FALSE /\ NextTransfer(l).q = l.q
        /\ NextTransfer(l).flying = l.flying
    BY <1>1 DEF NextTransfer, Links
  <2> QED BY <1>1, <2>1 DEF FlushesFirst
<1>2. CASE l.q # <<>>
  <2> DEFINE t == Tail(l.q)
  <2>1. /\ l.q \in Seq(LinkJobs) /\ Len(l.q) \in Nat /\ Len(l.q) >= 1
        /\ Head(l.q) = l.q[1] /\ l.q[1] \in LinkJobs
        /\ Len(t) = Len(l.q) - 1 /\ DOMAIN t = 1..(Len(l.q) - 1)
        /\ \A i \in 1..(Len(l.q) - 1) : t[i] = l.q[i+1]
    BY <1>2, HeadTailProperties DEF Links
  <2>2. /\ NextTransfer(l).busy = TRUE /\ NextTransfer(l).q = t
        /\ NextTransfer(l).flying = {l.q[1]}
    BY <1>2, <2>1 DEF NextTransfer
  <2> HIDE DEF t
  <2>3. \A i \in 1..(Len(l.q) - 1) : i+1 \in 1..Len(l.q) /\ ~(i+1 < 1)
    BY <2>1
  <2>4. 1 \in 1..Len(l.q)
    BY <2>1
  <2>5. ASSUME NEW s \in Sessions, l.q[1] = Load(s) PROVE Flush(s) \notin Range(t)
    <3> SUFFICES ASSUME NEW i \in 1..(Len(l.q) - 1), t[i] = Flush(s) PROVE FALSE
      BY <2>1 DEF Range
    <3>1. l.q[i+1] = Flush(s) /\ i+1 \in 1..Len(l.q) /\ ~(i+1 < 1)
      BY <2>1, <2>3
    <3> QED BY <2>4, <2>5, <3>1 DEF QueuedFirst
  <2>6. QueuedFirst(t)
    <3> SUFFICES ASSUME NEW s \in Sessions, NEW i \in 1..(Len(l.q) - 1),
                        NEW j \in 1..(Len(l.q) - 1), t[i] = Load(s), t[j] = Flush(s)
                 PROVE  j < i
      BY <2>1 DEF QueuedFirst
    <3>1. /\ l.q[i+1] = Load(s) /\ i+1 \in 1..Len(l.q)
          /\ l.q[j+1] = Flush(s) /\ j+1 \in 1..Len(l.q)
      BY <2>1, <2>3
    <3>2. j+1 < i+1
      BY <3>1 DEF QueuedFirst
    <3> QED BY <3>2
  <2> QED BY <2>1, <2>2, <2>5, <2>6 DEF FlushesFirst
<1> QED BY <1>1, <1>2

(* transfer of a load keeps the order, and so does transfer of a flush     *)
(* whose session has no load under way.                                    *)
LEMMA TransferFlushes ==
  ASSUME NEW l \in Links(LinkJobs), FlushesFirst(l), NEW job \in LinkJobs,
         \A s \in Sessions : job = Flush(s) => Load(s) \notin Jobs(l)
  PROVE  FlushesFirst(Transfer(l, job))
<1> DEFINE x == [l EXCEPT !.q = Append(@, job)]
<1>1. /\ l.q \in Seq(LinkJobs) /\ Len(l.q) \in Nat /\ DOMAIN l.q = 1..Len(l.q)
      /\ Append(l.q, job) \in Seq(LinkJobs)
      /\ Len(Append(l.q, job)) = Len(l.q) + 1
      /\ DOMAIN Append(l.q, job) = 1..(Len(l.q) + 1)
      /\ \A i \in 1..Len(l.q) : Append(l.q, job)[i] = l.q[i]
      /\ Append(l.q, job)[Len(l.q) + 1] = job
  BY DEF Links
<1>2. /\ x \in Links(LinkJobs) /\ x.q = Append(l.q, job) /\ x.flying = l.flying
      /\ x.busy = l.busy
  BY <1>1 DEF Links
<1>3. Transfer(l, job) = IF l.busy THEN x ELSE NextTransfer(x)
  BY DEF Transfer
<1> HIDE DEF x
<1>4. \A k \in 1..(Len(l.q) + 1) : k \in 1..Len(l.q) \/ k = Len(l.q) + 1
  BY <1>1
<1>5. QueuedFirst(x.q)
  <2> SUFFICES ASSUME NEW s \in Sessions, NEW i \in 1..(Len(l.q) + 1),
                      NEW j \in 1..(Len(l.q) + 1), x.q[i] = Load(s), x.q[j] = Flush(s)
               PROVE  j < i
    BY <1>1, <1>2 DEF QueuedFirst
  <2>1. Load(s) # Flush(s)
    BY DEF Load, Flush
  <2>2. CASE j \in 1..Len(l.q)
    <3>1. CASE i \in 1..Len(l.q)
      BY <1>1, <1>2, <2>2, <3>1 DEF FlushesFirst, QueuedFirst
    <3>2. CASE i = Len(l.q) + 1
      BY <1>1, <2>2, <3>2
    <3> QED BY <1>4, <3>1, <3>2
  <2>3. CASE j = Len(l.q) + 1
    <3>1. job = Flush(s) /\ Load(s) \notin Range(l.q)
      BY <1>1, <1>2, <2>3 DEF Jobs
    <3>2. i \in 1..Len(l.q)
      BY <1>1, <1>2, <1>4, <2>1, <3>1
    <3> QED BY <1>1, <1>2, <3>1, <3>2 DEF Range
  <2> QED BY <1>4, <2>2, <2>3
<1>6. ASSUME NEW s \in Sessions, Load(s) \in x.flying PROVE Flush(s) \notin Range(x.q)
  <2>1. Flush(s) \notin Range(l.q) /\ job # Flush(s)
    BY <1>2, <1>6 DEF FlushesFirst, Jobs
  <2>2. \A i \in 1..Len(l.q) : l.q[i] # Flush(s)
    BY <1>1, <2>1 DEF Range
  <2>3. \A i \in 1..(Len(l.q) + 1) : x.q[i] # Flush(s)
    BY <1>1, <1>2, <1>4, <2>1, <2>2
  <2> QED BY <1>1, <1>2, <2>3 DEF Range
<1>7. CASE l.busy
  BY <1>2, <1>3, <1>5, <1>6, <1>7 DEF FlushesFirst
<1>8. CASE ~l.busy
  <2>1. x.flying = {}
    BY <1>2, <1>8 DEF FlushesFirst
  <2> QED BY <1>2, <1>3, <1>5, <1>8, <2>1, NextFlushes
<1> QED BY <1>7, <1>8

(* _fin keeps the order.                                                   *)
LEMMA FinFlushes ==
  ASSUME NEW l \in Links(LinkJobs), FlushesFirst(l), NEW job, job \in l.flying
  PROVE  FlushesFirst(Fin(l, job))
<1> DEFINE x == [l EXCEPT !.flying = @ \ {job}]
<1>1. x \in Links(LinkJobs) /\ x.q = l.q /\ x.flying = l.flying \ {job}
  BY DEF Links
<1>2. Fin(l, job) = NextTransfer(x)
  BY DEF Fin
<1> HIDE DEF x
<1>3. x.flying = {} /\ QueuedFirst(x.q)
  BY <1>1 DEF FlushesFirst
<1> QED BY <1>1, <1>2, <1>3, NextFlushes

(* A method that queues loads and no flush.                                *)
LoadsOnly(x, m) ==
  /\ FlushesFirst(m.c2c) => FlushesFirst(x.c2c)
  /\ \A s \in Sessions : Flush(s) \in Jobs(x.c2c) => Flush(s) \in Jobs(m.c2c)

(* What the admission and the end of a call leave alone.                   *)
Untouched(m) == {x \in SimType : SameGpu(x, m) /\ LoadsOnly(x, m)}

-----------------------------------------------------------------------------
(* _old_kv_load queues a transfer and touches nothing else.                *)
LEMMA OldKvLoadEffect ==
  ASSUME NEW m \in SimType, NEW s \in Sessions
  PROVE  /\ OldKvLoad(m, s) \in Untouched(m)
         /\ OldKvLoad(m, s).decoding = m.decoding
<1> DEFINE l == Transfer(m.c2c, Load(s))
           x == OldKvLoad(m, s)
<1>1. m.c2c \in Links(LinkJobs) /\ Load(s) \in LinkJobs
  BY JobTypes DEF SimType
<1>2. l \in Links(LinkJobs) /\ Jobs(l) = Jobs(m.c2c) \cup {Load(s)}
  <2>1. Once(m.c2c, {})
    BY DEF Once
  <2> QED BY <1>1, <2>1, TransferJobs
<1>3. \A t \in Sessions : Flush(t) # Load(s)
  BY DEF Load, Flush
<1>4. FlushesFirst(m.c2c) => FlushesFirst(l)
  BY <1>1, <1>3, TransferFlushes
<1>5. x = [m EXCEPT !.c2c = l]
  BY DEF OldKvLoad, SimType
<1> HIDE DEF l, x
<1>6. x \in SimType /\ x.c2c = l /\ SameGpu(x, m) /\ x.decoding = m.decoding
  BY <1>2, <1>5 DEF SameGpu, SimType
<1>7. LoadsOnly(x, m)
  BY <1>2, <1>3, <1>4, <1>6 DEF LoadsOnly
<1> QED BY <1>6, <1>7 DEF Untouched, x

(* _admitted, with or without waiting for the CPU, leaves the GPU alone.   *)
LEMMA AdmittedEffect ==
  ASSUME NEW m \in SimType, NEW s \in Sessions
  PROVE  /\ Admitted(m, s) \in Untouched(m)
         /\ Admitted(m, s).decoding = m.decoding
<1> DEFINE top == IF m.resident + 1 > m.peak THEN m.resident + 1 ELSE m.peak
           pool == Acquire(m.cpu, CpuNeed(m), s)
           counted == [m EXCEPT !.resident = @ + 1,
                                !.peak = IF m.resident + 1 > @ THEN m.resident + 1 ELSE @,
                                !.cpu = Acquire(@, CpuNeed(m), s)]
<1>1. top \in Int /\ m.resident + 1 \in Int
  BY DEF SimType
<1>2. pool \in Pools(Sessions)
  BY NeedTypes, AcquireType DEF SimType
<1>3. counted = [m EXCEPT !.resident = m.resident + 1, !.peak = top, !.cpu = pool]
  BY DEF SimType
<1>4. /\ counted \in Untouched(m)
      /\ counted.decoding = m.decoding
  <2> HIDE DEF top, pool, counted
  <2>1. /\ counted \in SimType /\ SameGpu(counted, m) /\ counted.c2c = m.c2c
        /\ counted.decoding = m.decoding
    BY <1>1, <1>2, <1>3 DEF SameGpu, SimType
  <2> QED BY <2>1 DEF Untouched, LoadsOnly
<1>5. Admitted(m, s) = IF Fits(m.cpu, CpuNeed(m), s) THEN OldKvLoad(counted, s) ELSE counted
  BY DEF Admitted
<1> HIDE DEF counted
<1>6. /\ OldKvLoad(counted, s) \in Untouched(counted)
      /\ OldKvLoad(counted, s).decoding = counted.decoding
  BY <1>4, OldKvLoadEffect DEF Untouched
<1>7. OldKvLoad(counted, s) \in Untouched(m)
  BY <1>4, <1>6 DEF Untouched, SameGpu, LoadsOnly
<1> QED BY <1>4, <1>5, <1>6, <1>7

(* The callbacks of a release of HBM, one by one; each leaves the GPU      *)
(* alone.                                                                  *)
LEMMA AdmitLoopDef ==
  ASSUME NEW m \in SimType, NEW clients \in Seq(Sessions),
         NEW n, n = Len(clients), NEW L, L = AdmitLoop(m, clients)
  PROVE  /\ L[0] = m
         /\ \A k \in 1..n : L[k] = Admitted(L[k-1], clients[k])
         /\ \A k \in 0..n : L[k] \in Untouched(m)
<1> DEFINE D == Untouched(m)
           G == [y \in D \X (1..n) |-> Admitted(y[1], clients[y[2]])]
<1>1. n \in Nat /\ m \in D /\ \A k \in 1..n : clients[k] \in Sessions
  BY DEF Untouched, SameGpu, LoadsOnly
<1>2. ASSUME NEW x \in D, NEW k \in 1..n PROVE Admitted(x, clients[k]) \in D
  <2>1. x \in SimType /\ clients[k] \in Sessions
    BY <1>1 DEF Untouched
  <2>2. Admitted(x, clients[k]) \in Untouched(x)
    BY <2>1, AdmittedEffect
  <2> QED BY <2>2 DEF Untouched, SameGpu, LoadsOnly
<1>3. \A x \in D, k \in 1..n : G[<<x, k>>] = Admitted(x, clients[k])
  OBVIOUS
<1>4. m \in D /\ n \in Nat /\ \A x \in D, k \in 1..n : G[<<x, k>>] \in D
  BY <1>1, <1>2, <1>3
<1> HIDE DEF G, D
<1>5. PICK f : LoopIn(f, D, m, n, G)
  BY <1>4, LoopExists
<1>6. ASSUME NEW k \in 1..n PROVE G[<<f[k-1], k>>] = Admitted(f[k-1], clients[k])
  <2>1. k - 1 \in 0..n
    BY <1>1
  <2> QED BY <1>3, <1>5, <2>1 DEF LoopIn
<1>7. f = [k \in 0..n |-> IF k = 0 THEN m ELSE Admitted(f[k-1], clients[k])]
  <2>1. \A k \in 0..n : k # 0 => k \in 1..n
    BY <1>1
  <2> QED BY <1>5, <1>6, <2>1 DEF LoopIn
<1>8. L = [k \in 0..n |-> IF k = 0 THEN m ELSE Admitted(L[k-1], clients[k])]
  BY <1>7 DEF AdmitLoop
<1>9. L[0] = m /\ \A k \in 1..n : L[k] = Admitted(L[k-1], clients[k])
  BY <1>1, <1>8
<1>10. \A k \in 0..n : L[k] \in D
  <2>1. ASSUME NEW k \in 0..n PROVE L[k] \in D
    <3>1. k \in Nat /\ L[0] \in D /\ \A i \in 1..k : L[i-1] \in D => L[i] \in D
      BY <1>1, <1>2, <1>9
    <3> QED BY <3>1, LoopStays
  <2> QED BY <2>1
<1> QED BY <1>9, <1>10 DEF D

(* So do all of them together.                                             *)
LEMMA AdmitAllEffect ==
  ASSUME NEW m \in SimType, NEW clients \in Seq(Sessions)
  PROVE  AdmitAll(m, clients) \in Untouched(m)
  BY AdmitLoopDef DEF AdmitAll

(* The callbacks of a release of the CPU store likewise.                   *)
LEMMA LoadLoopDef ==
  ASSUME NEW m \in SimType, NEW clients \in Seq(Sessions),
         NEW n, n = Len(clients), NEW L, L = LoadLoop(m, clients)
  PROVE  /\ L[0] = m
         /\ \A k \in 1..n : L[k] = OldKvLoad(L[k-1], clients[k])
         /\ \A k \in 0..n : L[k] \in Untouched(m)
<1> DEFINE D == Untouched(m)
           G == [y \in D \X (1..n) |-> OldKvLoad(y[1], clients[y[2]])]
<1>1. n \in Nat /\ m \in D /\ \A k \in 1..n : clients[k] \in Sessions
  BY DEF Untouched, SameGpu, LoadsOnly
<1>2. ASSUME NEW x \in D, NEW k \in 1..n PROVE OldKvLoad(x, clients[k]) \in D
  <2>1. x \in SimType /\ clients[k] \in Sessions
    BY <1>1 DEF Untouched
  <2>2. OldKvLoad(x, clients[k]) \in Untouched(x)
    BY <2>1, OldKvLoadEffect
  <2> QED BY <2>2 DEF Untouched, SameGpu, LoadsOnly
<1>3. \A x \in D, k \in 1..n : G[<<x, k>>] = OldKvLoad(x, clients[k])
  OBVIOUS
<1>4. m \in D /\ n \in Nat /\ \A x \in D, k \in 1..n : G[<<x, k>>] \in D
  BY <1>1, <1>2, <1>3
<1> HIDE DEF G, D
<1>5. PICK f : LoopIn(f, D, m, n, G)
  BY <1>4, LoopExists
<1>6. ASSUME NEW k \in 1..n PROVE G[<<f[k-1], k>>] = OldKvLoad(f[k-1], clients[k])
  <2>1. k - 1 \in 0..n
    BY <1>1
  <2> QED BY <1>3, <1>5, <2>1 DEF LoopIn
<1>7. f = [k \in 0..n |-> IF k = 0 THEN m ELSE OldKvLoad(f[k-1], clients[k])]
  <2>1. \A k \in 0..n : k # 0 => k \in 1..n
    BY <1>1
  <2> QED BY <1>5, <1>6, <2>1 DEF LoopIn
<1>8. L = [k \in 0..n |-> IF k = 0 THEN m ELSE OldKvLoad(L[k-1], clients[k])]
  BY <1>7 DEF LoadLoop
<1>9. L[0] = m /\ \A k \in 1..n : L[k] = OldKvLoad(L[k-1], clients[k])
  BY <1>1, <1>8
<1>10. \A k \in 0..n : L[k] \in D
  <2>1. ASSUME NEW k \in 0..n PROVE L[k] \in D
    <3>1. k \in Nat /\ L[0] \in D /\ \A i \in 1..k : L[i-1] \in D => L[i] \in D
      BY <1>1, <1>2, <1>9
    <3> QED BY <3>1, LoopStays
  <2> QED BY <2>1
<1> QED BY <1>9, <1>10 DEF D

(* All of them together.                                                   *)
LEMMA LoadAllEffect ==
  ASSUME NEW m \in SimType, NEW clients \in Seq(Sessions)
  PROVE  LoadAll(m, clients) \in Untouched(m)
  BY LoadLoopDef DEF LoadAll

(* A release of HBM, with the admissions it causes.                        *)
LEMMA ReleaseHbmEffect ==
  ASSUME NEW m \in SimType, NEW s \in Sessions
  PROVE  ReleaseHbm(m, s) \in Untouched(m)
<1> DEFINE pool == Release(m.hbm, HbmNeed(m), HbmCap, HbmNeed(m)[s])
           x == [m EXCEPT !.hbm = pool]
<1>1. HbmNeed(m) \in [Sessions -> Nat]
  BY NeedTypes
<1>2. pool \in Pools(Sessions)
  <2>1. HbmNeed(m)[s] \in Int
    BY <1>1
  <2>2. m.hbm \in Pools(Sessions) /\ HbmCap \in Int
    BY SimAssumption DEF SimType
  <2> QED BY <1>1, <2>1, <2>2, ReleaseType
<1>3. Granted(m.hbm, pool) \in Seq(Sessions)
  BY <1>2, GrantedType DEF SimType
<1> HIDE DEF pool
<1>4. x \in SimType /\ SameGpu(x, m) /\ x.c2c = m.c2c
  BY <1>2 DEF SimType, SameGpu
<1> HIDE DEF x
<1>5. AdmitAll(x, Granted(m.hbm, pool)) \in Untouched(x)
  BY <1>3, <1>4, AdmitAllEffect
<1> QED BY <1>4, <1>5 DEF ReleaseHbm, pool, x, Untouched, SameGpu, LoadsOnly

(* A release of the CPU store, with the loads it causes.                   *)
LEMMA ReleaseCpuEffect ==
  ASSUME NEW m \in SimType, NEW s \in Sessions
  PROVE  ReleaseCpu(m, s) \in Untouched(m)
<1> DEFINE pool == Release(m.cpu, CpuNeed(m), CpuCap, CpuNeed(m)[s])
           x == [m EXCEPT !.cpu = pool]
<1>1. CpuNeed(m) \in [Sessions -> Nat]
  BY NeedTypes
<1>2. pool \in Pools(Sessions)
  <2>1. CpuNeed(m)[s] \in Int
    BY <1>1
  <2>2. m.cpu \in Pools(Sessions) /\ CpuCap \in Int
    BY SimAssumption DEF SimType
  <2> QED BY <1>1, <2>1, <2>2, ReleaseType
<1>3. Granted(m.cpu, pool) \in Seq(Sessions)
  BY <1>2, GrantedType DEF SimType
<1> HIDE DEF pool
<1>4. x \in SimType /\ SameGpu(x, m) /\ x.c2c = m.c2c
  BY <1>2 DEF SimType, SameGpu
<1> HIDE DEF x
<1>5. LoadAll(x, Granted(m.cpu, pool)) \in Untouched(x)
  BY <1>3, <1>4, LoadAllEffect
<1> QED BY <1>4, <1>5 DEF ReleaseCpu, pool, x, Untouched, SameGpu, LoadsOnly

(* _finish gives its bytes back and launches the next call of the session; *)
(* the GPU, which its caller is still using, is not touched.               *)
LEMMA FinishEffect ==
  ASSUME NEW m \in SimType, NEW s \in Sessions
  PROVE  Finish(m, s) \in Untouched(m)
<1> DEFINE released == ReleaseCpu(ReleaseHbm(m, s), s)
           next == m.idx[s] + 1
           launched == IF next <= Len(Trace[s]) THEN released.arrivals \cup {<<s, next>>}
                                                ELSE released.arrivals
<1>1. released \in SimType /\ SameGpu(released, m) /\ LoadsOnly(released, m)
  BY ReleaseHbmEffect, ReleaseCpuEffect DEF Untouched, SameGpu, LoadsOnly
<1> HIDE DEF released
<1>2. released.finished[s] + 1 \in Nat /\ released.resident - 1 \in Int
  BY <1>1 DEF SimType
<1>3. next \in Nat \ {0}
  BY DEF SimType
<1>4. launched \subseteq Sessions \X (Nat \ {0})
  BY <1>1, <1>3 DEF SimType
<1>5. Finish(m, s) = [released EXCEPT !.resident = @ - 1,
                                      !.finished[s] = @ + 1,
                                      !.arrivals = launched]
  BY DEF Finish, released
<1> HIDE DEF launched
<1>6. [released.finished EXCEPT ![s] = @ + 1] \in [Sessions -> Nat]
  BY <1>1, <1>2 DEF SimType
<1> DEFINE x == Finish(m, s)
<1> HIDE DEF x
<1>7. x \in SimType /\ SameGpu(x, released) /\ x.c2c = released.c2c
  BY <1>1, <1>2, <1>4, <1>5, <1>6 DEF SameGpu, SimType, x
<1> QED BY <1>1, <1>7 DEF Untouched, SameGpu, LoadsOnly, x

-----------------------------------------------------------------------------
(* _pump_gpu leaves a busy GPU as it is; an idle one it sets to one task,  *)
(* the oldest prefill if there is any and otherwise a step of the batch.   *)
LEMMA PumpGpuEffect ==
  ASSUME NEW m \in SimType, Exclusive(m)
  PROVE  /\ PumpGpu(m) \in SimType
         /\ Exclusive(PumpGpu(m))
         /\ PumpGpu(m).decoding = m.decoding
         /\ m.gpuBusy => PumpGpu(m) = m
         /\ Tick \in PumpGpu(m).gpuEvent /\ ~m.gpuBusy => PumpGpu(m).prefillQ = <<>>
<1>1. CASE m.gpuBusy
  BY <1>1 DEF PumpGpu
<1>2. CASE ~m.gpuBusy /\ m.prefillQ # <<>>
  <2>1. Head(m.prefillQ) \in Sessions /\ Tail(m.prefillQ) \in Seq(Sessions)
    BY <1>2, HeadTailProperties DEF SimType
  <2>2. m.gpuEvent \cup {Head(m.prefillQ)} = {Head(m.prefillQ)}
    BY <1>2 DEF Exclusive
  <2>3. PumpGpu(m) = [m EXCEPT !.gpuBusy = TRUE, !.prefillQ = Tail(m.prefillQ),
                               !.gpuEvent = {Head(m.prefillQ)}]
    BY <1>2, <2>2 DEF PumpGpu, SimType
  <2>4. Tick # Head(m.prefillQ)
    BY <2>1, SimAssumption
  <2>5. PumpGpu(m) \in SimType
    <3>1. {Head(m.prefillQ)} \in SUBSET (Sessions \cup {Tick}) /\ TRUE \in BOOLEAN
      BY <2>1
    <3> DEFINE h == {Head(m.prefillQ)}
               rest == Tail(m.prefillQ)
    <3>2. h \in SUBSET (Sessions \cup {Tick}) /\ rest \in Seq(Sessions)
      BY <2>1, <3>1
    <3>3. PumpGpu(m) = [m EXCEPT !.gpuBusy = TRUE, !.prefillQ = rest, !.gpuEvent = h]
      BY <2>3
    <3> HIDE DEF h, rest
    <3> QED BY <3>2, <3>3 DEF SimType
  <2>6. /\ PumpGpu(m).gpuBusy /\ PumpGpu(m).gpuEvent = {Head(m.prefillQ)}
        /\ PumpGpu(m).decoding = m.decoding
    BY <2>3 DEF SimType
  <2>7. Exclusive(PumpGpu(m))
    BY <2>1, <2>6 DEF Exclusive
  <2> QED BY <1>2, <2>4, <2>5, <2>6, <2>7
<1>3. CASE ~m.gpuBusy /\ m.prefillQ = <<>> /\ m.decoding # <<>>
  <2>1. m.gpuEvent \cup {Tick} = {Tick}
    BY <1>3 DEF Exclusive
  <2>2. PumpGpu(m) = [m EXCEPT !.gpuBusy = TRUE, !.gpuEvent = {Tick}]
    BY <1>3, <2>1 DEF PumpGpu, DecodeStep, SimType
  <2> QED BY <1>3, <2>2 DEF Exclusive, SimType
<1>4. CASE ~m.gpuBusy /\ m.prefillQ = <<>> /\ m.decoding = <<>>
  BY <1>4 DEF PumpGpu, Exclusive
<1> QED BY <1>1, <1>2, <1>3, <1>4

(* _ready_prefill keeps the GPU exclusive and the batch as it is, and does *)
(* not start a step of the batch.                                          *)
LEMMA ReadyPrefillEffect ==
  ASSUME NEW m \in SimType, Exclusive(m), NEW s \in Sessions
  PROVE  /\ ReadyPrefill(m, s) \in SimType
         /\ Exclusive(ReadyPrefill(m, s))
         /\ ReadyPrefill(m, s).decoding = m.decoding
         /\ Tick \in ReadyPrefill(m, s).gpuEvent => Tick \in m.gpuEvent
<1> DEFINE x == [m EXCEPT !.prefillQ = Append(@, s)]
<1>1. Append(m.prefillQ, s) \in Seq(Sessions) /\ Append(m.prefillQ, s) # <<>>
  <2>1. m.prefillQ \in Seq(Sessions)
    BY DEF SimType
  <2> QED BY <2>1, AppendProperties
<1>2. /\ x \in SimType /\ x.gpuBusy = m.gpuBusy /\ x.gpuEvent = m.gpuEvent
      /\ x.decoding = m.decoding /\ x.prefillQ = Append(m.prefillQ, s)
  BY <1>1 DEF SimType
<1>3. Exclusive(x)
  BY <1>2 DEF Exclusive
<1>4. ReadyPrefill(m, s) = PumpGpu(x)
  BY DEF ReadyPrefill
<1> HIDE DEF x
<1>5. /\ PumpGpu(x) \in SimType /\ Exclusive(PumpGpu(x))
      /\ PumpGpu(x).decoding = x.decoding
      /\ x.gpuBusy => PumpGpu(x) = x
  BY <1>2, <1>3, PumpGpuEffect
<1>6. ~x.gpuBusy => Tick \notin PumpGpu(x).gpuEvent
  <2> SUFFICES ASSUME ~x.gpuBusy PROVE Tick \notin PumpGpu(x).gpuEvent
    OBVIOUS
  <2>1. x.gpuEvent = {}
    BY <1>3 DEF Exclusive
  <2>2. Head(x.prefillQ) \in Sessions
    BY <1>1, <1>2, HeadTailProperties
  <2>3. PumpGpu(x).gpuEvent = {Head(x.prefillQ)}
    BY <1>1, <1>2, <2>1 DEF PumpGpu, SimType
  <2> QED BY <2>2, <2>3, SimAssumption
<1> QED BY <1>2, <1>4, <1>5, <1>6

-----------------------------------------------------------------------------
(* list.remove leaves a list of sessions.                                  *)
LEMMA WithoutType ==
  ASSUME NEW q \in Seq(Sessions), NEW s
  PROVE  Without(q, s) \in Seq(Sessions)
<1>1. CASE s \notin Range(q)
  BY <1>1 DEF Without
<1>2. CASE s \in Range(q)
  <2> DEFINE i == CHOOSE j \in DOMAIN q : q[j] = s
  <2>1. i \in DOMAIN q
    BY <1>2 DEF Range
  <2>2. Without(q, s) = RemoveAt(q, i)
    BY <1>2 DEF Without, RemoveAt
  <2> HIDE DEF i
  <2> QED BY <2>1, <2>2, RemoveAtType
<1> QED BY <1>1, <1>2

(* The loop of _decode_tick takes calls off the batch and finishes them,   *)
(* with every callback that causes, without waking the GPU in between.     *)
LEMMA FinishLoopDef ==
  ASSUME NEW m \in SimType, NEW batch \in Seq(Sessions),
         NEW n, n = Len(batch), NEW L, L = FinishLoop(m, batch)
  PROVE  /\ L[0] = m
         /\ \A k \in 1..n :
              L[k] = IF m.left[batch[k]] > 0 THEN L[k-1]
                     ELSE Finish([L[k-1] EXCEPT !.decoding = Without(@, batch[k])], batch[k])
         /\ \A k \in 0..n : L[k] \in Untouched(m)
<1> DEFINE D == Untouched(m)
           Gone(x, k) == [x EXCEPT !.decoding = Without(@, batch[k])]
           Turn(x, k) == IF m.left[batch[k]] > 0 THEN x ELSE Finish(Gone(x, k), batch[k])
           G == [y \in D \X (1..n) |-> Turn(y[1], y[2])]
<1>1. n \in Nat /\ m \in D /\ \A k \in 1..n : batch[k] \in Sessions
  BY DEF Untouched, SameGpu, LoadsOnly
<1>2. ASSUME NEW x \in D, NEW k \in 1..n PROVE Turn(x, k) \in D
  <2>1. x \in SimType /\ SameGpu(x, m) /\ LoadsOnly(x, m) /\ batch[k] \in Sessions
    BY <1>1 DEF Untouched
  <2>2. Without(x.decoding, batch[k]) \in Seq(Sessions)
    BY <2>1, WithoutType DEF SimType
  <2>3. Gone(x, k) \in SimType /\ SameGpu(Gone(x, k), m) /\ Gone(x, k).c2c = x.c2c
    BY <2>1, <2>2 DEF SimType, SameGpu
  <2> HIDE DEF Gone
  <2>4. Finish(Gone(x, k), batch[k]) \in Untouched(Gone(x, k))
    BY <2>1, <2>3, FinishEffect
  <2>5. Finish(Gone(x, k), batch[k]) \in D
    BY <2>1, <2>3, <2>4 DEF Untouched, SameGpu, LoadsOnly
  <2> QED BY <2>1, <2>5 DEF Untouched
<1>3. \A x \in D, k \in 1..n : G[<<x, k>>] = Turn(x, k)
  <2> HIDE DEF Turn, D
  <2> QED OBVIOUS
<1>4. m \in D /\ n \in Nat /\ \A x \in D, k \in 1..n : G[<<x, k>>] \in D
  BY <1>1, <1>2, <1>3
<1> HIDE DEF G, D, Turn
<1>5. PICK f : LoopIn(f, D, m, n, G)
  BY <1>4, LoopExists
<1>6. ASSUME NEW k \in 1..n PROVE G[<<f[k-1], k>>] = Turn(f[k-1], k)
  <2>1. k - 1 \in 0..n
    BY <1>1
  <2> QED BY <1>3, <1>5, <2>1 DEF LoopIn
<1>7. f = [k \in 0..n |-> IF k = 0 THEN m ELSE Turn(f[k-1], k)]
  <2>1. \A k \in 0..n : k # 0 => k \in 1..n
    BY <1>1
  <2> QED BY <1>5, <1>6, <2>1 DEF LoopIn
<1>8. L = [k \in 0..n |-> IF k = 0 THEN m ELSE Turn(L[k-1], k)]
  BY <1>7 DEF FinishLoop, Turn
<1>9. L[0] = m /\ \A k \in 1..n : L[k] = Turn(L[k-1], k)
  BY <1>1, <1>8
<1>10. \A k \in 0..n : L[k] \in D
  <2>1. ASSUME NEW k \in 0..n PROVE L[k] \in D
    <3>1. k \in Nat /\ L[0] \in D /\ \A i \in 1..k : L[i-1] \in D => L[i] \in D
      BY <1>1, <1>2, <1>9
    <3> QED BY <3>1, LoopStays
  <2> QED BY <2>1
<1> QED BY <1>9, <1>10 DEF D, Turn

LEMMA FinishLoopEffect ==
  ASSUME NEW m \in SimType, NEW batch \in Seq(Sessions)
  PROVE  FinishLoop(m, batch)[Len(batch)] \in Untouched(m)
  BY FinishLoopDef

-----------------------------------------------------------------------------
(* The handler of an arrival leaves the GPU and its batch alone.           *)
LEMMA ArriveEffect ==
  ASSUME NEW m \in SimType, NEW s \in Sessions, NEW i \in Nat \ {0}
  PROVE  /\ ArriveHandler(m, s, i) \in Untouched(m)
         /\ ArriveHandler(m, s, i).decoding = m.decoding
<1>1. CASE i > Len(Trace[s])
  BY <1>1 DEF ArriveHandler, Untouched, SameGpu, LoadsOnly
<1>2. CASE ~(i > Len(Trace[s]))
  <2> DEFINE call == [m EXCEPT !.idx[s] = i, !.left[s] = Trace[s][i].output]
             pool == Acquire(m.hbm, HbmNeed(call), s)
             asked == [call EXCEPT !.hbm = Acquire(@, HbmNeed(call), s)]
  <2>1. Trace[s][i].output \in Int
    <3>1. Trace[s] \in Seq(CallSizes)
      BY SimAssumption
    <3>2. i \in 1..Len(Trace[s])
      BY <1>2, <3>1
    <3>3. Trace[s][i] \in CallSizes
      BY <3>1, <3>2
    <3> QED BY <3>3 DEF CallSizes
  <2>2. [m.idx EXCEPT ![s] = i] \in [Sessions -> Nat \ {0}]
        /\ [m.left EXCEPT ![s] = Trace[s][i].output] \in [Sessions -> Int]
    BY <2>1 DEF SimType
  <2>3. call \in SimType /\ SameGpu(call, m) /\ call.decoding = m.decoding
        /\ call.hbm = m.hbm /\ call.c2c = m.c2c
    BY <2>2 DEF SimType, SameGpu
  <2> HIDE DEF call
  <2>4. pool \in Pools(Sessions)
    <3>1. HbmNeed(call) \in [Sessions -> Nat] /\ m.hbm \in Pools(Sessions)
      BY <2>3, NeedTypes DEF SimType
    <3> QED BY <3>1, AcquireType
  <2>5. asked = [call EXCEPT !.hbm = pool]
    BY <2>3 DEF SimType
  <2> HIDE DEF pool, asked
  <2>6. /\ asked \in SimType /\ SameGpu(asked, m) /\ asked.decoding = m.decoding
        /\ asked.c2c = m.c2c
    BY <2>3, <2>4, <2>5 DEF SimType, SameGpu
  <2>7. /\ Admitted(asked, s) \in Untouched(m)
        /\ Admitted(asked, s).decoding = m.decoding
    BY <2>6, AdmittedEffect DEF Untouched, SameGpu, LoadsOnly
  <2>8. ArriveHandler(m, s, i)
          = IF Fits(m.hbm, HbmNeed(call), s) THEN Admitted(asked, s) ELSE asked
    BY <1>2 DEF ArriveHandler, call, asked
  <2> QED BY <2>6, <2>7, <2>8 DEF Untouched, LoadsOnly
<1> QED BY <1>1, <1>2

(* The end of a transfer keeps the GPU exclusive and the batch as it is,   *)
(* and does not start a step of the batch.                                 *)
LEMMA C2CFinEffect ==
  ASSUME NEW m \in SimType, Exclusive(m), NEW job \in LinkJobs
  PROVE  /\ C2CFinHandler(m, job) \in SimType
         /\ Exclusive(C2CFinHandler(m, job))
         /\ C2CFinHandler(m, job).decoding = m.decoding
         /\ Tick \in C2CFinHandler(m, job).gpuEvent => Tick \in m.gpuEvent
<1> DEFINE called == IF job[1] = "load" THEN ReadyPrefill(m, job[2]) ELSE m
           link == Fin(called.c2c, job)
<1>1. job[2] \in Sessions
  BY DEF LinkJobs
<1>2. /\ called \in SimType
      /\ Exclusive(called)
      /\ called.decoding = m.decoding
      /\ Tick \in called.gpuEvent => Tick \in m.gpuEvent
  <2>1. /\ ReadyPrefill(m, job[2]) \in SimType
        /\ Exclusive(ReadyPrefill(m, job[2]))
        /\ ReadyPrefill(m, job[2]).decoding = m.decoding
        /\ Tick \in ReadyPrefill(m, job[2]).gpuEvent => Tick \in m.gpuEvent
    BY <1>1, ReadyPrefillEffect
  <2> QED BY <2>1
<1> HIDE DEF called
<1>3. link \in Links(LinkJobs)
  BY <1>2, FinType DEF SimType
<1>4. C2CFinHandler(m, job) = [called EXCEPT !.c2c = link]
  BY <1>2 DEF C2CFinHandler, called, SimType
<1> HIDE DEF link
<1>5. /\ [called EXCEPT !.c2c = link] \in SimType
      /\ [called EXCEPT !.c2c = link].gpuBusy = called.gpuBusy
      /\ [called EXCEPT !.c2c = link].gpuEvent = called.gpuEvent
      /\ [called EXCEPT !.c2c = link].decoding = called.decoding
  BY <1>2, <1>3 DEF SimType
<1>6. Exclusive([called EXCEPT !.c2c = link])
  BY <1>2, <1>5 DEF Exclusive
<1> QED BY <1>2, <1>4, <1>5, <1>6

(* The end of a prefill wakes the GPU, which again does one thing.         *)
LEMMA PrefillDoneEffect ==
  ASSUME NEW m \in SimType, m.gpuEvent = {}, NEW s \in Sessions
  PROVE  /\ PrefillDoneHandler(m, s) \in SimType
         /\ Exclusive(PrefillDoneHandler(m, s))
         /\ Tick \in PrefillDoneHandler(m, s).gpuEvent
              => PrefillDoneHandler(m, s).prefillQ = <<>>
<1> DEFINE x == [m EXCEPT !.gpuBusy = FALSE,
                          !.c2c = Transfer(@, Flush(s)),
                          !.decoding = Append(@, s)]
<1>1. Transfer(m.c2c, Flush(s)) \in Links(LinkJobs)
  BY JobTypes, TransferType DEF SimType
<1>2. Append(m.decoding, s) \in Seq(Sessions)
  BY DEF SimType
<1>3. x \in SimType /\ x.gpuBusy = FALSE /\ x.gpuEvent = {}
  BY <1>1, <1>2 DEF SimType
<1>4. PrefillDoneHandler(m, s) = PumpGpu(x)
  BY DEF PrefillDoneHandler
<1> HIDE DEF x
<1>5. Exclusive(x)
  BY <1>3 DEF Exclusive
<1> QED BY <1>3, <1>4, <1>5, PumpGpuEffect

(* So does a step of the batch, after the calls that are done left it.     *)
LEMMA DecodeTickEffect ==
  ASSUME NEW m \in SimType, m.gpuEvent = {}
  PROVE  /\ DecodeTickHandler(m) \in SimType
         /\ Exclusive(DecodeTickHandler(m))
         /\ Tick \in DecodeTickHandler(m).gpuEvent
              => DecodeTickHandler(m).prefillQ = <<>>
<1> DEFINE left == [s \in Sessions |->
                      IF s \in Range(m.decoding) THEN m.left[s] - 1 ELSE m.left[s]]
           stepped == [m EXCEPT !.left = left]
           sifted == FinishLoop(stepped, m.decoding)[Len(m.decoding)]
           x == [sifted EXCEPT !.gpuBusy = FALSE]
<1>1. left \in [Sessions -> Int]
  BY DEF SimType
<1>2. DecodeTickHandler(m) = PumpGpu(x)
  BY DEF DecodeTickHandler, SimType
<1> HIDE DEF left
<1>3. stepped \in SimType /\ SameGpu(stepped, m) /\ m.decoding \in Seq(Sessions)
  BY <1>1 DEF SimType, SameGpu
<1> HIDE DEF stepped
<1>4. sifted \in SimType /\ SameGpu(sifted, m)
  BY <1>3, FinishLoopEffect DEF Untouched, SameGpu
<1> HIDE DEF sifted
<1>5. x \in SimType /\ x.gpuBusy = FALSE /\ x.gpuEvent = {}
  BY <1>4 DEF SimType, SameGpu
<1> HIDE DEF x
<1>6. Exclusive(x)
  BY <1>5 DEF Exclusive
<1> QED BY <1>2, <1>5, <1>6, PumpGpuEffect

-----------------------------------------------------------------------------
(* The inductive invariant.  The type alone is not enough: that no handler *)
(* starts a second task rests on gpu_busy telling the truth.               *)
IInv == TypeOK /\ Exclusive(sim)

(* In a state with an exclusive GPU a pending event is the only one.       *)
LEMMA OnlyEvent ==
  ASSUME IInv, NEW e, e \in sim.gpuEvent
  PROVE  sim.gpuEvent = {e}
  BY DEF IInv, Exclusive

(* The simulator starts typed and idle.                                    *)
LEMMA InitHolds == Init => IInv
<1> SUFFICES ASSUME Init PROVE IInv
  OBVIOUS
<1>1. EmptyPool(HbmCap) \in Pools(Sessions) /\ EmptyPool(CpuCap) \in Pools(Sessions)
  BY SimAssumption DEF EmptyPool, Pools
<1>2. IdleLink \in Links(LinkJobs)
  BY DEF IdleLink, Links
<1>3. InitialSim \in SimType
  <2>1. {<<s, 1>> : s \in Sessions} \in SUBSET (Sessions \X (Nat \ {0}))
    OBVIOUS
  <2> QED BY <1>1, <1>2, <2>1 DEF InitialSim, SimType
<1>4. Exclusive(InitialSim)
  BY DEF Exclusive, InitialSim
<1> QED BY <1>3, <1>4 DEF Init, IInv, TypeOK

(* An arrival.                                                             *)
LEMMA ArriveStep ==
  ASSUME IInv, NEW s \in Sessions, Arrive(s)
  PROVE  /\ IInv'
         /\ sim'.decoding = sim.decoding
         /\ Tick \in sim'.gpuEvent => Tick \in sim.gpuEvent
<1>1. PICK i \in 1..(Len(Trace[s]) + 1) :
        sim' = ArriveHandler([sim EXCEPT !.arrivals = @ \ {<<s, i>>}], s, i)
  BY DEF Arrive
<1> DEFINE x == [sim EXCEPT !.arrivals = @ \ {<<s, i>>}]
<1>2. x \in SimType /\ SameGpu(x, sim) /\ x.decoding = sim.decoding
  BY DEF IInv, TypeOK, SimType, SameGpu
<1>3. i \in Nat \ {0} /\ sim' = ArriveHandler(x, s, i)
  BY <1>1
<1> HIDE DEF x
<1>4. sim' \in Untouched(x) /\ sim'.decoding = x.decoding
  BY <1>2, <1>3, ArriveEffect
<1>5. sim' \in SimType /\ SameGpu(sim', sim)
  BY <1>2, <1>4 DEF Untouched, SameGpu
<1>6. Exclusive(sim')
  BY <1>5 DEF Exclusive, SameGpu, IInv
<1> QED BY <1>2, <1>4, <1>5, <1>6 DEF IInv, TypeOK, SameGpu

(* The end of a transfer.                                                  *)
LEMMA C2CFinStep ==
  ASSUME IInv, NEW job \in LinkJobs, C2CFin(job)
  PROVE  /\ IInv'
         /\ sim'.decoding = sim.decoding
         /\ Tick \in sim'.gpuEvent => Tick \in sim.gpuEvent
<1>1. sim \in SimType /\ Exclusive(sim) /\ sim' = C2CFinHandler(sim, job)
  BY DEF IInv, TypeOK, C2CFin
<1> QED BY <1>1, C2CFinEffect DEF IInv, TypeOK

(* The end of a prefill.                                                   *)
LEMMA PrefillDoneStep ==
  ASSUME IInv, NEW s \in Sessions, PrefillDone(s)
  PROVE  /\ IInv'
         /\ Tick \notin sim.gpuEvent
         /\ Tick \in sim'.gpuEvent => sim'.prefillQ = <<>>
<1> DEFINE x == [sim EXCEPT !.gpuEvent = @ \ {s}]
<1>1. sim.gpuEvent = {s} /\ sim' = PrefillDoneHandler(x, s)
  BY OnlyEvent DEF PrefillDone
<1>2. x \in SimType /\ x.gpuEvent = {}
  BY <1>1 DEF IInv, TypeOK, SimType
<1> HIDE DEF x
<1>3. Tick # s
  BY SimAssumption
<1> QED BY <1>1, <1>2, <1>3, PrefillDoneEffect DEF IInv, TypeOK

(* The end of a step of the batch.                                         *)
LEMMA DecodeTickStep ==
  ASSUME IInv, DecodeTick
  PROVE  /\ IInv'
         /\ Tick \in sim'.gpuEvent => sim'.prefillQ = <<>>
<1> DEFINE x == [sim EXCEPT !.gpuEvent = @ \ {Tick}]
<1>1. sim.gpuEvent = {Tick} /\ sim' = DecodeTickHandler(x)
  BY OnlyEvent DEF DecodeTick
<1>2. x \in SimType /\ x.gpuEvent = {}
  BY <1>1 DEF IInv, TypeOK, SimType
<1> HIDE DEF x
<1> QED BY <1>1, <1>2, DecodeTickEffect DEF IInv, TypeOK

(* Every turn of the event loop keeps the invariant.                       *)
LEMMA StepKeeps ==
  ASSUME IInv, [Next]_sim
  PROVE  IInv'
<1>1. ASSUME NEW s \in Sessions, Arrive(s) PROVE IInv'
  BY <1>1, ArriveStep
<1>2. ASSUME NEW s \in Sessions, PrefillDone(s) PROVE IInv'
  BY <1>2, PrefillDoneStep
<1>3. ASSUME NEW job \in LinkJobs, C2CFin(job) PROVE IInv'
  BY <1>3, C2CFinStep
<1>4. CASE DecodeTick
  BY <1>4, DecodeTickStep
<1>5. CASE UNCHANGED sim
  BY <1>5 DEF IInv, TypeOK, Exclusive
<1> QED BY <1>1, <1>2, <1>3, <1>4, <1>5 DEF Next

(* The simulator is always typed.                                          *)
THEOREM SimTypeCorrect == Spec => []TypeOK
<1>1. IInv => TypeOK
  BY DEF IInv
<1> QED BY InitHolds, StepKeeps, <1>1, PTL DEF Spec

(* The GPU has one pending end of a task when gpu_busy is set and none     *)
(* when it is not, through every re-entrant call of _pump_gpu.             *)
THEOREM OneTaskOnTheGpu == Spec => []GpuExclusive
<1>1. IInv => GpuExclusive
  BY DEF IInv, Exclusive, GpuExclusive
<1> QED BY InitHolds, StepKeeps, <1>1, PTL DEF Spec

(* While a step of the batch is under way nobody joins or leaves the batch *)
(* that _pump_gpu priced: only the end of the step changes it.             *)
THEOREM BatchIsFrozen == Spec => BatchFrozen
<1>1. ASSUME IInv, [Next]_sim
      PROVE  [(Tick \in sim.gpuEvent /\ ~DecodeTick) => sim'.decoding = sim.decoding]_sim
  <2> SUFFICES ASSUME Next, Tick \in sim.gpuEvent, ~DecodeTick
               PROVE  sim'.decoding = sim.decoding
    BY <1>1
  <2>1. ASSUME NEW s \in Sessions, Arrive(s) PROVE sim'.decoding = sim.decoding
    BY <1>1, <2>1, ArriveStep
  <2>2. ASSUME NEW s \in Sessions, PrefillDone(s) PROVE FALSE
    BY <1>1, <2>2, PrefillDoneStep
  <2>3. ASSUME NEW job \in LinkJobs, C2CFin(job) PROVE sim'.decoding = sim.decoding
    BY <1>1, <2>3, C2CFinStep
  <2> QED BY <2>1, <2>2, <2>3 DEF Next
<1> QED BY InitHolds, StepKeeps, <1>1, PTL DEF Spec, BatchFrozen

(* A step of the batch is started only when no prefill waits, whichever    *)
(* handler starts it.                                                      *)
THEOREM PrefillGoesFirst == Spec => PrefillFirst
<1>1. ASSUME IInv, [Next]_sim
      PROVE  [(Tick \in sim'.gpuEvent /\ (Tick \notin sim.gpuEvent \/ DecodeTick))
                 => sim'.prefillQ = <<>>]_sim
  <2> SUFFICES ASSUME Next, Tick \in sim'.gpuEvent, Tick \notin sim.gpuEvent \/ DecodeTick
               PROVE  sim'.prefillQ = <<>>
    BY <1>1
  <2>1. ASSUME NEW s \in Sessions, Arrive(s) PROVE Tick \in sim.gpuEvent
    BY <1>1, <2>1, ArriveStep
  <2>2. ASSUME NEW s \in Sessions, PrefillDone(s) PROVE sim'.prefillQ = <<>>
    BY <1>1, <2>2, PrefillDoneStep
  <2>3. ASSUME NEW job \in LinkJobs, C2CFin(job) PROVE Tick \in sim.gpuEvent
    BY <1>1, <2>3, C2CFinStep
  <2>4. ASSUME DecodeTick PROVE sim'.prefillQ = <<>>
    BY <1>1, <2>4, DecodeTickStep
  <2> QED BY <2>1, <2>2, <2>3, <2>4 DEF Next
<1> QED BY InitHolds, StepKeeps, <1>1, PTL DEF Spec, PrefillFirst

-----------------------------------------------------------------------------
(***************************************************************************)
(* Where the sessions are.  The theorems on bytes, places and wake-ups     *)
(* rest on one fact: there is a function w that gives each session one     *)
(* stage, and the pools, queues, events and counters are those of w.       *)
(* Between two events a session is in one of the first eight stages; the   *)
(* others are passed inside a handler.                                     *)
(***************************************************************************)
Resting == {"arriving", "hbm queue", "cpu queue", "loading", "prefill queue",
            "prefilling", "decoding", "done"}
Passing == {"out",      \* called, but it has not asked for HBM
            "granted",  \* HBM is taken, its callback has not run
            "held",     \* both kinds of bytes are taken, and it is in no queue
            "spent",    \* in the batch, without tokens left
            "leaving",  \* taken off the batch
            "half",     \* HBM is returned, the CPU store is not
            "counted"}  \* both are returned, the counter still counts it
Stages == Resting \cup Passing

(* The stages of a session that each part of the simulator knows of.       *)
ToArrive  == {"arriving"}
WaitHbm   == {"hbm queue"}
HasHbm    == {"granted", "cpu queue", "held", "loading", "prefill queue", "prefilling",
              "decoding", "spent", "leaving"}
WaitCpu   == {"cpu queue"}
HasCpu    == {"held", "loading", "prefill queue", "prefilling", "decoding", "spent",
              "leaving", "half"}
OnLink    == {"loading"}
WaitGpu   == {"prefill queue"}
OnGpu     == {"prefilling"}
InBatch   == {"decoding", "spent"}
IsCounted == {"cpu queue", "held", "loading", "prefill queue", "prefilling", "decoding",
              "spent", "leaving", "half", "counted"}
Fresh     == {"out", "hbm queue", "granted", "cpu queue", "held", "loading",
              "prefill queue", "prefilling"}

LoadJobs == {Load(s) : s \in Sessions}
LinkAt(l, w) ==
  /\ Once(l, LoadJobs) /\ Rested(l)
  /\ \A s \in Sessions : Load(s) \in Jobs(l) <=> w[s] = "loading"

ArrivalsAt(arrivals, w) ==
  /\ \A e, f \in arrivals : e[1] = f[1] => e = f
  /\ \A s \in Sessions : w[s] = "arriving" <=> \E e \in arrivals : e[1] = s

(* How far a session is: its completed calls, its present call, its tokens *)
(* when the call is new and when it is in the batch.                       *)
ProgressOf(s, stage, idx, left, finished, arrivals) ==
  /\ stage = "arriving" => /\ <<s, finished + 1>> \in arrivals
                           /\ \/ finished = 0 /\ idx = 1
                              \/ finished = idx /\ finished < Len(Trace[s])
  /\ stage = "done" => finished = Len(Trace[s])
  /\ stage \notin {"arriving", "done"} => finished = idx - 1 /\ idx <= Len(Trace[s])
  /\ stage \in Fresh => left = Trace[s][idx].output
  /\ stage = "decoding" => left > 0 \/ left = Trace[s][idx].output

Placed(m, w) ==
  /\ w \in [Sessions -> Stages]
  /\ ArrivalsAt(m.arrivals, w)
  /\ PoolAt(Sessions, m.hbm, w, WaitHbm, HasHbm, HbmNeed(m), HbmCap)
  /\ PoolAt(Sessions, m.cpu, w, WaitCpu, HasCpu, CpuNeed(m), CpuCap)
  /\ LinkAt(m.c2c, w)
  /\ QueueAt(Sessions, m.prefillQ, w, WaitGpu)
  /\ m.gpuEvent \ {Tick} = In(Sessions, w, OnGpu)
  /\ QueueAt(Sessions, m.decoding, w, InBatch)
  /\ m.resident = Cardinality(In(Sessions, w, IsCounted))
  /\ \A s \in Sessions :
       ProgressOf(s, w[s], m.idx[s], m.left[s], m.finished[s], m.arrivals)

(* One session moves.                                                      *)
OneMoves(w, v, s, b) ==
  /\ v \in [Sessions -> Stages] /\ v[s] = b
  /\ \A t \in Sessions : t # s => v[t] = w[t]

LEMMA Moved ==
  ASSUME NEW w \in [Sessions -> Stages], NEW s \in Sessions, NEW b \in Stages
  PROVE  OneMoves(w, [w EXCEPT ![s] = b], s, b)
  BY DEF OneMoves

LEMMA SessionsFinite == IsFiniteSet(Sessions)
  BY SimAssumption

(* The sizes of the calls depend on which calls they are and nothing else. *)
LEMMA SameNeeds ==
  ASSUME NEW m, NEW x, x.idx = m.idx
  PROVE  HbmNeed(x) = HbmNeed(m) /\ CpuNeed(x) = CpuNeed(m)
  BY DEF HbmNeed, CpuNeed

(* What stays true of the parts of the simulator that a handler leaves     *)
(* alone while sessions move between stages that are alike for these parts.*)
LEMMA KeptParts ==
  ASSUME NEW m, NEW w, Placed(m, w), NEW x, NEW v
  PROVE  /\ x.arrivals = m.arrivals /\ Alike(Sessions, w, v, ToArrive)
              => ArrivalsAt(x.arrivals, v)
         /\ x.c2c = m.c2c /\ Alike(Sessions, w, v, OnLink)
              => LinkAt(x.c2c, v)
         /\ x.prefillQ = m.prefillQ /\ Alike(Sessions, w, v, WaitGpu)
              => QueueAt(Sessions, x.prefillQ, v, WaitGpu)
         /\ x.gpuEvent \ {Tick} = m.gpuEvent \ {Tick} /\ Alike(Sessions, w, v, OnGpu)
              => x.gpuEvent \ {Tick} = In(Sessions, v, OnGpu)
         /\ x.decoding = m.decoding /\ Alike(Sessions, w, v, InBatch)
              => QueueAt(Sessions, x.decoding, v, InBatch)
         /\ x.resident = m.resident /\ Alike(Sessions, w, v, IsCounted)
              => x.resident = Cardinality(In(Sessions, v, IsCounted))
<1>1. \A S : Alike(Sessions, w, v, S) => In(Sessions, v, S) = In(Sessions, w, S)
  BY SameIn
<1>2. ASSUME x.arrivals = m.arrivals, Alike(Sessions, w, v, ToArrive)
      PROVE  ArrivalsAt(x.arrivals, v)
  <2>1. \A t \in Sessions : v[t] = "arriving" <=> w[t] = "arriving"
    BY <1>2 DEF Alike, ToArrive
  <2> QED BY <1>2, <2>1 DEF Placed, ArrivalsAt, ToArrive
<1>3. ASSUME x.c2c = m.c2c, Alike(Sessions, w, v, OnLink)
      PROVE  LinkAt(x.c2c, v)
  <2>1. \A t \in Sessions : v[t] = "loading" <=> w[t] = "loading"
    BY <1>3 DEF Alike, OnLink
  <2> QED BY <1>3, <2>1 DEF Placed, LinkAt
<1>4. /\ x.prefillQ = m.prefillQ /\ Alike(Sessions, w, v, WaitGpu)
           => QueueAt(Sessions, x.prefillQ, v, WaitGpu)
      /\ x.gpuEvent \ {Tick} = m.gpuEvent \ {Tick} /\ Alike(Sessions, w, v, OnGpu)
           => x.gpuEvent \ {Tick} = In(Sessions, v, OnGpu)
      /\ x.decoding = m.decoding /\ Alike(Sessions, w, v, InBatch)
           => QueueAt(Sessions, x.decoding, v, InBatch)
      /\ x.resident = m.resident /\ Alike(Sessions, w, v, IsCounted)
           => x.resident = Cardinality(In(Sessions, v, IsCounted))
  BY <1>1 DEF Placed, QueueAt
<1> QED BY <1>2, <1>3, <1>4

LEMMA Kept ==
  ASSUME NEW m, NEW w, Placed(m, w), NEW x, x.idx = m.idx, NEW v
  PROVE  /\ x.hbm = m.hbm /\ Alike(Sessions, w, v, WaitHbm) /\ Alike(Sessions, w, v, HasHbm)
              => PoolAt(Sessions, x.hbm, v, WaitHbm, HasHbm, HbmNeed(x), HbmCap)
         /\ x.cpu = m.cpu /\ Alike(Sessions, w, v, WaitCpu) /\ Alike(Sessions, w, v, HasCpu)
              => PoolAt(Sessions, x.cpu, v, WaitCpu, HasCpu, CpuNeed(x), CpuCap)
         /\ x.arrivals = m.arrivals /\ x.left = m.left /\ x.finished = m.finished
              => \A t \in Sessions : v[t] = w[t] =>
                   ProgressOf(t, v[t], x.idx[t], x.left[t], x.finished[t], x.arrivals)
<1>1. HbmNeed(x) = HbmNeed(m) /\ CpuNeed(x) = CpuNeed(m)
  BY SameNeeds
<1>2. \A S : Alike(Sessions, w, v, S) => In(Sessions, v, S) = In(Sessions, w, S)
  BY SameIn
<1>3. ASSUME x.arrivals = m.arrivals, x.left = m.left, x.finished = m.finished,
             NEW t \in Sessions, v[t] = w[t]
      PROVE  ProgressOf(t, v[t], x.idx[t], x.left[t], x.finished[t], x.arrivals)
  BY <1>3 DEF Placed
<1>4. /\ x.hbm = m.hbm /\ Alike(Sessions, w, v, WaitHbm) /\ Alike(Sessions, w, v, HasHbm)
           => PoolAt(Sessions, x.hbm, v, WaitHbm, HasHbm, HbmNeed(x), HbmCap)
      /\ x.cpu = m.cpu /\ Alike(Sessions, w, v, WaitCpu) /\ Alike(Sessions, w, v, HasCpu)
           => PoolAt(Sessions, x.cpu, v, WaitCpu, HasCpu, CpuNeed(x), CpuCap)
  BY <1>1, <1>2 DEF Placed, PoolAt
<1> QED BY <1>3, <1>4

-----------------------------------------------------------------------------
(* _old_kv_load of a session that holds its bytes.                         *)
LEMMA LoadPlaces ==
  ASSUME NEW m \in SimType, NEW w, Placed(m, w), NEW s \in Sessions, w[s] = "held"
  PROVE  Placed(OldKvLoad(m, s), [w EXCEPT ![s] = "loading"])
<1> DEFINE x == OldKvLoad(m, s)
           v == [w EXCEPT ![s] = "loading"]
<1>1. /\ x.hbm = m.hbm /\ x.cpu = m.cpu /\ x.c2c = Transfer(m.c2c, Load(s))
      /\ x.prefillQ = m.prefillQ /\ x.decoding = m.decoding /\ x.arrivals = m.arrivals
      /\ x.gpuEvent = m.gpuEvent /\ x.idx = m.idx /\ x.left = m.left
      /\ x.finished = m.finished /\ x.resident = m.resident
  BY DEF OldKvLoad, SimType
<1> HIDE DEF x
<1>2. OneMoves(w, v, s, "loading")
  BY Moved DEF Placed, Stages, Resting
<1> HIDE DEF v
<1>3. \A S \in {ToArrive, WaitHbm, WaitCpu, HasHbm, HasCpu, IsCounted,
                WaitGpu, OnGpu, InBatch} :
        Alike(Sessions, w, v, S)
  BY <1>2
  DEF OneMoves, Alike, ToArrive, WaitHbm, HasHbm, WaitCpu, HasCpu, OnLink, WaitGpu, OnGpu, InBatch, IsCounted
<1>4. LinkAt(x.c2c, v)
  <2>1. /\ Load(s) \in LinkJobs /\ Load(s) \notin Jobs(m.c2c) /\ m.c2c \in Links(LinkJobs)
        /\ Once(m.c2c, LoadJobs)
    BY JobTypes DEF Placed, LinkAt, SimType
  <2>2. Once(x.c2c, LoadJobs) /\ Rested(x.c2c) /\ Jobs(x.c2c) = Jobs(m.c2c) \cup {Load(s)}
    BY <1>1, <2>1, TransferJobs
  <2>3. \A t \in Sessions : Load(t) = Load(s) <=> t = s
    BY DEF Load
  <2> QED BY <1>2, <2>2, <2>3 DEF Placed, LinkAt, OneMoves
<1>5. ProgressOf(s, v[s], x.idx[s], x.left[s], x.finished[s], x.arrivals)
  <2>1. ProgressOf(s, "held", m.idx[s], m.left[s], m.finished[s], m.arrivals)
    BY DEF Placed
  <2> QED BY <1>1, <1>2, <2>1 DEF ProgressOf, Fresh, OneMoves
<1> QED BY <1>1, <1>2, <1>3, <1>4, <1>5, Kept, KeptParts DEF Placed, OneMoves, x, v

(* _admitted of a session that holds HBM: it is counted, and it waits for  *)
(* the CPU store or loads its old KV.                                      *)
Counted(m, s) == [m EXCEPT !.resident = @ + 1,
                           !.peak = IF m.resident + 1 > @ THEN m.resident + 1 ELSE @,
                           !.cpu = Acquire(@, CpuNeed(m), s)]

LEMMA CountedPlaces ==
  ASSUME NEW m \in SimType, NEW w, Placed(m, w), NEW s \in Sessions, w[s] = "granted"
  PROVE  /\ Counted(m, s) \in SimType
         /\ Placed(Counted(m, s),
                   [w EXCEPT ![s] = IF Fits(m.cpu, CpuNeed(m), s) THEN "held"
                                                                  ELSE "cpu queue"])
<1> DEFINE x == Counted(m, s)
           b == IF Fits(m.cpu, CpuNeed(m), s) THEN "held" ELSE "cpu queue"
           v == [w EXCEPT ![s] = b]
           top == IF m.resident + 1 > m.peak THEN m.resident + 1 ELSE m.peak
           pool == Acquire(m.cpu, CpuNeed(m), s)
<1>1. top \in Int /\ m.resident + 1 \in Int
  BY DEF SimType
<1>2. pool \in Pools(Sessions)
  BY NeedTypes, AcquireType DEF SimType
<1>3. x = [m EXCEPT !.resident = m.resident + 1, !.peak = top, !.cpu = pool]
  BY DEF SimType, Counted
<1> HIDE DEF top, pool, x
<1>4. /\ x \in SimType
      /\ x.hbm = m.hbm /\ x.cpu = pool /\ x.c2c = m.c2c
      /\ x.prefillQ = m.prefillQ /\ x.decoding = m.decoding /\ x.arrivals = m.arrivals
      /\ x.gpuEvent = m.gpuEvent /\ x.idx = m.idx /\ x.left = m.left
      /\ x.finished = m.finished /\ x.resident = m.resident + 1
  BY <1>1, <1>2, <1>3 DEF SimType
<1>5. OneMoves(w, v, s, b)
  BY Moved DEF Placed, Stages, Resting, Passing
<1>6. /\ Fits(m.cpu, CpuNeed(m), s) => b = "held"
      /\ ~Fits(m.cpu, CpuNeed(m), s) => b = "cpu queue"
  OBVIOUS
<1> HIDE DEF v, b
<1>7. /\ \A S \in {ToArrive, WaitHbm, HasHbm, OnLink,
                   WaitGpu, OnGpu, InBatch} :
           Alike(Sessions, w, v, S)
      /\ w[s] \notin HasCpu /\ w[s] \notin IsCounted /\ w[s] \notin WaitCpu
      /\ v[s] \in IsCounted
  BY <1>5, <1>6
  DEF OneMoves, Alike, ToArrive, WaitHbm, HasHbm, WaitCpu, HasCpu, OnLink, WaitGpu, OnGpu, InBatch, IsCounted
<1>8. x.resident = Cardinality(In(Sessions, v, IsCounted))
  <2>1. /\ In(Sessions, v, IsCounted) = In(Sessions, w, IsCounted) \cup {s}
        /\ s \notin In(Sessions, w, IsCounted)
    BY <1>5, <1>7, JoinsIn DEF OneMoves
  <2>2. Cardinality(In(Sessions, w, IsCounted) \cup {s})
          = Cardinality(In(Sessions, w, IsCounted)) + 1
    BY <2>1, InFinite, SessionsFinite
  <2> QED BY <1>4, <2>1, <2>2 DEF Placed
<1>9. PoolAt(Sessions, x.cpu, v, WaitCpu, HasCpu, CpuNeed(x), CpuCap)
  <2>1. CpuNeed(x) = CpuNeed(m) /\ CpuNeed(m) \in [Sessions -> Nat]
    BY <1>4, SameNeeds, NeedTypes
  <2>2. /\ CpuCap \in Int /\ PoolAt(Sessions, m.cpu, w, WaitCpu, HasCpu, CpuNeed(m), CpuCap)
        /\ x.cpu = Acquire(m.cpu, CpuNeed(m), s)
    BY <1>4, SimAssumption DEF Placed, pool
  <2>3. /\ w[s] \notin WaitCpu /\ w[s] \notin HasCpu
        /\ Fits(m.cpu, CpuNeed(m), s) => v[s] \in HasCpu /\ v[s] \notin WaitCpu
        /\ ~Fits(m.cpu, CpuNeed(m), s) => v[s] \in WaitCpu /\ v[s] \notin HasCpu
    BY <1>5, <1>6 DEF OneMoves, HasCpu, WaitCpu
  <2>4. \A t \in Sessions : t # s => v[t] = w[t]
    BY <1>5 DEF OneMoves
  <2> HIDE DEF pool
  <2>5. PoolAt(Sessions, x.cpu, v, WaitCpu, HasCpu, CpuNeed(m), CpuCap)
    BY <2>1, <2>2, <2>3, <2>4, AcquireAt, SessionsFinite
  <2> QED BY <2>1, <2>5
<1>10. ProgressOf(s, v[s], x.idx[s], x.left[s], x.finished[s], x.arrivals)
  <2>1. ProgressOf(s, "granted", m.idx[s], m.left[s], m.finished[s], m.arrivals)
    BY DEF Placed
  <2>2. v[s] = "held" \/ v[s] = "cpu queue"
    BY <1>5, <1>6 DEF OneMoves
  <2> QED BY <1>4, <2>1, <2>2 DEF ProgressOf, Fresh
<1> QED BY <1>4, <1>5, <1>7, <1>8, <1>9, <1>10, Kept, KeptParts DEF Placed, OneMoves, x, v, b

(* What the admission of calls leaves alone of the sessions.               *)
SameCalls(x, m) ==
  /\ x.idx = m.idx /\ x.left = m.left /\ x.finished = m.finished
  /\ x.arrivals = m.arrivals /\ x.decoding = m.decoding

LEMMA AdmittedCalls ==
  ASSUME NEW m \in SimType, NEW s \in Sessions
  PROVE  /\ SameCalls(OldKvLoad(m, s), m)
         /\ SameCalls(Counted(m, s), m)
         /\ Admitted(m, s) = IF Fits(m.cpu, CpuNeed(m), s) THEN OldKvLoad(Counted(m, s), s)
                                                           ELSE Counted(m, s)
<1>1. SameCalls(OldKvLoad(m, s), m)
  BY DEF OldKvLoad, SameCalls, SimType
<1>2. SameCalls(Counted(m, s), m)
  BY DEF Counted, SameCalls, SimType
<1> QED BY <1>1, <1>2 DEF Admitted, Counted

LEMMA AdmittedPlaces ==
  ASSUME NEW m \in SimType, NEW w, Placed(m, w), NEW s \in Sessions, w[s] = "granted"
  PROVE  /\ SameCalls(Admitted(m, s), m)
         /\ \E b \in {"cpu queue", "loading"} : Placed(Admitted(m, s), [w EXCEPT ![s] = b])
<1> DEFINE x == Counted(m, s)
<1>1. w \in [Sessions -> Stages] /\ "held" \in Stages
  BY DEF Placed, Stages, Resting, Passing
<1>2. CASE Fits(m.cpu, CpuNeed(m), s)
  <2> DEFINE u == [w EXCEPT ![s] = "held"]
  <2>1. x \in SimType /\ Placed(x, u) /\ u[s] = "held"
    BY <1>1, <1>2, CountedPlaces
  <2>2. [u EXCEPT ![s] = "loading"] = [w EXCEPT ![s] = "loading"]
    BY <1>1
  <2>3. SameCalls(x, m) /\ SameCalls(OldKvLoad(x, s), x) /\ Admitted(m, s) = OldKvLoad(x, s)
    BY <1>2, <2>1, AdmittedCalls
  <2> HIDE DEF x, u
  <2>4. Placed(OldKvLoad(x, s), [u EXCEPT ![s] = "loading"])
    BY <2>1, LoadPlaces
  <2> QED BY <2>2, <2>3, <2>4 DEF SameCalls
<1>3. CASE ~Fits(m.cpu, CpuNeed(m), s)
  <2>1. Placed(x, [w EXCEPT ![s] = "cpu queue"])
    BY <1>3, CountedPlaces
  <2>2. SameCalls(x, m) /\ Admitted(m, s) = x
    BY <1>3, AdmittedCalls
  <2> HIDE DEF x
  <2> QED BY <2>1, <2>2
<1> QED BY <1>2, <1>3

(* A loop of callbacks that each take one session from the stage `from` to *)
(* one of the stages `into` takes all of them there.                       *)
Taken(w, v, moved, into) ==
  /\ v \in [Sessions -> Stages]
  /\ \A t \in moved : v[t] \in into
  /\ \A t \in Sessions : t \notin moved => v[t] = w[t]

LoopTakes(L, n, clients, from, into) ==
  \A k \in 1..n : \A u : Placed(L[k-1], u) /\ u[clients[k]] = from =>
     /\ SameCalls(L[k], L[k-1])
     /\ \E b \in into : Placed(L[k], [u EXCEPT ![clients[k]] = b])

LEMMA LoopPlaces ==
  ASSUME NEW m, NEW w, Placed(m, w), NEW from, NEW into, into \subseteq Stages,
         NEW clients \in Seq(Sessions), Distinct(clients),
         NEW n, n = Len(clients),
         \A i \in 1..n : w[clients[i]] = from,
         NEW L, L[0] = m, LoopTakes(L, n, clients, from, into)
  PROVE  /\ SameCalls(L[n], m)
         /\ \E v : Placed(L[n], v) /\ Taken(w, v, Range(clients), into)
<1> DEFINE Upto(k) == SameCalls(L[k], m) /\ \E v : Placed(L[k], v) /\ Taken(w, v, First(clients, k), into)
<1>1. /\ n \in Nat /\ \A i \in 1..n : clients[i] \in Sessions
      /\ \A i, j \in 1..n : clients[i] = clients[j] => i = j
  BY DEF Distinct
<1>2. Upto(0)
  <2>1. First(clients, 0) = {}
    BY DEF First
  <2>2. SameCalls(m, m) /\ w \in [Sessions -> Stages]
    BY DEF SameCalls, Placed
  <2> QED BY <2>1, <2>2 DEF Taken
<1>3. ASSUME NEW k \in 1..n, Upto(k-1) PROVE Upto(k)
  <2> DEFINE s == clients[k]
  <2>1. PICK u : Placed(L[k-1], u) /\ Taken(w, u, First(clients, k-1), into)
    BY <1>3
  <2>2. s \notin First(clients, k-1) /\ s \in Sessions
    <3>1. \A i \in 1..(k-1) : i \in 1..n /\ i # k
      BY <1>1
    <3> QED BY <1>1, <3>1 DEF First
  <2>3. u[s] = from
    BY <2>1, <2>2 DEF Taken
  <2>4. SameCalls(L[k], L[k-1])
    BY <2>1, <2>3 DEF LoopTakes
  <2>5. PICK b \in into : Placed(L[k], [u EXCEPT ![s] = b])
    BY <2>1, <2>3 DEF LoopTakes
  <2>6. First(clients, k) = First(clients, k-1) \cup {s}
    <3>1. 1..k = 1..(k-1) \cup {k}
      BY <1>1
    <3> QED BY <3>1 DEF First
  <2> HIDE DEF s
  <2>7. Taken(w, [u EXCEPT ![s] = b], First(clients, k), into)
    BY <2>1, <2>2, <2>5, <2>6 DEF Taken
  <2>8. SameCalls(L[k], m)
    BY <1>3, <2>4 DEF SameCalls
  <2> QED BY <2>5, <2>7, <2>8
<1>4. Upto(n)
  <2> DEFINE S == {k \in 0..n : Upto(k)}
  <2> HIDE DEF Upto
  <2>1. 0 \in S
    BY <1>1, <1>2
  <2>2. ASSUME NEW k \in 0..(n-1), k \in S PROVE k+1 \in S
    <3>1. k+1 \in 1..n /\ (k+1)-1 = k
      BY <1>1
    <3>2. Upto(k+1)
      BY <1>3, <2>2, <3>1
    <3> QED BY <3>1, <3>2
  <2>3. \A k \in 0..n : k \in S
    <3> HIDE DEF S
    <3> QED BY <1>1, <2>1, <2>2, LoopInduction
  <2> QED BY <1>1, <2>3
<1>5. First(clients, n) = Range(clients)
  BY DEF First, Range
<1> QED BY <1>4, <1>5

(* The callbacks of a release.                                             *)
LEMMA AdmitAllPlaces ==
  ASSUME NEW m \in SimType, NEW w, Placed(m, w),
         NEW clients \in Seq(Sessions), Distinct(clients),
         \A i \in 1..Len(clients) : w[clients[i]] = "granted"
  PROVE  /\ SameCalls(AdmitAll(m, clients), m)
         /\ \E v : /\ Placed(AdmitAll(m, clients), v)
                   /\ Taken(w, v, Range(clients), {"cpu queue", "loading"})
<1> DEFINE n == Len(clients)
           L == AdmitLoop(m, clients)
           into == {"cpu queue", "loading"}
<1>1. /\ n \in Nat /\ L[0] = m
      /\ \A k \in 1..n : L[k] = Admitted(L[k-1], clients[k])
      /\ \A k \in 0..n : L[k] \in SimType
  BY AdmitLoopDef DEF Untouched
<1>2. into \subseteq Stages
  BY DEF Stages, Resting
<1> HIDE DEF n, L
<1>3. LoopTakes(L, n, clients, "granted", into)
  <2> SUFFICES ASSUME NEW k \in 1..n, NEW u, Placed(L[k-1], u), u[clients[k]] = "granted"
               PROVE  /\ SameCalls(L[k], L[k-1])
                      /\ \E b \in into : Placed(L[k], [u EXCEPT ![clients[k]] = b])
    BY DEF LoopTakes
  <2>1. k - 1 \in 0..n
    BY <1>1
  <2>2. L[k-1] \in SimType /\ clients[k] \in Sessions /\ L[k] = Admitted(L[k-1], clients[k])
    BY <1>1, <2>1 DEF n
  <2> QED BY <2>2, AdmittedPlaces
<1> HIDE DEF into
<1>4. /\ SameCalls(L[n], m)
      /\ \E v : Placed(L[n], v) /\ Taken(w, v, Range(clients), into)
  BY <1>1, <1>2, <1>3, LoopPlaces DEF n
<1> QED BY <1>4 DEF AdmitAll, L, n, into

LEMMA LoadAllPlaces ==
  ASSUME NEW m \in SimType, NEW w, Placed(m, w),
         NEW clients \in Seq(Sessions), Distinct(clients),
         \A i \in 1..Len(clients) : w[clients[i]] = "held"
  PROVE  /\ SameCalls(LoadAll(m, clients), m)
         /\ \E v : /\ Placed(LoadAll(m, clients), v)
                   /\ Taken(w, v, Range(clients), {"loading"})
<1> DEFINE n == Len(clients)
           L == LoadLoop(m, clients)
           into == {"loading"}
<1>1. /\ n \in Nat /\ L[0] = m
      /\ \A k \in 1..n : L[k] = OldKvLoad(L[k-1], clients[k])
      /\ \A k \in 0..n : L[k] \in SimType
  BY LoadLoopDef DEF Untouched
<1>2. into \subseteq Stages
  BY DEF Stages, Resting
<1> HIDE DEF n, L
<1>3. LoopTakes(L, n, clients, "held", into)
  <2> SUFFICES ASSUME NEW k \in 1..n, NEW u, Placed(L[k-1], u), u[clients[k]] = "held"
               PROVE  /\ SameCalls(L[k], L[k-1])
                      /\ \E b \in into : Placed(L[k], [u EXCEPT ![clients[k]] = b])
    BY DEF LoopTakes
  <2>1. k - 1 \in 0..n
    BY <1>1
  <2>2. L[k-1] \in SimType /\ clients[k] \in Sessions /\ L[k] = OldKvLoad(L[k-1], clients[k])
    BY <1>1, <2>1 DEF n
  <2> QED BY <2>2, LoadPlaces, AdmittedCalls
<1> HIDE DEF into
<1>4. /\ SameCalls(L[n], m)
      /\ \E v : Placed(L[n], v) /\ Taken(w, v, Range(clients), into)
  BY <1>1, <1>2, <1>3, LoopPlaces DEF n
<1> QED BY <1>4 DEF LoadAll, L, n, into

(* What a release may do to the sessions other than the one that left.     *)
Onward(w, v, s) ==
  \A t \in Sessions : t # s =>
    \/ v[t] = w[t]
    \/ w[t] \in {"hbm queue", "cpu queue"} /\ v[t] \in {"cpu queue", "loading"}

(* _finish returns the HBM of a call that left the batch.                  *)
LEMMA ReleaseHbmPlaces ==
  ASSUME NEW m \in SimType, NEW w, Placed(m, w), NEW s \in Sessions, w[s] = "leaving"
  PROVE  /\ SameCalls(ReleaseHbm(m, s), m)
         /\ \E v : Placed(ReleaseHbm(m, s), v) /\ v[s] = "half" /\ Onward(w, v, s)
<1> DEFINE amount == HbmNeed(m)[s]
           pool == Release(m.hbm, HbmNeed(m), HbmCap, amount)
           clients == Granted(m.hbm, pool)
           F == Range(clients)
           x == [m EXCEPT !.hbm = pool]
           u == [t \in Sessions |-> IF t = s THEN "half" ELSE IF t \in F THEN "granted" ELSE w[t]]
<1>1. HbmNeed(m) \in [Sessions -> Nat] /\ HbmCap \in Int /\ m.hbm \in Pools(Sessions)
  BY NeedTypes, SimAssumption DEF SimType
<1>2. PoolAt(Sessions, m.hbm, w, WaitHbm, HasHbm, HbmNeed(m), HbmCap) /\ w[s] \in HasHbm
      /\ w \in [Sessions -> Stages]
  BY DEF Placed, HasHbm
<1>3. ReleaseHbm(m, s) = AdmitAll(x, clients)
  BY DEF ReleaseHbm
<1>4. amount = HbmNeed(m)[s] /\ pool = Release(m.hbm, HbmNeed(m), HbmCap, amount)
      /\ F = Range(Granted(m.hbm, pool)) /\ clients = Granted(m.hbm, pool)
  OBVIOUS
<1> HIDE DEF amount, pool
<1>5. pool \in Pools(Sessions)
  <2>1. amount \in Int
    BY <1>1, <1>4
  <2> QED BY <1>1, <1>4, <2>1, ReleaseType
<1> HIDE DEF clients, F
<1>6. /\ Returned(Sessions, m.hbm, In(Sessions, w, HasHbm), HbmNeed(m), HbmCap, s, pool, F)
      /\ F \subseteq In(Sessions, w, WaitHbm) /\ clients \in Seq(Sessions) /\ Distinct(clients)
  <2>1. ASSUME NEW need, need = HbmNeed(m)
        PROVE  /\ Returned(Sessions, m.hbm, In(Sessions, w, HasHbm), need, HbmCap, s, pool, F)
               /\ F \subseteq In(Sessions, w, WaitHbm)
               /\ Granted(m.hbm, pool) \in Seq(Sessions) /\ Distinct(Granted(m.hbm, pool))
    BY <1>1, <1>2, <1>4, <2>1, ReleaseGrants, SessionsFinite
  <2> QED BY <1>4, <2>1
<1>7. /\ x \in SimType /\ SameCalls(x, m)
      /\ x.hbm = pool /\ x.cpu = m.cpu /\ x.c2c = m.c2c /\ x.prefillQ = m.prefillQ
      /\ x.gpuEvent = m.gpuEvent /\ x.resident = m.resident
  BY <1>5 DEF SimType, SameCalls
<1> HIDE DEF x
<1>8. /\ u \in [Sessions -> Stages] /\ u[s] = "half" /\ F \subseteq Sessions
      /\ \A t \in F : w[t] = "hbm queue" /\ u[t] = "granted" /\ t # s
      /\ \A t \in Sessions : t \notin F /\ t # s => u[t] = w[t]
  BY <1>2, <1>6 DEF In, WaitHbm, Stages, Passing
<1> HIDE DEF u
<1>9. \A S \in {ToArrive, WaitCpu, HasCpu, OnLink, WaitGpu, OnGpu, InBatch, IsCounted} :
        Alike(Sessions, w, u, S)
  <2>1. ASSUME NEW t \in Sessions, NEW S \in {ToArrive, WaitCpu, HasCpu, OnLink, WaitGpu,
                                              OnGpu, InBatch, IsCounted}
        PROVE  w[t] \in S <=> u[t] \in S
    <3>1. \/ u[t] = w[t]
          \/ w[t] = "leaving" /\ u[t] = "half"
          \/ w[t] = "hbm queue" /\ u[t] = "granted"
      BY <1>8
    <3> QED BY <3>1 DEF ToArrive, WaitCpu, HasCpu, OnLink, WaitGpu, OnGpu, InBatch, IsCounted
  <2> QED BY <2>1 DEF Alike
<1>10. PoolAt(Sessions, x.hbm, u, WaitHbm, HasHbm, HbmNeed(x), HbmCap)
  <2>1. HbmNeed(x) = HbmNeed(m)
    BY <1>7, SameNeeds DEF SameCalls
  <2>2. HandedOn(Sessions, w, u, s, F, WaitHbm, HasHbm)
    BY <1>8 DEF HandedOn, HasHbm, WaitHbm
  <2>3. PoolAt(Sessions, pool, u, WaitHbm, HasHbm, HbmNeed(m), HbmCap)
    <3>1. ASSUME NEW need, need = HbmNeed(m), NEW held, held = In(Sessions, w, HasHbm)
          PROVE  PoolAt(Sessions, pool, u, WaitHbm, HasHbm, need, HbmCap)
      <4>1. need \in [Sessions -> Nat] /\ Returned(Sessions, m.hbm, held, need, HbmCap, s, pool, F)
            /\ PoolAt(Sessions, m.hbm, w, WaitHbm, HasHbm, need, HbmCap)
        BY <1>1, <1>2, <1>6, <3>1
      <4> QED BY <1>1, <1>2, <2>2, <3>1, <4>1, ReleaseAt
    <3> QED BY <3>1
  <2> QED BY <1>7, <2>1, <2>3
<1>11. \A t \in Sessions :
         ProgressOf(t, u[t], x.idx[t], x.left[t], x.finished[t], x.arrivals)
  <2>1. ASSUME NEW t \in Sessions
        PROVE  ProgressOf(t, u[t], x.idx[t], x.left[t], x.finished[t], x.arrivals)
    <3>1. ProgressOf(t, w[t], m.idx[t], m.left[t], m.finished[t], m.arrivals)
      BY DEF Placed
    <3>2. \/ u[t] = w[t]
          \/ w[t] = "leaving" /\ u[t] = "half"
          \/ w[t] = "hbm queue" /\ u[t] = "granted"
      BY <1>8
    <3> QED BY <1>7, <3>1, <3>2 DEF ProgressOf, Fresh, SameCalls
  <2> QED BY <2>1
<1>12. Placed(x, u)
  <2>1. x.idx = m.idx /\ x.arrivals = m.arrivals /\ x.decoding = m.decoding
    BY <1>7 DEF SameCalls
  <2> QED BY <1>7, <1>8, <1>9, <1>10, <1>11, <2>1, Kept, KeptParts DEF Placed
<1>13. \A i \in 1..Len(clients) : u[clients[i]] = "granted"
  <2>1. \A i \in 1..Len(clients) : clients[i] \in F
    BY <1>4, <1>6 DEF Range
  <2> QED BY <1>8, <2>1
<1>14. /\ SameCalls(AdmitAll(x, clients), x)
       /\ \E v : /\ Placed(AdmitAll(x, clients), v)
                 /\ Taken(u, v, Range(clients), {"cpu queue", "loading"})
  BY <1>6, <1>7, <1>12, <1>13, AdmitAllPlaces
<1>15. PICK v : /\ Placed(AdmitAll(x, clients), v)
                /\ Taken(u, v, F, {"cpu queue", "loading"})
  BY <1>4, <1>14
<1>16. v[s] = "half" /\ Onward(w, v, s)
  <2>1. \A t \in Sessions : t \notin F => v[t] = u[t]
    BY <1>15 DEF Taken
  <2>2. \A t \in F : v[t] \in {"cpu queue", "loading"}
    BY <1>15 DEF Taken
  <2> QED BY <1>8, <2>1, <2>2 DEF Onward
<1> QED BY <1>3, <1>7, <1>14, <1>15, <1>16 DEF SameCalls

(* Then it returns the CPU store.                                          *)
LEMMA ReleaseCpuPlaces ==
  ASSUME NEW m \in SimType, NEW w, Placed(m, w), NEW s \in Sessions, w[s] = "half"
  PROVE  /\ SameCalls(ReleaseCpu(m, s), m)
         /\ \E v : Placed(ReleaseCpu(m, s), v) /\ v[s] = "counted" /\ Onward(w, v, s)
<1> DEFINE amount == CpuNeed(m)[s]
           pool == Release(m.cpu, CpuNeed(m), CpuCap, amount)
           clients == Granted(m.cpu, pool)
           F == Range(clients)
           x == [m EXCEPT !.cpu = pool]
           u == [t \in Sessions |-> IF t = s THEN "counted" ELSE IF t \in F THEN "held" ELSE w[t]]
<1>1. CpuNeed(m) \in [Sessions -> Nat] /\ CpuCap \in Int /\ m.cpu \in Pools(Sessions)
  BY NeedTypes, SimAssumption DEF SimType
<1>2. PoolAt(Sessions, m.cpu, w, WaitCpu, HasCpu, CpuNeed(m), CpuCap) /\ w[s] \in HasCpu
      /\ w \in [Sessions -> Stages]
  BY DEF Placed, HasCpu
<1>3. ReleaseCpu(m, s) = LoadAll(x, clients)
  BY DEF ReleaseCpu
<1>4. amount = CpuNeed(m)[s] /\ pool = Release(m.cpu, CpuNeed(m), CpuCap, amount)
      /\ F = Range(Granted(m.cpu, pool)) /\ clients = Granted(m.cpu, pool)
  OBVIOUS
<1> HIDE DEF amount, pool
<1>5. pool \in Pools(Sessions)
  <2>1. amount \in Int
    BY <1>1, <1>4
  <2> QED BY <1>1, <1>4, <2>1, ReleaseType
<1> HIDE DEF clients, F
<1>6. /\ Returned(Sessions, m.cpu, In(Sessions, w, HasCpu), CpuNeed(m), CpuCap, s, pool, F)
      /\ F \subseteq In(Sessions, w, WaitCpu) /\ clients \in Seq(Sessions) /\ Distinct(clients)
  <2>1. ASSUME NEW need, need = CpuNeed(m)
        PROVE  /\ Returned(Sessions, m.cpu, In(Sessions, w, HasCpu), need, CpuCap, s, pool, F)
               /\ F \subseteq In(Sessions, w, WaitCpu)
               /\ Granted(m.cpu, pool) \in Seq(Sessions) /\ Distinct(Granted(m.cpu, pool))
    BY <1>1, <1>2, <1>4, <2>1, ReleaseGrants, SessionsFinite
  <2> QED BY <1>4, <2>1
<1>7. /\ x \in SimType /\ SameCalls(x, m)
      /\ x.cpu = pool /\ x.hbm = m.hbm /\ x.c2c = m.c2c /\ x.prefillQ = m.prefillQ
      /\ x.gpuEvent = m.gpuEvent /\ x.resident = m.resident
  BY <1>5 DEF SimType, SameCalls
<1> HIDE DEF x
<1>8. /\ u \in [Sessions -> Stages] /\ u[s] = "counted" /\ F \subseteq Sessions
      /\ \A t \in F : w[t] = "cpu queue" /\ u[t] = "held" /\ t # s
      /\ \A t \in Sessions : t \notin F /\ t # s => u[t] = w[t]
  BY <1>2, <1>6 DEF In, WaitCpu, Stages, Passing
<1> HIDE DEF u
<1>9. \A S \in {ToArrive, WaitHbm, HasHbm, OnLink, WaitGpu, OnGpu, InBatch, IsCounted} :
        Alike(Sessions, w, u, S)
  <2>1. ASSUME NEW t \in Sessions, NEW S \in {ToArrive, WaitHbm, HasHbm, OnLink, WaitGpu,
                                              OnGpu, InBatch, IsCounted}
        PROVE  w[t] \in S <=> u[t] \in S
    <3>1. \/ u[t] = w[t]
          \/ w[t] = "half" /\ u[t] = "counted"
          \/ w[t] = "cpu queue" /\ u[t] = "held"
      BY <1>8
    <3> QED BY <3>1 DEF ToArrive, WaitHbm, HasHbm, OnLink, WaitGpu, OnGpu, InBatch, IsCounted
  <2> QED BY <2>1 DEF Alike
<1>10. PoolAt(Sessions, x.cpu, u, WaitCpu, HasCpu, CpuNeed(x), CpuCap)
  <2>1. CpuNeed(x) = CpuNeed(m)
    BY <1>7, SameNeeds DEF SameCalls
  <2>2. HandedOn(Sessions, w, u, s, F, WaitCpu, HasCpu)
    BY <1>8 DEF HandedOn, HasCpu, WaitCpu
  <2>3. ASSUME NEW need, need = CpuNeed(m), NEW held, held = In(Sessions, w, HasCpu)
        PROVE  PoolAt(Sessions, pool, u, WaitCpu, HasCpu, need, CpuCap)
    <3>1. /\ need \in [Sessions -> Nat]
          /\ Returned(Sessions, m.cpu, held, need, CpuCap, s, pool, F)
          /\ PoolAt(Sessions, m.cpu, w, WaitCpu, HasCpu, need, CpuCap)
      BY <1>1, <1>2, <1>6, <2>3
    <3> QED BY <1>1, <1>2, <2>2, <2>3, <3>1, ReleaseAt
  <2> QED BY <1>7, <2>1, <2>3
<1>11. \A t \in Sessions :
         ProgressOf(t, u[t], x.idx[t], x.left[t], x.finished[t], x.arrivals)
  <2>1. ASSUME NEW t \in Sessions
        PROVE  ProgressOf(t, u[t], x.idx[t], x.left[t], x.finished[t], x.arrivals)
    <3>1. ProgressOf(t, w[t], m.idx[t], m.left[t], m.finished[t], m.arrivals)
      BY DEF Placed
    <3>2. \/ u[t] = w[t]
          \/ w[t] = "half" /\ u[t] = "counted"
          \/ w[t] = "cpu queue" /\ u[t] = "held"
      BY <1>8
    <3> QED BY <1>7, <3>1, <3>2 DEF ProgressOf, Fresh, SameCalls
  <2> QED BY <2>1
<1>12. Placed(x, u)
  <2>1. x.idx = m.idx /\ x.arrivals = m.arrivals /\ x.decoding = m.decoding
    BY <1>7 DEF SameCalls
  <2> QED BY <1>7, <1>8, <1>9, <1>10, <1>11, <2>1, Kept, KeptParts DEF Placed
<1>13. \A i \in 1..Len(clients) : u[clients[i]] = "held"
  <2>1. \A i \in 1..Len(clients) : clients[i] \in F
    BY <1>4, <1>6 DEF Range
  <2> QED BY <1>8, <2>1
<1>14. /\ SameCalls(LoadAll(x, clients), x)
       /\ \E v : /\ Placed(LoadAll(x, clients), v)
                 /\ Taken(u, v, Range(clients), {"loading"})
  BY <1>6, <1>7, <1>12, <1>13, LoadAllPlaces
<1>15. PICK v : /\ Placed(LoadAll(x, clients), v)
                /\ Taken(u, v, F, {"loading"})
  BY <1>4, <1>14
<1>16. v[s] = "counted" /\ Onward(w, v, s)
  <2>1. \A t \in Sessions : t \notin F => v[t] = u[t]
    BY <1>15 DEF Taken
  <2>2. \A t \in F : v[t] \in {"loading"}
    BY <1>15 DEF Taken
  <2> QED BY <1>8, <2>1, <2>2 DEF Onward
<1> QED BY <1>3, <1>7, <1>14, <1>15, <1>16 DEF SameCalls

(* What _finish makes of the sessions themselves: one more call is         *)
(* completed.                                                              *)
OneMore(x, m, s) ==
  /\ x.idx = m.idx /\ x.left = m.left
  /\ x.finished = [m.finished EXCEPT ![s] = @ + 1]

(* _finish of a call that left the batch: its session pauses before its    *)
(* next call, or is done.                                                  *)
LEMMA FinishPlaces ==
  ASSUME NEW m \in SimType, NEW w, Placed(m, w), NEW s \in Sessions, w[s] = "leaving"
  PROVE  /\ OneMore(Finish(m, s), m, s)
         /\ \E v : /\ Placed(Finish(m, s), v)
                   /\ v[s] \in {"arriving", "done"} /\ Onward(w, v, s)
<1> DEFINE half == ReleaseHbm(m, s)
           r == ReleaseCpu(half, s)
           next == m.idx[s] + 1
           launched == IF next <= Len(Trace[s]) THEN r.arrivals \cup {<<s, next>>}
                                                ELSE r.arrivals
           b == IF next <= Len(Trace[s]) THEN "arriving" ELSE "done"
           x == Finish(m, s)
<1>1. PICK w1 : Placed(half, w1) /\ w1[s] = "half" /\ Onward(w, w1, s)
  BY ReleaseHbmPlaces
<1>2. half \in SimType /\ SameCalls(half, m)
  BY ReleaseHbmPlaces, ReleaseHbmEffect DEF Untouched
<1> HIDE DEF half
<1>3. PICK w2 : Placed(r, w2) /\ w2[s] = "counted" /\ Onward(w1, w2, s)
  BY <1>1, <1>2, ReleaseCpuPlaces
<1>4. r \in SimType /\ SameCalls(r, m)
  <2>1. r \in SimType /\ SameCalls(r, half)
    BY <1>1, <1>2, ReleaseCpuPlaces, ReleaseCpuEffect DEF Untouched
  <2> QED BY <1>2, <2>1 DEF SameCalls
<1>5. Onward(w, w2, s)
  BY <1>1, <1>3 DEF Onward
<1>6. x = [r EXCEPT !.resident = @ - 1, !.finished[s] = @ + 1, !.arrivals = launched]
  BY DEF Finish, half
<1> HIDE DEF r, x
<1>7. /\ x.hbm = r.hbm /\ x.cpu = r.cpu /\ x.c2c = r.c2c /\ x.prefillQ = r.prefillQ
      /\ x.gpuEvent = r.gpuEvent /\ x.decoding = r.decoding
      /\ x.idx = r.idx /\ x.left = r.left /\ x.arrivals = launched
      /\ x.resident = r.resident - 1
      /\ x.finished = [r.finished EXCEPT ![s] = @ + 1]
  BY <1>4, <1>6 DEF SimType
<1>8. /\ r.finished[s] = m.idx[s] - 1 /\ m.idx[s] <= Len(Trace[s])
      /\ m.idx[s] \in Nat \ {0} /\ Len(Trace[s]) \in Nat
      /\ \A t \in Sessions : t # s => x.finished[t] = r.finished[t]
      /\ x.finished[s] = m.idx[s]
  <2>1. r.finished[s] = m.idx[s] - 1 /\ m.idx[s] <= Len(Trace[s])
    BY <1>3, <1>4 DEF Placed, ProgressOf, SameCalls
  <2>2. m.idx[s] \in Nat \ {0} /\ Len(Trace[s]) \in Nat
    BY SimAssumption DEF SimType
  <2>3. r.finished \in [Sessions -> Nat]
    BY <1>4 DEF SimType
  <2> QED BY <1>7, <2>1, <2>2, <2>3
<1> DEFINE v == [w2 EXCEPT ![s] = b]
<1>9. OneMoves(w2, v, s, b)
  BY <1>3, Moved DEF Placed, Stages, Resting
<1> HIDE DEF v
<1>10. \A S \in {WaitHbm, HasHbm, WaitCpu, HasCpu, OnLink, WaitGpu, OnGpu, InBatch} :
         Alike(Sessions, w2, v, S)
  <2>1. b = "arriving" \/ b = "done"
    OBVIOUS
  <2> HIDE DEF b
  <2> QED BY <1>3, <1>9, <2>1
      DEF OneMoves, Alike, WaitHbm, HasHbm, WaitCpu, HasCpu, OnLink, WaitGpu, OnGpu, InBatch
<1>11. x.resident = Cardinality(In(Sessions, v, IsCounted))
  <2>1. w2[s] \in IsCounted /\ v[s] \notin IsCounted
    BY <1>3, <1>9 DEF OneMoves, IsCounted
  <2>2. /\ In(Sessions, v, IsCounted) = In(Sessions, w2, IsCounted) \ {s}
        /\ s \in In(Sessions, w2, IsCounted)
    BY <1>9, <2>1, LeavesIn DEF OneMoves
  <2>3. Cardinality(In(Sessions, w2, IsCounted) \ {s})
          = Cardinality(In(Sessions, w2, IsCounted)) - 1
    BY <2>2, InFinite, SessionsFinite
  <2> QED BY <1>3, <1>7, <2>2, <2>3 DEF Placed
<1>12. ArrivalsAt(x.arrivals, v)
  <2>1. /\ ArrivalsAt(r.arrivals, w2) /\ w2[s] # "arriving"
        /\ \A e \in r.arrivals : e[1] # s
    BY <1>3 DEF Placed, ArrivalsAt
  <2>2. CASE next <= Len(Trace[s])
    <3>1. x.arrivals = r.arrivals \cup {<<s, next>>} /\ v[s] = "arriving"
      BY <1>7, <1>9, <2>2 DEF OneMoves
    <3> DEFINE e0 == <<s, next>>
    <3>2. x.arrivals = r.arrivals \cup {e0} /\ e0[1] = s
      BY <3>1
    <3> HIDE DEF e0
    <3>3. \A e, f \in x.arrivals : e[1] = f[1] => e = f
      BY <2>1, <3>2 DEF ArrivalsAt
    <3>4. ASSUME NEW t \in Sessions
          PROVE  v[t] = "arriving" <=> \E e \in x.arrivals : e[1] = t
      <4>1. CASE t = s
        BY <3>1, <3>2, <4>1
      <4>2. CASE t # s
        <5>1. v[t] = "arriving" <=> \E e \in r.arrivals : e[1] = t
          BY <1>9, <2>1, <4>2 DEF ArrivalsAt, OneMoves
        <5> QED BY <3>2, <4>2, <5>1
      <4> QED BY <4>1, <4>2
    <3> QED BY <3>3, <3>4 DEF ArrivalsAt
  <2>3. CASE ~(next <= Len(Trace[s]))
    <3>1. x.arrivals = r.arrivals /\ v[s] = "done"
      BY <1>7, <1>9, <2>3 DEF OneMoves
    <3> QED BY <1>9, <2>1, <3>1 DEF ArrivalsAt, OneMoves
  <2> QED BY <2>2, <2>3
<1>13. ASSUME NEW t \in Sessions
       PROVE  ProgressOf(t, v[t], x.idx[t], x.left[t], x.finished[t], x.arrivals)
  <2>1. r.arrivals \subseteq x.arrivals
    BY <1>7
  <2>2. CASE t # s
    <3>1. ProgressOf(t, w2[t], r.idx[t], r.left[t], r.finished[t], r.arrivals)
      BY <1>3 DEF Placed
    <3>2. v[t] = w2[t] /\ x.finished[t] = r.finished[t] /\ x.idx = r.idx /\ x.left = r.left
      BY <1>7, <1>8, <1>9, <2>2 DEF OneMoves
    <3> QED BY <2>1, <3>1, <3>2 DEF ProgressOf
  <2>3. CASE t = s /\ next <= Len(Trace[s])
    <3>1. v[s] = "arriving" /\ <<s, x.finished[s] + 1>> \in x.arrivals
      BY <1>7, <1>8, <1>9, <2>3 DEF OneMoves
    <3>2. x.finished[s] = x.idx[s] /\ x.finished[s] < Len(Trace[s])
      BY <1>4, <1>7, <1>8, <2>3 DEF SameCalls
    <3> QED BY <2>3, <3>1, <3>2 DEF ProgressOf, Fresh
  <2>4. CASE t = s /\ ~(next <= Len(Trace[s]))
    <3>1. v[s] = "done" /\ x.finished[s] = Len(Trace[s])
      BY <1>7, <1>8, <1>9, <2>4 DEF OneMoves
    <3> QED BY <2>4, <3>1 DEF ProgressOf, Fresh
  <2> QED BY <2>2, <2>3, <2>4
<1>14. Placed(x, v)
  <2> HIDE DEF next, launched, b
  <2> QED BY <1>3, <1>7, <1>9, <1>10, <1>11, <1>12, <1>13, Kept, KeptParts DEF Placed, OneMoves
<1>15. v[s] \in {"arriving", "done"} /\ Onward(w, v, s)
  BY <1>5, <1>9 DEF OneMoves, Onward
<1>16. OneMore(x, m, s)
  BY <1>4, <1>7 DEF SameCalls, OneMore
<1> QED BY <1>14, <1>15, <1>16 DEF x

-----------------------------------------------------------------------------
(* list.remove takes one session off a list that has it once.              *)
LEMMA WithoutDistinct ==
  ASSUME NEW q \in Seq(Sessions), Distinct(q), NEW s, s \in Range(q)
  PROVE  Distinct(Without(q, s)) /\ Range(Without(q, s)) = Range(q) \ {s}
<1> DEFINE i == CHOOSE j \in DOMAIN q : q[j] = s
<1>1. i \in DOMAIN q /\ q[i] = s
  BY DEF Range
<1>2. Without(q, s) = RemoveAt(q, i)
  BY DEF Without, RemoveAt
<1> HIDE DEF i
<1> QED BY <1>1, <1>2, RemoveAtDistinct

(* A call without tokens left is taken off the batch and finishes.         *)
LEMMA SpentPlaces ==
  ASSUME NEW m \in SimType, NEW w, Placed(m, w), NEW s \in Sessions, w[s] = "spent",
         NEW y, y = [m EXCEPT !.decoding = Without(@, s)]
  PROVE  /\ OneMore(Finish(y, s), m, s)
         /\ \E v : /\ Placed(Finish(y, s), v)
                   /\ v[s] \in {"arriving", "done"} /\ Onward(w, v, s)
<1> DEFINE u == [w EXCEPT ![s] = "leaving"]
<1>1. s \in Range(m.decoding) /\ Distinct(m.decoding) /\ m.decoding \in Seq(Sessions)
  BY DEF Placed, QueueAt, In, InBatch, SimType
<1>2. Without(m.decoding, s) \in Seq(Sessions)
  BY <1>1, WithoutType
<1>3. /\ y \in SimType /\ y.decoding = Without(m.decoding, s)
      /\ y.hbm = m.hbm /\ y.cpu = m.cpu /\ y.c2c = m.c2c /\ y.prefillQ = m.prefillQ
      /\ y.gpuEvent = m.gpuEvent /\ y.resident = m.resident /\ y.arrivals = m.arrivals
      /\ y.idx = m.idx /\ y.left = m.left /\ y.finished = m.finished
  BY <1>2 DEF SimType
<1>4. OneMoves(w, u, s, "leaving")
  BY Moved DEF Placed, Stages, Passing
<1> HIDE DEF u
<1>5. /\ \A S \in {ToArrive, WaitHbm, HasHbm, WaitCpu, HasCpu, OnLink, WaitGpu, OnGpu,
                   IsCounted} : Alike(Sessions, w, u, S)
      /\ w[s] \in InBatch /\ u[s] \notin InBatch
  BY <1>4 DEF OneMoves, Alike, ToArrive, WaitHbm, HasHbm, WaitCpu, HasCpu, OnLink, WaitGpu,
              OnGpu, InBatch, IsCounted
<1>6. QueueAt(Sessions, y.decoding, u, InBatch)
  <2>1. In(Sessions, u, InBatch) = In(Sessions, w, InBatch) \ {s}
    BY <1>4, <1>5, LeavesIn DEF OneMoves
  <2>2. /\ Distinct(Without(m.decoding, s))
        /\ Range(Without(m.decoding, s)) = Range(m.decoding) \ {s}
    BY <1>1, WithoutDistinct
  <2> QED BY <1>3, <2>1, <2>2 DEF Placed, QueueAt
<1>7. ProgressOf(s, u[s], y.idx[s], y.left[s], y.finished[s], y.arrivals)
  <2>1. ProgressOf(s, "spent", m.idx[s], m.left[s], m.finished[s], m.arrivals)
    BY DEF Placed
  <2> QED BY <1>3, <1>4, <2>1 DEF ProgressOf, Fresh, OneMoves
<1>8. Placed(y, u)
  BY <1>3, <1>4, <1>5, <1>6, <1>7, Kept, KeptParts DEF Placed, OneMoves
<1>9. /\ OneMore(Finish(y, s), y, s)
      /\ \E v : /\ Placed(Finish(y, s), v)
                /\ v[s] \in {"arriving", "done"} /\ Onward(u, v, s)
  <2>1. y \in SimType /\ Placed(y, u) /\ u[s] = "leaving"
    BY <1>3, <1>4, <1>8 DEF OneMoves
  <2> QED BY <2>1, FinishPlaces
<1>10. \A v : Onward(u, v, s) => Onward(w, v, s)
  BY <1>4 DEF OneMoves, Onward
<1>11. OneMore(Finish(y, s), m, s)
  BY <1>3, <1>9 DEF OneMore
<1> QED BY <1>9, <1>10, <1>11

(* What the sifting of a batch makes of a session: a call without tokens   *)
(* left is completed, and others may be admitted in its place.             *)
Goes(a, b) == a = b \/ (a \in {"hbm queue", "cpu queue"} /\ b \in {"cpu queue", "loading"})

SiftedOut(t, m, w, x, v) ==
  /\ w[t] = "spent" /\ v[t] \in {"arriving", "done"}
  /\ x.finished[t] = m.finished[t] + 1
SiftedPast(t, m, w, x, v) == Goes(w[t], v[t]) /\ x.finished[t] = m.finished[t]

(* The loop that sifts the batch: it ends with no session in a stage that  *)
(* is passed inside a handler.                                             *)
LEMMA FinishLoopPlaces ==
  ASSUME NEW m \in SimType, NEW w, Placed(m, w),
         \A t \in Sessions : w[t] \in Resting \cup {"spent"},
         \A t \in Range(m.decoding) : w[t] = "spent" <=> ~(m.left[t] > 0),
         NEW x, x = FinishLoop(m, m.decoding)[Len(m.decoding)]
  PROVE  /\ x.idx = m.idx
         /\ \E v \in [Sessions -> Resting] :
              /\ Placed(x, v)
              /\ \A t \in Sessions : SiftedOut(t, m, w, x, v) \/ SiftedPast(t, m, w, x, v)
<1> DEFINE batch == m.decoding
           n == Len(batch)
           L == FinishLoop(m, batch)
           Ahead(k) == {batch[j] : j \in (k+1)..n}
           Sifted(k, v) == /\ Placed(L[k], v)
                           /\ \A t \in Sessions : v[t] \in Resting \cup {"spent"}
                           /\ \A t \in Sessions : v[t] = "spent" => t \in Ahead(k)
                           /\ \A t \in Ahead(k) : v[t] = w[t]
                           /\ \A t \in Sessions : \/ SiftedOut(t, m, w, L[k], v)
                                                   \/ SiftedPast(t, m, w, L[k], v)
           Upto(k) == L[k].left = m.left /\ L[k].idx = m.idx /\ \E v : Sifted(k, v)
<1>1. /\ n \in Nat /\ batch \in Seq(Sessions)
      /\ \A i, j \in 1..n : batch[i] = batch[j] => i = j
      /\ \A k \in 1..n : batch[k] \in Sessions /\ batch[k] \in Range(batch)
      /\ \A t \in Sessions : w[t] = "spent" => t \in Range(batch)
      /\ \A t \in Range(batch) : t \in Sessions /\ w[t] \in {"decoding", "spent"}
  BY DEF SimType, Placed, QueueAt, Distinct, In, InBatch, Range
<1>2. /\ L[0] = m
      /\ \A k \in 1..n :
           L[k] = IF m.left[batch[k]] > 0 THEN L[k-1]
                  ELSE Finish([L[k-1] EXCEPT !.decoding = Without(@, batch[k])], batch[k])
      /\ \A k \in 0..n : L[k] \in SimType
  <2>1. /\ L[0] = m
        /\ \A k \in 1..n :
             L[k] = IF m.left[batch[k]] > 0 THEN L[k-1]
                    ELSE Finish([L[k-1] EXCEPT !.decoding = Without(@, batch[k])], batch[k])
        /\ \A k \in 0..n : L[k] \in Untouched(m)
    BY <1>1, FinishLoopDef
  <2> HIDE DEF L, n, batch
  <2> QED BY <2>1 DEF Untouched
<1>3. \A t \in Range(batch) : w[t] = "spent" <=> ~(m.left[t] > 0)
  OBVIOUS
<1> HIDE DEF batch, n, L
<1>4. Upto(0)
  <2>1. Ahead(0) = Range(batch)
    BY <1>1 DEF Range, n
  <2>2. \A t \in Sessions : SiftedPast(t, m, w, m, w)
    BY DEF SiftedPast, Goes
  <2> QED BY <1>1, <1>2, <2>1, <2>2
<1>5. ASSUME NEW k \in 1..n, Upto(k-1) PROVE Upto(k)
  <2> DEFINE s == batch[k]
  <2>1. PICK v : Sifted(k-1, v)
    BY <1>5
  <2>2. /\ s \in Sessions /\ s \in Range(batch) /\ L[k-1] \in SimType /\ L[k-1].left = m.left
        /\ L[k-1].idx = m.idx
    <3>1. k - 1 \in 0..n
      BY <1>1
    <3> QED BY <1>1, <1>2, <1>5, <3>1
  <2>3. Ahead(k-1) = Ahead(k) \cup {s} /\ s \notin Ahead(k) /\ Ahead(k) \subseteq Range(batch)
    <3>1. ((k-1)+1)..n = {k} \cup (k+1)..n
      BY <1>1
    <3>2. \A j \in (k+1)..n : j \in 1..n /\ j # k
      BY <1>1
    <3> QED BY <1>1, <3>1, <3>2
  <2> HIDE DEF Ahead
  <2>4. v[s] = w[s]
    BY <2>1, <2>3
  <2>5. CASE m.left[s] > 0
    <3>1. L[k] = L[k-1] /\ v[s] # "spent"
      BY <1>2, <1>3, <2>2, <2>4, <2>5
    <3>2. Sifted(k, v)
      BY <2>1, <2>3, <3>1
    <3> QED BY <2>2, <3>1, <3>2
  <2>6. CASE ~(m.left[s] > 0)
    <3> DEFINE y == [L[k-1] EXCEPT !.decoding = Without(@, s)]
    <3>1. L[k] = Finish(y, s) /\ v[s] = "spent"
      BY <1>2, <1>3, <2>2, <2>4, <2>6
    <3> HIDE DEF s
    <3>2. /\ OneMore(Finish(y, s), L[k-1], s)
          /\ \E u : /\ Placed(Finish(y, s), u)
                    /\ u[s] \in {"arriving", "done"} /\ Onward(v, u, s)
      BY <2>1, <2>2, <3>1, SpentPlaces
    <3> HIDE DEF y
    <3>3. PICK u : /\ Placed(L[k], u)
                   /\ u[s] \in {"arriving", "done"} /\ Onward(v, u, s)
      BY <3>1, <3>2
    <3>4. \A t \in Sessions : u[t] \in Resting \cup {"spent"}
      BY <2>1, <3>3 DEF Onward, Resting
    <3>5. \A t \in Sessions : u[t] = "spent" => t \in Ahead(k)
      BY <2>1, <2>3, <3>3 DEF Onward
    <3>6. \A t \in Ahead(k) : u[t] = w[t]
      <4> SUFFICES ASSUME NEW t \in Ahead(k) PROVE u[t] = w[t]
        OBVIOUS
      <4>1. t \in Sessions /\ t # s /\ v[t] = w[t] /\ w[t] \in {"decoding", "spent"}
        BY <1>1, <2>1, <2>3
      <4> QED BY <3>3, <4>1 DEF Onward
    <3>7. ASSUME NEW t \in Sessions
          PROVE  SiftedOut(t, m, w, L[k], u) \/ SiftedPast(t, m, w, L[k], u)
      <4>1. /\ L[k-1].finished \in [Sessions -> Nat] /\ m.finished \in [Sessions -> Nat]
            /\ L[k].finished = [L[k-1].finished EXCEPT ![s] = @ + 1]
        BY <2>2, <3>1, <3>2 DEF SimType, OneMore
      <4>2. SiftedOut(t, m, w, L[k-1], v) \/ SiftedPast(t, m, w, L[k-1], v)
        BY <2>1
      <4>3. CASE t = s
        <5>1. L[k-1].finished[t] = m.finished[t]
          BY <3>1, <4>2, <4>3 DEF SiftedOut, SiftedPast
        <5>2. L[k].finished[t] = m.finished[t] + 1
          BY <2>2, <4>1, <4>3, <5>1
        <5> QED BY <2>4, <3>1, <3>3, <4>3, <5>2 DEF SiftedOut
      <4>4. CASE t # s
        <5>1. L[k].finished[t] = L[k-1].finished[t]
          BY <4>1, <4>4
        <5>2. \/ u[t] = v[t]
              \/ v[t] \in {"hbm queue", "cpu queue"} /\ u[t] \in {"cpu queue", "loading"}
          BY <3>3, <4>4 DEF Onward
        <5>3. CASE SiftedOut(t, m, w, L[k-1], v)
          <6>1. u[t] = v[t]
            BY <5>2, <5>3 DEF SiftedOut
          <6> QED BY <5>1, <5>3, <6>1 DEF SiftedOut
        <5>4. CASE SiftedPast(t, m, w, L[k-1], v)
          <6>1. Goes(w[t], u[t])
            BY <5>2, <5>4 DEF SiftedPast, Goes
          <6> QED BY <5>1, <5>4, <6>1 DEF SiftedPast
        <5> QED BY <4>2, <5>3, <5>4
      <4> QED BY <4>3, <4>4
    <3>8. Sifted(k, u)
      BY <3>3, <3>4, <3>5, <3>6, <3>7
    <3>9. L[k].left = m.left /\ L[k].idx = m.idx
      BY <2>2, <3>1, <3>2 DEF OneMore
    <3> QED BY <3>8, <3>9
  <2> QED BY <2>5, <2>6
<1>6. Upto(n)
  <2> DEFINE S == {k \in 0..n : Upto(k)}
  <2> HIDE DEF Upto
  <2>1. 0 \in S
    BY <1>1, <1>4
  <2>2. ASSUME NEW k \in 0..(n-1), k \in S PROVE k+1 \in S
    <3>1. k+1 \in 1..n /\ (k+1)-1 = k
      BY <1>1
    <3>2. Upto(k+1)
      BY <1>5, <2>2, <3>1
    <3> QED BY <3>1, <3>2
  <2>3. \A k \in 0..n : k \in S
    <3> HIDE DEF S
    <3> QED BY <1>1, <2>1, <2>2, LoopInduction
  <2> QED BY <1>1, <2>3
<1>7. PICK v : Sifted(n, v)
  BY <1>6
<1>8. Ahead(n) = {}
  BY <1>1
<1>9. v \in [Sessions -> Resting]
  BY <1>7, <1>8 DEF Placed
<1>10. L[n].idx = m.idx
  BY <1>6
<1> QED BY <1>7, <1>9, <1>10 DEF L, n, batch

-----------------------------------------------------------------------------
(* Between two events no session is in a stage that is passed inside a     *)
(* handler, and an idle GPU has nothing to start.                          *)
AtRest(m, w) == w \in [Sessions -> Resting] /\ Placed(m, w)
GpuRests(m)  == ~m.gpuBusy => m.prefillQ = <<>> /\ m.decoding = <<>>

(* The stages in which a call holds HBM between two events.                *)
Inside == {"cpu queue", "loading", "prefill queue", "prefilling", "decoding"}

(* What one turn of the event loop makes of a session: its call moves on,  *)
(* from the queue for HBM into it; it is called; it has no calls; or its   *)
(* call completes.                                                         *)
Carried(a, b) == a = b \/ (a \in {"hbm queue"} \cup Inside /\ b \in Inside)

Passes(s, m, w, x, v) ==
  \/ Carried(w[s], v[s]) /\ x.idx[s] = m.idx[s] /\ x.finished[s] = m.finished[s]
  \/ /\ w[s] = "arriving" /\ v[s] \in {"hbm queue"} \cup Inside
     /\ x.finished[s] = m.finished[s]
  \/ /\ w[s] = "arriving" /\ v[s] = "done"
     /\ x.idx[s] = m.idx[s] /\ x.finished[s] = m.finished[s]
  \/ /\ w[s] = "decoding" /\ v[s] \in {"arriving", "done"}
     /\ x.idx[s] = m.idx[s] /\ x.finished[s] = m.finished[s] + 1

(* A turn brings the sessions from w to rest at v.                         *)
Turn(m, w, x, v) == AtRest(x, v) /\ \A s \in Sessions : Passes(s, m, w, x, v)

(* The GPU takes at most a prefill off its queue.                          *)
Started(m, w, x, v) ==
  /\ AtRest(x, v) /\ x.idx = m.idx /\ x.finished = m.finished
  /\ \A s \in Sessions : v[s] = w[s] \/ (w[s] = "prefill queue" /\ v[s] = "prefilling")

LEMMA TurnStarted ==
  ASSUME NEW m, NEW w, NEW y, NEW u, Turn(m, w, y, u), NEW x, NEW v, Started(y, u, x, v)
  PROVE  Turn(m, w, x, v)
<1>1. AtRest(x, v)
  BY DEF Started
<1>2. ASSUME NEW s \in Sessions PROVE Passes(s, m, w, x, v)
  <2>1. Passes(s, m, w, y, u) /\ x.idx[s] = y.idx[s] /\ x.finished[s] = y.finished[s]
    BY DEF Turn, Started
  <2>2. CASE v[s] = u[s]
    BY <2>1, <2>2 DEF Passes
  <2>3. CASE u[s] = "prefill queue" /\ v[s] = "prefilling"
    <3>1. /\ u[s] \in Inside /\ v[s] \in Inside /\ u[s] \notin {"arriving", "done"}
          /\ "prefill queue" \in Inside /\ "prefilling" \in Inside
      BY <2>3 DEF Inside
    <3>2. Carried(w[s], u[s]) => Carried(w[s], v[s])
      BY <2>3, <3>1 DEF Carried
    <3> QED BY <2>1, <3>1, <3>2 DEF Passes
  <2> QED BY <2>2, <2>3 DEF Started
<1> QED BY <1>1, <1>2 DEF Turn

(* One session moves and the rest stay.                                    *)
LEMMA OnePasses ==
  ASSUME NEW m, NEW w, NEW x, NEW v, AtRest(x, v), NEW s \in Sessions, Passes(s, m, w, x, v),
         \A t \in Sessions : t # s => /\ v[t] = w[t] /\ x.idx[t] = m.idx[t]
                                     /\ x.finished[t] = m.finished[t]
  PROVE  Turn(m, w, x, v)
  BY DEF Turn, Passes, Carried

(* _pump_gpu moves the oldest prefill onto the GPU or starts a step.       *)
LEMMA PumpGpuPlaces ==
  ASSUME NEW m \in SimType, Exclusive(m), NEW w, AtRest(m, w)
  PROVE  /\ \E v : Started(m, w, PumpGpu(m), v)
         /\ GpuRests(PumpGpu(m))
<1>0. Started(m, w, m, w)
  BY DEF Started
<1>1. CASE m.gpuBusy
  BY <1>0, <1>1 DEF PumpGpu, GpuRests
<1>2. CASE ~m.gpuBusy /\ m.prefillQ # <<>>
  <2> DEFINE s == Head(m.prefillQ)
             x == PumpGpu(m)
  <2>1. w \in [Sessions -> Resting] /\ Placed(m, w)
    BY DEF AtRest
  <2> DEFINE v == [w EXCEPT ![s] = "prefilling"]
  <2>2. /\ s \in Sessions /\ s \in Range(m.prefillQ) /\ Distinct(Tail(m.prefillQ))
        /\ Range(Tail(m.prefillQ)) = Range(m.prefillQ) \ {s}
    BY <1>2, <2>1, TailDistinct DEF Placed, QueueAt, SimType
  <2>3. x = [m EXCEPT !.gpuBusy = TRUE, !.prefillQ = Tail(@), !.gpuEvent = @ \cup {s}]
    BY <1>2 DEF PumpGpu
  <2> HIDE DEF s, x
  <2>4. /\ x.hbm = m.hbm /\ x.cpu = m.cpu /\ x.c2c = m.c2c /\ x.prefillQ = Tail(m.prefillQ)
        /\ x.gpuEvent = m.gpuEvent \cup {s} /\ x.resident = m.resident
        /\ x.arrivals = m.arrivals /\ x.decoding = m.decoding
        /\ x.idx = m.idx /\ x.left = m.left /\ x.finished = m.finished
        /\ x.gpuBusy = TRUE
    BY <2>3 DEF SimType
  <2>5. w[s] = "prefill queue"
    BY <2>1, <2>2 DEF Placed, QueueAt, In, WaitGpu
  <2>6. OneMoves(w, v, s, "prefilling") /\ v \in [Sessions -> Resting]
    BY <2>1, <2>2, Moved DEF Placed, Stages, Resting
  <2> HIDE DEF v
  <2>7. /\ \A S \in {ToArrive, WaitHbm, HasHbm, WaitCpu, HasCpu, OnLink, InBatch, IsCounted} :
             Alike(Sessions, w, v, S)
        /\ w[s] \in WaitGpu /\ v[s] \notin WaitGpu
        /\ w[s] \notin OnGpu /\ v[s] \in OnGpu
    BY <2>5, <2>6 DEF OneMoves, Alike, ToArrive, WaitHbm, HasHbm, WaitCpu, HasCpu, OnLink,
                      WaitGpu, OnGpu, InBatch, IsCounted
  <2>8. QueueAt(Sessions, x.prefillQ, v, WaitGpu)
    <3>1. s \in Sessions /\ \A t \in Sessions : t # s => v[t] = w[t]
      BY <2>2, <2>6 DEF OneMoves
    <3>2. w[s] \in WaitGpu /\ v[s] \notin WaitGpu
      BY <2>7
    <3>3. In(Sessions, v, WaitGpu) = In(Sessions, w, WaitGpu) \ {s}
      BY <3>1, <3>2, LeavesIn
    <3> QED BY <2>1, <2>2, <2>4, <3>3 DEF Placed, QueueAt
  <2>9. x.gpuEvent \ {Tick} = In(Sessions, v, OnGpu)
    <3>1. s \in Sessions /\ s # Tick /\ \A t \in Sessions : t # s => v[t] = w[t]
      BY <2>2, <2>6, SimAssumption DEF OneMoves
    <3>2. In(Sessions, v, OnGpu) = In(Sessions, w, OnGpu) \cup {s}
      BY <2>7, <3>1, JoinsIn
    <3> QED BY <2>1, <2>4, <3>1, <3>2 DEF Placed
  <2>10. ProgressOf(s, v[s], x.idx[s], x.left[s], x.finished[s], x.arrivals)
    <3>1. ProgressOf(s, "prefill queue", m.idx[s], m.left[s], m.finished[s], m.arrivals)
      BY <2>1, <2>2, <2>5 DEF Placed
    <3> QED BY <2>4, <2>6, <3>1 DEF ProgressOf, Fresh, OneMoves
  <2>11. Placed(x, v)
    BY <2>1, <2>4, <2>6, <2>7, <2>8, <2>9, <2>10, Kept, KeptParts DEF Placed, OneMoves
  <2>12. Started(m, w, x, v)
    BY <2>4, <2>5, <2>6, <2>11 DEF Started, AtRest, OneMoves
  <2> QED BY <2>4, <2>12 DEF GpuRests, x
<1>3. CASE ~m.gpuBusy /\ m.prefillQ = <<>> /\ m.decoding # <<>>
  <2> DEFINE x == PumpGpu(m)
  <2>1. x = [m EXCEPT !.gpuBusy = TRUE, !.gpuEvent = @ \cup {Tick}]
    BY <1>3 DEF PumpGpu, DecodeStep
  <2> HIDE DEF x
  <2>2. /\ x.hbm = m.hbm /\ x.cpu = m.cpu /\ x.c2c = m.c2c /\ x.prefillQ = m.prefillQ
        /\ x.gpuEvent \ {Tick} = m.gpuEvent \ {Tick} /\ x.resident = m.resident
        /\ x.arrivals = m.arrivals /\ x.decoding = m.decoding
        /\ x.idx = m.idx /\ x.left = m.left /\ x.finished = m.finished
        /\ x.gpuBusy = TRUE
    BY <2>1 DEF SimType
  <2>3. w \in [Sessions -> Resting] /\ Placed(m, w)
    BY DEF AtRest
  <2>4. \A S : Alike(Sessions, w, w, S)
    BY DEF Alike
  <2>5. Placed(x, w)
    BY <2>2, <2>3, <2>4, Kept, KeptParts DEF Placed
  <2>6. Started(m, w, x, w)
    BY <2>2, <2>3, <2>5 DEF Started, AtRest
  <2> QED BY <2>2, <2>6 DEF GpuRests, x
<1>4. CASE ~m.gpuBusy /\ m.prefillQ = <<>> /\ m.decoding = <<>>
  BY <1>0, <1>4 DEF PumpGpu, GpuRests
<1> QED BY <1>1, <1>2, <1>3, <1>4

(* The GPU does not look at the link.                                      *)
LEMMA PumpGpuLink ==
  ASSUME NEW m \in SimType, NEW l
  PROVE  PumpGpu([m EXCEPT !.c2c = l]) = [PumpGpu(m) EXCEPT !.c2c = l]
<1> DEFINE x == [m EXCEPT !.c2c = l]
<1>1. /\ x.gpuBusy = m.gpuBusy /\ x.prefillQ = m.prefillQ /\ x.decoding = m.decoding
      /\ x.gpuEvent = m.gpuEvent
  BY DEF SimType
<1>2. CASE m.gpuBusy
  BY <1>1, <1>2 DEF PumpGpu
<1>3. CASE ~m.gpuBusy /\ m.prefillQ # <<>>
  <2>1. PumpGpu(x) = [x EXCEPT !.gpuBusy = TRUE, !.prefillQ = Tail(m.prefillQ),
                               !.gpuEvent = m.gpuEvent \cup {Head(m.prefillQ)}]
    BY <1>1, <1>3 DEF PumpGpu, SimType
  <2>2. PumpGpu(m) = [m EXCEPT !.gpuBusy = TRUE, !.prefillQ = Tail(m.prefillQ),
                               !.gpuEvent = m.gpuEvent \cup {Head(m.prefillQ)}]
    BY <1>3 DEF PumpGpu, SimType
  <2> QED BY <2>1, <2>2 DEF SimType
<1>4. CASE ~m.gpuBusy /\ m.prefillQ = <<>> /\ m.decoding # <<>>
  <2>1. PumpGpu(x) = [x EXCEPT !.gpuBusy = TRUE, !.gpuEvent = m.gpuEvent \cup {Tick}]
    BY <1>1, <1>4 DEF PumpGpu, DecodeStep, SimType
  <2>2. PumpGpu(m) = [m EXCEPT !.gpuBusy = TRUE, !.gpuEvent = m.gpuEvent \cup {Tick}]
    BY <1>4 DEF PumpGpu, DecodeStep, SimType
  <2> QED BY <2>1, <2>2 DEF SimType
<1>5. CASE ~m.gpuBusy /\ m.prefillQ = <<>> /\ m.decoding = <<>>
  BY <1>1, <1>5 DEF PumpGpu
<1> QED BY <1>2, <1>3, <1>4, <1>5

-----------------------------------------------------------------------------
(* m after the event of an arrival is taken, and after the call is the      *)
(* present one.                                                            *)
Calling(m, s, i, x, call) ==
  /\ <<s, i>> \in m.arrivals /\ i <= Len(Trace[s])
  /\ x = [m EXCEPT !.arrivals = @ \ {<<s, i>>}]
  /\ call = [x EXCEPT !.idx[s] = i, !.left[s] = Trace[s][i].output]

(* The arrival of a call that exists: it is its session's present call, it *)
(* has HBM or waits for it, and in the first case it is admitted.          *)
LEMMA CallPlaces ==
  ASSUME NEW m \in SimType, NEW w, Placed(m, w), NEW s \in Sessions, NEW i \in Nat \ {0},
         NEW x, NEW call, Calling(m, s, i, x, call),
         NEW u, OneMoves(w, u, s, "out")
  PROVE  call \in SimType /\ call.hbm = m.hbm /\ Placed(call, u)
<1>0. /\ <<s, i>> \in m.arrivals /\ i <= Len(Trace[s])
      /\ x = [m EXCEPT !.arrivals = @ \ {<<s, i>>}]
      /\ call = [x EXCEPT !.idx[s] = i, !.left[s] = Trace[s][i].output]
  BY DEF Calling
<1>1. Trace[s][i].output \in Int
  <2>1. Trace[s] \in Seq(CallSizes)
    BY SimAssumption
  <2>2. Trace[s][i] \in CallSizes
    BY <1>0, <2>1
  <2> QED BY <2>2 DEF CallSizes
<1>2. x \in SimType
  BY <1>0 DEF SimType
<1>3. /\ [m.idx EXCEPT ![s] = i] \in [Sessions -> Nat \ {0}]
      /\ [m.left EXCEPT ![s] = Trace[s][i].output] \in [Sessions -> Int]
  BY <1>1 DEF SimType
<1>4. /\ call \in SimType
      /\ call.hbm = m.hbm /\ call.cpu = m.cpu /\ call.c2c = m.c2c
      /\ call.prefillQ = m.prefillQ /\ call.gpuEvent = m.gpuEvent
      /\ call.decoding = m.decoding /\ call.resident = m.resident
      /\ call.finished = m.finished /\ call.arrivals = m.arrivals \ {<<s, i>>}
      /\ call.idx = [m.idx EXCEPT ![s] = i]
      /\ call.left = [m.left EXCEPT ![s] = Trace[s][i].output]
  BY <1>0, <1>2, <1>3 DEF SimType
<1>5. /\ w[s] = "arriving" /\ i = m.finished[s] + 1
      /\ \A e \in m.arrivals : e[1] = s => e = <<s, i>>
  <2> DEFINE e0 == <<s, i>>
  <2>1. e0 \in m.arrivals /\ e0[1] = s
    BY <1>0
  <2>2. w[s] = "arriving" /\ \A e \in m.arrivals : e[1] = s => e = e0
    BY <2>1 DEF Placed, ArrivalsAt
  <2>3. <<s, m.finished[s] + 1>> \in m.arrivals
    BY <2>2 DEF Placed, ProgressOf
  <2>4. <<s, m.finished[s] + 1>> = <<s, i>>
    BY <2>2, <2>3
  <2> QED BY <2>2, <2>4
<1>6. OneMoves(w, u, s, "out")
  OBVIOUS
<1>7. \A S \in {WaitHbm, HasHbm, WaitCpu, HasCpu, OnLink, WaitGpu, OnGpu, InBatch,
                IsCounted} : Alike(Sessions, w, u, S)
  BY <1>5, <1>6 DEF OneMoves, Alike, WaitHbm, HasHbm, WaitCpu, HasCpu, OnLink, WaitGpu,
                    OnGpu, InBatch, IsCounted
<1>8. \A t \in Sessions : t # s => /\ HbmNeed(call)[t] = HbmNeed(m)[t]
                                   /\ CpuNeed(call)[t] = CpuNeed(m)[t]
  BY <1>4 DEF HbmNeed, CpuNeed, SimType
<1>9. PoolAt(Sessions, call.hbm, u, WaitHbm, HasHbm, HbmNeed(call), HbmCap)
  <2>1. /\ PoolSound(Sessions, m.hbm, In(Sessions, w, HasHbm), HbmNeed(m), HbmCap)
        /\ Range(m.hbm.q) = In(Sessions, w, WaitHbm)
    BY DEF Placed, PoolAt
  <2>2. \A c \in In(Sessions, w, HasHbm) \cup Range(m.hbm.q) : c \in Sessions /\ c # s
    BY <1>5, <2>1 DEF In, HasHbm, WaitHbm
  <2>3. PoolSound(Sessions, m.hbm, In(Sessions, w, HasHbm), HbmNeed(call), HbmCap)
    BY <1>8, <2>1, <2>2, NeedElsewhere
  <2>4. In(Sessions, u, HasHbm) = In(Sessions, w, HasHbm) /\ In(Sessions, u, WaitHbm) = In(Sessions, w, WaitHbm)
    BY <1>7, SameIn
  <2> QED BY <1>4, <2>1, <2>3, <2>4 DEF PoolAt
<1>10. PoolAt(Sessions, call.cpu, u, WaitCpu, HasCpu, CpuNeed(call), CpuCap)
  <2>1. /\ PoolSound(Sessions, m.cpu, In(Sessions, w, HasCpu), CpuNeed(m), CpuCap)
        /\ Range(m.cpu.q) = In(Sessions, w, WaitCpu)
    BY DEF Placed, PoolAt
  <2>2. \A c \in In(Sessions, w, HasCpu) \cup Range(m.cpu.q) : c \in Sessions /\ c # s
    BY <1>5, <2>1 DEF In, HasCpu, WaitCpu
  <2>3. PoolSound(Sessions, m.cpu, In(Sessions, w, HasCpu), CpuNeed(call), CpuCap)
    BY <1>8, <2>1, <2>2, NeedElsewhere
  <2>4. In(Sessions, u, HasCpu) = In(Sessions, w, HasCpu) /\ In(Sessions, u, WaitCpu) = In(Sessions, w, WaitCpu)
    BY <1>7, SameIn
  <2> QED BY <1>4, <2>1, <2>3, <2>4 DEF PoolAt
<1>11. ArrivalsAt(call.arrivals, u)
  <2>1. \A e \in call.arrivals : e \in m.arrivals /\ e[1] # s
    BY <1>4, <1>5
  <2>2. \A e \in m.arrivals : e[1] # s => e \in call.arrivals
    <3>1. <<s, i>>[1] = s
      OBVIOUS
    <3> QED BY <1>4, <3>1
  <2>3. ASSUME NEW t \in Sessions
        PROVE  u[t] = "arriving" <=> \E e \in call.arrivals : e[1] = t
    <3>1. CASE t = s
      BY <1>6, <2>1, <3>1 DEF OneMoves
    <3>2. CASE t # s
      <4>1. w[t] = "arriving" <=> \E e \in m.arrivals : e[1] = t
        BY DEF Placed, ArrivalsAt
      <4> QED BY <1>6, <2>1, <2>2, <3>2, <4>1 DEF OneMoves
    <3> QED BY <3>1, <3>2
  <2>4. \A e, f \in call.arrivals : e[1] = f[1] => e = f
    BY <2>1 DEF Placed, ArrivalsAt
  <2> QED BY <2>3, <2>4 DEF ArrivalsAt
<1>12. ASSUME NEW t \in Sessions
       PROVE  ProgressOf(t, u[t], call.idx[t], call.left[t], call.finished[t], call.arrivals)
  <2>1. CASE t = s
    <3>0. m.finished[s] \in Nat /\ i \in Nat
      BY DEF SimType
    <3>1. /\ u[s] = "out" /\ call.idx[s] = i /\ call.left[s] = Trace[s][i].output
          /\ call.finished[s] = i - 1 /\ i <= Len(Trace[s])
      <4>1. call.finished[s] = i - 1
        BY <1>4, <1>5, <3>0
      <4>2. call.idx[s] = i /\ call.left[s] = Trace[s][i].output
        BY <1>4 DEF SimType
      <4> QED BY <1>0, <1>6, <4>1, <4>2 DEF OneMoves
    <3>2. ProgressOf(s, "out", i, Trace[s][i].output, i - 1, call.arrivals)
      BY <3>1 DEF ProgressOf, Fresh
    <3> QED BY <2>1, <3>1, <3>2
  <2>2. CASE t # s
    <3>1. ProgressOf(t, w[t], m.idx[t], m.left[t], m.finished[t], m.arrivals)
      BY DEF Placed
    <3>2. /\ u[t] = w[t] /\ call.idx[t] = m.idx[t] /\ call.left[t] = m.left[t]
          /\ call.finished[t] = m.finished[t]
      BY <1>4, <1>6, <2>2 DEF OneMoves, SimType
    <3>3. <<t, m.finished[t] + 1>> \in m.arrivals
            => <<t, m.finished[t] + 1>> \in call.arrivals
      BY <1>4, <2>2
    <3> QED BY <3>1, <3>2, <3>3 DEF ProgressOf
  <2> QED BY <2>1, <2>2
<1>13. Placed(call, u)
  BY <1>4, <1>6, <1>7, <1>9, <1>10, <1>11, <1>12, KeptParts DEF Placed, OneMoves
<1> QED BY <1>4, <1>13

(* acquire of HBM by a session that was called.                            *)
LEMMA AskedPlaces ==
  ASSUME NEW m \in SimType, NEW w, Placed(m, w), NEW s \in Sessions, w[s] = "out",
         NEW x, x = [m EXCEPT !.hbm = Acquire(@, HbmNeed(m), s)],
         NEW b, b = IF Fits(m.hbm, HbmNeed(m), s) THEN "granted" ELSE "hbm queue"
  PROVE  x \in SimType /\ Placed(x, [w EXCEPT ![s] = b])
<1> DEFINE pool == Acquire(m.hbm, HbmNeed(m), s)
           v == [w EXCEPT ![s] = b]
<1>1. HbmNeed(m) \in [Sessions -> Nat] /\ HbmCap \in Int
  BY NeedTypes, SimAssumption
<1>2. pool \in Pools(Sessions)
  BY <1>1, AcquireType DEF SimType
<1>3. x = [m EXCEPT !.hbm = pool] /\ pool = Acquire(m.hbm, HbmNeed(m), s)
  BY DEF SimType
<1> HIDE DEF pool
<1>4. /\ x \in SimType
      /\ x.hbm = pool /\ x.cpu = m.cpu /\ x.c2c = m.c2c
      /\ x.prefillQ = m.prefillQ /\ x.gpuEvent = m.gpuEvent
      /\ x.decoding = m.decoding /\ x.resident = m.resident
      /\ x.finished = m.finished /\ x.arrivals = m.arrivals
      /\ x.idx = m.idx /\ x.left = m.left
  BY <1>2, <1>3 DEF SimType
<1>5. b = "granted" \/ b = "hbm queue"
  OBVIOUS
<1>6. OneMoves(w, v, s, b)
  BY <1>5, Moved DEF Placed, Stages, Passing, Resting
<1> HIDE DEF v
<1>7. \A S \in {ToArrive, WaitCpu, HasCpu, OnLink, WaitGpu, OnGpu, InBatch, IsCounted} :
        Alike(Sessions, w, v, S)
  BY <1>5, <1>6 DEF OneMoves, Alike, ToArrive, WaitCpu, HasCpu, OnLink, WaitGpu,
                    OnGpu, InBatch, IsCounted
<1>8. PoolAt(Sessions, x.hbm, v, WaitHbm, HasHbm, HbmNeed(x), HbmCap)
  <2>1. ASSUME NEW need, need = HbmNeed(m)
        PROVE  PoolAt(Sessions, pool, v, WaitHbm, HasHbm, need, HbmCap)
    <3>1. /\ w[s] \notin WaitHbm /\ w[s] \notin HasHbm
          /\ Fits(m.hbm, need, s) => v[s] \in HasHbm /\ v[s] \notin WaitHbm
          /\ ~Fits(m.hbm, need, s) => v[s] \in WaitHbm /\ v[s] \notin HasHbm
      BY <1>6, <2>1 DEF OneMoves, HasHbm, WaitHbm
    <3>2. \A t \in Sessions : t # s => v[t] = w[t]
      BY <1>6 DEF OneMoves
    <3>3. PoolAt(Sessions, m.hbm, w, WaitHbm, HasHbm, need, HbmCap)
      BY <2>1 DEF Placed
    <3> QED BY <1>1, <1>3, <2>1, <3>1, <3>2, <3>3, AcquireAt, SessionsFinite
  <2> QED BY <1>4, <2>1, SameNeeds
<1>9. ProgressOf(s, v[s], x.idx[s], x.left[s], x.finished[s], x.arrivals)
  <2>1. ProgressOf(s, "out", m.idx[s], m.left[s], m.finished[s], m.arrivals)
    BY DEF Placed
  <2> QED BY <1>4, <1>5, <1>6, <2>1 DEF ProgressOf, Fresh, OneMoves
<1>10. Placed(x, v)
  BY <1>4, <1>6, <1>7, <1>8, <1>9, Kept, KeptParts DEF Placed, OneMoves
<1> QED BY <1>4, <1>10 DEF v

(* The handler of an arrival.                                              *)
LEMMA ArrivePlaces ==
  ASSUME NEW m \in SimType, NEW w, AtRest(m, w), NEW s \in Sessions, NEW i \in Nat \ {0},
         <<s, i>> \in m.arrivals,
         NEW x, x = [m EXCEPT !.arrivals = @ \ {<<s, i>>}]
  PROVE  \E v : Turn(m, w, ArriveHandler(x, s, i), v)
<1>1. w \in [Sessions -> Resting] /\ Placed(m, w)
  BY DEF AtRest
<1>2. x \in SimType /\ x.hbm = m.hbm
  BY DEF SimType
<1>3. CASE i > Len(Trace[s])
  <2> DEFINE v == [w EXCEPT ![s] = "done"]
  <2>1. /\ x.hbm = m.hbm /\ x.cpu = m.cpu /\ x.c2c = m.c2c
        /\ x.prefillQ = m.prefillQ /\ x.gpuEvent = m.gpuEvent
        /\ x.decoding = m.decoding /\ x.resident = m.resident
        /\ x.finished = m.finished /\ x.arrivals = m.arrivals \ {<<s, i>>}
        /\ x.idx = m.idx /\ x.left = m.left
    BY DEF SimType
  <2> DEFINE e0 == <<s, i>>
  <2>2. e0 \in m.arrivals /\ e0[1] = s /\ x.arrivals = m.arrivals \ {e0}
    BY <2>1
  <2> HIDE DEF e0
  <2>3. w[s] = "arriving" /\ \A e \in m.arrivals : e[1] = s => e = e0
    BY <1>1, <2>2 DEF Placed, ArrivalsAt
  <2>4. x.finished[s] = Len(Trace[s])
    <3>1. /\ <<s, m.finished[s] + 1>> \in m.arrivals
          /\ m.finished[s] = 0 \/ m.finished[s] < Len(Trace[s])
      BY <1>1, <2>3 DEF Placed, ProgressOf
    <3>2. <<s, m.finished[s] + 1>> = <<s, i>>
      BY <2>3, <3>1 DEF e0
    <3>3. m.finished[s] \in Nat /\ Len(Trace[s]) \in Nat
      BY SimAssumption DEF SimType
    <3> QED BY <1>3, <2>1, <3>1, <3>2, <3>3
  <2>5. OneMoves(w, v, s, "done") /\ v \in [Sessions -> Resting]
    BY <1>1, Moved DEF Placed, Stages, Resting
  <2> HIDE DEF v
  <2>6. \A S \in {WaitHbm, HasHbm, WaitCpu, HasCpu, OnLink, WaitGpu, OnGpu, InBatch,
                  IsCounted} : Alike(Sessions, w, v, S)
    BY <2>3, <2>5 DEF OneMoves, Alike, WaitHbm, HasHbm, WaitCpu, HasCpu, OnLink, WaitGpu,
                      OnGpu, InBatch, IsCounted
  <2>7. ArrivalsAt(x.arrivals, v)
    <3>1. \A e \in x.arrivals : e \in m.arrivals /\ e[1] # s
      BY <2>2, <2>3
    <3>2. \A e \in m.arrivals : e[1] # s => e \in x.arrivals
      BY <2>2
    <3>3. ASSUME NEW t \in Sessions
          PROVE  v[t] = "arriving" <=> \E e \in x.arrivals : e[1] = t
      <4>1. CASE t = s
        BY <2>5, <3>1, <4>1 DEF OneMoves
      <4>2. CASE t # s
        <5>1. w[t] = "arriving" <=> \E e \in m.arrivals : e[1] = t
          BY <1>1 DEF Placed, ArrivalsAt
        <5> QED BY <2>5, <3>1, <3>2, <4>2, <5>1 DEF OneMoves
      <4> QED BY <4>1, <4>2
    <3>4. \A e, f \in x.arrivals : e[1] = f[1] => e = f
      BY <1>1, <3>1 DEF Placed, ArrivalsAt
    <3> QED BY <3>3, <3>4 DEF ArrivalsAt
  <2>8. ASSUME NEW t \in Sessions
        PROVE  ProgressOf(t, v[t], x.idx[t], x.left[t], x.finished[t], x.arrivals)
    <3>1. CASE t = s
      BY <2>4, <2>5, <3>1 DEF ProgressOf, Fresh, OneMoves
    <3>2. CASE t # s
      <4>1. ProgressOf(t, w[t], m.idx[t], m.left[t], m.finished[t], m.arrivals)
        BY <1>1 DEF Placed
      <4>2. <<t, m.finished[t] + 1>> \in m.arrivals
              => <<t, m.finished[t] + 1>> \in x.arrivals
        BY <2>1, <3>2
      <4> QED BY <2>1, <2>5, <3>2, <4>1, <4>2 DEF ProgressOf, OneMoves
    <3> QED BY <3>1, <3>2
  <2>9. Placed(x, v)
    BY <1>1, <2>1, <2>5, <2>6, <2>7, <2>8, Kept, KeptParts DEF Placed, OneMoves
  <2>10. Passes(s, m, w, x, v)
    BY <2>1, <2>3, <2>5 DEF Passes, OneMoves
  <2>11. AtRest(x, v)
    BY <2>5, <2>9 DEF AtRest
  <2>12. Turn(m, w, x, v)
    BY <2>1, <2>5, <2>10, <2>11, OnePasses DEF OneMoves
  <2> QED BY <1>3, <2>12 DEF ArriveHandler
<1>4. CASE ~(i > Len(Trace[s]))
  <2> DEFINE call == [x EXCEPT !.idx[s] = i, !.left[s] = Trace[s][i].output]
             asked == [call EXCEPT !.hbm = Acquire(@, HbmNeed(call), s)]
             b == IF Fits(call.hbm, HbmNeed(call), s) THEN "granted" ELSE "hbm queue"
             u == [w EXCEPT ![s] = "out"]
             v == [u EXCEPT ![s] = b]
  <2>1. i <= Len(Trace[s])
    <3>1. Len(Trace[s]) \in Nat
      BY SimAssumption
    <3> QED BY <1>4, <3>1
  <2>2. call = [x EXCEPT !.idx[s] = i, !.left[s] = Trace[s][i].output]
    OBVIOUS
  <2>3. asked = [call EXCEPT !.hbm = Acquire(@, HbmNeed(call), s)]
        /\ b = IF Fits(call.hbm, HbmNeed(call), s) THEN "granted" ELSE "hbm queue"
    OBVIOUS
  <2>4. ArriveHandler(x, s, i)
          = IF Fits(x.hbm, HbmNeed(call), s) THEN Admitted(asked, s) ELSE asked
    BY <1>4 DEF ArriveHandler
  <2> HIDE DEF call, asked, b
  <2>5. call \in SimType /\ call.hbm = x.hbm /\ Placed(call, u)
    <3>1. Calling(m, s, i, x, call)
      BY <2>1, <2>2 DEF Calling
    <3> HIDE DEF u
    <3>2. OneMoves(w, u, s, "out") /\ Placed(m, w)
      BY <1>1, Moved DEF u, Placed, Stages, Passing
    <3>3. call \in SimType /\ call.hbm = m.hbm /\ Placed(call, u)
      BY <3>1, <3>2, CallPlaces
    <3> QED BY <1>2, <3>3
  <2>6. u[s] = "out" /\ v = [w EXCEPT ![s] = b] /\ v[s] = b
    BY <1>1
  <2> HIDE DEF u, v
  <2>7. asked \in SimType /\ Placed(asked, [u EXCEPT ![s] = b])
    BY <2>3, <2>5, <2>6, AskedPlaces
  <2>8. Placed(asked, v)
    BY <2>7 DEF v
  <2>9. ASSUME NEW y, SameCalls(y, asked), NEW c \in {"hbm queue"} \cup Inside,
               NEW z, z = [w EXCEPT ![s] = c], Placed(y, z)
        PROVE  Turn(m, w, y, z)
    <3>1. /\ asked.idx = [m.idx EXCEPT ![s] = i] /\ asked.finished = m.finished
          /\ m.idx \in [Sessions -> Nat \ {0}]
      <4>1. x.idx = m.idx /\ x.finished = m.finished
        BY DEF SimType
      <4>2. call.idx = [x.idx EXCEPT ![s] = i] /\ call.finished = x.finished
        BY <1>2, <2>2 DEF SimType
      <4>3. asked.idx = call.idx /\ asked.finished = call.finished
        BY <2>3, <2>5 DEF SimType
      <4> QED BY <4>1, <4>2, <4>3 DEF SimType
    <3>2. y.idx = asked.idx /\ y.finished = asked.finished
      BY <2>9 DEF SameCalls
    <3>3. c \in Resting
      BY DEF Inside, Resting
    <3>4. /\ z \in [Sessions -> Resting] /\ z[s] = c
          /\ \A t \in Sessions : t # s => z[t] = w[t]
      BY <1>1, <2>9, <3>3
    <3>5. AtRest(y, z)
      BY <2>9, <3>4 DEF AtRest
    <3>6. w[s] = "arriving"
      <4> DEFINE e0 == <<s, i>>
      <4>1. e0 \in m.arrivals /\ e0[1] = s
        OBVIOUS
      <4> HIDE DEF e0
      <4> QED BY <1>1, <4>1 DEF Placed, ArrivalsAt
    <3>7. /\ y.finished = m.finished
          /\ \A t \in Sessions : t # s => y.idx[t] = m.idx[t]
      BY <3>1, <3>2
    <3>8. Passes(s, m, w, y, z)
      BY <3>4, <3>6, <3>7 DEF Passes
    <3> QED BY <3>4, <3>5, <3>7, <3>8, OnePasses
  <2>10. CASE Fits(x.hbm, HbmNeed(call), s)
    <3>1. v[s] = "granted"
      BY <2>3, <2>5, <2>6, <2>10
    <3>2. /\ SameCalls(Admitted(asked, s), asked)
          /\ \E c \in {"cpu queue", "loading"} : Placed(Admitted(asked, s), [v EXCEPT ![s] = c])
      BY <2>7, <2>8, <3>1, AdmittedPlaces
    <3>3. PICK c \in {"cpu queue", "loading"} : Placed(Admitted(asked, s), [v EXCEPT ![s] = c])
      BY <3>2
    <3>4. [v EXCEPT ![s] = c] = [w EXCEPT ![s] = c] /\ c \in {"hbm queue"} \cup Inside
      BY <1>1, <2>6 DEF Inside
    <3>5. Turn(m, w, Admitted(asked, s), [w EXCEPT ![s] = c])
      BY <2>9, <3>2, <3>3, <3>4
    <3> QED BY <2>4, <2>10, <3>5
  <2>11. CASE ~Fits(x.hbm, HbmNeed(call), s)
    <3>1. b = "hbm queue"
      BY <2>3, <2>5, <2>11
    <3>2. SameCalls(asked, asked)
      BY DEF SameCalls
    <3>3. Turn(m, w, asked, v)
      BY <2>6, <2>8, <2>9, <3>1, <3>2
    <3> QED BY <2>4, <2>11, <3>3
  <2> QED BY <2>10, <2>11
<1> QED BY <1>3, <1>4

(* The end of a transfer: a load takes its session to the prefill queue.   *)
LEMMA C2CFinPlaces ==
  ASSUME NEW m \in SimType, Exclusive(m), NEW w, AtRest(m, w), GpuRests(m),
         NEW job \in LinkJobs, job \in m.c2c.flying
  PROVE  /\ \E v : Turn(m, w, C2CFinHandler(m, job), v)
         /\ GpuRests(C2CFinHandler(m, job))
<1> DEFINE l == Fin(m.c2c, job)
<1>1. w \in [Sessions -> Resting] /\ Placed(m, w)
  BY DEF AtRest
<1>2. /\ l \in Links(LinkJobs) /\ Once(l, LoadJobs) /\ Rested(l)
      /\ \A j : j # job => (j \in Jobs(l) <=> j \in Jobs(m.c2c))
      /\ job \in LoadJobs => job \notin Jobs(l)
  <2>1. m.c2c \in Links(LinkJobs) /\ Once(m.c2c, LoadJobs)
    BY <1>1 DEF Placed, LinkAt, SimType
  <2> QED BY <2>1, FinJobs
<1>3. CASE job[1] = "load"
  <2> DEFINE s == job[2]
             z == [m EXCEPT !.prefillQ = Append(@, s)]
             y == [z EXCEPT !.c2c = l]
             v == [w EXCEPT ![s] = "prefill queue"]
  <2>1. s \in Sessions /\ job = Load(s) /\ job \in LoadJobs
    BY <1>3 DEF LinkJobs, Load, LoadJobs
  <2>2. w[s] = "loading"
    BY <1>1, <2>1 DEF Jobs, Placed, LinkAt
  <2>3. /\ m.prefillQ \in Seq(Sessions) /\ Distinct(m.prefillQ)
        /\ Range(m.prefillQ) = In(Sessions, w, WaitGpu) /\ s \notin Range(m.prefillQ)
    BY <1>1, <2>2 DEF Placed, QueueAt, In, WaitGpu, SimType
  <2> HIDE DEF s
  <2>4. /\ Append(m.prefillQ, s) \in Seq(Sessions) /\ Distinct(Append(m.prefillQ, s))
        /\ Range(Append(m.prefillQ, s)) = Range(m.prefillQ) \cup {s}
    BY <2>1, <2>3, AppendDistinct
  <2>5. z \in SimType /\ z.c2c = m.c2c
    BY <2>4 DEF SimType
  <2>6. C2CFinHandler(m, job) = PumpGpu(y)
    <3>1. PumpGpu(z).c2c = z.c2c
      BY <2>5 DEF PumpGpu, DecodeStep, SimType
    <3>2. PumpGpu(y) = [PumpGpu(z) EXCEPT !.c2c = l]
      BY <2>5, PumpGpuLink
    <3>3. C2CFinHandler(m, job) = [PumpGpu(z) EXCEPT !.c2c = Fin(PumpGpu(z).c2c, job)]
      BY <1>3 DEF C2CFinHandler, ReadyPrefill, s
    <3> QED BY <2>5, <3>1, <3>2, <3>3
  <2> HIDE DEF l
  <2>7. /\ y \in SimType
        /\ y.hbm = m.hbm /\ y.cpu = m.cpu /\ y.c2c = l /\ y.prefillQ = Append(m.prefillQ, s)
        /\ y.gpuEvent = m.gpuEvent /\ y.resident = m.resident
        /\ y.arrivals = m.arrivals /\ y.decoding = m.decoding
        /\ y.idx = m.idx /\ y.left = m.left /\ y.finished = m.finished
        /\ y.gpuBusy = m.gpuBusy
    BY <1>2, <2>4 DEF SimType
  <2>8. OneMoves(w, v, s, "prefill queue") /\ v \in [Sessions -> Resting]
    BY <1>1, <2>1, Moved DEF Placed, Stages, Resting
  <2> HIDE DEF v, y, z
  <2>9. /\ \A S \in {ToArrive, WaitHbm, HasHbm, WaitCpu, HasCpu, OnGpu, InBatch, IsCounted} :
             Alike(Sessions, w, v, S)
        /\ w[s] \notin WaitGpu /\ v[s] \in WaitGpu
    BY <2>2, <2>8 DEF OneMoves, Alike, ToArrive, WaitHbm, HasHbm, WaitCpu, HasCpu,
                      WaitGpu, OnGpu, InBatch, IsCounted
  <2>10. QueueAt(Sessions, y.prefillQ, v, WaitGpu)
    <3>1. s \in Sessions
      BY <2>1
    <3>2. w[s] \notin WaitGpu /\ v[s] \in WaitGpu
      BY <2>9
    <3>3. \A t \in Sessions : t # s => v[t] = w[t]
      BY <2>8 DEF OneMoves
    <3>4. In(Sessions, v, WaitGpu) = In(Sessions, w, WaitGpu) \cup {s}
      BY <3>1, <3>2, <3>3, JoinsIn
    <3> QED BY <2>3, <2>4, <2>7, <3>4 DEF QueueAt
  <2>11. LinkAt(y.c2c, v)
    <3>1. \A t \in Sessions : Load(t) = job <=> t = s
      BY <2>1 DEF Load
    <3>2. \A t \in Sessions : Load(t) \in Jobs(m.c2c) <=> w[t] = "loading"
      BY <1>1 DEF Placed, LinkAt
    <3>3. \A t \in Sessions : Load(t) \in Jobs(l) <=> v[t] = "loading"
      BY <1>2, <2>1, <2>8, <3>1, <3>2 DEF OneMoves
    <3> QED BY <1>2, <2>7, <3>3 DEF LinkAt
  <2>12. ProgressOf(s, v[s], y.idx[s], y.left[s], y.finished[s], y.arrivals)
    <3>1. ProgressOf(s, "loading", m.idx[s], m.left[s], m.finished[s], m.arrivals)
      BY <1>1, <2>1, <2>2 DEF Placed
    <3> QED BY <2>7, <2>8, <3>1 DEF ProgressOf, Fresh, OneMoves
  <2>13. Placed(y, v)
    BY <1>1, <2>7, <2>8, <2>9, <2>10, <2>11, <2>12, Kept, KeptParts DEF Placed, OneMoves
  <2>14. Exclusive(y) /\ AtRest(y, v)
    BY <2>7, <2>8, <2>13 DEF Exclusive, AtRest
  <2>15. Turn(m, w, y, v)
    <3>1. w[s] \in Inside /\ v[s] \in Inside
      BY <2>2, <2>8 DEF OneMoves, Inside
    <3>2. Passes(s, m, w, y, v)
      BY <2>7, <3>1 DEF Passes, Carried
    <3> QED BY <2>1, <2>7, <2>8, <2>14, <3>2, OnePasses DEF OneMoves
  <2>16. GpuRests(PumpGpu(y)) /\ \E u : Started(y, v, PumpGpu(y), u)
    BY <2>7, <2>14, PumpGpuPlaces
  <2> QED BY <2>6, <2>15, <2>16, TurnStarted
<1>4. CASE job[1] # "load"
  <2> DEFINE x == C2CFinHandler(m, job)
  <2>1. x = [m EXCEPT !.c2c = l]
    BY <1>4 DEF C2CFinHandler
  <2> HIDE DEF x, l
  <2>2. /\ x.hbm = m.hbm /\ x.cpu = m.cpu /\ x.c2c = l /\ x.prefillQ = m.prefillQ
        /\ x.gpuEvent = m.gpuEvent /\ x.resident = m.resident
        /\ x.arrivals = m.arrivals /\ x.decoding = m.decoding
        /\ x.idx = m.idx /\ x.left = m.left /\ x.finished = m.finished
        /\ x.gpuBusy = m.gpuBusy
    BY <2>1 DEF SimType
  <2>3. \A S : Alike(Sessions, w, w, S)
    BY DEF Alike
  <2>4. LinkAt(x.c2c, w)
    <3>1. \A t \in Sessions : Load(t) # job
      BY <1>4 DEF Load
    <3>2. \A t \in Sessions : Load(t) \in Jobs(m.c2c) <=> w[t] = "loading"
      BY <1>1 DEF Placed, LinkAt
    <3> QED BY <1>2, <2>2, <3>1, <3>2 DEF LinkAt
  <2>5. Placed(x, w)
    BY <1>1, <2>2, <2>3, <2>4, Kept, KeptParts DEF Placed
  <2>6. Turn(m, w, x, w)
    BY <1>1, <2>2, <2>5 DEF Turn, Passes, Carried, AtRest
  <2> QED BY <2>2, <2>6 DEF GpuRests, x
<1> QED BY <1>3, <1>4

(* The end of a prefill: its session joins the batch.                      *)
LEMMA PrefillDonePlaces ==
  ASSUME NEW m \in SimType, NEW w, AtRest(m, w), NEW s \in Sessions, m.gpuEvent = {s},
         NEW x, x = [m EXCEPT !.gpuEvent = @ \ {s}]
  PROVE  /\ \E v : Turn(m, w, PrefillDoneHandler(x, s), v)
         /\ GpuRests(PrefillDoneHandler(x, s))
<1> DEFINE l == Transfer(m.c2c, Flush(s))
           batch == Append(m.decoding, s)
           y == [m EXCEPT !.gpuEvent = {}, !.gpuBusy = FALSE, !.c2c = l, !.decoding = batch]
<1>1. w \in [Sessions -> Resting] /\ Placed(m, w)
  BY DEF AtRest
<1> DEFINE v == [w EXCEPT ![s] = "decoding"]
<1>2. w[s] = "prefilling"
  <2>1. s \in m.gpuEvent \ {Tick}
    BY SimAssumption
  <2> QED BY <1>1, <2>1 DEF Placed, In, OnGpu
<1>3. /\ l \in Links(LinkJobs) /\ Once(l, LoadJobs) /\ Rested(l)
      /\ Jobs(l) = Jobs(m.c2c) \cup {Flush(s)}
  <2>1. /\ m.c2c \in Links(LinkJobs) /\ Once(m.c2c, LoadJobs)
        /\ Flush(s) \in LinkJobs /\ Flush(s) \notin LoadJobs
    BY <1>1, JobTypes DEF Placed, LinkAt, SimType, LoadJobs, Load, Flush
  <2> QED BY <2>1, TransferJobs
<1>4. /\ m.decoding \in Seq(Sessions) /\ Distinct(m.decoding)
      /\ Range(m.decoding) = In(Sessions, w, InBatch) /\ s \notin Range(m.decoding)
  BY <1>1, <1>2 DEF Placed, QueueAt, In, InBatch, SimType
<1>5. batch \in Seq(Sessions) /\ Distinct(batch) /\ Range(batch) = Range(m.decoding) \cup {s}
  BY <1>4, AppendDistinct
<1>6. PrefillDoneHandler(x, s) = PumpGpu(y)
  <2>1. y = [x EXCEPT !.gpuBusy = FALSE, !.c2c = Transfer(@, Flush(s)),
                      !.decoding = Append(@, s)]
    BY DEF SimType
  <2> QED BY <2>1 DEF PrefillDoneHandler
<1> HIDE DEF l, batch
<1>7. /\ y \in SimType
      /\ y.hbm = m.hbm /\ y.cpu = m.cpu /\ y.c2c = l /\ y.prefillQ = m.prefillQ
      /\ y.gpuEvent = {} /\ y.resident = m.resident
      /\ y.arrivals = m.arrivals /\ y.decoding = batch
      /\ y.idx = m.idx /\ y.left = m.left /\ y.finished = m.finished
      /\ y.gpuBusy = FALSE
  BY <1>3, <1>5 DEF SimType
<1>8. OneMoves(w, v, s, "decoding") /\ v \in [Sessions -> Resting]
  BY <1>1, Moved DEF Placed, Stages, Resting
<1> HIDE DEF v, y
<1>9. /\ \A S \in {ToArrive, WaitHbm, HasHbm, WaitCpu, HasCpu, OnLink, WaitGpu, IsCounted} :
           Alike(Sessions, w, v, S)
      /\ w[s] \in OnGpu /\ v[s] \notin OnGpu
      /\ w[s] \notin InBatch /\ v[s] \in InBatch
  BY <1>2, <1>8 DEF OneMoves, Alike, ToArrive, WaitHbm, HasHbm, WaitCpu, HasCpu, OnLink,
                    WaitGpu, OnGpu, InBatch, IsCounted
<1>10. QueueAt(Sessions, y.decoding, v, InBatch)
  <2>1. /\ \A t \in Sessions : t # s => v[t] = w[t]
        /\ w[s] \notin InBatch /\ v[s] \in InBatch
    BY <1>8, <1>9 DEF OneMoves
  <2>2. In(Sessions, v, InBatch) = In(Sessions, w, InBatch) \cup {s}
    BY <2>1, JoinsIn
  <2> QED BY <1>4, <1>5, <1>7, <2>2 DEF QueueAt
<1>11. y.gpuEvent \ {Tick} = In(Sessions, v, OnGpu)
  <2>1. /\ \A t \in Sessions : t # s => v[t] = w[t]
        /\ w[s] \in OnGpu /\ v[s] \notin OnGpu
    BY <1>8, <1>9 DEF OneMoves
  <2>2. In(Sessions, v, OnGpu) = In(Sessions, w, OnGpu) \ {s}
    BY <2>1, LeavesIn
  <2>3. In(Sessions, w, OnGpu) = m.gpuEvent \ {Tick}
    BY <1>1 DEF Placed
  <2> QED BY <1>7, <2>2, <2>3
<1>12. LinkAt(y.c2c, v)
  <2>1. \A t \in Sessions : Load(t) # Flush(s)
    BY DEF Load, Flush
  <2>2. \A t \in Sessions : Load(t) \in Jobs(m.c2c) <=> w[t] = "loading"
    BY <1>1 DEF Placed, LinkAt
  <2>3. \A t \in Sessions : w[t] = "loading" <=> v[t] = "loading"
    BY <1>2, <1>8 DEF OneMoves
  <2>4. \A t \in Sessions : Load(t) \in Jobs(l) <=> v[t] = "loading"
    BY <1>3, <2>1, <2>2, <2>3
  <2> QED BY <1>3, <1>7, <2>4 DEF LinkAt
<1>13. ProgressOf(s, v[s], y.idx[s], y.left[s], y.finished[s], y.arrivals)
  <2>1. ProgressOf(s, "prefilling", m.idx[s], m.left[s], m.finished[s], m.arrivals)
    BY <1>1, <1>2 DEF Placed
  <2> QED BY <1>7, <1>8, <2>1 DEF ProgressOf, Fresh, OneMoves
<1>14. Placed(y, v)
  BY <1>1, <1>7, <1>8, <1>9, <1>10, <1>11, <1>12, <1>13, Kept, KeptParts DEF Placed, OneMoves
<1>15. Exclusive(y) /\ AtRest(y, v)
  BY <1>7, <1>8, <1>14 DEF Exclusive, AtRest
<1>16. Turn(m, w, y, v)
  <2>1. w[s] \in Inside /\ v[s] \in Inside
    BY <1>2, <1>8 DEF OneMoves, Inside
  <2>2. Passes(s, m, w, y, v)
    BY <1>7, <2>1 DEF Passes, Carried
  <2> QED BY <1>7, <1>8, <1>15, <2>2, OnePasses DEF OneMoves
<1>17. GpuRests(PumpGpu(y)) /\ \E z : Started(y, v, PumpGpu(y), z)
  BY <1>7, <1>15, PumpGpuPlaces
<1> QED BY <1>6, <1>16, <1>17, TurnStarted

(* The end of a step: the calls that have all their tokens leave the batch.*)
LEMMA DecodeTickPlaces ==
  ASSUME NEW m \in SimType, NEW w, AtRest(m, w), m.gpuEvent = {Tick},
         NEW x, x = [m EXCEPT !.gpuEvent = @ \ {Tick}]
  PROVE  /\ \E v : Turn(m, w, DecodeTickHandler(x), v)
         /\ GpuRests(DecodeTickHandler(x))
<1> DEFINE left == [s \in Sessions |->
                      IF s \in Range(m.decoding) THEN m.left[s] - 1 ELSE m.left[s]]
           stepped == [m EXCEPT !.gpuEvent = {}, !.left = left]
           sifted == FinishLoop(stepped, m.decoding)[Len(m.decoding)]
           y == [sifted EXCEPT !.gpuBusy = FALSE]
<1>1. w \in [Sessions -> Resting] /\ Placed(m, w)
  BY DEF AtRest
<1> DEFINE u == [t \in Sessions |-> IF t \in Range(m.decoding) /\ ~(left[t] > 0)
                                      THEN "spent" ELSE w[t]]
<1>2. /\ left \in [Sessions -> Int]
      /\ \A t \in Sessions : t \notin Range(m.decoding) => left[t] = m.left[t]
  BY DEF SimType
<1>3. DecodeTickHandler(x) = PumpGpu(y)
  <2>1. /\ x.decoding = m.decoding /\ x.left = m.left
        /\ [x EXCEPT !.left = left] = stepped
    BY DEF SimType
  <2>2. DecodeTickHandler(x)
          = PumpGpu([FinishLoop([x EXCEPT !.left = left], x.decoding)[Len(x.decoding)]
                       EXCEPT !.gpuBusy = FALSE])
    BY <2>1 DEF DecodeTickHandler
  <2> QED BY <2>1, <2>2
<1>4. /\ u \in [Sessions -> Stages]
      /\ \A t \in Sessions : u[t] \in Resting \cup {"spent"}
      /\ \A t \in Sessions : u[t] = "spent" <=> t \in Range(m.decoding) /\ ~(left[t] > 0)
      /\ \A t \in Sessions : u[t] = w[t] \/ (u[t] = "spent" /\ w[t] = "decoding")
  <2>1. \A t \in Range(m.decoding) : w[t] = "decoding"
    BY <1>1 DEF Placed, QueueAt, In, InBatch, Resting
  <2>2. \A t \in Sessions : w[t] # "spent"
    BY <1>1 DEF Resting
  <2> QED BY <1>1, <2>1, <2>2 DEF Stages, Passing
<1> HIDE DEF left, u
<1>5. /\ stepped \in SimType
      /\ stepped.hbm = m.hbm /\ stepped.cpu = m.cpu /\ stepped.c2c = m.c2c
      /\ stepped.prefillQ = m.prefillQ /\ stepped.gpuEvent = {}
      /\ stepped.resident = m.resident /\ stepped.arrivals = m.arrivals
      /\ stepped.decoding = m.decoding /\ stepped.idx = m.idx /\ stepped.left = left
      /\ stepped.finished = m.finished
  BY <1>2 DEF SimType
<1> HIDE DEF stepped
<1>6. Placed(stepped, u)
  <2>1. \A S \in {ToArrive, WaitHbm, HasHbm, WaitCpu, HasCpu, OnLink, WaitGpu, OnGpu,
                  InBatch, IsCounted} : Alike(Sessions, w, u, S)
    BY <1>4 DEF Alike, ToArrive, WaitHbm, HasHbm, WaitCpu, HasCpu, OnLink, WaitGpu, OnGpu,
                InBatch, IsCounted
  <2>2. stepped.gpuEvent \ {Tick} = m.gpuEvent \ {Tick}
    BY <1>5
  <2>3. ASSUME NEW t \in Sessions
        PROVE  ProgressOf(t, u[t], m.idx[t], left[t], m.finished[t], m.arrivals)
    <3>1. ProgressOf(t, w[t], m.idx[t], m.left[t], m.finished[t], m.arrivals)
      BY <1>1 DEF Placed
    <3>2. CASE t \in Range(m.decoding)
      <4>1. w[t] = "decoding"
        BY <1>1, <3>2 DEF Placed, QueueAt, In, InBatch, Resting
      <4>2. (u[t] = "decoding" /\ left[t] > 0) \/ u[t] = "spent"
        BY <1>4, <3>2, <4>1
      <4> QED BY <3>1, <4>1, <4>2 DEF ProgressOf, Fresh
    <3>3. CASE t \notin Range(m.decoding)
      BY <1>2, <1>4, <3>1, <3>3
    <3> QED BY <3>2, <3>3
  <2> QED BY <1>1, <1>4, <1>5, <2>1, <2>2, <2>3, Kept, KeptParts DEF Placed
<1>7. /\ sifted.idx = stepped.idx
      /\ \E v \in [Sessions -> Resting] :
           /\ Placed(sifted, v)
           /\ \A t \in Sessions :
                SiftedOut(t, stepped, u, sifted, v) \/ SiftedPast(t, stepped, u, sifted, v)
  <2>1. \A t \in Range(stepped.decoding) : u[t] = "spent" <=> ~(stepped.left[t] > 0)
    <3>1. \A t \in Range(m.decoding) : t \in Sessions
      BY <1>1 DEF Placed, QueueAt, In
    <3> QED BY <1>4, <1>5, <3>1
  <2>2. sifted = FinishLoop(stepped, stepped.decoding)[Len(stepped.decoding)]
    BY <1>5
  <2> HIDE DEF sifted
  <2> QED BY <1>4, <1>5, <1>6, <2>1, <2>2, FinishLoopPlaces
<1>8. sifted \in SimType /\ SameGpu(sifted, stepped)
  <2>1. m.decoding \in Seq(Sessions)
    BY DEF SimType
  <2> QED BY <1>5, <2>1, FinishLoopEffect DEF Untouched
<1> HIDE DEF sifted
<1>9. /\ y \in SimType
      /\ y.hbm = sifted.hbm /\ y.cpu = sifted.cpu /\ y.c2c = sifted.c2c
      /\ y.prefillQ = sifted.prefillQ /\ y.gpuEvent = sifted.gpuEvent /\ y.gpuEvent = {}
      /\ y.resident = sifted.resident /\ y.arrivals = sifted.arrivals
      /\ y.decoding = sifted.decoding /\ y.idx = sifted.idx /\ y.left = sifted.left
      /\ y.finished = sifted.finished /\ y.gpuBusy = FALSE
  BY <1>5, <1>8 DEF SimType, SameGpu
<1> HIDE DEF y
<1>10. PICK v \in [Sessions -> Resting] :
          /\ Placed(sifted, v)
          /\ \A t \in Sessions :
               SiftedOut(t, stepped, u, sifted, v) \/ SiftedPast(t, stepped, u, sifted, v)
  BY <1>7
<1>11. Placed(y, v)
  <2>1. \A S : Alike(Sessions, v, v, S)
    BY DEF Alike
  <2> QED BY <1>9, <1>10, <2>1, Kept, KeptParts DEF Placed
<1>12. Exclusive(y) /\ AtRest(y, v)
  BY <1>9, <1>10, <1>11 DEF Exclusive, AtRest
<1>13. ASSUME NEW t \in Sessions PROVE Passes(t, m, w, y, v)
  <2>1. y.idx = m.idx /\ y.finished = sifted.finished /\ stepped.finished = m.finished
    BY <1>5, <1>7, <1>9
  <2>2. u[t] = w[t] \/ (u[t] = "spent" /\ w[t] = "decoding")
    BY <1>4
  <2>3. CASE SiftedOut(t, stepped, u, sifted, v)
    <3>1. u[t] = "spent" /\ v[t] \in {"arriving", "done"} /\ y.finished[t] = m.finished[t] + 1
      BY <2>1, <2>3 DEF SiftedOut
    <3>2. w[t] = "decoding"
      BY <1>1, <2>2, <3>1 DEF Resting
    <3> QED BY <2>1, <3>1, <3>2 DEF Passes
  <2>4. CASE SiftedPast(t, stepped, u, sifted, v)
    <3>1. Goes(u[t], v[t]) /\ y.finished[t] = m.finished[t]
      BY <2>1, <2>4 DEF SiftedPast
    <3>2. u[t] # "spent"
      BY <1>10, <3>1 DEF Goes, Resting
    <3>3. u[t] = w[t]
      BY <2>2, <3>2
    <3>4. Carried(w[t], v[t])
      BY <3>1, <3>3 DEF Goes, Carried, Inside
    <3> QED BY <2>1, <3>1, <3>4 DEF Passes
  <2> QED BY <1>10, <2>3, <2>4
<1>14. Turn(m, w, y, v)
  BY <1>12, <1>13 DEF Turn
<1>15. GpuRests(PumpGpu(y)) /\ \E z : Started(y, v, PumpGpu(y), z)
  BY <1>9, <1>12, PumpGpuPlaces
<1> QED BY <1>3, <1>14, <1>15, TurnStarted

-----------------------------------------------------------------------------
(* The stronger inductive invariant: the theorems on bytes, places and     *)
(* wake-ups need to know where every session is.                           *)
PInv == IInv /\ (\E w : AtRest(sim, w)) /\ GpuRests(sim)

(* At the start nobody has been called.                                    *)
LEMMA InitRests == Init => PInv
<1> SUFFICES ASSUME Init PROVE PInv
  OBVIOUS
<1> DEFINE w == [s \in Sessions |-> "arriving"]
<1>1. sim = InitialSim /\ sim \in SimType
  BY InitHolds DEF Init, IInv, TypeOK
<1>2. /\ sim.hbm = EmptyPool(HbmCap) /\ sim.cpu = EmptyPool(CpuCap) /\ sim.c2c = IdleLink
      /\ sim.prefillQ = <<>> /\ sim.decoding = <<>> /\ sim.gpuEvent = {} /\ sim.resident = 0
      /\ sim.arrivals = {<<s, 1>> : s \in Sessions}
      /\ sim.finished = [s \in Sessions |-> 0] /\ sim.idx = [s \in Sessions |-> 1]
  BY <1>1 DEF InitialSim
<1>3. w \in [Sessions -> Stages] /\ w \in [Sessions -> Resting] /\ ToArrive = {"arriving"}
  BY DEF Stages, Resting, ToArrive
<1>4. /\ In(Sessions, w, WaitHbm) = {} /\ In(Sessions, w, HasHbm) = {} /\ In(Sessions, w, WaitCpu) = {}
      /\ In(Sessions, w, HasCpu) = {} /\ In(Sessions, w, WaitGpu) = {} /\ In(Sessions, w, OnGpu) = {}
      /\ In(Sessions, w, InBatch) = {} /\ In(Sessions, w, IsCounted) = {}
  BY DEF In, WaitHbm, HasHbm, WaitCpu, HasCpu, WaitGpu, OnGpu, InBatch, IsCounted
<1>5. Range(<<>>) = {} /\ \A C : Distinct(<<>>) /\ <<>> \in Seq(C)
  BY DEF Range, Distinct
<1>6. ASSUME NEW cap \in Int, NEW need
      PROVE  PoolSound(Sessions, EmptyPool(cap), {}, need, cap)
  <2>1. Bytes({}, need) = {}
    BY DEF Bytes
  <2>2. Cardinality(Bytes({}, need)) = 0
    BY <2>1, FS_EmptySet
  <2>3. EmptyPool(cap).q = <<>> /\ EmptyPool(cap).free = cap /\ EmptyPool(cap) \in Pools(Sessions)
    BY <1>5 DEF EmptyPool, Pools
  <2> QED BY <1>5, <2>2, <2>3 DEF PoolSound, Blocked
<1>7. /\ PoolAt(Sessions, sim.hbm, w, WaitHbm, HasHbm, HbmNeed(sim), HbmCap)
      /\ PoolAt(Sessions, sim.cpu, w, WaitCpu, HasCpu, CpuNeed(sim), CpuCap)
  <2>1. sim.hbm.q = <<>> /\ sim.cpu.q = <<>>
    BY <1>2 DEF EmptyPool
  <2> QED BY <1>2, <1>4, <1>5, <1>6, <2>1, SimAssumption DEF PoolAt
<1>8. LinkAt(sim.c2c, w)
  <2>1. sim.c2c.q = <<>> /\ sim.c2c.flying = {} /\ Len(<<>>) = 0
    BY <1>2 DEF IdleLink
  <2> QED BY <1>5, <2>1 DEF LinkAt, Once, Rested, Jobs
<1>9. ArrivalsAt(sim.arrivals, w)
  <2>1. \A e \in sim.arrivals : e = <<e[1], 1>> /\ e[1] \in Sessions
    BY <1>2
  <2>2. \A s \in Sessions : <<s, 1>> \in sim.arrivals /\ <<s, 1>>[1] = s
    BY <1>2
  <2>3. \A s \in Sessions : \E e \in sim.arrivals : e[1] = s
    BY <2>2
  <2> QED BY <2>1, <2>3 DEF ArrivalsAt
<1>10. QueueAt(Sessions, sim.prefillQ, w, WaitGpu) /\ QueueAt(Sessions, sim.decoding, w, InBatch)
  BY <1>2, <1>4, <1>5 DEF QueueAt
<1>11. sim.gpuEvent \ {Tick} = In(Sessions, w, OnGpu) /\ sim.resident = Cardinality(In(Sessions, w, IsCounted))
  BY <1>2, <1>4, FS_EmptySet
<1>12. ASSUME NEW s \in Sessions
       PROVE  ProgressOf(s, w[s], sim.idx[s], sim.left[s], sim.finished[s], sim.arrivals)
  <2>1. sim.finished[s] = 0 /\ sim.idx[s] = 1 /\ <<s, 1>> \in sim.arrivals /\ w[s] = "arriving"
    BY <1>2
  <2>2. Len(Trace[s]) \in Nat
    BY SimAssumption
  <2> QED BY <2>1, <2>2 DEF ProgressOf, Fresh
<1> HIDE DEF w
<1>13. Placed(sim, w)
  BY <1>3, <1>7, <1>8, <1>9, <1>10, <1>11, <1>12 DEF Placed
<1>14. AtRest(sim, w)
  BY <1>3, <1>13 DEF AtRest
<1> QED BY <1>2, <1>14, InitHolds DEF PInv, GpuRests

(* Every turn of the event loop takes each session on and brings it to     *)
(* rest again.                                                             *)
LEMMA TurnRests ==
  ASSUME IInv, GpuRests(sim), NEW w, AtRest(sim, w), Next
  PROVE  GpuRests(sim') /\ \E v : Turn(sim, w, sim', v)
<1>1. sim \in SimType /\ Exclusive(sim)
  BY DEF IInv, TypeOK
<1> DEFINE Rests == GpuRests(sim') /\ \E v : Turn(sim, w, sim', v)
<1>2. ASSUME NEW s \in Sessions, Arrive(s) PROVE Rests
  <2>1. PICK i \in 1..(Len(Trace[s]) + 1) :
          /\ <<s, i>> \in sim.arrivals
          /\ sim' = ArriveHandler([sim EXCEPT !.arrivals = @ \ {<<s, i>>}], s, i)
    BY <1>2 DEF Arrive
  <2> DEFINE x == [sim EXCEPT !.arrivals = @ \ {<<s, i>>}]
  <2>2. x \in SimType /\ SameGpu(x, sim) /\ x.decoding = sim.decoding
    BY <1>1 DEF SimType, SameGpu
  <2>3. i \in Nat \ {0} /\ sim' = ArriveHandler(x, s, i)
    BY <2>1
  <2>4. \E v : Turn(sim, w, ArriveHandler(x, s, i), v)
    BY <1>1, <2>1, <2>3, ArrivePlaces
  <2> HIDE DEF x
  <2>5. sim' \in Untouched(x) /\ sim'.decoding = x.decoding
    BY <2>2, <2>3, ArriveEffect
  <2>6. GpuRests(sim')
    BY <2>2, <2>5 DEF Untouched, SameGpu, GpuRests
  <2> QED BY <2>3, <2>4, <2>6
<1>3. ASSUME NEW s \in Sessions, PrefillDone(s) PROVE Rests
  <2> DEFINE x == [sim EXCEPT !.gpuEvent = @ \ {s}]
  <2>1. sim.gpuEvent = {s} /\ sim' = PrefillDoneHandler(x, s)
    BY <1>1, <1>3, OnlyEvent DEF PrefillDone, IInv
  <2> QED BY <1>1, <2>1, PrefillDonePlaces
<1>4. ASSUME NEW job \in LinkJobs, C2CFin(job) PROVE Rests
  <2>1. job \in sim.c2c.flying /\ sim' = C2CFinHandler(sim, job)
    BY <1>4 DEF C2CFin
  <2> QED BY <1>1, <2>1, C2CFinPlaces
<1>5. ASSUME DecodeTick PROVE Rests
  <2> DEFINE x == [sim EXCEPT !.gpuEvent = @ \ {Tick}]
  <2>1. sim.gpuEvent = {Tick} /\ sim' = DecodeTickHandler(x)
    BY <1>1, <1>5, OnlyEvent DEF DecodeTick, IInv
  <2> QED BY <1>1, <2>1, DecodeTickPlaces
<1> HIDE DEF Rests
<1>6. Rests
  BY <1>2, <1>3, <1>4, <1>5 DEF Next
<1> QED BY <1>6 DEF Rests

LEMMA StepRests ==
  ASSUME PInv, [Next]_sim
  PROVE  PInv'
<1>1. PICK w : AtRest(sim, w)
  BY DEF PInv
<1>2. IInv /\ GpuRests(sim)
  BY DEF PInv
<1>3. CASE Next
  <2>1. GpuRests(sim') /\ \E v : Turn(sim, w, sim', v)
    BY <1>1, <1>2, <1>3, TurnRests
  <2>2. \E v : AtRest(sim', v)
    BY <2>1 DEF Turn
  <2> QED BY <1>2, <2>1, <2>2, StepKeeps DEF PInv
<1>4. CASE UNCHANGED sim
  BY <1>1, <1>2, <1>4, StepKeeps DEF PInv
<1> QED BY <1>3, <1>4

(* Who holds bytes, read off the stages between two events.                *)
LEMMA HoldersAtRest ==
  ASSUME NEW m \in SimType, NEW w \in [Sessions -> Resting], Placed(m, w)
  PROVE  /\ CpuHolders(m) = In(Sessions, w, HasCpu)
         /\ HbmHolders(m) = In(Sessions, w, HasHbm)
         /\ In(Sessions, w, IsCounted) = In(Sessions, w, HasHbm)
<1>1. /\ Range(m.prefillQ) = In(Sessions, w, WaitGpu) /\ Prefilling(m) = In(Sessions, w, OnGpu)
      /\ Range(m.decoding) = In(Sessions, w, InBatch) /\ Range(m.cpu.q) = In(Sessions, w, WaitCpu)
  BY DEF Placed, QueueAt, PoolAt, Prefilling
<1>2. Loading(m) = In(Sessions, w, OnLink)
  BY DEF Placed, LinkAt, Jobs, Loading, In, OnLink
<1>3. In(Sessions, w, HasCpu) = In(Sessions, w, OnLink) \cup In(Sessions, w, WaitGpu) \cup In(Sessions, w, OnGpu) \cup In(Sessions, w, InBatch)
  BY DEF In, Resting, HasCpu, OnLink, WaitGpu, OnGpu, InBatch
<1>4. In(Sessions, w, HasHbm) = In(Sessions, w, HasCpu) \cup In(Sessions, w, WaitCpu)
  BY DEF In, Resting, HasCpu, HasHbm, WaitCpu
<1>5. In(Sessions, w, IsCounted) = In(Sessions, w, HasHbm)
  BY DEF In, Resting, HasHbm, IsCounted
<1> QED BY <1>1, <1>2, <1>3, <1>4, <1>5 DEF CpuHolders, HbmHolders

(* No byte of HBM or of the CPU store leaks or is handed out twice, and    *)
(* the counter of resident calls is exact between two events, through all  *)
(* callbacks that _finish runs inside its two releases.                    *)
THEOREM NoByteIsLost == Spec => []BytesConserved
<1>1. ASSUME PInv PROVE BytesConserved
  <2>1. PICK w \in [Sessions -> Resting] : Placed(sim, w)
    BY <1>1 DEF PInv, AtRest
  <2>2. sim \in SimType
    BY <1>1 DEF PInv, IInv, TypeOK
  <2>3. /\ CpuHolders(sim) = In(Sessions, w, HasCpu) /\ HbmHolders(sim) = In(Sessions, w, HasHbm)
        /\ In(Sessions, w, IsCounted) = In(Sessions, w, HasHbm)
    BY <2>1, <2>2, HoldersAtRest
  <2> QED BY <2>1, <2>3 DEF BytesConserved, Placed, PoolAt, PoolSound
<1> QED BY InitRests, StepRests, <1>1, PTL DEF Spec

(* No wake-up is lost: whatever could start has been started when the      *)
(* handler of an event returns.                                            *)
THEOREM NobodyIsForgotten == Spec => []NothingForgotten
<1>1. ASSUME PInv PROVE NothingForgotten
  <2>1. PICK w \in [Sessions -> Resting] : Placed(sim, w)
    BY <1>1 DEF PInv, AtRest
  <2> QED BY <1>1, <2>1
          DEF PInv, GpuRests, NothingForgotten, Placed, PoolAt, PoolSound, Blocked, LinkAt, Rested
<1> QED BY InitRests, StepRests, <1>1, PTL DEF Spec

(* No call stays in the batch after its last token.                        *)
THEOREM NoCallOverruns == Spec => []NoOverrun
<1>1. ASSUME PInv PROVE NoOverrun
  <2>1. PICK w \in [Sessions -> Resting] : Placed(sim, w)
    BY <1>1 DEF PInv, AtRest
  <2>2. ASSUME NEW s \in Range(sim.decoding)
        PROVE  sim.left[s] > 0 \/ sim.left[s] = Trace[s][sim.idx[s]].output
    <3>1. s \in Sessions /\ w[s] = "decoding"
      BY <2>1 DEF Placed, QueueAt, In, InBatch, Resting
    <3>2. ProgressOf(s, "decoding", sim.idx[s], sim.left[s], sim.finished[s], sim.arrivals)
      BY <2>1, <3>1 DEF Placed
    <3> QED BY <3>2 DEF ProgressOf
  <2> QED BY <2>2 DEF NoOverrun
<1> QED BY InitRests, StepRests, <1>1, PTL DEF Spec

-----------------------------------------------------------------------------
(* Each part of Places of a session between two events.                    *)
LEMMA PlacesAtRest ==
  ASSUME NEW m \in SimType, NEW w \in [Sessions -> Resting], Placed(m, w), NEW s \in Sessions
  PROVE  /\ AtMostOne(Places(m, s))
         /\ Places(m, s) # {} <=> w[s] # "done"
<1> DEFINE A == {"arrival"} \X {e \in m.arrivals : e[1] = s}
           H == Positions("hbm queue", m.hbm.q, s)
           C == Positions("cpu queue", m.cpu.q, s)
           L == Positions("link queue", m.c2c.q, Load(s))
           F == {"loading"} \X (m.c2c.flying \cap {Load(s)})
           P == Positions("prefill queue", m.prefillQ, s)
           G == {"prefilling"} \X (m.gpuEvent \cap {s})
           D == Positions("decoding", m.decoding, s)
<1>1. Places(m, s) = A \cup H \cup C \cup L \cup F \cup P \cup G \cup D
  BY DEF Places
<1>2. AtMostOne(A) /\ (A # {} <=> w[s] = "arriving")
  <2> DEFINE E == {e \in m.arrivals : e[1] = s}
  <2>1. (\A e, f \in E : e = f) /\ (E # {} <=> w[s] = "arriving")
    BY DEF Placed, ArrivalsAt
  <2>2. A = {"arrival"} \X E
    OBVIOUS
  <2> HIDE DEF E, A
  <2>3. CASE E = {}
    <3>1. {"arrival"} \X E = {}
      BY <2>3
    <3> QED BY <2>1, <2>2, <2>3, <3>1 DEF AtMostOne
  <2>4. CASE E # {}
    <3>1. PICK e : E = {e}
      BY <2>1, <2>4
    <3>2. {"arrival"} \X E = {<<"arrival", e>>}
      BY <3>1
    <3> QED BY <2>1, <2>2, <2>4, <3>2 DEF AtMostOne
  <2> QED BY <2>3, <2>4
<1>3. ASSUME NEW q \in Seq(Sessions), Distinct(q), NEW name
      PROVE  /\ AtMostOne(Positions(name, q, s))
             /\ Positions(name, q, s) # {} <=> s \in Range(q)
  <2>1. \A i, j \in DOMAIN q : q[i] = s /\ q[j] = s => i = j
    BY <1>3 DEF Distinct
  <2> QED BY <2>1, OnePosition DEF Positions
<1>4. /\ m.hbm.q \in Seq(Sessions) /\ Distinct(m.hbm.q)
      /\ m.cpu.q \in Seq(Sessions) /\ Distinct(m.cpu.q)
      /\ m.prefillQ \in Seq(Sessions) /\ Distinct(m.prefillQ)
      /\ m.decoding \in Seq(Sessions) /\ Distinct(m.decoding)
  BY DEF Placed, PoolAt, PoolSound, QueueAt, Pools, SimType
<1>5. /\ s \in Range(m.hbm.q) <=> w[s] = "hbm queue"
      /\ s \in Range(m.cpu.q) <=> w[s] = "cpu queue"
      /\ s \in Range(m.prefillQ) <=> w[s] = "prefill queue"
      /\ s \in Range(m.decoding) <=> w[s] = "decoding"
  BY DEF Placed, PoolAt, QueueAt, In, WaitHbm, WaitCpu, WaitGpu, InBatch, Resting
<1>6. /\ AtMostOne(H) /\ (H # {} <=> w[s] = "hbm queue")
      /\ AtMostOne(C) /\ (C # {} <=> w[s] = "cpu queue")
      /\ AtMostOne(P) /\ (P # {} <=> w[s] = "prefill queue")
      /\ AtMostOne(D) /\ (D # {} <=> w[s] = "decoding")
  BY <1>3, <1>4, <1>5
<1>7. AtMostOne(G) /\ (G # {} <=> w[s] = "prefilling")
  <2>1. s \in m.gpuEvent <=> w[s] = "prefilling"
    <3>1. s \in m.gpuEvent <=> s \in m.gpuEvent \ {Tick}
      BY SimAssumption
    <3> QED BY <3>1 DEF Placed, In, OnGpu
  <2>2. CASE s \in m.gpuEvent
    <3>1. G = {<<"prefilling", s>>}
      BY <2>2
    <3> QED BY <2>1, <2>2, <3>1 DEF AtMostOne
  <2>3. CASE s \notin m.gpuEvent
    <3>1. G = {}
      BY <2>3
    <3> QED BY <2>1, <2>3, <3>1 DEF AtMostOne
  <2> QED BY <2>2, <2>3
<1>8. AtMostOne(L \cup F) /\ (L \cup F # {} <=> w[s] = "loading")
  <2> DEFINE x == Load(s)
             q == m.c2c.q
  <2>1. /\ x \in LoadJobs /\ Once(m.c2c, LoadJobs) /\ q \in Seq(LinkJobs)
        /\ x \in m.c2c.flying \cup Range(q) <=> w[s] = "loading"
    BY DEF LoadJobs, Placed, LinkAt, SimType, Links, Jobs
  <2>2. DOMAIN q = 1..Len(q)
    BY <2>1
  <2> HIDE DEF x
  <2>3. /\ \A i, j \in DOMAIN q : q[i] = x /\ q[j] = x => i = j
        /\ x \in Range(q) => x \notin m.c2c.flying
    BY <2>1, <2>2 DEF Once, Range
  <2>4. L = Positions("link queue", q, x)
    BY DEF x
  <2>5. F = {"loading"} \X (m.c2c.flying \cap {x})
    BY DEF x
  <2> HIDE DEF L, F, q
  <2>6. AtMostOne(L) /\ (L # {} <=> x \in Range(q))
    <3>1. \A i, j \in DOMAIN q : q[i] = x /\ q[j] = x => i = j
      BY <2>3
    <3>2. /\ AtMostOne(Positions("link queue", q, x))
          /\ Positions("link queue", q, x) # {} <=> x \in Range(q)
      BY <3>1, OnePosition DEF Positions
    <3> QED BY <2>4, <3>2
  <2>7. CASE x \in m.c2c.flying
    <3>1. m.c2c.flying \cap {x} = {x} /\ L = {}
      BY <2>3, <2>6, <2>7
    <3>2. L \cup F = {<<"loading", x>>}
      BY <2>5, <3>1
    <3> QED BY <2>1, <2>7, <3>2 DEF AtMostOne
  <2>8. CASE x \notin m.c2c.flying
    <3>1. m.c2c.flying \cap {x} = {}
      BY <2>8
    <3>2. L \cup F = L
      BY <2>5, <3>1
    <3> QED BY <2>1, <2>6, <2>8, <3>2
  <2> QED BY <2>7, <2>8
<1>9. w[s] \in Resting
  OBVIOUS
<1> HIDE DEF A, H, C, L, F, P, G, D
<1> DEFINE LF == L \cup F
<1>10. Places(m, s) = A \cup H \cup C \cup LF \cup P \cup G \cup D
  BY <1>1
<1> HIDE DEF LF
<1>11. /\ A # {} <=> w[s] = "arriving"
       /\ H # {} <=> w[s] = "hbm queue"
       /\ C # {} <=> w[s] = "cpu queue"
       /\ LF # {} <=> w[s] = "loading"
       /\ P # {} <=> w[s] = "prefill queue"
       /\ G # {} <=> w[s] = "prefilling"
       /\ D # {} <=> w[s] = "decoding"
  BY <1>2, <1>6, <1>7, <1>8 DEF LF
<1>12. \E X \in {A, H, C, LF, P, G, D} :
          Places(m, s) = X /\ (X # {} <=> w[s] # "done")
  BY <1>9, <1>10, <1>11 DEF Resting
<1>13. \A X \in {A, H, C, LF, P, G, D} : AtMostOne(X)
  BY <1>2, <1>6, <1>7, <1>8 DEF LF
<1> QED BY <1>12, <1>13

(* A session is in one place at a time, and nowhere only when all its      *)
(* calls are completed, each once and in order.                            *)
THEOREM OneCallPerSession == Spec => []OnePlace
<1>1. ASSUME PInv PROVE OnePlace
  <2>1. PICK w \in [Sessions -> Resting] : Placed(sim, w)
    BY <1>1 DEF PInv, AtRest
  <2>2. sim \in SimType
    BY <1>1 DEF PInv, IInv, TypeOK
  <2> SUFFICES ASSUME NEW s \in Sessions
               PROVE  /\ Cardinality(Places(sim, s)) <= 1
                      /\ Places(sim, s) = {} => sim.finished[s] = Len(Trace[s])
                      /\ Places(sim, s) # {} =>
                           \/ sim.finished[s] = sim.idx[s] - 1
                           \/ <<s, sim.finished[s] + 1>> \in sim.arrivals
    BY DEF OnePlace
  <2>3. AtMostOne(Places(sim, s)) /\ (Places(sim, s) # {} <=> w[s] # "done")
    BY <2>1, <2>2, PlacesAtRest
  <2>4. ProgressOf(s, w[s], sim.idx[s], sim.left[s], sim.finished[s], sim.arrivals)
    BY <2>1 DEF Placed
  <2>5. Cardinality(Places(sim, s)) <= 1
    BY <2>3, AtMostOneCounts
  <2> QED BY <2>3, <2>4, <2>5 DEF ProgressOf
<1> QED BY InitRests, StepRests, <1>1, PTL DEF Spec

-----------------------------------------------------------------------------
(* The invariant for FlushBeforeLoad: the order on the link, and a session *)
(* that waits for the GPU or prefills has no flush under way.              *)
FlushesInv(m) ==
  /\ FlushesFirst(m.c2c)
  /\ \A s \in Sessions : s \in Range(m.prefillQ) \cup m.gpuEvent => Flush(s) \notin Jobs(m.c2c)

FInv == PInv /\ FlushesInv(sim)

(* A method that leaves the GPU alone and queues loads keeps it.           *)
LEMMA UntouchedFlushes ==
  ASSUME NEW m, FlushesInv(m), NEW x, SameGpu(x, m), LoadsOnly(x, m)
  PROVE  FlushesInv(x)
  BY DEF FlushesInv, SameGpu, LoadsOnly

(* _pump_gpu takes a session from the prefill queue to the GPU.            *)
LEMMA PumpGpuFlushes ==
  ASSUME NEW m \in SimType, FlushesInv(m)
  PROVE  FlushesInv(PumpGpu(m))
<1> DEFINE x == PumpGpu(m)
<1>1. CASE m.gpuBusy
  BY <1>1 DEF PumpGpu
<1>2. CASE ~m.gpuBusy /\ m.prefillQ # <<>>
  <2> DEFINE s == Head(m.prefillQ)
             t == Tail(m.prefillQ)
  <2>1. s \in Range(m.prefillQ) /\ Range(t) \subseteq Range(m.prefillQ)
    <3>1. /\ m.prefillQ \in Seq(Sessions) /\ Len(m.prefillQ) \in Nat /\ Len(m.prefillQ) >= 1
          /\ s = m.prefillQ[1] /\ DOMAIN m.prefillQ = 1..Len(m.prefillQ)
          /\ DOMAIN t = 1..(Len(m.prefillQ) - 1)
          /\ \A i \in 1..(Len(m.prefillQ) - 1) : t[i] = m.prefillQ[i+1]
      BY <1>2, HeadTailProperties DEF SimType
    <3> HIDE DEF s, t
    <3>2. \A i \in 1..(Len(m.prefillQ) - 1) : i+1 \in 1..Len(m.prefillQ)
      BY <3>1
    <3>3. 1 \in 1..Len(m.prefillQ)
      BY <3>1
    <3> QED BY <3>1, <3>2, <3>3 DEF Range
  <2>2. x = [m EXCEPT !.gpuBusy = TRUE, !.prefillQ = t, !.gpuEvent = m.gpuEvent \cup {s}]
    BY <1>2 DEF PumpGpu, SimType
  <2> HIDE DEF x, s, t
  <2>3. x.prefillQ = t /\ x.gpuEvent = m.gpuEvent \cup {s} /\ x.c2c = m.c2c
    BY <2>2 DEF SimType
  <2> QED BY <2>1, <2>3 DEF FlushesInv, x
<1>3. CASE ~m.gpuBusy /\ m.prefillQ = <<>> /\ m.decoding # <<>>
  <2>1. x = [m EXCEPT !.gpuBusy = TRUE, !.gpuEvent = m.gpuEvent \cup {Tick}]
    BY <1>3 DEF PumpGpu, DecodeStep, SimType
  <2> HIDE DEF x
  <2>2. x.prefillQ = m.prefillQ /\ x.gpuEvent = m.gpuEvent \cup {Tick} /\ x.c2c = m.c2c
    BY <2>1 DEF SimType
  <2> QED BY <2>2, SimAssumption DEF FlushesInv, x
<1>4. CASE ~m.gpuBusy /\ m.prefillQ = <<>> /\ m.decoding = <<>>
  BY <1>4 DEF PumpGpu
<1> QED BY <1>1, <1>2, <1>3, <1>4

(* The end of a transfer: the load that ends was the one transfer under    *)
(* way, so no flush of its session is behind it.                           *)
LEMMA C2CFinFlushes ==
  ASSUME NEW m \in SimType, FlushesInv(m), NEW job \in LinkJobs, job \in m.c2c.flying
  PROVE  FlushesInv(C2CFinHandler(m, job))
<1> DEFINE l == Fin(m.c2c, job)
<1>1. /\ l \in Links(LinkJobs) /\ FlushesFirst(l)
      /\ \A j : j \in Jobs(l) => j \in Jobs(m.c2c)
  <2>1. m.c2c \in Links(LinkJobs) /\ FlushesFirst(m.c2c) /\ Once(m.c2c, {})
    BY DEF SimType, FlushesInv, Once
  <2>2. /\ l \in Links(LinkJobs)
        /\ \A j : j # job => (j \in Jobs(l) <=> j \in Jobs(m.c2c))
    BY <2>1, FinJobs
  <2>3. job \in Jobs(m.c2c)
    BY DEF Jobs
  <2>4. FlushesFirst(l)
    BY <2>1, FinFlushes
  <2> HIDE DEF l
  <2> QED BY <2>2, <2>3, <2>4
<1>2. CASE job[1] = "load"
  <2> DEFINE s == job[2]
             z == [m EXCEPT !.prefillQ = Append(@, s)]
             y == [z EXCEPT !.c2c = l]
             r == C2CFinHandler(m, job)
  <2>1. s \in Sessions /\ job = Load(s)
    BY <1>2 DEF LinkJobs, Load
  <2>2. Flush(s) \notin Jobs(m.c2c)
    <3>1. m.c2c.flying = {job}
      BY DEF FlushesInv, FlushesFirst
    <3>2. Flush(s) # Load(s)
      BY DEF Load, Flush
    <3> QED BY <2>1, <3>1, <3>2 DEF FlushesInv, FlushesFirst, Jobs
  <2>3. /\ Append(m.prefillQ, s) \in Seq(Sessions)
        /\ Range(Append(m.prefillQ, s)) \subseteq Range(m.prefillQ) \cup {s}
    <3> DEFINE q == Append(m.prefillQ, s)
    <3>1. /\ m.prefillQ \in Seq(Sessions) /\ q \in Seq(Sessions) /\ Len(m.prefillQ) \in Nat
          /\ DOMAIN q = 1..(Len(m.prefillQ) + 1) /\ DOMAIN m.prefillQ = 1..Len(m.prefillQ)
          /\ \A i \in 1..Len(m.prefillQ) : q[i] = m.prefillQ[i]
          /\ q[Len(m.prefillQ) + 1] = s
      BY <2>1 DEF SimType
    <3> HIDE DEF q, s
    <3>2. \A i \in 1..(Len(m.prefillQ) + 1) : i \in 1..Len(m.prefillQ) \/ i = Len(m.prefillQ) + 1
      BY <3>1
    <3>3. q \in Seq(Sessions) /\ Range(q) \subseteq Range(m.prefillQ) \cup {s}
      BY <3>1, <3>2 DEF Range
    <3> QED BY <3>3 DEF q
  <2> HIDE DEF s
  <2>4. z \in SimType /\ z.c2c = m.c2c
    BY <2>3 DEF SimType
  <2>5. r = PumpGpu(y)
    <3>1. PumpGpu(z).c2c = z.c2c
      BY <2>4 DEF PumpGpu, DecodeStep, SimType
    <3>2. PumpGpu(y) = [PumpGpu(z) EXCEPT !.c2c = l]
      BY <2>4, PumpGpuLink
    <3>3. r = [PumpGpu(z) EXCEPT !.c2c = Fin(PumpGpu(z).c2c, job)]
      BY <1>2 DEF C2CFinHandler, ReadyPrefill, s
    <3> QED BY <2>4, <3>1, <3>2, <3>3
  <2> HIDE DEF l, r
  <2>6. /\ y \in SimType /\ y.c2c = l /\ y.prefillQ = Append(m.prefillQ, s)
        /\ y.gpuEvent = m.gpuEvent
    BY <1>1, <2>3 DEF SimType
  <2> HIDE DEF y, z
  <2>7. FlushesInv(y)
    <3> SUFFICES ASSUME NEW t \in Sessions, t \in Range(y.prefillQ) \cup y.gpuEvent
                 PROVE  Flush(t) \notin Jobs(l)
      BY <1>1, <2>6 DEF FlushesInv
    <3>1. t \in Range(m.prefillQ) \cup m.gpuEvent \/ t = s
      BY <2>3, <2>6
    <3>2. Flush(t) \notin Jobs(m.c2c)
      BY <2>2, <3>1 DEF FlushesInv
    <3> QED BY <1>1, <3>2
  <2> QED BY <2>5, <2>6, <2>7, PumpGpuFlushes DEF r
<1>3. CASE job[1] # "load"
  <2> DEFINE x == C2CFinHandler(m, job)
  <2>1. x = [m EXCEPT !.c2c = l]
    BY <1>3 DEF C2CFinHandler
  <2> HIDE DEF x, l
  <2>2. x.c2c = l /\ x.prefillQ = m.prefillQ /\ x.gpuEvent = m.gpuEvent
    BY <2>1 DEF SimType
  <2> QED BY <1>1, <2>2 DEF FlushesInv, x
<1> QED BY <1>2, <1>3

(* The end of a prefill queues the flush of a session that has no load     *)
(* under way, and the session leaves the GPU.                              *)
LEMMA PrefillDoneFlushes ==
  ASSUME NEW m \in SimType, NEW w, AtRest(m, w), FlushesInv(m), NEW s \in Sessions, m.gpuEvent = {s},
         NEW x, x = [m EXCEPT !.gpuEvent = @ \ {s}]
  PROVE  FlushesInv(PrefillDoneHandler(x, s))
<1> DEFINE l == Transfer(m.c2c, Flush(s))
           batch == Append(m.decoding, s)
           y == [m EXCEPT !.gpuEvent = {}, !.gpuBusy = FALSE, !.c2c = l, !.decoding = batch]
<1>1. w \in [Sessions -> Resting] /\ Placed(m, w)
  BY DEF AtRest
<1>2. w[s] = "prefilling"
  <2>1. s \in m.gpuEvent \ {Tick}
    BY SimAssumption
  <2> QED BY <1>1, <2>1 DEF Placed, In, OnGpu
<1>3. Load(s) \notin Jobs(m.c2c) /\ s \notin Range(m.prefillQ)
  BY <1>1, <1>2 DEF Placed, LinkAt, QueueAt, In, WaitGpu
<1>4. /\ l \in Links(LinkJobs) /\ FlushesFirst(l)
      /\ Jobs(l) = Jobs(m.c2c) \cup {Flush(s)}
  <2>1. /\ m.c2c \in Links(LinkJobs) /\ FlushesFirst(m.c2c) /\ Once(m.c2c, {})
        /\ Flush(s) \in LinkJobs
    BY JobTypes DEF SimType, FlushesInv, Once
  <2>2. \A t \in Sessions : Flush(s) = Flush(t) => Load(t) \notin Jobs(m.c2c)
    BY <1>3 DEF Flush
  <2> QED BY <2>1, <2>2, TransferFlushes, TransferJobs
<1>5. batch \in Seq(Sessions)
  BY DEF SimType
<1>6. PrefillDoneHandler(x, s) = PumpGpu(y)
  <2>1. y = [x EXCEPT !.gpuBusy = FALSE, !.c2c = Transfer(@, Flush(s)),
                      !.decoding = Append(@, s)]
    BY DEF SimType
  <2> QED BY <2>1 DEF PrefillDoneHandler
<1> HIDE DEF l, batch
<1>7. y \in SimType /\ y.c2c = l /\ y.prefillQ = m.prefillQ /\ y.gpuEvent = {}
  BY <1>4, <1>5 DEF SimType
<1> HIDE DEF y
<1>8. FlushesInv(y)
  <2> SUFFICES ASSUME NEW t \in Sessions, t \in Range(m.prefillQ)
               PROVE  Flush(t) \notin Jobs(l)
    BY <1>4, <1>7 DEF FlushesInv
  <2>1. t # s /\ Flush(t) \notin Jobs(m.c2c)
    BY <1>3 DEF FlushesInv
  <2>2. Flush(t) # Flush(s)
    BY <2>1 DEF Flush
  <2> QED BY <1>4, <2>1, <2>2
<1> QED BY <1>6, <1>7, <1>8, PumpGpuFlushes

(* The end of a step queues loads of the calls that it admits.             *)
LEMMA DecodeTickFlushes ==
  ASSUME NEW m \in SimType, FlushesInv(m), m.gpuEvent = {Tick},
         NEW x, x = [m EXCEPT !.gpuEvent = @ \ {Tick}]
  PROVE  FlushesInv(DecodeTickHandler(x))
<1> DEFINE left == [s \in Sessions |->
                      IF s \in Range(m.decoding) THEN m.left[s] - 1 ELSE m.left[s]]
           stepped == [m EXCEPT !.gpuEvent = {}, !.left = left]
           sifted == FinishLoop(stepped, m.decoding)[Len(m.decoding)]
           y == [sifted EXCEPT !.gpuBusy = FALSE]
<1>1. left \in [Sessions -> Int]
  BY DEF SimType
<1>2. DecodeTickHandler(x) = PumpGpu(y)
  <2>1. /\ x.decoding = m.decoding /\ x.left = m.left
        /\ [x EXCEPT !.left = left] = stepped
    BY DEF SimType
  <2>2. DecodeTickHandler(x)
          = PumpGpu([FinishLoop([x EXCEPT !.left = left], x.decoding)[Len(x.decoding)]
                       EXCEPT !.gpuBusy = FALSE])
    BY <2>1 DEF DecodeTickHandler
  <2> QED BY <2>1, <2>2
<1> HIDE DEF left
<1>3. /\ stepped \in SimType /\ stepped.c2c = m.c2c /\ stepped.prefillQ = m.prefillQ
      /\ stepped.gpuEvent = {} /\ m.decoding \in Seq(Sessions)
  BY <1>1 DEF SimType
<1> HIDE DEF stepped
<1>4. FlushesInv(stepped)
  BY <1>3 DEF FlushesInv
<1>5. sifted \in SimType /\ SameGpu(sifted, stepped) /\ LoadsOnly(sifted, stepped)
  BY <1>3, FinishLoopEffect DEF Untouched
<1> HIDE DEF sifted
<1>6. FlushesInv(sifted)
  BY <1>4, <1>5, UntouchedFlushes
<1>7. /\ y \in SimType /\ y.c2c = sifted.c2c /\ y.prefillQ = sifted.prefillQ
      /\ y.gpuEvent = sifted.gpuEvent
  BY <1>5 DEF SimType
<1> HIDE DEF y
<1>8. FlushesInv(y)
  BY <1>6, <1>7 DEF FlushesInv
<1> QED BY <1>2, <1>7, <1>8, PumpGpuFlushes

(* The link is idle at the start.                                          *)
LEMMA InitFlushes == Init => FInv
<1> SUFFICES ASSUME Init PROVE FInv
  OBVIOUS
<1>1. sim.c2c.q = <<>> /\ sim.c2c.flying = {} /\ sim.c2c.busy = FALSE /\ Len(<<>>) = 0
  BY DEF Init, InitialSim, IdleLink
<1>2. Range(<<>>) = {}
  BY DEF Range
<1> QED BY <1>1, <1>2, InitRests DEF FInv, FlushesInv, FlushesFirst, QueuedFirst, Jobs

(* Every turn of the event loop keeps the order of flushes and loads.      *)
LEMMA StepFlushes ==
  ASSUME FInv, [Next]_sim
  PROVE  FInv'
<1>1. /\ sim \in SimType /\ Exclusive(sim) /\ (\E w : AtRest(sim, w))
      /\ FlushesInv(sim) /\ IInv
  BY DEF FInv, PInv, IInv, TypeOK
<1>2. ASSUME NEW s \in Sessions, Arrive(s) PROVE FlushesInv(sim')
  <2>1. PICK i \in 1..(Len(Trace[s]) + 1) :
          sim' = ArriveHandler([sim EXCEPT !.arrivals = @ \ {<<s, i>>}], s, i)
    BY <1>2 DEF Arrive
  <2> DEFINE x == [sim EXCEPT !.arrivals = @ \ {<<s, i>>}]
  <2>2. x \in SimType /\ SameGpu(x, sim) /\ x.c2c = sim.c2c
    BY <1>1 DEF SimType, SameGpu
  <2>3. i \in Nat \ {0} /\ sim' = ArriveHandler(x, s, i)
    BY <2>1
  <2> HIDE DEF x
  <2>4. sim' \in Untouched(x)
    BY <2>2, <2>3, ArriveEffect
  <2>5. FlushesInv(x)
    BY <1>1, <2>2 DEF FlushesInv, SameGpu
  <2> QED BY <2>4, <2>5, UntouchedFlushes DEF Untouched
<1>3. ASSUME NEW s \in Sessions, PrefillDone(s) PROVE FlushesInv(sim')
  <2> DEFINE x == [sim EXCEPT !.gpuEvent = @ \ {s}]
  <2>1. sim.gpuEvent = {s} /\ sim' = PrefillDoneHandler(x, s)
    BY <1>1, <1>3, OnlyEvent DEF PrefillDone
  <2> QED BY <1>1, <2>1, PrefillDoneFlushes
<1>4. ASSUME NEW job \in LinkJobs, C2CFin(job) PROVE FlushesInv(sim')
  <2>1. job \in sim.c2c.flying /\ sim' = C2CFinHandler(sim, job)
    BY <1>4 DEF C2CFin
  <2> QED BY <1>1, <2>1, C2CFinFlushes
<1>5. ASSUME DecodeTick PROVE FlushesInv(sim')
  <2> DEFINE x == [sim EXCEPT !.gpuEvent = @ \ {Tick}]
  <2>1. sim.gpuEvent = {Tick} /\ sim' = DecodeTickHandler(x)
    BY <1>1, <1>5, OnlyEvent DEF DecodeTick
  <2> QED BY <1>1, <2>1, DecodeTickFlushes
<1>6. ASSUME UNCHANGED sim PROVE FlushesInv(sim')
  BY <1>1, <1>6
<1>7. FlushesInv(sim')
  BY <1>2, <1>3, <1>4, <1>5, <1>6 DEF Next
<1>8. PInv'
  BY StepRests DEF FInv
<1> QED BY <1>7, <1>8 DEF FInv

(* The load of a call, and its prefill, come after the flush of the call   *)
(* before it in its session has ended.                                     *)
THEOREM FlushGoesFirst == Spec => []FlushBeforeLoad
<1>1. ASSUME FInv PROVE FlushBeforeLoad
  <2>1. FlushesInv(sim)
    BY <1>1 DEF FInv
  <2> SUFFICES ASSUME NEW s \in Sessions,
                      Load(s) \in sim.c2c.flying \/ s \in Range(sim.prefillQ) \cup sim.gpuEvent
               PROVE  Flush(s) \notin sim.c2c.flying \cup Range(sim.c2c.q)
    BY DEF FlushBeforeLoad
  <2>2. CASE Load(s) \in sim.c2c.flying
    <3>1. Load(s) # Flush(s)
      BY DEF Load, Flush
    <3> QED BY <2>1, <2>2, <3>1 DEF FlushesInv, FlushesFirst
  <2>3. CASE s \in Range(sim.prefillQ) \cup sim.gpuEvent
    BY <2>1, <2>3 DEF FlushesInv, Jobs
  <2> QED BY <2>2, <2>3
<1> QED BY InitFlushes, StepFlushes, <1>1, PTL DEF Spec

-----------------------------------------------------------------------------
(***************************************************************************)
(* Every turn of the event loop is a step of Serving or none: the stages   *)
(* of the sessions say what Serving sees of them.                          *)
(***************************************************************************)
ServedAs(a) ==
  IF a = "hbm queue" THEN "waiting" ELSE IF a \in Inside THEN "resident" ELSE "done"

Served(m, w, s) ==
  IF w[s] = "arriving" THEN [call |-> m.finished[s] + 1, stage |-> "thinking"]
                       ELSE [call |-> m.idx[s], stage |-> ServedAs(w[s])]

(* Between two events HBM is held in these stages.                         *)
LEMMA InsideHolds ==
  ASSUME NEW a \in Resting
  PROVE  a \in HasHbm <=> a \in Inside
  BY DEF Resting, HasHbm, Inside

(* What Serving sees of a session that rests.                              *)
LEMMA AtOfServed ==
  ASSUME NEW m \in SimType, NEW w, AtRest(m, w), NEW s \in Sessions
  PROVE  At(m)[s] = Served(m, w, s)
<1>1. w \in [Sessions -> Resting] /\ Placed(m, w)
  BY DEF AtRest
<1>2. /\ w[s] = "arriving" <=> \E e \in m.arrivals : e[1] = s
      /\ \A e \in m.arrivals : e[1] = s => w[s] = "arriving"
      /\ \A e, f \in m.arrivals : e[1] = f[1] => e = f
  BY <1>1 DEF Placed, ArrivalsAt
<1>3. CASE w[s] = "arriving"
  <2> DEFINE e == CHOOSE e \in m.arrivals : e[1] = s
  <2>1. e \in m.arrivals /\ e[1] = s
    BY <1>2, <1>3
  <2>2. <<s, m.finished[s] + 1>> \in m.arrivals
    BY <1>1, <1>3 DEF Placed, ProgressOf
  <2>3. e = <<s, m.finished[s] + 1>>
    BY <1>2, <2>1, <2>2
  <2>4. At(m)[s] = [call |-> e[2], stage |-> "thinking"]
    BY <1>2, <1>3 DEF At
  <2> HIDE DEF e
  <2>5. e[2] = m.finished[s] + 1
    BY <2>3
  <2> QED BY <1>3, <2>4, <2>5 DEF Served
<1>4. CASE w[s] # "arriving"
  <2>1. HbmHolders(m) = In(Sessions, w, HasHbm)
    BY <1>1, HoldersAtRest
  <2>2. s \in Range(m.hbm.q) <=> w[s] = "hbm queue"
    BY <1>1 DEF Placed, PoolAt, In, WaitHbm
  <2>3. s \in HbmHolders(m) <=> w[s] \in Inside
    <3>1. w[s] \in HasHbm <=> w[s] \in Inside
      BY <1>1, InsideHolds
    <3> QED BY <2>1, <3>1 DEF In
  <2>4. At(m)[s] = [call |-> m.idx[s],
                    stage |-> CASE s \in Range(m.hbm.q) -> "waiting"
                                [] s \in HbmHolders(m)  -> "resident"
                                [] OTHER                -> "done"]
    BY <1>2, <1>4 DEF At
  <2>5. "hbm queue" \notin Inside
    BY DEF Inside
  <2>6. At(m)[s] = [call |-> m.idx[s], stage |-> ServedAs(w[s])]
    BY <2>2, <2>3, <2>4, <2>5 DEF ServedAs
  <2> QED BY <1>4, <2>6 DEF Served
<1> QED BY <1>3, <1>4

(* The sizes of the calls, as Serving is given them.                       *)
Sizes == [s \in Sessions |-> [i \in DOMAIN Trace[s] |-> Trace[s][i].hbm]]

LEMMA SizesOfCalls ==
  ASSUME NEW s \in Sessions
  PROVE  /\ Len(Trace[s]) \in Nat /\ DOMAIN Sizes[s] = 1..Len(Trace[s])
         /\ Len(Sizes[s]) = Len(Trace[s])
         /\ \A i \in 1..Len(Trace[s]) : Sizes[s][i] = Trace[s][i].hbm
<1> DEFINE f == Sizes[s]
           n == Len(Trace[s])
<1>1. Trace[s] \in Seq(CallSizes) /\ \A r \in CallSizes : r.hbm \in Nat
  BY SimAssumption DEF CallSizes
<1>2. n \in Nat /\ DOMAIN Trace[s] = 1..n
  BY <1>1
<1>3. f = [i \in 1..n |-> Trace[s][i].hbm]
  BY <1>2 DEF Sizes
<1>4. \A i \in 1..n : Trace[s][i] \in CallSizes
  BY <1>1, Members
<1> HIDE DEF f, n
<1>5. f \in [1..n -> Nat]
  BY <1>1, <1>3, <1>4
<1>6. f \in Seq(Nat) /\ DOMAIN f = 1..n /\ Len(f) \in Nat /\ DOMAIN f = 1..Len(f)
  BY <1>2, <1>5
<1>7. Len(f) = n
  BY <1>2, <1>6
<1> QED BY <1>2, <1>3, <1>7 DEF f, n

(* What a turn makes of a session is a move of Serving or none.            *)
LEMMA PassesServed ==
  ASSUME NEW m \in SimType, NEW w, AtRest(m, w), NEW x \in SimType, NEW v, AtRest(x, v),
         NEW s \in Sessions, Passes(s, m, w, x, v)
  PROVE  Served(x, v, s) = Served(m, w, s) \/ Promise!Moves(s, Served(m, w, s), Served(x, v, s))
<1> DEFINE n == Len(Trace[s])
           old == Served(m, w, s)
           new == Served(x, v, s)
           a == w[s]
           b == v[s]
<1>1. /\ a \in Resting /\ b \in Resting
      /\ ProgressOf(s, a, m.idx[s], m.left[s], m.finished[s], m.arrivals)
      /\ ProgressOf(s, b, x.idx[s], x.left[s], x.finished[s], x.arrivals)
  BY DEF AtRest, Placed
<1>2. /\ m.idx[s] \in Nat \ {0} /\ m.finished[s] \in Nat
      /\ x.idx[s] \in Nat \ {0} /\ x.finished[s] \in Nat
  BY DEF SimType
<1>3. n \in Nat /\ Len(Sizes[s]) = n
  BY SizesOfCalls
<1>4. \A o, e : Promise!Moves(s, o, e) <=>
        \/ /\ o.stage = "thinking" /\ o.call > n
           /\ e = [o EXCEPT !.stage = "done"]
        \/ /\ o.call <= n
           /\ \E y \in Promise!Following(o.stage) :
                /\ y = "thinking" => o.call < n
                /\ y = "done" => o.call = n
                /\ e = [call |-> IF y = "thinking" THEN o.call + 1 ELSE o.call, stage |-> y]
  BY <1>3 DEF Promise!Moves, Sizes
<1>5. /\ \A c \in Inside : ServedAs(c) = "resident" /\ c \notin {"arriving", "done", "hbm queue"}
      /\ ServedAs("hbm queue") = "waiting" /\ ServedAs("done") = "done"
  BY DEF ServedAs, Inside
<1>6. CASE Carried(a, b) /\ x.idx[s] = m.idx[s] /\ x.finished[s] = m.finished[s]
  <2>1. CASE b = a
    BY <1>6, <2>1 DEF Served
  <2>2. CASE a = "hbm queue" /\ b \in Inside
    <3>1. m.idx[s] <= n
      BY <1>1, <2>2 DEF ProgressOf
    <3>2. old = [call |-> m.idx[s], stage |-> "waiting"] /\ new = [call |-> m.idx[s], stage |-> "resident"]
      BY <1>5, <1>6, <2>2 DEF Served
    <3>3. "resident" \in Promise!Following("waiting")
      BY DEF Promise!Following
    <3> QED BY <1>4, <3>1, <3>2, <3>3
  <2>3. CASE a \in Inside /\ b \in Inside
    BY <1>5, <1>6, <2>3 DEF Served
  <2> QED BY <1>6, <2>1, <2>2, <2>3 DEF Carried
<1>7. CASE /\ a = "arriving" /\ b \in {"hbm queue"} \cup Inside
           /\ x.finished[s] = m.finished[s]
  <2>1. b # "arriving" /\ b # "done"
    BY <1>5, <1>7
  <2>2. x.finished[s] = x.idx[s] - 1 /\ x.idx[s] <= n
    BY <1>1, <2>1 DEF ProgressOf
  <2>3. m.finished[s] + 1 = x.idx[s]
    <3>1. x.finished[s] = m.finished[s]
      BY <1>7
    <3> QED BY <1>2, <2>2, <3>1
  <2>4. /\ old = [call |-> x.idx[s], stage |-> "thinking"]
        /\ \E y \in {"waiting", "resident"} : new = [call |-> x.idx[s], stage |-> y]
    <3>1. old = [call |-> m.finished[s] + 1, stage |-> "thinking"]
      BY <1>7 DEF Served
    <3>2. new = [call |-> x.idx[s], stage |-> ServedAs(b)]
      BY <2>1 DEF Served
    <3>3. ServedAs(b) \in {"waiting", "resident"}
      BY <1>5, <1>7
    <3> QED BY <2>3, <3>1, <3>2, <3>3
  <2>5. {"waiting", "resident"} = Promise!Following("thinking")
    BY DEF Promise!Following
  <2> QED BY <1>4, <2>2, <2>4, <2>5
<1>8. CASE /\ a = "arriving" /\ b = "done"
           /\ x.idx[s] = m.idx[s] /\ x.finished[s] = m.finished[s]
  <2>1. m.finished[s] = 0 /\ m.idx[s] = 1 /\ n = 0
    BY <1>1, <1>2, <1>3, <1>8 DEF ProgressOf
  <2>2. old = [call |-> 1, stage |-> "thinking"] /\ new = [call |-> 1, stage |-> "done"]
    <3>1. old = [call |-> m.finished[s] + 1, stage |-> "thinking"]
      BY <1>8 DEF Served
    <3>2. new = [call |-> x.idx[s], stage |-> "done"]
      BY <1>5, <1>8 DEF Served
    <3>3. m.finished[s] + 1 = 1 /\ x.idx[s] = 1
      BY <1>8, <2>1
    <3> QED BY <3>1, <3>2, <3>3
  <2> QED BY <1>4, <2>1, <2>2
<1>9. CASE /\ a = "decoding" /\ b \in {"arriving", "done"}
           /\ x.idx[s] = m.idx[s] /\ x.finished[s] = m.finished[s] + 1
  <2>1. /\ m.finished[s] = m.idx[s] - 1 /\ m.idx[s] <= n
        /\ x.idx[s] = m.idx[s] /\ x.finished[s] = m.finished[s] + 1
    BY <1>1, <1>9 DEF ProgressOf
  <2>2. "decoding" \in Inside /\ "decoding" # "arriving"
    BY DEF Inside
  <2>3. old = [call |-> m.idx[s], stage |-> "resident"]
    BY <1>5, <1>9, <2>2 DEF Served
  <2>4. "thinking" \in Promise!Following("resident") /\ "done" \in Promise!Following("resident")
    BY DEF Promise!Following
  <2>5. CASE b = "arriving"
    <3>1. m.idx[s] < n
      <4>1. \/ x.finished[s] = 0 /\ x.idx[s] = 1
            \/ x.finished[s] = x.idx[s] /\ x.finished[s] < n
        BY <1>1, <2>5 DEF ProgressOf
      <4> QED BY <1>2, <2>1, <4>1
    <3>2. new = [call |-> m.idx[s] + 1, stage |-> "thinking"]
      <4>1. new = [call |-> x.finished[s] + 1, stage |-> "thinking"]
        BY <2>5 DEF Served
      <4>2. x.finished[s] + 1 = m.idx[s] + 1
        BY <1>2, <2>1
      <4> QED BY <4>1, <4>2
    <3> QED BY <1>4, <2>1, <2>3, <2>4, <3>1, <3>2
  <2>6. CASE b = "done"
    <3>1. m.idx[s] = n
      <4>1. x.finished[s] = n
        BY <1>1, <2>6 DEF ProgressOf
      <4> QED BY <1>2, <2>1, <4>1
    <3>2. new = [call |-> m.idx[s], stage |-> "done"]
      BY <1>5, <2>1, <2>6 DEF Served
    <3> QED BY <1>4, <2>1, <2>3, <2>4, <3>1, <3>2
  <2> QED BY <1>9, <2>5, <2>6
<1> QED BY <1>6, <1>7, <1>8, <1>9 DEF Passes

(* The calls that Serving sees in HBM are those that hold it, and they fit *)
(* there if there is one at all: the capacity itself may be negative.      *)
LEMMA ServedFits ==
  ASSUME PInv, Promise!Resident # {}
  PROVE  Promise!FitsHbm
<1>1. PICK w : AtRest(sim, w)
  BY DEF PInv
<1>2. sim \in SimType /\ w \in [Sessions -> Resting] /\ Placed(sim, w)
  BY <1>1 DEF PInv, IInv, TypeOK, AtRest
<1>3. \A s \in Sessions : At(sim)[s] = Served(sim, w, s)
  BY <1>1, <1>2, AtOfServed
<1> DEFINE held == In(Sessions, w, HasHbm)
           asked == [s \in Sessions |->
                       IF At(sim)[s].call \in DOMAIN Sizes[s] THEN Sizes[s][At(sim)[s].call] ELSE 0]
<1>4. {s \in Sessions : At(sim)[s].stage = "resident"} = held
  <2>1. ASSUME NEW s \in Sessions PROVE At(sim)[s].stage = "resident" <=> w[s] \in HasHbm
    <3>1. At(sim)[s].stage = IF w[s] = "arriving" THEN "thinking" ELSE ServedAs(w[s])
      <4>1. At(sim)[s] = Served(sim, w, s)
        BY <1>3
      <4>2. CASE w[s] = "arriving"
        BY <4>1, <4>2 DEF Served
      <4>3. CASE w[s] # "arriving"
        BY <4>1, <4>3 DEF Served
      <4> QED BY <4>2, <4>3
    <3>2. w[s] \in HasHbm <=> w[s] \in Inside
      BY <1>2, InsideHolds
    <3>3. "arriving" \notin Inside /\ "hbm queue" \notin Inside
      BY DEF Inside
    <3> QED BY <3>1, <3>2, <3>3 DEF ServedAs
  <2> QED BY <2>1 DEF In
<1>5. ASSUME NEW s \in held PROVE asked[s] = HbmNeed(sim)[s]
  <2>1. s \in Sessions /\ At(sim)[s].call = sim.idx[s]
    <3>1. s \in Sessions /\ w[s] # "arriving"
      BY DEF In, HasHbm
    <3>2. At(sim)[s] = Served(sim, w, s)
      BY <1>3, <3>1
    <3>3. At(sim)[s] = [call |-> sim.idx[s], stage |-> ServedAs(w[s])]
      BY <3>1, <3>2 DEF Served
    <3> QED BY <3>1, <3>3
  <2>2. DOMAIN Trace[s] = 1..Len(Trace[s])
    BY <2>1, SimAssumption
  <2> QED BY <2>1, <2>2, SizesOfCalls DEF HbmNeed
<1>6. /\ Promise!FitsHbm <=> Cardinality(Bytes(held, asked)) <= HbmCap
      /\ Promise!Resident = held
  <2>1. Promise!Resident = held
    BY <1>4 DEF Promise!Resident
  <2>2. Promise!Asked = asked
    BY DEF Promise!Asked, Sizes
  <2>3. Promise!Bytes(held, asked) = Bytes(held, asked)
    BY DEF Promise!Bytes, Bytes
  <2>4. \A S : Promise!Cardinality(S) = Cardinality(S)
    BY DEF Promise!Cardinality, Cardinality
  <2> HIDE DEF held, asked
  <2> QED BY <2>1, <2>2, <2>3, <2>4 DEF Promise!FitsHbm
<1>7. PoolSound(Sessions, sim.hbm, held, HbmNeed(sim), HbmCap)
  BY <1>2 DEF Placed, PoolAt
<1> HIDE DEF held, asked
<1>8. Bytes(held, asked) = Bytes(held, HbmNeed(sim))
  BY <1>5 DEF Bytes
<1>9. Cardinality(Bytes(held, HbmNeed(sim))) <= HbmCap
  <2>1. held \subseteq Sessions /\ HbmNeed(sim) \in [Sessions -> Nat] /\ held # {}
    BY <1>2, <1>6, <1>7, NeedTypes DEF PoolSound
  <2>2. Cardinality(Bytes(held, HbmNeed(sim))) \in Nat
    BY <2>1, BytesNumber, SessionsFinite
  <2>3. sim.hbm.free >= 0 /\ sim.hbm.free = HbmCap - Cardinality(Bytes(held, HbmNeed(sim)))
    BY <1>7, <2>1 DEF PoolSound
  <2>4. HbmCap \in Int
    BY SimAssumption
  <2> QED BY <2>2, <2>3, <2>4
<1> QED BY <1>6, <1>8, <1>9

(* The initial states are those of Serving.                                *)
LEMMA InitServed == Init => Promise!Init
<1> SUFFICES ASSUME Init PROVE Promise!Init
  OBVIOUS
<1>1. /\ sim.arrivals = {<<s, 1>> : s \in Sessions}
  BY DEF Init, InitialSim
<1>2. ASSUME NEW s \in Sessions PROVE At(sim)[s] = [call |-> 1, stage |-> "thinking"]
  <2> DEFINE e == CHOOSE e \in sim.arrivals : e[1] = s
  <2>1. <<s, 1>> \in sim.arrivals /\ <<s, 1>>[1] = s
    BY <1>1
  <2>2. e \in sim.arrivals /\ e[1] = s
    BY <2>1
  <2>3. e[2] = 1
    <3>1. PICK r \in Sessions : e = <<r, 1>>
      BY <1>1, <2>2
    <3>2. <<r, 1>>[2] = 1
      OBVIOUS
    <3> HIDE DEF e
    <3> QED BY <3>1, <3>2
  <2>4. At(sim)[s] = [call |-> e[2], stage |-> "thinking"]
    BY <2>1 DEF At
  <2> HIDE DEF e
  <2> QED BY <2>3, <2>4
<1>3. At(sim) = [s \in Sessions |-> At(sim)[s]]
  BY DEF At
<1> QED BY <1>2, <1>3 DEF Promise!Init

(* A turn of the event loop is a step of Serving.                          *)
LEMMA TurnServed ==
  ASSUME PInv, Next, Promise!Resident' # {} => Promise!FitsHbm'
  PROVE  Promise!Step
<1>1. PICK w : AtRest(sim, w)
  BY DEF PInv
<1>2. IInv /\ IInv' /\ GpuRests(sim)
  BY StepKeeps DEF PInv
<1>3. PICK v : Turn(sim, w, sim', v)
  BY <1>1, <1>2, TurnRests
<1>4. sim \in SimType /\ sim' \in SimType /\ AtRest(sim', v)
  BY <1>2, <1>3 DEF IInv, TypeOK, Turn
<1>5. ASSUME NEW s \in Sessions
      PROVE  At(sim')[s] = At(sim)[s] \/ Promise!Moves(s, At(sim)[s], At(sim')[s])
  <2>1. At(sim)[s] = Served(sim, w, s) /\ At(sim')[s] = Served(sim', v, s)
    BY <1>1, <1>4, AtOfServed
  <2>2. Passes(s, sim, w, sim', v)
    BY <1>3 DEF Turn
  <2> QED BY <1>1, <1>4, <2>1, <2>2, PassesServed
<1>6. At(sim') = [s \in Sessions |-> At(sim')[s]]
  BY DEF At
<1>7. ~(Promise!Resident' \subseteq Promise!Resident) => Promise!FitsHbm'
  OBVIOUS
<1> QED BY <1>5, <1>6, <1>7 DEF Promise!Step

(* The safety half of the refinement: each session runs its calls in       *)
(* order, one at a time, from the queue for HBM through its prefill and    *)
(* decode steps to the next, and whoever is admitted to HBM fits there.    *)
THEOREM ServesAsPromised == Spec => Promise!Safety
<1> DEFINE Fit == Promise!Resident # {} => Promise!FitsHbm
<1>1. PInv /\ Fit' /\ [Next]_sim => [Promise!Step]_(At(sim))
  <2> SUFFICES ASSUME PInv, Fit', [Next]_sim
               PROVE  [Promise!Step]_(At(sim))
    OBVIOUS
  <2>1. CASE Next
    BY <2>1, TurnServed
  <2>2. CASE UNCHANGED sim
    BY <2>2 DEF At
  <2> QED BY <2>1, <2>2
<1>2. PInv /\ [Next]_sim => PInv'
  BY StepRests
<1>3. PInv => Fit
  BY ServedFits
<1> HIDE DEF Fit
<1> QED BY <1>1, <1>2, <1>3, InitRests, InitServed, PTL DEF Spec, Promise!Safety

-----------------------------------------------------------------------------
(* Behind a call that never fits.  Only a release takes calls off the      *)
(* queue for HBM.                                                          *)
SameHbm(x, m) == x.hbm = m.hbm /\ x.idx = m.idx

(* What may come of m when bytes of HBM are given back.                    *)
Behind(m) ==
  {x \in SimType : x.idx = m.idx /\ LeftFromFront(m.hbm.q, x.hbm.q, HbmNeed(m), HbmCap)}

LEMMA BehindTrans ==
  ASSUME NEW m \in SimType, NEW x \in Behind(m), NEW y \in Behind(x)
  PROVE  y \in Behind(m)
<1>1. HbmNeed(x) = HbmNeed(m)
  BY DEF HbmNeed, Behind
<1>2. m.hbm.q \in Seq(Sessions) /\ x.hbm.q \in Seq(Sessions) /\ y.hbm.q \in Seq(Sessions)
  BY DEF Behind, SimType, Pools
<1>3. /\ LeftFromFront(m.hbm.q, x.hbm.q, HbmNeed(m), HbmCap)
      /\ LeftFromFront(x.hbm.q, y.hbm.q, HbmNeed(m), HbmCap)
  BY <1>1 DEF Behind
<1>4. LeftFromFront(m.hbm.q, y.hbm.q, HbmNeed(m), HbmCap)
  BY <1>2, <1>3, LeftFromFrontTrans
<1> QED BY <1>4 DEF Behind

LEMMA SameHbmBehind ==
  ASSUME NEW m \in SimType, NEW x \in SimType, SameHbm(x, m)
  PROVE  x \in Behind(m)
<1>1. m.hbm.q \in Seq(Sessions)
  BY DEF SimType, Pools
<1> DEFINE q == m.hbm.q
<1>2. Len(q) \in Nat
  BY <1>1
<1> HIDE DEF q
<1>3. LeftFromFront(q, q, HbmNeed(m), HbmCap)
  BY <1>2 DEF LeftFromFront
<1> QED BY <1>3 DEF Behind, SameHbm, q

(* The callbacks of a release leave HBM alone.                             *)
LEMMA AdmittedHbm ==
  ASSUME NEW m \in SimType, NEW s \in Sessions
  PROVE  SameHbm(Admitted(m, s), m)
  BY DEF SameHbm, Admitted, OldKvLoad, SimType

LEMMA AdmitAllHbm ==
  ASSUME NEW m \in SimType, NEW clients \in Seq(Sessions)
  PROVE  SameHbm(AdmitAll(m, clients), m)
<1> DEFINE n == Len(clients)
           L == AdmitLoop(m, clients)
           D == {x \in SimType : SameHbm(x, m)}
<1>1. n \in Nat /\ \A k \in 1..n : clients[k] \in Sessions
  OBVIOUS
<1>2. /\ L[0] = m
      /\ \A k \in 1..n : L[k] = Admitted(L[k-1], clients[k])
      /\ \A k \in 0..n : L[k] \in Untouched(m)
  BY AdmitLoopDef
<1>3. AdmitAll(m, clients) = L[n]
  BY DEF AdmitAll
<1> HIDE DEF L
<1>4. L[0] \in D
  BY <1>2 DEF SameHbm
<1>5. ASSUME NEW k \in 1..n, L[k-1] \in D PROVE L[k] \in D
  <2>1. SameHbm(Admitted(L[k-1], clients[k]), L[k-1])
    BY <1>1, <1>5, AdmittedHbm
  <2>2. L[k] \in SimType
    <3>1. k \in 0..n
      BY <1>1
    <3> QED BY <1>2, <3>1 DEF Untouched
  <2> QED BY <1>2, <1>5, <2>1, <2>2 DEF SameHbm
<1> HIDE DEF D, n
<1>6. L[n] \in D
  BY <1>1, <1>4, <1>5, LoopStays
<1> QED BY <1>3, <1>6 DEF D

LEMMA LoadAllHbm ==
  ASSUME NEW m \in SimType, NEW clients \in Seq(Sessions)
  PROVE  SameHbm(LoadAll(m, clients), m)
<1> DEFINE n == Len(clients)
           L == LoadLoop(m, clients)
           D == {x \in SimType : SameHbm(x, m)}
<1>1. n \in Nat /\ \A k \in 1..n : clients[k] \in Sessions
  OBVIOUS
<1>2. /\ L[0] = m
      /\ \A k \in 1..n : L[k] = OldKvLoad(L[k-1], clients[k])
      /\ \A k \in 0..n : L[k] \in Untouched(m)
  BY LoadLoopDef
<1>3. LoadAll(m, clients) = L[n]
  BY DEF LoadAll
<1> HIDE DEF L
<1>4. L[0] \in D
  BY <1>2 DEF SameHbm
<1>5. ASSUME NEW k \in 1..n, L[k-1] \in D PROVE L[k] \in D
  <2>1. SameHbm(OldKvLoad(L[k-1], clients[k]), L[k-1])
    BY <1>5 DEF SameHbm, OldKvLoad, SimType
  <2>2. L[k] \in SimType
    <3>1. k \in 0..n
      BY <1>1
    <3> QED BY <1>2, <3>1 DEF Untouched
  <2> QED BY <1>2, <1>5, <2>1, <2>2 DEF SameHbm
<1> HIDE DEF D, n
<1>6. L[n] \in D
  BY <1>1, <1>4, <1>5, LoopStays
<1> QED BY <1>3, <1>6 DEF D

(* _finish takes calls off the queue by its release of HBM alone.          *)
LEMMA ReleaseHbmFront ==
  ASSUME NEW m \in SimType, NEW s \in Sessions
  PROVE  ReleaseHbm(m, s) \in Behind(m)
<1> DEFINE pool == Release(m.hbm, HbmNeed(m), HbmCap, HbmNeed(m)[s])
           x == [m EXCEPT !.hbm = pool]
<1>1. /\ HbmNeed(m) \in [Sessions -> Nat] /\ HbmNeed(m)[s] \in Int
      /\ m.hbm \in Pools(Sessions) /\ HbmCap \in Int
  <2>1. HbmNeed(m) \in [Sessions -> Nat]
    BY NeedTypes
  <2>2. HbmNeed(m)[s] \in Int
    BY <2>1
  <2>3. m.hbm \in Pools(Sessions) /\ HbmCap \in Int
    BY SimAssumption DEF SimType
  <2> QED BY <2>1, <2>2, <2>3
<1>2. pool \in Pools(Sessions) /\ LeftFromFront(m.hbm.q, pool.q, HbmNeed(m), HbmCap)
  BY <1>1, ReleaseFront
<1>3. Granted(m.hbm, pool) \in Seq(Sessions)
  BY <1>1, <1>2, GrantedType
<1> HIDE DEF pool
<1>4. x \in SimType /\ x.hbm = pool /\ x.idx = m.idx
  BY <1>2 DEF SimType
<1>5. ReleaseHbm(m, s) = AdmitAll(x, Granted(m.hbm, pool))
  BY DEF ReleaseHbm, pool
<1> HIDE DEF x
<1>6. SameHbm(ReleaseHbm(m, s), x)
  BY <1>3, <1>4, <1>5, AdmitAllHbm
<1>7. ReleaseHbm(m, s) \in SimType
  BY ReleaseHbmEffect DEF Untouched
<1> QED BY <1>2, <1>4, <1>6, <1>7 DEF Behind, SameHbm

LEMMA ReleaseCpuHbm ==
  ASSUME NEW m \in SimType, NEW s \in Sessions
  PROVE  SameHbm(ReleaseCpu(m, s), m)
<1> DEFINE pool == Release(m.cpu, CpuNeed(m), CpuCap, CpuNeed(m)[s])
           x == [m EXCEPT !.cpu = pool]
<1>1. /\ CpuNeed(m) \in [Sessions -> Nat] /\ CpuNeed(m)[s] \in Int
      /\ m.cpu \in Pools(Sessions) /\ CpuCap \in Int
  <2>1. CpuNeed(m) \in [Sessions -> Nat]
    BY NeedTypes
  <2>2. CpuNeed(m)[s] \in Int
    BY <2>1
  <2>3. m.cpu \in Pools(Sessions) /\ CpuCap \in Int
    BY SimAssumption DEF SimType
  <2> QED BY <2>1, <2>2, <2>3
<1>2. pool \in Pools(Sessions) /\ Granted(m.cpu, pool) \in Seq(Sessions)
  BY <1>1, ReleaseType, GrantedType
<1> HIDE DEF pool
<1>3. x \in SimType /\ SameHbm(x, m)
  BY <1>2 DEF SimType, SameHbm
<1>4. ReleaseCpu(m, s) = LoadAll(x, Granted(m.cpu, pool))
  BY DEF ReleaseCpu, pool
<1> HIDE DEF x
<1>5. SameHbm(ReleaseCpu(m, s), x)
  BY <1>2, <1>3, <1>4, LoadAllHbm
<1> QED BY <1>3, <1>5 DEF SameHbm

LEMMA FinishFront ==
  ASSUME NEW m \in SimType, NEW s \in Sessions
  PROVE  Finish(m, s) \in Behind(m)
<1> DEFINE r == ReleaseHbm(m, s)
           c == ReleaseCpu(r, s)
           x == Finish(m, s)
<1>1. r \in SimType /\ r \in Behind(m)
  BY ReleaseHbmFront DEF Behind
<1> HIDE DEF r
<1>2. c \in SimType /\ SameHbm(c, r)
  BY <1>1, ReleaseCpuEffect, ReleaseCpuHbm DEF Untouched
<1>3. SameHbm(x, c)
  <2> HIDE DEF c
  <2>1. c \in SimType
    BY <1>2
  <2> QED BY <2>1 DEF Finish, SameHbm, SimType, c, r
<1>4. x \in SimType
  BY FinishEffect DEF Untouched
<1> HIDE DEF c, x
<1>5. SameHbm(x, r)
  BY <1>2, <1>3 DEF SameHbm
<1>6. x \in Behind(r)
  BY <1>1, <1>4, <1>5, SameHbmBehind
<1> QED BY <1>1, <1>6, BehindTrans DEF x

(* So does the sifting of a batch, however many calls finish.              *)
LEMMA FinishLoopFront ==
  ASSUME NEW m \in SimType, NEW batch \in Seq(Sessions)
  PROVE  FinishLoop(m, batch)[Len(batch)] \in Behind(m)
<1> DEFINE n == Len(batch)
           L == FinishLoop(m, batch)
           Gone(k) == [L[k-1] EXCEPT !.decoding = Without(@, batch[k])]
<1>1. n \in Nat /\ \A k \in 1..n : batch[k] \in Sessions
  OBVIOUS
<1>2. /\ L[0] = m
      /\ \A k \in 1..n : L[k] = IF m.left[batch[k]] > 0 THEN L[k-1] ELSE Finish(Gone(k), batch[k])
      /\ \A k \in 0..n : L[k] \in Untouched(m)
  BY FinishLoopDef
<1> HIDE DEF L
<1>3. L[0] \in Behind(m)
  BY <1>2, SameHbmBehind DEF SameHbm
<1>4. ASSUME NEW k \in 1..n, L[k-1] \in Behind(m) PROVE L[k] \in Behind(m)
  <2>1. L[k-1] \in SimType /\ batch[k] \in Sessions
    BY <1>1, <1>4 DEF Behind
  <2>2. Without(L[k-1].decoding, batch[k]) \in Seq(Sessions)
    BY <2>1, WithoutType DEF SimType
  <2>3. Gone(k) \in SimType /\ SameHbm(Gone(k), L[k-1])
    BY <2>1, <2>2 DEF SimType, SameHbm
  <2> HIDE DEF Gone
  <2>4. Gone(k) \in Behind(m)
    BY <1>4, <2>1, <2>3, SameHbmBehind, BehindTrans
  <2>5. Finish(Gone(k), batch[k]) \in Behind(m)
    BY <2>1, <2>3, <2>4, FinishFront, BehindTrans
  <2> QED BY <1>2, <1>4, <2>5
<1> DEFINE D == Behind(m)
<1> HIDE DEF D, n
<1>5. n \in Nat /\ L[0] \in D /\ \A k \in 1..n : L[k-1] \in D => L[k] \in D
  BY <1>1, <1>3, <1>4 DEF D
<1>6. L[n] \in D
  BY <1>5, LoopStays
<1> QED BY <1>6 DEF D, L, n

LEMMA PumpGpuHbm ==
  ASSUME NEW m \in SimType
  PROVE  SameHbm(PumpGpu(m), m)
  BY DEF PumpGpu, DecodeStep, SameHbm, SimType

(* What BehindOversize says of one step.                                   *)
StayBehind(m, x) ==
  \A i, j \in DOMAIN m.hbm.q :
    HbmNeed(m)[m.hbm.q[i]] > HbmCap /\ i <= j => m.hbm.q[j] \in Range(x.hbm.q)

LEMMA BehindStay ==
  ASSUME NEW m \in SimType, NEW x \in Behind(m)
  PROVE  StayBehind(m, x)
<1> DEFINE q == m.hbm.q
           r == x.hbm.q
           n == Len(q) - Len(r)
           need == HbmNeed(m)
<1>1. q \in Seq(Sessions) /\ r \in Seq(Sessions) /\ LeftFromFront(q, r, need, HbmCap)
  BY DEF Behind, SimType, Pools
<1>2. need \in [Sessions -> Nat] /\ HbmCap \in Int
  BY NeedTypes, SimAssumption
<1>3. Len(q) \in Nat /\ Len(r) \in Nat /\ n \in Nat /\ DOMAIN q = 1..Len(q) /\ DOMAIN r = 1..Len(r)
  BY <1>1 DEF LeftFromFront
<1>4. ASSUME NEW i \in DOMAIN q, NEW j \in DOMAIN q, need[q[i]] > HbmCap, i <= j
      PROVE  q[j] \in Range(r)
  <2>1. need[q[i]] \in Nat
    BY <1>1, <1>2
  <2>2. ~(need[q[i]] <= HbmCap)
    BY <1>2, <1>4, <2>1
  <2>3. i \notin 1..n
    BY <1>1, <2>2 DEF LeftFromFront
  <2>4. j - n \in 1..Len(r) /\ n + (j - n) = j
    <3> DEFINE a == Len(q)
               b == Len(r)
    <3>1. a \in Nat /\ b \in Nat /\ a - b \in Nat /\ i \in 1..a /\ j \in 1..a
      BY <1>3
    <3>2. i <= j /\ i \notin 1..(a - b)
      BY <1>4, <2>3
    <3> HIDE DEF a, b
    <3>3. j - (a - b) \in 1..b /\ (a - b) + (j - (a - b)) = j
      BY <3>1, <3>2
    <3> QED BY <3>3 DEF a, b
  <2>5. r[j - n] = q[n + (j - n)]
    BY <1>1, <2>4 DEF LeftFromFront
  <2> QED BY <1>3, <2>4, <2>5 DEF Range
<1> QED BY <1>4 DEF StayBehind

(* An arrival joins the queue at its end or not at all.                    *)
LEMMA ArriveBehind ==
  ASSUME NEW m \in SimType, NEW s \in Sessions, NEW i \in Nat \ {0}
  PROVE  StayBehind(m, ArriveHandler(m, s, i))
<1> DEFINE q == m.hbm.q
           x == ArriveHandler(m, s, i)
           call == [m EXCEPT !.idx[s] = i, !.left[s] = Trace[s][i].output]
           pool == Acquire(m.hbm, HbmNeed(call), s)
           asked == [call EXCEPT !.hbm = Acquire(@, HbmNeed(call), s)]
<1>1. q \in Seq(Sessions)
  BY DEF SimType, Pools
<1>2. asked.hbm = pool
  BY DEF SimType
<1>3. Admitted(asked, s).hbm = pool
  BY DEF Admitted, OldKvLoad, SimType
<1>4. x.hbm = m.hbm \/ x.hbm = pool
  <2> HIDE DEF call, asked, pool
  <2>1. x = IF i > Len(Trace[s]) THEN m
            ELSE IF Fits(m.hbm, HbmNeed(call), s) THEN Admitted(asked, s) ELSE asked
    BY DEF ArriveHandler, call, asked
  <2> QED BY <1>2, <1>3, <2>1
<1>5. pool.q = q \/ pool.q = Append(q, s)
  BY DEF Acquire, SimType, Pools
<1> HIDE DEF pool, x
<1>6. x.hbm.q = q \/ x.hbm.q = Append(q, s)
  BY <1>4, <1>5
<1>7. \A j \in DOMAIN q : q[j] \in Range(q) /\ q[j] \in Range(Append(q, s))
  <2>1. ASSUME NEW j \in DOMAIN q PROVE q[j] \in Range(Append(q, s))
    <3>1. j \in DOMAIN Append(q, s) /\ Append(q, s)[j] = q[j]
      BY <1>1
    <3> QED BY <3>1 DEF Range
  <2> QED BY <2>1 DEF Range
<1> HIDE DEF q
<1>8. \A j \in DOMAIN q : q[j] \in Range(x.hbm.q)
  BY <1>6, <1>7
<1> QED BY <1>8 DEF StayBehind, q, x

(* Head-of-line blocking: a call that never fits keeps its place, and with *)
(* it every call behind it, though they would fit.  It follows from the    *)
(* types alone: pool, events and batch may be in any state.                *)
THEOREM NobodyPassesOversize == Spec => BehindOversize
<1>1. TypeOK /\ [Next]_sim => [StayBehind(sim, sim')]_sim
  <2> SUFFICES ASSUME TypeOK, Next PROVE StayBehind(sim, sim')
    OBVIOUS
  <2>1. sim \in SimType
    BY DEF TypeOK
  <2>2. ASSUME NEW s \in Sessions, Arrive(s) PROVE StayBehind(sim, sim')
    <3>1. PICK i \in 1..(Len(Trace[s]) + 1) :
            sim' = ArriveHandler([sim EXCEPT !.arrivals = @ \ {<<s, i>>}], s, i)
      BY <2>2 DEF Arrive
    <3> DEFINE m == [sim EXCEPT !.arrivals = @ \ {<<s, i>>}]
    <3>2. m \in SimType /\ SameHbm(m, sim)
      BY <2>1 DEF SimType, SameHbm
    <3>3. i \in Nat \ {0}
      OBVIOUS
    <3> HIDE DEF m
    <3>4. StayBehind(m, sim')
      BY <3>1, <3>2, <3>3, ArriveBehind DEF m
    <3>5. HbmNeed(m) = HbmNeed(sim)
      BY <3>2 DEF SameHbm, HbmNeed
    <3> QED BY <3>2, <3>4, <3>5 DEF StayBehind, SameHbm
  <2>3. ASSUME NEW job \in LinkJobs, C2CFin(job) PROVE StayBehind(sim, sim')
    <3> DEFINE called == IF job[1] = "load" THEN ReadyPrefill(sim, job[2]) ELSE sim
               y == [sim EXCEPT !.prefillQ = Append(@, job[2])]
    <3>1. job[2] \in Sessions
      BY DEF LinkJobs
    <3>2. y \in SimType /\ SameHbm(y, sim)
      <4>1. Append(sim.prefillQ, job[2]) \in Seq(Sessions)
        BY <2>1, <3>1 DEF SimType
      <4> QED BY <2>1, <4>1 DEF SimType, SameHbm
    <3>3. SameHbm(PumpGpu(y), y)
      BY <3>2, PumpGpuHbm
    <3>4. called.hbm = sim.hbm
      BY <3>2, <3>3 DEF ReadyPrefill, SameHbm
    <3>5. sim' = [called EXCEPT !.c2c = Fin(@, job)]
      BY <2>3 DEF C2CFin, C2CFinHandler
    <3> HIDE DEF called, y
    <3>6. sim'.hbm = sim.hbm
      BY <3>4, <3>5
    <3> QED BY <3>6 DEF StayBehind, Range
  <2>4. ASSUME NEW s \in Sessions, PrefillDone(s) PROVE StayBehind(sim, sim')
    <3> DEFINE x == [[sim EXCEPT !.gpuEvent = @ \ {s}]
                       EXCEPT !.gpuBusy = FALSE,
                              !.c2c = Transfer(@, Flush(s)),
                              !.decoding = Append(@, s)]
    <3>1. x \in SimType /\ SameHbm(x, sim)
      <4>1. Append(sim.decoding, s) \in Seq(Sessions)
        BY <2>1 DEF SimType
      <4>2. Transfer(sim.c2c, Flush(s)) \in Links(LinkJobs)
        BY <2>1, JobTypes, TransferType DEF SimType
      <4> QED BY <2>1, <4>1, <4>2 DEF SimType, SameHbm
    <3>2. sim' = PumpGpu(x)
      BY <2>4 DEF PrefillDone, PrefillDoneHandler
    <3> HIDE DEF x
    <3>3. SameHbm(sim', x)
      BY <3>1, <3>2, PumpGpuHbm
    <3>4. sim'.hbm = sim.hbm
      BY <3>1, <3>3 DEF SameHbm
    <3> QED BY <3>4 DEF StayBehind, Range
  <2>5. CASE DecodeTick
    <3> DEFINE m == [sim EXCEPT !.gpuEvent = @ \ {Tick}]
               left == [s \in Sessions |->
                          IF s \in Range(m.decoding) THEN m.left[s] - 1 ELSE m.left[s]]
               stepped == [m EXCEPT !.left = left]
               sifted == FinishLoop(stepped, m.decoding)[Len(m.decoding)]
               x == [sifted EXCEPT !.gpuBusy = FALSE]
    <3>1. m \in SimType /\ SameHbm(m, sim)
      BY <2>1 DEF SimType, SameHbm
    <3>2. sim' = DecodeTickHandler(m)
      BY <2>5 DEF DecodeTick
    <3> HIDE DEF m
    <3>3. left \in [Sessions -> Int]
      BY <3>1 DEF SimType
    <3>4. DecodeTickHandler(m) = PumpGpu(x)
      BY <3>1 DEF DecodeTickHandler, SimType
    <3> HIDE DEF left
    <3>5. stepped \in SimType /\ SameHbm(stepped, sim) /\ m.decoding \in Seq(Sessions)
      BY <3>1, <3>3 DEF SimType, SameHbm
    <3> HIDE DEF stepped
    <3>6. sifted \in Behind(stepped) /\ sifted \in SimType
      BY <3>5, FinishLoopFront DEF Behind
    <3> HIDE DEF sifted
    <3>7. x \in SimType /\ SameHbm(x, sifted)
      BY <3>6 DEF SimType, SameHbm
    <3> HIDE DEF x
    <3>8. SameHbm(sim', x)
      BY <3>2, <3>4, <3>7, PumpGpuHbm
    <3>9. StayBehind(stepped, sifted)
      BY <3>5, <3>6, BehindStay
    <3>10. HbmNeed(stepped) = HbmNeed(sim)
      BY <3>5 DEF SameHbm, HbmNeed
    <3>11. sim'.hbm = sifted.hbm /\ stepped.hbm = sim.hbm
      BY <3>5, <3>7, <3>8 DEF SameHbm
    <3> QED BY <3>9, <3>10, <3>11 DEF StayBehind
  <2> QED BY <2>2, <2>3, <2>4, <2>5 DEF Next
<1>2. [StayBehind(sim, sim')]_sim
        => [\A i, j \in DOMAIN sim.hbm.q :
              Oversize(sim.hbm.q[i]) /\ i <= j => sim.hbm.q[j] \in Range(sim'.hbm.q)]_sim
  BY DEF StayBehind, Oversize
<1>3. Spec => []TypeOK
  BY SimTypeCorrect
<1> QED BY <1>1, <1>2, <1>3, PTL DEF Spec, BehindOversize
=============================================================================
