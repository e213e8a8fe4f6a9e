------------------------- MODULE DynamicSchedProofs -------------------------
(***************************************************************************)
(* Theorems about the dynamic scheduler, for any sessions, calls,          *)
(* capacities and policies.                                                *)
(*                                                                         *)
(* Its release of HBM wakes the GPU, and its release of the CPU wakes the  *)
(* CPU engine, in the middle of the handler that releases.  So the lemmas  *)
(* say what the methods make of a busy engine, which is nothing, and what  *)
(* of an idle one, which is one task.                                      *)
(***************************************************************************)
EXTENDS DynamicSched, OpsProofs

(* EnginesExclusive of any value of sim, engine by engine.                 *)
GpuOnce(m) ==
  IF m.gpuBusy THEN \E e \in Sessions \cup {Tick} : m.gpuEvent = {e}
               ELSE m.gpuEvent = {}

CpuOnce(m) == m.cpuBusy <=> Tick \in m.cpuEvent

(* A handler clears gpu_busy only when the event has fired.                *)
GpuCalm(m) == ~m.gpuBusy => m.gpuEvent = {}

SameGpu(x, m) ==
  x.gpuBusy = m.gpuBusy /\ x.gpuEvent = m.gpuEvent /\ x.gpuDec = m.gpuDec

SameCpu(x, m) == x.cpuBusy = m.cpuBusy /\ x.cpuEvent = m.cpuEvent

(* What may come of m when calls are put into the queue for prefill.       *)
Woken(m) ==
  {x \in SimType :
     /\ SameCpu(x, m) /\ x.gpuDec = m.gpuDec
     /\ m.gpuBusy => x.gpuBusy /\ x.gpuEvent = m.gpuEvent
     /\ ~m.gpuBusy => GpuOnce(x)
     /\ Tick \in x.gpuEvent => Tick \in m.gpuEvent}

(* What may come of m when calls join the batch of the CPU.                *)
Joined(m) ==
  {x \in SimType :
     /\ SameGpu(x, m)
     /\ m.cpuBusy => x.cpuBusy /\ x.cpuEvent = m.cpuEvent
     /\ CpuOnce(m) => CpuOnce(x)}

LEMMA WokenTrans ==
  ASSUME NEW m \in SimType, GpuCalm(m), NEW x \in Woken(m), NEW y \in Woken(x)
  PROVE  y \in Woken(m) /\ GpuCalm(x)
<1>1. CASE m.gpuBusy
  BY <1>1 DEF Woken, SameCpu, GpuCalm
<1>2. CASE ~m.gpuBusy
  <2>1. GpuOnce(x) /\ GpuCalm(x)
    BY <1>2 DEF Woken, GpuOnce, GpuCalm
  <2>2. GpuOnce(y)
    BY <2>1 DEF Woken, GpuOnce
  <2> QED BY <1>2, <2>1, <2>2 DEF Woken, SameCpu
<1> QED BY <1>1, <1>2

LEMMA JoinedTrans ==
  ASSUME NEW m \in SimType, NEW x \in Joined(m), NEW y \in Joined(x)
  PROVE  y \in Joined(m)
  BY DEF Joined, SameGpu

(* The sizes of the present calls are numbers of bytes.                    *)
LEMMA KvTypes ==
  ASSUME NEW m \in SimType
  PROVE  Kv(m) \in [Sessions -> Nat]
<1>1. ASSUME NEW s \in Sessions, NEW i \in DOMAIN Trace[s]
      PROVE  Trace[s][i].kv \in Nat
  <2> DEFINE R == [kv : Nat, output : Int]
  <2>1. Trace[s] \in Seq(R)
    BY DynAssumption
  <2>2. \A r \in R : r.kv \in Nat
    OBVIOUS
  <2> HIDE DEF R
  <2>3. Trace[s][i] \in R
    BY <2>1
  <2> QED BY <2>2, <2>3
<1> QED BY <1>1 DEF Kv

-----------------------------------------------------------------------------
(* _pump_gpu leaves a busy GPU as it is and gives an idle one a task, if   *)
(* there is any.                                                           *)
LEMMA PumpGpuEffect ==
  ASSUME NEW m \in SimType, GpuCalm(m)
  PROVE  /\ PumpGpu(m) \in SimType
         /\ SameCpu(PumpGpu(m), m) /\ PumpGpu(m).gpuDec = m.gpuDec
         /\ m.gpuBusy => PumpGpu(m) = m
         /\ ~m.gpuBusy => GpuOnce(PumpGpu(m))
         /\ m.prefillQ # <<>> /\ Tick \in PumpGpu(m).gpuEvent => Tick \in m.gpuEvent
<1>1. CASE m.gpuBusy
  BY <1>1 DEF PumpGpu, SameCpu
<1>2. CASE ~m.gpuBusy /\ m.prefillQ # <<>>
  <2> DEFINE h == {Head(m.prefillQ)}
             rest == Tail(m.prefillQ)
  <2>1. Head(m.prefillQ) \in Sessions /\ rest \in Seq(Sessions)
    BY <1>2, HeadTailProperties DEF SimType
  <2>2. h \in SUBSET (Sessions \cup {Tick}) /\ Tick \notin h
    BY <2>1, DynAssumption
  <2>3. m.gpuEvent \cup h = h
    BY <1>2 DEF GpuCalm
  <2>4. PumpGpu(m) = [m EXCEPT !.gpuBusy = TRUE, !.prefillQ = rest, !.gpuEvent = h]
    BY <1>2, <2>3 DEF PumpGpu, SimType
  <2>5. \E e \in Sessions \cup {Tick} : h = {e}
    BY <2>1
  <2> HIDE DEF h, rest
  <2>6. /\ PumpGpu(m) \in SimType
        /\ SameCpu(PumpGpu(m), m) /\ PumpGpu(m).gpuDec = m.gpuDec
        /\ PumpGpu(m).gpuBusy /\ PumpGpu(m).gpuEvent = h
    BY <2>1, <2>2, <2>4 DEF SimType, SameCpu
  <2>7. GpuOnce(PumpGpu(m))
    BY <2>5, <2>6 DEF GpuOnce
  <2> QED BY <1>2, <2>2, <2>6, <2>7
<1>3. CASE ~m.gpuBusy /\ m.prefillQ = <<>> /\ m.gpuDec # <<>>
  <2>1. m.gpuEvent \cup {Tick} = {Tick}
    BY <1>3 DEF GpuCalm
  <2>2. PumpGpu(m) = [m EXCEPT !.gpuBusy = TRUE, !.gpuEvent = {Tick}]
    BY <1>3, <2>1 DEF PumpGpu, GpuDecodeStep, SimType
  <2> QED BY <1>3, <2>2 DEF GpuOnce, SameCpu, SimType
<1>4. CASE ~m.gpuBusy /\ m.prefillQ = <<>> /\ m.gpuDec = <<>>
  BY <1>4 DEF PumpGpu, GpuOnce, GpuCalm, SameCpu
<1> QED BY <1>1, <1>2, <1>3, <1>4

(* _ready_prefill starts at most this prefill, and no step of the batch.   *)
LEMMA ReadyPrefillEffect ==
  ASSUME NEW m \in SimType, GpuCalm(m), NEW s \in Sessions
  PROVE  ReadyPrefill(m, s) \in Woken(m)
<1> DEFINE x == [m EXCEPT !.prefillQ = Append(@, s)]
<1>1. Append(m.prefillQ, s) \in Seq(Sessions) /\ Append(m.prefillQ, s) # <<>>
  <2>1. m.prefillQ \in Seq(Sessions)
    BY DEF SimType
  <2> QED BY <2>1, AppendProperties
<1>2. /\ x \in SimType /\ SameGpu(x, m) /\ SameCpu(x, m)
      /\ x.prefillQ # <<>>
  BY <1>1 DEF SimType, SameGpu, SameCpu
<1>3. ReadyPrefill(m, s) = PumpGpu(x)
  BY DEF ReadyPrefill
<1> HIDE DEF x
<1>4. GpuCalm(x)
  BY <1>2 DEF GpuCalm, SameGpu
<1>5. /\ PumpGpu(x) \in SimType
      /\ SameCpu(PumpGpu(x), x) /\ PumpGpu(x).gpuDec = x.gpuDec
      /\ x.gpuBusy => PumpGpu(x) = x
      /\ ~x.gpuBusy => GpuOnce(PumpGpu(x))
      /\ Tick \in PumpGpu(x).gpuEvent => Tick \in x.gpuEvent
  BY <1>2, <1>4, PumpGpuEffect
<1> QED BY <1>2, <1>3, <1>5 DEF Woken, SameGpu, SameCpu

(* The callbacks of a release of HBM, however many there are.              *)
ReadyAllRuns(L, m, clients, n) ==
  /\ L[0] = m /\ ReadyAll(m, clients) = L[n]
  /\ \A k \in 1..n : L[k] = ReadyPrefill(L[k-1], clients[k])
  /\ \A k \in 0..n : L[k] \in Woken(m)

LEMMA ReadyAllLoop ==
  ASSUME NEW m \in SimType, GpuCalm(m), NEW clients \in Seq(Sessions), NEW n, n = Len(clients)
  PROVE  \E L : ReadyAllRuns(L, m, clients, n)
<1> DEFINE D == Woken(m)
           G == [y \in D \X (1..n) |-> ReadyPrefill(y[1], clients[y[2]])]
<1>1. n \in Nat /\ \A k \in 1..n : clients[k] \in Sessions
  OBVIOUS
<1>2. m \in D
  BY DEF Woken, SameCpu, GpuOnce, GpuCalm
<1>3. ASSUME NEW x \in D, NEW k \in 1..n PROVE ReadyPrefill(x, clients[k]) \in D
  <2>1. x \in SimType /\ clients[k] \in Sessions
    BY <1>1 DEF Woken
  <2>2. GpuCalm(x)
    BY DEF Woken, GpuCalm, GpuOnce
  <2>3. ReadyPrefill(x, clients[k]) \in Woken(x)
    BY <2>1, <2>2, ReadyPrefillEffect
  <2> QED BY <2>3, WokenTrans
<1>4. \A x \in D, k \in 1..n : G[<<x, k>>] = ReadyPrefill(x, clients[k])
  OBVIOUS
<1>5. m \in D /\ n \in Nat /\ \A x \in D, k \in 1..n : G[<<x, k>>] \in D
  BY <1>1, <1>2, <1>3, <1>4
<1> HIDE DEF G, D
<1>6. PICK f : LoopIn(f, D, m, n, G)
  BY <1>5, LoopExists
<1>7. ASSUME NEW k \in 1..n PROVE G[<<f[k-1], k>>] = ReadyPrefill(f[k-1], clients[k])
  <2>1. k - 1 \in 0..n
    BY <1>1
  <2> QED BY <1>4, <1>6, <2>1 DEF LoopIn
<1>8. f = [k \in 0..n |-> IF k = 0 THEN m ELSE ReadyPrefill(f[k-1], clients[k])]
  <2>1. \A k \in 0..n : k # 0 => k \in 1..n
    BY <1>1
  <2> QED BY <1>6, <1>7, <2>1 DEF LoopIn
<1> DEFINE L == CHOOSE l : l = [k \in 0..n |-> IF k = 0 THEN m ELSE ReadyPrefill(l[k-1], clients[k])]
<1>9. L = [k \in 0..n |-> IF k = 0 THEN m ELSE ReadyPrefill(L[k-1], clients[k])]
  BY <1>8
<1>10. ReadyAll(m, clients) = L[n]
  BY DEF ReadyAll
<1> HIDE DEF L
<1>11. L[0] = m /\ \A k \in 1..n : L[k] = ReadyPrefill(L[k-1], clients[k])
  BY <1>1, <1>9
<1>12. \A k \in 0..n : L[k] \in D
  <2>1. ASSUME NEW k \in 0..n PROVE L[k] \in D
    <3>1. k \in Nat /\ L[0] \in D /\ \A i \in 1..k : L[i-1] \in D => L[i] \in D
      BY <1>1, <1>2, <1>3, <1>11
    <3> QED BY <3>1, LoopStays
  <2> QED BY <2>1
<1> QED BY <1>10, <1>11, <1>12 DEF D, ReadyAllRuns

LEMMA ReadyAllEffect ==
  ASSUME NEW m \in SimType, GpuCalm(m), NEW clients \in Seq(Sessions)
  PROVE  ReadyAll(m, clients) \in Woken(m)
<1> DEFINE n == Len(clients)
<1>1. PICK L : ReadyAllRuns(L, m, clients, n)
  BY ReadyAllLoop
<1>2. n \in 0..n
  OBVIOUS
<1> QED BY <1>1, <1>2 DEF ReadyAllRuns

(* A release of HBM, with the prefill it may start.                        *)
LEMMA ReleaseHbmEffect ==
  ASSUME NEW m \in SimType, GpuCalm(m), NEW s \in Sessions
  PROVE  ReleaseHbm(m, s) \in Woken(m)
<1> DEFINE pool == Release(m.hbm, Kv(m), HbmCap, Kv(m)[s])
           x == [m EXCEPT !.hbm = pool]
<1>1. Kv(m) \in [Sessions -> Nat]
  BY KvTypes
<1>2. pool \in Pools(Sessions)
  <2>1. Kv(m)[s] \in Int
    BY <1>1
  <2>2. m.hbm \in Pools(Sessions) /\ HbmCap \in Int
    BY DynAssumption DEF SimType
  <2> QED BY <1>1, <2>1, <2>2, ReleaseType
<1>3. Granted(m.hbm, pool) \in Seq(Sessions)
  BY <1>2, GrantedType DEF SimType
<1> HIDE DEF pool
<1>4. x \in SimType /\ SameGpu(x, m) /\ SameCpu(x, m)
  BY <1>2 DEF SimType, SameGpu, SameCpu
<1> HIDE DEF x
<1>5. GpuCalm(x)
  BY <1>4 DEF GpuCalm, SameGpu
<1>6. ReadyAll(x, Granted(m.hbm, pool)) \in Woken(x)
  BY <1>3, <1>4, <1>5, ReadyAllEffect
<1> QED BY <1>4, <1>6 DEF ReleaseHbm, pool, x, Woken, SameGpu, SameCpu

-----------------------------------------------------------------------------
(* _pump_cpu leaves a busy engine as it is; an idle one with a batch gets  *)
(* a step.                                                                 *)
LEMMA PumpCpuEffect ==
  ASSUME NEW m \in SimType
  PROVE  PumpCpu(m) \in Joined(m)
<1>1. CASE m.cpuBusy \/ m.cpuDec = <<>>
  BY <1>1 DEF PumpCpu, Joined, SameGpu
<1>2. CASE ~(m.cpuBusy \/ m.cpuDec = <<>>)
  <2> DEFINE h == m.cpuEvent \cup {Tick}
  <2>1. h \in SUBSET {Tick} /\ Tick \in h
    BY DEF SimType
  <2>2. PumpCpu(m) = [m EXCEPT !.cpuBusy = TRUE, !.cpuEvent = h]
    BY <1>2 DEF PumpCpu, SimType
  <2> HIDE DEF h
  <2> QED BY <1>2, <2>1, <2>2 DEF Joined, SameGpu, CpuOnce, SimType
<1> QED BY <1>1, <1>2

(* _cpu_join wakes the CPU engine and leaves the GPU alone.                *)
LEMMA CpuJoinEffect ==
  ASSUME NEW m \in SimType, NEW s \in Sessions
  PROVE  CpuJoin(m, s) \in Joined(m)
<1> DEFINE x == [m EXCEPT !.cpuDec = Append(@, s)]
<1>1. Append(m.cpuDec, s) \in Seq(Sessions)
  BY DEF SimType
<1>2. x \in SimType /\ SameGpu(x, m) /\ SameCpu(x, m)
  BY <1>1 DEF SimType, SameGpu, SameCpu
<1>3. CpuJoin(m, s) = PumpCpu(x)
  BY DEF CpuJoin
<1> HIDE DEF x
<1>4. PumpCpu(x) \in Joined(x)
  BY <1>2, PumpCpuEffect
<1> QED BY <1>2, <1>3, <1>4 DEF Joined, SameGpu, SameCpu, CpuOnce

(* The callbacks of a release of the CPU, however many there are.          *)
JoinAllRuns(L, m, clients, n) ==
  /\ L[0] = m /\ JoinAll(m, clients) = L[n]
  /\ \A k \in 1..n : L[k] = CpuJoin(L[k-1], clients[k])
  /\ \A k \in 0..n : L[k] \in Joined(m)

LEMMA JoinAllLoop ==
  ASSUME NEW m \in SimType, NEW clients \in Seq(Sessions), NEW n, n = Len(clients)
  PROVE  \E L : JoinAllRuns(L, m, clients, n)
<1> DEFINE D == Joined(m)
           G == [y \in D \X (1..n) |-> CpuJoin(y[1], clients[y[2]])]
<1>1. n \in Nat /\ \A k \in 1..n : clients[k] \in Sessions
  OBVIOUS
<1>2. m \in D
  BY DEF Joined, SameGpu
<1>3. ASSUME NEW x \in D, NEW k \in 1..n PROVE CpuJoin(x, clients[k]) \in D
  <2>1. x \in SimType /\ clients[k] \in Sessions
    BY <1>1 DEF Joined
  <2>2. CpuJoin(x, clients[k]) \in Joined(x)
    BY <2>1, CpuJoinEffect
  <2> QED BY <2>2, JoinedTrans
<1>4. \A x \in D, k \in 1..n : G[<<x, k>>] = CpuJoin(x, clients[k])
  OBVIOUS
<1>5. m \in D /\ n \in Nat /\ \A x \in D, k \in 1..n : G[<<x, k>>] \in D
  BY <1>1, <1>2, <1>3, <1>4
<1> HIDE DEF G, D
<1>6. PICK f : LoopIn(f, D, m, n, G)
  BY <1>5, LoopExists
<1>7. ASSUME NEW k \in 1..n PROVE G[<<f[k-1], k>>] = CpuJoin(f[k-1], clients[k])
  <2>1. k - 1 \in 0..n
    BY <1>1
  <2> QED BY <1>4, <1>6, <2>1 DEF LoopIn
<1>8. f = [k \in 0..n |-> IF k = 0 THEN m ELSE CpuJoin(f[k-1], clients[k])]
  <2>1. \A k \in 0..n : k # 0 => k \in 1..n
    BY <1>1
  <2> QED BY <1>6, <1>7, <2>1 DEF LoopIn
<1> DEFINE L == CHOOSE l : l = [k \in 0..n |-> IF k = 0 THEN m ELSE CpuJoin(l[k-1], clients[k])]
<1>9. L = [k \in 0..n |-> IF k = 0 THEN m ELSE CpuJoin(L[k-1], clients[k])]
  BY <1>8
<1>10. JoinAll(m, clients) = L[n]
  BY DEF JoinAll
<1> HIDE DEF L
<1>11. L[0] = m /\ \A k \in 1..n : L[k] = CpuJoin(L[k-1], clients[k])
  BY <1>1, <1>9
<1>12. \A k \in 0..n : L[k] \in D
  <2>1. ASSUME NEW k \in 0..n PROVE L[k] \in D
    <3>1. k \in Nat /\ L[0] \in D /\ \A i \in 1..k : L[i-1] \in D => L[i] \in D
      BY <1>1, <1>2, <1>3, <1>11
    <3> QED BY <3>1, LoopStays
  <2> QED BY <2>1
<1> QED BY <1>10, <1>11, <1>12 DEF D, JoinAllRuns

LEMMA JoinAllEffect ==
  ASSUME NEW m \in SimType, NEW clients \in Seq(Sessions)
  PROVE  JoinAll(m, clients) \in Joined(m)
<1> DEFINE n == Len(clients)
<1>1. PICK L : JoinAllRuns(L, m, clients, n)
  BY JoinAllLoop
<1>2. n \in 0..n
  OBVIOUS
<1> QED BY <1>1, <1>2 DEF JoinAllRuns

(* A release of the CPU, with those that join its batch then.              *)
LEMMA ReleaseCpuEffect ==
  ASSUME NEW m \in SimType, NEW s \in Sessions
  PROVE  ReleaseCpu(m, s) \in Joined(m)
<1> DEFINE pool == Release(m.cpu, Kv(m), CpuCap, Kv(m)[s])
           x == [m EXCEPT !.cpu = pool]
<1>1. Kv(m) \in [Sessions -> Nat]
  BY KvTypes
<1>2. pool \in Pools(Sessions)
  <2>1. Kv(m)[s] \in Int
    BY <1>1
  <2>2. m.cpu \in Pools(Sessions) /\ CpuCap \in Int
    BY DynAssumption DEF SimType
  <2> QED BY <1>1, <2>1, <2>2, ReleaseType
<1>3. Granted(m.cpu, pool) \in Seq(Sessions)
  BY <1>2, GrantedType DEF SimType
<1> HIDE DEF pool
<1>4. x \in SimType /\ SameGpu(x, m) /\ SameCpu(x, m)
  BY <1>2 DEF SimType, SameGpu, SameCpu
<1> HIDE DEF x
<1>5. JoinAll(x, Granted(m.cpu, pool)) \in Joined(x)
  BY <1>3, <1>4, JoinAllEffect
<1> QED BY <1>4, <1>5 DEF ReleaseCpu, pool, x, Joined, SameGpu, SameCpu, CpuOnce

-----------------------------------------------------------------------------
(* _finish launches the next call of the session and touches no engine.    *)
LEMMA FinishEffect ==
  ASSUME NEW m \in SimType, NEW s \in Sessions
  PROVE  Finish(m, s) \in SimType /\ SameGpu(Finish(m, s), m) /\ SameCpu(Finish(m, s), m)
<1> DEFINE next == m.idx[s] + 1
           launched == IF next <= Len(Trace[s]) THEN m.arrivals \cup {<<s, next>>}
                                                ELSE m.arrivals
           done == [m.finished EXCEPT ![s] = @ + 1]
<1>1. next \in Nat \ {0}
  BY DEF SimType
<1>2. launched \in SUBSET (Sessions \X (Nat \ {0}))
  BY <1>1 DEF SimType
<1>3. done \in [Sessions -> Nat]
  BY DEF SimType
<1>4. Finish(m, s) = [m EXCEPT !.finished = done, !.arrivals = launched]
  BY DEF Finish, SimType
<1> HIDE DEF launched, done
<1> QED BY <1>2, <1>3, <1>4 DEF SimType, SameGpu, SameCpu

(* list.remove leaves a list of sessions.                                  *)
LEMMA WithoutType ==
  ASSUME NEW q \in Seq(Sessions), NEW s
  PROVE  Without(q, s) \in Seq(Sessions)
<1>1. CASE s \notin Range(q)
  BY <1>1 DEF Without
<1>2. CASE s \in Range(q)
  <2> DEFINE i == CHOOSE j \in DOMAIN q : q[j] = s
  <2>1. i \in DOMAIN q
    BY <1>2 DEF Range
  <2>2. Without(q, s) = RemoveAt(q, i)
    BY <1>2 DEF Without, RemoveAt
  <2> HIDE DEF i
  <2> QED BY <2>1, <2>2, RemoveAtType
<1> QED BY <1>1, <1>2

(* A step takes a token from each call of the batch and no more.           *)
LEMMA SteppedEffect ==
  ASSUME NEW m \in SimType, NEW batch
  PROVE  /\ Stepped(m, batch) \in SimType
         /\ SameGpu(Stepped(m, batch), m) /\ SameCpu(Stepped(m, batch), m)
<1> DEFINE left == [s \in Sessions |->
                      IF s \in Range(batch) THEN m.left[s] - 1 ELSE m.left[s]]
<1>1. left \in [Sessions -> Int]
  BY DEF SimType
<1>2. Stepped(m, batch) = [m EXCEPT !.left = left]
  BY DEF Stepped, SimType
<1> HIDE DEF left
<1> QED BY <1>1, <1>2 DEF SimType, SameGpu, SameCpu

(* While the loop of _gpu_tick returns HBM, gpu_busy still holds, so none  *)
(* of the prefills that become ready starts.                               *)
GpuKept(m) == {x \in SimType : SameCpu(x, m) /\ x.gpuBusy = TRUE /\ x.gpuEvent = {}}

LEMMA GpuFinishLoopDef ==
  ASSUME NEW m \in SimType, m.gpuBusy = TRUE, m.gpuEvent = {}, NEW batch \in Seq(Sessions),
         NEW n, n = Len(batch), NEW L, L = GpuFinishLoop(m, batch)
  PROVE  /\ L[0] = m
         /\ \A k \in 1..n :
              L[k] = IF m.left[batch[k]] > 0 THEN L[k-1]
                     ELSE Finish(ReleaseHbm([L[k-1] EXCEPT !.gpuDec = Without(@, batch[k])],
                                        batch[k]),
                                 batch[k])
         /\ \A k \in 0..n : L[k] \in GpuKept(m)
<1> DEFINE D == GpuKept(m)
           Gone(x, k) == [x EXCEPT !.gpuDec = Without(@, batch[k])]
           Turn(x, k) == IF m.left[batch[k]] > 0 THEN x
                         ELSE Finish(ReleaseHbm(Gone(x, k), batch[k]), batch[k])
           G == [y \in D \X (1..n) |-> Turn(y[1], y[2])]
<1>1. n \in Nat /\ m \in D /\ \A k \in 1..n : batch[k] \in Sessions
  BY DEF GpuKept, SameCpu
<1>2. ASSUME NEW x \in D, NEW k \in 1..n PROVE Turn(x, k) \in D
  <2>1. x \in SimType /\ SameCpu(x, m) /\ x.gpuBusy = TRUE /\ x.gpuEvent = {} /\ batch[k] \in Sessions
    BY <1>1 DEF GpuKept
  <2>2. Without(x.gpuDec, batch[k]) \in Seq(Sessions)
    BY <2>1, WithoutType DEF SimType
  <2>3. /\ Gone(x, k) \in SimType /\ SameCpu(Gone(x, k), m)
        /\ Gone(x, k).gpuBusy = TRUE /\ Gone(x, k).gpuEvent = {}
    BY <2>1, <2>2 DEF SimType, SameCpu
  <2> HIDE DEF Gone
  <2> DEFINE z == ReleaseHbm(Gone(x, k), batch[k])
  <2>4. GpuCalm(Gone(x, k))
    BY <2>3 DEF GpuCalm
  <2>5. z \in Woken(Gone(x, k))
    BY <2>1, <2>3, <2>4, ReleaseHbmEffect
  <2> HIDE DEF z
  <2>6. z \in SimType /\ SameCpu(z, m) /\ z.gpuBusy = TRUE /\ z.gpuEvent = {}
    BY <2>3, <2>5 DEF Woken, SameCpu, SimType
  <2>7. Finish(z, batch[k]) \in SimType /\ SameGpu(Finish(z, batch[k]), z) /\ SameCpu(Finish(z, batch[k]), z)
    BY <2>1, <2>6, FinishEffect
  <2>8. Finish(z, batch[k]) \in D
    BY <2>6, <2>7 DEF GpuKept, SameGpu, SameCpu
  <2> QED BY <2>8 DEF z
<1>3. \A x \in D, k \in 1..n : G[<<x, k>>] = Turn(x, k)
  <2> HIDE DEF Turn, D
  <2> QED OBVIOUS
<1>4. m \in D /\ n \in Nat /\ \A x \in D, k \in 1..n : G[<<x, k>>] \in D
  BY <1>1, <1>2, <1>3
<1> HIDE DEF G, D, Turn
<1>5. PICK f : LoopIn(f, D, m, n, G)
  BY <1>4, LoopExists
<1>6. ASSUME NEW k \in 1..n PROVE G[<<f[k-1], k>>] = Turn(f[k-1], k)
  <2>1. k - 1 \in 0..n
    BY <1>1
  <2> QED BY <1>3, <1>5, <2>1 DEF LoopIn
<1>7. f = [k \in 0..n |-> IF k = 0 THEN m ELSE Turn(f[k-1], k)]
  <2>1. \A k \in 0..n : k # 0 => k \in 1..n
    BY <1>1
  <2> QED BY <1>5, <1>6, <2>1 DEF LoopIn
<1>8. L = [k \in 0..n |-> IF k = 0 THEN m ELSE Turn(L[k-1], k)]
  BY <1>7 DEF GpuFinishLoop, Turn
<1>9. L[0] = m /\ \A k \in 1..n : L[k] = Turn(L[k-1], k)
  BY <1>1, <1>8
<1>10. \A k \in 0..n : L[k] \in D
  <2>1. ASSUME NEW k \in 0..n PROVE L[k] \in D
    <3>1. k \in Nat /\ L[0] \in D /\ \A i \in 1..k : L[i-1] \in D => L[i] \in D
      BY <1>1, <1>2, <1>9
    <3> QED BY <3>1, LoopStays
  <2> QED BY <2>1
<1> QED BY <1>9, <1>10 DEF D, Turn

LEMMA GpuFinishLoopEffect ==
  ASSUME NEW m \in SimType, m.gpuBusy = TRUE, m.gpuEvent = {}, NEW batch \in Seq(Sessions)
  PROVE  GpuFinishLoop(m, batch)[Len(batch)] \in GpuKept(m)
<1>1. Len(batch) \in 0..Len(batch)
  OBVIOUS
<1> QED BY <1>1, GpuFinishLoopDef

(* Nor does the loop of _cpu_tick start a step for those that join then,   *)
(* or touch the GPU.                                                       *)
CpuKept(m) == {x \in SimType : SameGpu(x, m) /\ x.cpuBusy = TRUE /\ x.cpuEvent = {}}

LEMMA CpuFinishLoopDef ==
  ASSUME NEW m \in SimType, m.cpuBusy = TRUE, m.cpuEvent = {}, NEW batch \in Seq(Sessions),
         NEW n, n = Len(batch), NEW L, L = CpuFinishLoop(m, batch)
  PROVE  /\ L[0] = m
         /\ \A k \in 1..n :
              L[k] = IF m.left[batch[k]] > 0 THEN L[k-1]
                     ELSE Finish(ReleaseCpu([L[k-1] EXCEPT !.cpuDec = Without(@, batch[k])],
                                        batch[k]),
                                 batch[k])
         /\ \A k \in 0..n : L[k] \in CpuKept(m)
<1> DEFINE D == CpuKept(m)
           Gone(x, k) == [x EXCEPT !.cpuDec = Without(@, batch[k])]
           Turn(x, k) == IF m.left[batch[k]] > 0 THEN x
                         ELSE Finish(ReleaseCpu(Gone(x, k), batch[k]), batch[k])
           G == [y \in D \X (1..n) |-> Turn(y[1], y[2])]
<1>1. n \in Nat /\ m \in D /\ \A k \in 1..n : batch[k] \in Sessions
  BY DEF CpuKept, SameGpu
<1>2. ASSUME NEW x \in D, NEW k \in 1..n PROVE Turn(x, k) \in D
  <2>1. x \in SimType /\ SameGpu(x, m) /\ x.cpuBusy = TRUE /\ x.cpuEvent = {} /\ batch[k] \in Sessions
    BY <1>1 DEF CpuKept
  <2>2. Without(x.cpuDec, batch[k]) \in Seq(Sessions)
    BY <2>1, WithoutType DEF SimType
  <2>3. /\ Gone(x, k) \in SimType /\ SameGpu(Gone(x, k), m)
        /\ Gone(x, k).cpuBusy = TRUE /\ Gone(x, k).cpuEvent = {}
    BY <2>1, <2>2 DEF SimType, SameGpu
  <2> HIDE DEF Gone
  <2> DEFINE z == ReleaseCpu(Gone(x, k), batch[k])
  <2>4. z \in Joined(Gone(x, k))
    BY <2>1, <2>3, ReleaseCpuEffect
  <2> HIDE DEF z
  <2>5. z \in SimType /\ SameGpu(z, m) /\ z.cpuBusy = TRUE /\ z.cpuEvent = {}
    BY <2>3, <2>4 DEF Joined, SameGpu, SimType
  <2>6. Finish(z, batch[k]) \in SimType /\ SameGpu(Finish(z, batch[k]), z) /\ SameCpu(Finish(z, batch[k]), z)
    BY <2>1, <2>5, FinishEffect
  <2>7. Finish(z, batch[k]) \in D
    BY <2>5, <2>6 DEF CpuKept, SameGpu, SameCpu
  <2> QED BY <2>7 DEF z
<1>3. \A x \in D, k \in 1..n : G[<<x, k>>] = Turn(x, k)
  <2> HIDE DEF Turn, D
  <2> QED OBVIOUS
<1>4. m \in D /\ n \in Nat /\ \A x \in D, k \in 1..n : G[<<x, k>>] \in D
  BY <1>1, <1>2, <1>3
<1> HIDE DEF G, D, Turn
<1>5. PICK f : LoopIn(f, D, m, n, G)
  BY <1>4, LoopExists
<1>6. ASSUME NEW k \in 1..n PROVE G[<<f[k-1], k>>] = Turn(f[k-1], k)
  <2>1. k - 1 \in 0..n
    BY <1>1
  <2> QED BY <1>3, <1>5, <2>1 DEF LoopIn
<1>7. f = [k \in 0..n |-> IF k = 0 THEN m ELSE Turn(f[k-1], k)]
  <2>1. \A k \in 0..n : k # 0 => k \in 1..n
    BY <1>1
  <2> QED BY <1>5, <1>6, <2>1 DEF LoopIn
<1>8. L = [k \in 0..n |-> IF k = 0 THEN m ELSE Turn(L[k-1], k)]
  BY <1>7 DEF CpuFinishLoop, Turn
<1>9. L[0] = m /\ \A k \in 1..n : L[k] = Turn(L[k-1], k)
  BY <1>1, <1>8
<1>10. \A k \in 0..n : L[k] \in D
  <2>1. ASSUME NEW k \in 0..n PROVE L[k] \in D
    <3>1. k \in Nat /\ L[0] \in D /\ \A i \in 1..k : L[i-1] \in D => L[i] \in D
      BY <1>1, <1>2, <1>9
    <3> QED BY <3>1, LoopStays
  <2> QED BY <2>1
<1> QED BY <1>9, <1>10 DEF D, Turn

LEMMA CpuFinishLoopEffect ==
  ASSUME NEW m \in SimType, m.cpuBusy = TRUE, m.cpuEvent = {}, NEW batch \in Seq(Sessions)
  PROVE  CpuFinishLoop(m, batch)[Len(batch)] \in CpuKept(m)
<1>1. Len(batch) \in 0..Len(batch)
  OBVIOUS
<1> QED BY <1>1, CpuFinishLoopDef

-----------------------------------------------------------------------------
(* The present call of a session becomes call i.                           *)
LEMMA CallType ==
  ASSUME NEW m \in SimType, NEW s \in Sessions, NEW i \in Nat \ {0}, ~(i > Len(Trace[s])),
         NEW x, x = [m EXCEPT !.idx[s] = i, !.left[s] = Trace[s][i].output]
  PROVE  x \in SimType /\ SameGpu(x, m) /\ SameCpu(x, m) /\ x.hbm = m.hbm
<1> DEFINE R == [kv : Nat, output : Int]
<1>1. Trace[s][i].output \in Int
  <2>1. \A r \in R : r.output \in Int
    OBVIOUS
  <2>2. Trace[s] \in Seq(R)
    BY DynAssumption
  <2> HIDE DEF R
  <2>3. i \in 1..Len(Trace[s])
    <3>1. Len(Trace[s]) \in Nat
      BY <2>2
    <3> QED BY <3>1
  <2>4. Trace[s][i] \in R
    BY <2>2, <2>3
  <2> QED BY <2>1, <2>4
<1>2. /\ [m.idx EXCEPT ![s] = i] \in [Sessions -> Nat \ {0}]
      /\ [m.left EXCEPT ![s] = Trace[s][i].output] \in [Sessions -> Int]
  BY <1>1 DEF SimType
<1> QED BY <1>2 DEF SimType, SameGpu, SameCpu

(* The handler of an arrival: at most this call is prefilled at once.      *)
LEMMA ArriveEffect ==
  ASSUME NEW m \in SimType, GpuCalm(m), NEW s \in Sessions, NEW i \in Nat \ {0}
  PROVE  ArriveHandler(m, s, i) \in Woken(m)
<1>1. CASE i > Len(Trace[s])
  BY <1>1 DEF ArriveHandler, Woken, SameCpu, GpuOnce, GpuCalm
<1>2. CASE ~(i > Len(Trace[s]))
  <2> DEFINE call == [m EXCEPT !.idx[s] = i, !.left[s] = Trace[s][i].output]
             pool == Acquire(m.hbm, Kv(call), s)
             asked == [call EXCEPT !.hbm = Acquire(@, Kv(call), s)]
             R == [kv : Nat, output : Int]
  <2>1. Trace[s][i].output \in Int
    <3>1. \A r \in R : r.output \in Int
      OBVIOUS
    <3>2. Trace[s] \in Seq(R)
      BY DynAssumption
    <3> HIDE DEF R
    <3>3. i \in 1..Len(Trace[s])
      BY <1>2, <3>2
    <3>4. Trace[s][i] \in R
      BY <3>2, <3>3
    <3> QED BY <3>1, <3>4
  <2>2. [m.idx EXCEPT ![s] = i] \in [Sessions -> Nat \ {0}]
        /\ [m.left EXCEPT ![s] = Trace[s][i].output] \in [Sessions -> Int]
    BY <2>1 DEF SimType
  <2>3. call \in SimType /\ SameGpu(call, m) /\ SameCpu(call, m) /\ call.hbm = m.hbm
    BY <2>2 DEF SimType, SameGpu, SameCpu
  <2> HIDE DEF call
  <2>4. pool \in Pools(Sessions)
    <3>1. Kv(call) \in [Sessions -> Nat] /\ m.hbm \in Pools(Sessions)
      BY <2>3, KvTypes DEF SimType
    <3> QED BY <3>1, AcquireType
  <2>5. asked = [call EXCEPT !.hbm = pool]
    BY <2>3 DEF SimType
  <2> HIDE DEF pool, asked
  <2>6. asked \in SimType /\ SameGpu(asked, m) /\ SameCpu(asked, m)
    BY <2>3, <2>4, <2>5 DEF SimType, SameGpu, SameCpu
  <2>7. GpuCalm(asked)
    BY <2>6 DEF GpuCalm, SameGpu
  <2>8. ReadyPrefill(asked, s) \in Woken(asked)
    BY <2>6, <2>7, ReadyPrefillEffect
  <2>9. ReadyPrefill(asked, s) \in Woken(m) /\ asked \in Woken(m)
    BY <2>6, <2>8 DEF Woken, SameGpu, SameCpu, GpuOnce, GpuCalm
  <2>10. ArriveHandler(m, s, i)
           = IF Fits(m.hbm, Kv(call), s) THEN ReadyPrefill(asked, s) ELSE asked
    BY <1>2 DEF ArriveHandler, call, asked
  <2> QED BY <2>9, <2>10
<1> QED BY <1>1, <1>2

(* The end of a flush: the call joins the batch of the CPU or waits.       *)
LEMMA CpuAdmitEffect ==
  ASSUME NEW m \in SimType, NEW s \in Sessions
  PROVE  CpuAdmit(m, s) \in Joined(m)
<1> DEFINE pool == Acquire(m.cpu, Kv(m), s)
           asked == [m EXCEPT !.cpu = Acquire(@, Kv(m), s)]
<1>1. pool \in Pools(Sessions)
  <2>1. Kv(m) \in [Sessions -> Nat] /\ m.cpu \in Pools(Sessions)
    BY KvTypes DEF SimType
  <2> QED BY <2>1, AcquireType
<1>2. asked = [m EXCEPT !.cpu = pool]
  BY DEF SimType
<1>3. CpuAdmit(m, s) = IF Fits(m.cpu, Kv(m), s) THEN CpuJoin(asked, s) ELSE asked
  BY DEF CpuAdmit
<1> HIDE DEF pool, asked
<1>4. asked \in SimType /\ SameGpu(asked, m) /\ SameCpu(asked, m)
  BY <1>1, <1>2 DEF SimType, SameGpu, SameCpu
<1>5. CpuJoin(asked, s) \in Joined(asked)
  BY <1>4, CpuJoinEffect
<1> QED BY <1>3, <1>4, <1>5 DEF Joined, SameGpu, SameCpu, CpuOnce

(* A GPU that is calm before it is woken does one thing after.             *)
LEMMA PumpGpuOnce ==
  ASSUME NEW m \in SimType, GpuOnce(m)
  PROVE  PumpGpu(m) \in SimType /\ GpuOnce(PumpGpu(m)) /\ SameCpu(PumpGpu(m), m)
<1>1. GpuCalm(m)
  BY DEF GpuOnce, GpuCalm
<1>2. /\ PumpGpu(m) \in SimType /\ SameCpu(PumpGpu(m), m)
      /\ m.gpuBusy => PumpGpu(m) = m
      /\ ~m.gpuBusy => GpuOnce(PumpGpu(m))
  BY <1>1, PumpGpuEffect
<1> QED BY <1>2

(* The end of a prefill: the release of HBM may start the next prefill     *)
(* before _pump_gpu is called, which then does nothing.                    *)
LEMMA PrefillDoneEffect ==
  ASSUME NEW m \in SimType, m.gpuEvent = {}, NEW s \in Sessions
  PROVE  /\ PrefillDoneHandler(m, s) \in SimType
         /\ GpuOnce(PrefillDoneHandler(m, s))
         /\ SameCpu(PrefillDoneHandler(m, s), m)
<1> DEFINE idle == [m EXCEPT !.gpuBusy = FALSE]
           counted == [idle EXCEPT !.offloaded = @ + 1]
           released == ReleaseHbm(counted, s)
           sent == [released EXCEPT !.c2c = Transfer(@, s)]
           kept == [idle EXCEPT !.gpuDec = Append(@, s)]
<1>1. idle \in SimType /\ SameCpu(idle, m) /\ idle.gpuBusy = FALSE /\ idle.gpuEvent = {}
  BY DEF SimType, SameCpu
<1>2. PrefillDoneHandler(m, s) = PumpGpu(IF RouteToCpu(idle, s) THEN sent ELSE kept)
  BY DEF PrefillDoneHandler
<1> HIDE DEF idle
<1>3. kept \in SimType /\ SameCpu(kept, m) /\ kept.gpuBusy = FALSE /\ kept.gpuEvent = {}
  <2>1. Append(idle.gpuDec, s) \in Seq(Sessions)
    BY <1>1 DEF SimType
  <2> QED BY <1>1, <2>1 DEF SimType, SameCpu
<1>4. /\ counted \in SimType /\ SameCpu(counted, m)
      /\ counted.gpuBusy = FALSE /\ counted.gpuEvent = {}
  <2> DEFINE n == idle.offloaded + 1
  <2>1. n \in Nat /\ counted = [idle EXCEPT !.offloaded = n]
    BY <1>1 DEF SimType
  <2> HIDE DEF n, counted
  <2> QED BY <1>1, <2>1 DEF SimType, SameCpu
<1> HIDE DEF counted
<1>5. GpuCalm(counted)
  BY <1>4 DEF GpuCalm
<1>6. released \in Woken(counted)
  BY <1>4, <1>5, ReleaseHbmEffect
<1> HIDE DEF released
<1>7. released \in SimType /\ GpuOnce(released) /\ SameCpu(released, m)
  BY <1>4, <1>6 DEF Woken, SameCpu
<1> DEFINE link == Transfer(released.c2c, s)
<1>8. link \in Links(Sessions)
  BY <1>7, TransferType DEF SimType
<1>9. sent = [released EXCEPT !.c2c = link]
  BY <1>7 DEF SimType
<1> HIDE DEF link, sent, kept
<1>10. sent \in SimType /\ SameGpu(sent, released) /\ SameCpu(sent, m)
  BY <1>7, <1>8, <1>9 DEF SimType, SameGpu, SameCpu
<1>11. GpuOnce(sent) /\ GpuOnce(kept)
  BY <1>3, <1>7, <1>10 DEF GpuOnce, SameGpu
<1>12. /\ PumpGpu(sent) \in SimType /\ GpuOnce(PumpGpu(sent)) /\ SameCpu(PumpGpu(sent), sent)
       /\ PumpGpu(kept) \in SimType /\ GpuOnce(PumpGpu(kept)) /\ SameCpu(PumpGpu(kept), kept)
  BY <1>3, <1>10, <1>11, PumpGpuOnce
<1> QED BY <1>2, <1>3, <1>10, <1>12 DEF SameCpu

(* The end of a step of the batch of the GPU.                              *)
LEMMA GpuTickEffect ==
  ASSUME NEW m \in SimType, m.gpuBusy = TRUE, m.gpuEvent = {}
  PROVE  /\ GpuTickHandler(m) \in SimType
         /\ GpuOnce(GpuTickHandler(m))
         /\ SameCpu(GpuTickHandler(m), m)
<1> DEFINE stepped == Stepped(m, m.gpuDec)
           sifted == GpuFinishLoop(stepped, m.gpuDec)[Len(m.gpuDec)]
           x == [sifted EXCEPT !.gpuBusy = FALSE]
<1>1. GpuTickHandler(m) = PumpGpu(x)
  BY DEF GpuTickHandler
<1>2. /\ stepped \in SimType /\ SameCpu(stepped, m)
      /\ stepped.gpuBusy = TRUE /\ stepped.gpuEvent = {}
  BY SteppedEffect DEF SameGpu
<1>3. m.gpuDec \in Seq(Sessions)
  BY DEF SimType
<1> HIDE DEF stepped
<1>4. sifted \in GpuKept(stepped)
  BY <1>2, <1>3, GpuFinishLoopEffect
<1> HIDE DEF sifted
<1>5. x \in SimType /\ SameCpu(x, m) /\ x.gpuBusy = FALSE /\ x.gpuEvent = {}
  BY <1>2, <1>4 DEF GpuKept, SimType, SameCpu
<1> HIDE DEF x
<1>6. GpuOnce(x)
  BY <1>5 DEF GpuOnce
<1>7. PumpGpu(x) \in SimType /\ GpuOnce(PumpGpu(x)) /\ SameCpu(PumpGpu(x), x)
  BY <1>5, <1>6, PumpGpuOnce
<1> QED BY <1>1, <1>5, <1>7 DEF SameCpu

(* The end of a step of the batch of the CPU, which leaves the GPU alone.  *)
LEMMA CpuTickEffect ==
  ASSUME NEW m \in SimType, m.cpuBusy = TRUE, m.cpuEvent = {}
  PROVE  /\ CpuTickHandler(m) \in SimType
         /\ CpuOnce(CpuTickHandler(m))
         /\ SameGpu(CpuTickHandler(m), m)
<1> DEFINE stepped == Stepped(m, m.cpuDec)
           sifted == CpuFinishLoop(stepped, m.cpuDec)[Len(m.cpuDec)]
           x == [sifted EXCEPT !.cpuBusy = FALSE]
<1>1. CpuTickHandler(m) = PumpCpu(x)
  BY DEF CpuTickHandler
<1>2. /\ stepped \in SimType /\ SameGpu(stepped, m)
      /\ stepped.cpuBusy = TRUE /\ stepped.cpuEvent = {}
  BY SteppedEffect DEF SameCpu
<1>3. m.cpuDec \in Seq(Sessions)
  BY DEF SimType
<1> HIDE DEF stepped
<1>4. sifted \in CpuKept(stepped)
  BY <1>2, <1>3, CpuFinishLoopEffect
<1> HIDE DEF sifted
<1>5. x \in SimType /\ SameGpu(x, m) /\ x.cpuBusy = FALSE /\ x.cpuEvent = {}
  BY <1>2, <1>4 DEF CpuKept, SimType, SameGpu
<1> HIDE DEF x
<1>6. CpuOnce(x)
  BY <1>5 DEF CpuOnce
<1>7. PumpCpu(x) \in Joined(x)
  BY <1>5, PumpCpuEffect
<1> QED BY <1>1, <1>5, <1>6, <1>7 DEF Joined, SameGpu

-----------------------------------------------------------------------------
(* The inductive invariant: both engines are typed, and the flag of each   *)
(* tells the truth about its pending event.                                *)
IInv == TypeOK /\ GpuOnce(sim) /\ CpuOnce(sim)

(* The simulator starts typed and idle, with any policy.                   *)
LEMMA InitHolds == Init => IInv
<1> SUFFICES ASSUME NEW policy \in Policies, sim = InitialSim(policy) PROVE IInv
  BY DEF Init
<1>1. EmptyPool(HbmCap) \in Pools(Sessions) /\ EmptyPool(CpuCap) \in Pools(Sessions)
  BY DynAssumption DEF EmptyPool, Pools
<1>2. IdleLink \in Links(Sessions)
  BY DEF IdleLink, Links
<1>3. {<<s, 1>> : s \in Sessions} \in SUBSET (Sessions \X (Nat \ {0}))
  OBVIOUS
<1>4. InitialSim(policy) \in SimType
  BY <1>1, <1>2, <1>3 DEF InitialSim, SimType
<1>5. GpuOnce(InitialSim(policy)) /\ CpuOnce(InitialSim(policy))
  BY DEF GpuOnce, CpuOnce, InitialSim
<1> QED BY <1>4, <1>5 DEF IInv, TypeOK

(* In a state with an exclusive GPU a pending event is the only one.       *)
LEMMA OnlyEvent ==
  ASSUME IInv, NEW e, e \in sim.gpuEvent
  PROVE  sim.gpuBusy = TRUE /\ sim.gpuEvent = {e}
<1>1. sim.gpuBusy /\ sim.gpuEvent = {e}
  BY DEF IInv, GpuOnce
<1>2. sim.gpuBusy \in BOOLEAN
  BY DEF IInv, TypeOK, SimType
<1> QED BY <1>1, <1>2

(* An arrival.                                                             *)
LEMMA ArriveStep ==
  ASSUME IInv, NEW s \in Sessions, Arrive(s)
  PROVE  IInv' /\ sim'.gpuDec = sim.gpuDec
<1>1. PICK i \in 1..(Len(Trace[s]) + 1) :
        sim' = ArriveHandler([sim EXCEPT !.arrivals = @ \ {<<s, i>>}], s, i)
  BY DEF Arrive
<1> DEFINE x == [sim EXCEPT !.arrivals = @ \ {<<s, i>>}]
<1>2. x \in SimType /\ SameGpu(x, sim) /\ SameCpu(x, sim)
  BY DEF IInv, TypeOK, SimType, SameGpu, SameCpu
<1>3. i \in Nat \ {0} /\ sim' = ArriveHandler(x, s, i)
  BY <1>1
<1> HIDE DEF x
<1>4. GpuOnce(x) /\ GpuCalm(x) /\ CpuOnce(x)
  BY <1>2 DEF IInv, GpuOnce, GpuCalm, CpuOnce, SameGpu, SameCpu
<1>5. sim' \in Woken(x)
  BY <1>2, <1>3, <1>4, ArriveEffect
<1>6. sim' \in SimType /\ SameCpu(sim', x) /\ sim'.gpuDec = sim.gpuDec /\ CpuOnce(sim')
  BY <1>2, <1>4, <1>5 DEF Woken, SameCpu, SameGpu, CpuOnce
<1>7. GpuOnce(sim')
  BY <1>4, <1>5 DEF Woken, GpuOnce
<1> QED BY <1>6, <1>7 DEF IInv, TypeOK

(* The end of a prefill.                                                   *)
LEMMA PrefillDoneStep ==
  ASSUME IInv, NEW s \in Sessions, PrefillDone(s)
  PROVE  IInv' /\ Tick \notin sim.gpuEvent
<1> DEFINE x == [sim EXCEPT !.gpuEvent = @ \ {s}]
<1>1. sim.gpuEvent = {s} /\ sim' = PrefillDoneHandler(x, s)
  BY OnlyEvent DEF PrefillDone
<1>2. x \in SimType /\ x.gpuEvent = {} /\ SameCpu(x, sim)
  BY <1>1 DEF IInv, TypeOK, SimType, SameCpu
<1> HIDE DEF x
<1>3. sim' \in SimType /\ GpuOnce(sim') /\ SameCpu(sim', x)
  BY <1>1, <1>2, PrefillDoneEffect
<1>4. CpuOnce(sim')
  BY <1>2, <1>3 DEF IInv, CpuOnce, SameCpu
<1>5. Tick # s
  BY DynAssumption
<1> QED BY <1>1, <1>3, <1>4, <1>5 DEF IInv, TypeOK

(* The end of a flush.                                                     *)
LEMMA C2CFinStep ==
  ASSUME IInv, NEW s \in Sessions, C2CFin(s)
  PROVE  IInv' /\ sim'.gpuDec = sim.gpuDec
<1> DEFINE x == CpuAdmit(sim, s)
           link == Fin(x.c2c, s)
<1>1. x \in Joined(sim)
  BY CpuAdmitEffect DEF IInv, TypeOK
<1>2. sim' = [x EXCEPT !.c2c = Fin(@, s)]
  BY DEF C2CFin
<1> HIDE DEF x
<1>3. x \in SimType /\ SameGpu(x, sim) /\ CpuOnce(x)
  BY <1>1 DEF IInv, Joined
<1>4. link \in Links(Sessions)
  BY <1>3, FinType DEF SimType
<1>5. sim' = [x EXCEPT !.c2c = link]
  BY <1>2, <1>3 DEF SimType
<1> HIDE DEF link
<1>6. sim' \in SimType /\ SameGpu(sim', sim) /\ SameCpu(sim', x)
  BY <1>3, <1>4, <1>5 DEF SimType, SameGpu, SameCpu
<1>7. GpuOnce(sim') /\ CpuOnce(sim') /\ sim'.gpuDec = sim.gpuDec
  BY <1>3, <1>6 DEF IInv, GpuOnce, CpuOnce, SameGpu, SameCpu
<1> QED BY <1>6, <1>7 DEF IInv, TypeOK

(* The end of a step of the batch of the GPU.                              *)
LEMMA GpuTickStep ==
  ASSUME IInv, GpuTick
  PROVE  IInv'
<1> DEFINE x == [sim EXCEPT !.gpuEvent = @ \ {Tick}]
<1>1. sim.gpuBusy = TRUE /\ sim.gpuEvent = {Tick} /\ sim' = GpuTickHandler(x)
  BY OnlyEvent DEF GpuTick
<1>2. x \in SimType /\ x.gpuBusy = TRUE /\ x.gpuEvent = {} /\ SameCpu(x, sim)
  BY <1>1 DEF IInv, TypeOK, SimType, SameCpu
<1> HIDE DEF x
<1>3. sim' \in SimType /\ GpuOnce(sim') /\ SameCpu(sim', x)
  BY <1>1, <1>2, GpuTickEffect
<1>4. CpuOnce(sim')
  BY <1>2, <1>3 DEF IInv, CpuOnce, SameCpu
<1> QED BY <1>3, <1>4 DEF IInv, TypeOK

(* The end of a step of the batch of the CPU.                              *)
LEMMA CpuTickStep ==
  ASSUME IInv, CpuTick
  PROVE  IInv' /\ sim'.gpuDec = sim.gpuDec
<1> DEFINE x == [sim EXCEPT !.cpuEvent = @ \ {Tick}]
<1>1. sim' = CpuTickHandler(x) /\ sim.cpuBusy = TRUE
  <2>1. sim.cpuBusy /\ sim.cpuBusy \in BOOLEAN
    BY DEF CpuTick, IInv, CpuOnce, TypeOK, SimType
  <2> QED BY <2>1 DEF CpuTick
<1>2. x \in SimType /\ x.cpuBusy = TRUE /\ x.cpuEvent = {} /\ SameGpu(x, sim)
  BY <1>1 DEF IInv, TypeOK, SimType, SameGpu
<1> HIDE DEF x
<1>3. sim' \in SimType /\ CpuOnce(sim') /\ SameGpu(sim', x)
  BY <1>1, <1>2, CpuTickEffect
<1>4. GpuOnce(sim') /\ sim'.gpuDec = sim.gpuDec
  BY <1>2, <1>3 DEF IInv, GpuOnce, SameGpu
<1> QED BY <1>3, <1>4 DEF IInv, TypeOK

(* Every turn of the event loop keeps the invariant.                       *)
LEMMA StepKeeps ==
  ASSUME IInv, [Next]_sim
  PROVE  IInv'
<1>1. ASSUME NEW s \in Sessions, Arrive(s) PROVE IInv'
  BY <1>1, ArriveStep
<1>2. ASSUME NEW s \in Sessions, PrefillDone(s) PROVE IInv'
  BY <1>2, PrefillDoneStep
<1>3. ASSUME NEW s \in Sessions, C2CFin(s) PROVE IInv'
  BY <1>3, C2CFinStep
<1>4. CASE GpuTick
  BY <1>4, GpuTickStep
<1>5. CASE CpuTick
  BY <1>5, CpuTickStep
<1>6. CASE UNCHANGED sim
  BY <1>6 DEF IInv, TypeOK, GpuOnce, CpuOnce
<1> QED BY <1>1, <1>2, <1>3, <1>4, <1>5, <1>6 DEF Next

(* The scheduler is always typed, whatever the policy.                     *)
THEOREM DynTypeCorrect == Spec => []TypeOK
<1>1. IInv => TypeOK
  BY DEF IInv
<1> QED BY InitHolds, StepKeeps, <1>1, PTL DEF Spec

(* Each engine has one pending end of a task when its flag is set and none *)
(* when it is not, though _prefill_done runs callbacks that wake the GPU.  *)
THEOREM EnginesAreExclusive == Spec => []EnginesExclusive
<1>1. IInv => EnginesExclusive
  BY DEF IInv, GpuOnce, CpuOnce, EnginesExclusive
<1> QED BY InitHolds, StepKeeps, <1>1, PTL DEF Spec

(* While a step of the GPU is under way nobody joins or leaves its batch,  *)
(* though calls arrive, flushes end and the CPU engine finishes calls.     *)
THEOREM GpuBatchIsFrozen == Spec => GpuBatchFrozen
<1>1. ASSUME IInv, [Next]_sim
      PROVE  [(Tick \in sim.gpuEvent /\ ~GpuTick) => sim'.gpuDec = sim.gpuDec]_sim
  <2> SUFFICES ASSUME Next, Tick \in sim.gpuEvent, ~GpuTick
               PROVE  sim'.gpuDec = sim.gpuDec
    BY <1>1
  <2>1. ASSUME NEW s \in Sessions, Arrive(s) PROVE sim'.gpuDec = sim.gpuDec
    BY <1>1, <2>1, ArriveStep
  <2>2. ASSUME NEW s \in Sessions, PrefillDone(s) PROVE FALSE
    BY <1>1, <2>2, PrefillDoneStep
  <2>3. ASSUME NEW s \in Sessions, C2CFin(s) PROVE sim'.gpuDec = sim.gpuDec
    BY <1>1, <2>3, C2CFinStep
  <2>4. ASSUME CpuTick PROVE sim'.gpuDec = sim.gpuDec
    BY <1>1, <2>4, CpuTickStep
  <2> QED BY <2>1, <2>2, <2>3, <2>4 DEF Next
<1> QED BY InitHolds, StepKeeps, <1>1, PTL DEF Spec, GpuBatchFrozen

-----------------------------------------------------------------------------
(***************************************************************************)
(* Where each session is.  A function w gives each session one stage, and  *)
(* each queue, batch, pool, event and transfer belongs to the sessions in  *)
(* certain stages.  Between two events the stages are those in Resting;    *)
(* the others are passed inside a handler: "between" is a session that is  *)
(* nowhere and holds nothing, "in hbm" and "in cpu" one that holds bytes   *)
(* and is in no queue or batch.                                            *)
(***************************************************************************)
Resting == {"arriving", "hbm queue", "prefill queue", "prefilling", "gpu batch", "on link",
            "cpu queue", "cpu batch", "done"}
Passing == {"between", "in hbm", "in cpu"}
Stages  == Resting \cup Passing

ToArrive   == {"arriving"}
WaitHbm    == {"hbm queue"}
HasHbm     == {"in hbm", "prefill queue", "prefilling", "gpu batch"}
WaitGpu    == {"prefill queue"}
OnGpu      == {"prefilling"}
InGpuBatch == {"gpu batch"}
OnLink     == {"on link"}
WaitCpu    == {"cpu queue"}
HasCpu     == {"in cpu", "cpu batch"}
InCpuBatch == {"cpu batch"}
Prefills   == WaitGpu \cup OnGpu

ArrivalsAt(arrivals, w) ==
  /\ \A e, f \in arrivals : e[1] = f[1] => e = f
  /\ \A s \in Sessions : w[s] = "arriving" <=> \E e \in arrivals : e[1] = s

LinkAt(l, w) ==
  /\ Once(l, Sessions) /\ Rested(l)
  /\ \A s \in Sessions : s \in Jobs(l) <=> w[s] = "on link"

(* How far a session is: the call it arrives for is the one after those it *)
(* has completed, and the call it is in the one after those.               *)
ProgressOf(s, stage, idx, finished, arrivals) ==
  /\ stage = "arriving" =>
       /\ <<s, finished + 1>> \in arrivals
       /\ \/ finished = 0 /\ idx = 1
          \/ finished = idx /\ finished < Len(Trace[s])
  /\ stage = "done" => finished = Len(Trace[s])
  /\ stage \notin {"arriving", "done"} => finished = idx - 1 /\ idx <= Len(Trace[s])

Placed(m, w) ==
  /\ w \in [Sessions -> Stages]
  /\ ArrivalsAt(m.arrivals, w)
  /\ PoolAt(Sessions, m.hbm, w, WaitHbm, HasHbm, Kv(m), HbmCap)
  /\ PoolAt(Sessions, m.cpu, w, WaitCpu, HasCpu, Kv(m), CpuCap)
  /\ LinkAt(m.c2c, w)
  /\ QueueAt(Sessions, m.prefillQ, w, WaitGpu)
  /\ m.gpuEvent \ {Tick} = In(Sessions, w, OnGpu)
  /\ QueueAt(Sessions, m.gpuDec, w, InGpuBatch)
  /\ QueueAt(Sessions, m.cpuDec, w, InCpuBatch)
  /\ \A s \in Sessions : ProgressOf(s, w[s], m.idx[s], m.finished[s], m.arrivals)

(* One session moves.                                                      *)
OneMoves(w, v, s, b) ==
  /\ v \in [Sessions -> Stages] /\ v[s] = b
  /\ \A t \in Sessions : t # s => v[t] = w[t]

LEMMA Moved ==
  ASSUME NEW w \in [Sessions -> Stages], NEW s \in Sessions, NEW b \in Stages
  PROVE  OneMoves(w, [w EXCEPT ![s] = b], s, b)
  BY DEF OneMoves

LEMMA MoveIn ==
  ASSUME NEW w, NEW v, NEW s \in Sessions, NEW b, OneMoves(w, v, s, b), NEW S,
         w[s] \notin S, b \in S
  PROVE  In(Sessions, v, S) = In(Sessions, w, S) \cup {s}
  BY JoinsIn DEF OneMoves

LEMMA MoveOut ==
  ASSUME NEW w, NEW v, NEW s \in Sessions, NEW b, OneMoves(w, v, s, b), NEW S,
         w[s] \in S, b \notin S
  PROVE  In(Sessions, v, S) = In(Sessions, w, S) \ {s}
<1>1. \A t \in Sessions : t \in In(Sessions, v, S) <=> (t \in In(Sessions, w, S) /\ t # s)
  BY DEF In, OneMoves
<1>2. In(Sessions, v, S) \subseteq Sessions /\ In(Sessions, w, S) \subseteq Sessions
  BY DEF In
<1> QED BY <1>1, <1>2

LEMMA SessionsFinite == IsFiniteSet(Sessions)
  BY DynAssumption

LEMMA CapTypes == HbmCap \in Int /\ CpuCap \in Int
  BY DynAssumption

(* The sizes of the calls depend on which calls they are and nothing else. *)
LEMMA SameKv ==
  ASSUME NEW m, NEW x, x.idx = m.idx
  PROVE  Kv(x) = Kv(m)
  BY DEF Kv

(* What stays true of the parts of the simulator that a method leaves      *)
(* alone while sessions move between stages that are alike for these parts.*)
LEMMA KeptParts ==
  ASSUME NEW m, NEW w, Placed(m, w), NEW x, NEW v
  PROVE  /\ x.arrivals = m.arrivals /\ Alike(Sessions, w, v, ToArrive)
              => ArrivalsAt(x.arrivals, v)
         /\ x.c2c = m.c2c /\ Alike(Sessions, w, v, OnLink)
              => LinkAt(x.c2c, v)
         /\ x.prefillQ = m.prefillQ /\ Alike(Sessions, w, v, WaitGpu)
              => QueueAt(Sessions, x.prefillQ, v, WaitGpu)
         /\ x.gpuEvent \ {Tick} = m.gpuEvent \ {Tick} /\ Alike(Sessions, w, v, OnGpu)
              => x.gpuEvent \ {Tick} = In(Sessions, v, OnGpu)
         /\ x.gpuDec = m.gpuDec /\ Alike(Sessions, w, v, InGpuBatch)
              => QueueAt(Sessions, x.gpuDec, v, InGpuBatch)
         /\ x.cpuDec = m.cpuDec /\ Alike(Sessions, w, v, InCpuBatch)
              => QueueAt(Sessions, x.cpuDec, v, InCpuBatch)
<1>1. \A S : Alike(Sessions, w, v, S) => In(Sessions, v, S) = In(Sessions, w, S)
  BY SameIn
<1>2. ASSUME x.arrivals = m.arrivals, Alike(Sessions, w, v, ToArrive)
      PROVE  ArrivalsAt(x.arrivals, v)
  <2>1. \A t \in Sessions : v[t] = "arriving" <=> w[t] = "arriving"
    BY <1>2 DEF Alike, ToArrive
  <2> QED BY <1>2, <2>1 DEF Placed, ArrivalsAt, ToArrive
<1>3. ASSUME x.c2c = m.c2c, Alike(Sessions, w, v, OnLink)
      PROVE  LinkAt(x.c2c, v)
  <2>1. \A t \in Sessions : v[t] = "on link" <=> w[t] = "on link"
    BY <1>3 DEF Alike, OnLink
  <2> QED BY <1>3, <2>1 DEF Placed, LinkAt
<1>4. /\ x.prefillQ = m.prefillQ /\ Alike(Sessions, w, v, WaitGpu)
           => QueueAt(Sessions, x.prefillQ, v, WaitGpu)
      /\ x.gpuEvent \ {Tick} = m.gpuEvent \ {Tick} /\ Alike(Sessions, w, v, OnGpu)
           => x.gpuEvent \ {Tick} = In(Sessions, v, OnGpu)
      /\ x.gpuDec = m.gpuDec /\ Alike(Sessions, w, v, InGpuBatch)
           => QueueAt(Sessions, x.gpuDec, v, InGpuBatch)
      /\ x.cpuDec = m.cpuDec /\ Alike(Sessions, w, v, InCpuBatch)
           => QueueAt(Sessions, x.cpuDec, v, InCpuBatch)
  BY <1>1 DEF Placed, QueueAt
<1> QED BY <1>2, <1>3, <1>4

LEMMA Kept ==
  ASSUME NEW m, NEW w, Placed(m, w), NEW x, x.idx = m.idx, NEW v
  PROVE  /\ x.hbm = m.hbm /\ Alike(Sessions, w, v, WaitHbm) /\ Alike(Sessions, w, v, HasHbm)
              => PoolAt(Sessions, x.hbm, v, WaitHbm, HasHbm, Kv(x), HbmCap)
         /\ x.cpu = m.cpu /\ Alike(Sessions, w, v, WaitCpu) /\ Alike(Sessions, w, v, HasCpu)
              => PoolAt(Sessions, x.cpu, v, WaitCpu, HasCpu, Kv(x), CpuCap)
         /\ x.arrivals = m.arrivals /\ x.finished = m.finished
              => \A t \in Sessions : v[t] = w[t] =>
                   ProgressOf(t, v[t], x.idx[t], x.finished[t], x.arrivals)
<1>1. Kv(x) = Kv(m)
  BY SameKv
<1>2. \A S : Alike(Sessions, w, v, S) => In(Sessions, v, S) = In(Sessions, w, S)
  BY SameIn
<1>3. ASSUME x.arrivals = m.arrivals, x.finished = m.finished,
             NEW t \in Sessions, v[t] = w[t]
      PROVE  ProgressOf(t, v[t], x.idx[t], x.finished[t], x.arrivals)
  BY <1>3 DEF Placed
<1>4. /\ x.hbm = m.hbm /\ Alike(Sessions, w, v, WaitHbm) /\ Alike(Sessions, w, v, HasHbm)
           => PoolAt(Sessions, x.hbm, v, WaitHbm, HasHbm, Kv(x), HbmCap)
      /\ x.cpu = m.cpu /\ Alike(Sessions, w, v, WaitCpu) /\ Alike(Sessions, w, v, HasCpu)
           => PoolAt(Sessions, x.cpu, v, WaitCpu, HasCpu, Kv(x), CpuCap)
  BY <1>1, <1>2 DEF Placed, PoolAt
<1> QED BY <1>3, <1>4

(* What the admissions and transfers leave alone of the sessions.          *)
SameCalls(x, m) == x.idx = m.idx /\ x.finished = m.finished /\ x.arrivals = m.arrivals

(* A move inside one call leaves how far the session is.                   *)
LEMMA KeptProgress ==
  ASSUME NEW m, NEW w, Placed(m, w), NEW x, SameCalls(x, m), NEW v, NEW s \in Sessions,
         w[s] \notin {"arriving", "done"}, v[s] \notin {"arriving", "done"},
         \A t \in Sessions : t # s => v[t] = w[t]
  PROVE  \A t \in Sessions : ProgressOf(t, v[t], x.idx[t], x.finished[t], x.arrivals)
<1>1. ProgressOf(s, v[s], x.idx[s], x.finished[s], x.arrivals)
  <2>1. ProgressOf(s, w[s], m.idx[s], m.finished[s], m.arrivals)
    BY DEF Placed
  <2> QED BY <2>1 DEF ProgressOf, SameCalls
<1> QED BY <1>1, Kept DEF SameCalls

(* A session moves inside its call: each part of the simulator is the same *)
(* and does not tell the two stages apart, or it is right for the new one. *)
Level(a, b, S) == a \in S <=> b \in S

LEMMA MovePlaces ==
  ASSUME NEW m, NEW w, Placed(m, w), NEW x, SameCalls(x, m),
         NEW s \in Sessions, NEW a, a = w[s], NEW b, NEW v, OneMoves(w, v, s, b),
         a \notin {"arriving", "done"}, b \notin {"arriving", "done"},
         \/ PoolAt(Sessions, x.hbm, v, WaitHbm, HasHbm, Kv(x), HbmCap)
         \/ x.hbm = m.hbm /\ Level(a, b, WaitHbm) /\ Level(a, b, HasHbm),
         \/ PoolAt(Sessions, x.cpu, v, WaitCpu, HasCpu, Kv(x), CpuCap)
         \/ x.cpu = m.cpu /\ Level(a, b, WaitCpu) /\ Level(a, b, HasCpu),
         \/ LinkAt(x.c2c, v)
         \/ x.c2c = m.c2c /\ Level(a, b, OnLink),
         \/ QueueAt(Sessions, x.prefillQ, v, WaitGpu)
         \/ x.prefillQ = m.prefillQ /\ Level(a, b, WaitGpu),
         \/ x.gpuEvent \ {Tick} = In(Sessions, v, OnGpu)
         \/ x.gpuEvent \ {Tick} = m.gpuEvent \ {Tick} /\ Level(a, b, OnGpu),
         \/ QueueAt(Sessions, x.gpuDec, v, InGpuBatch)
         \/ x.gpuDec = m.gpuDec /\ Level(a, b, InGpuBatch),
         \/ QueueAt(Sessions, x.cpuDec, v, InCpuBatch)
         \/ x.cpuDec = m.cpuDec /\ Level(a, b, InCpuBatch)
  PROVE  Placed(x, v)
<1>1. \A S : Level(a, b, S) => Alike(Sessions, w, v, S)
  BY DEF Level, Alike, OneMoves
<1>2. x.arrivals = m.arrivals /\ x.idx = m.idx /\ Level(a, b, ToArrive)
  BY DEF SameCalls, Level, ToArrive
<1>3. \A t \in Sessions : ProgressOf(t, v[t], x.idx[t], x.finished[t], x.arrivals)
  <2>1. w[s] \notin {"arriving", "done"} /\ v[s] \notin {"arriving", "done"}
    BY DEF OneMoves
  <2> QED BY <2>1, KeptProgress DEF OneMoves
<1>4. ArrivalsAt(x.arrivals, v)
  BY <1>1, <1>2, KeptParts
<1>5. /\ PoolAt(Sessions, x.hbm, v, WaitHbm, HasHbm, Kv(x), HbmCap)
      /\ PoolAt(Sessions, x.cpu, v, WaitCpu, HasCpu, Kv(x), CpuCap)
  BY <1>1, <1>2, Kept
<1>6. /\ LinkAt(x.c2c, v)
      /\ QueueAt(Sessions, x.prefillQ, v, WaitGpu)
      /\ x.gpuEvent \ {Tick} = In(Sessions, v, OnGpu)
      /\ QueueAt(Sessions, x.gpuDec, v, InGpuBatch)
      /\ QueueAt(Sessions, x.cpuDec, v, InCpuBatch)
  BY <1>1, KeptParts
<1> QED BY <1>3, <1>4, <1>5, <1>6 DEF Placed, OneMoves

(* The sets of stages, to be expanded together.                            *)
LEMMA StageSets ==
  /\ WaitHbm = {"hbm queue"} /\ WaitGpu = {"prefill queue"} /\ OnGpu = {"prefilling"}
  /\ HasHbm = {"in hbm", "prefill queue", "prefilling", "gpu batch"}
  /\ InGpuBatch = {"gpu batch"} /\ OnLink = {"on link"}
  /\ WaitCpu = {"cpu queue"} /\ HasCpu = {"in cpu", "cpu batch"} /\ InCpuBatch = {"cpu batch"}
  BY DEF WaitHbm, WaitGpu, OnGpu, HasHbm, InGpuBatch, OnLink, WaitCpu, HasCpu, InCpuBatch

-----------------------------------------------------------------------------
(* The moves.  acquire of HBM gives a session its bytes or makes it wait.  *)
LEMMA TakeHbm ==
  ASSUME NEW m \in SimType, NEW w, Placed(m, w), NEW s \in Sessions, w[s] = "between",
         NEW x, x = [m EXCEPT !.hbm = Acquire(@, Kv(m), s)],
         NEW b, b = IF Fits(m.hbm, Kv(m), s) THEN "in hbm" ELSE "hbm queue"
  PROVE  /\ x \in SimType /\ SameGpu(x, m) /\ SameCpu(x, m) /\ SameCalls(x, m)
         /\ Placed(x, [w EXCEPT ![s] = b])
<1> DEFINE pool == Acquire(m.hbm, Kv(m), s)
           v == [w EXCEPT ![s] = b]
<1>1. Kv(m) \in [Sessions -> Nat] /\ m.hbm \in Pools(Sessions)
  BY KvTypes DEF SimType
<1>2. pool \in Pools(Sessions) /\ x = [m EXCEPT !.hbm = pool]
  BY <1>1, AcquireType DEF SimType
<1> HIDE DEF pool
<1>3. /\ x \in SimType /\ SameGpu(x, m) /\ SameCpu(x, m) /\ SameCalls(x, m)
      /\ x.hbm = pool /\ x.cpu = m.cpu /\ x.c2c = m.c2c /\ x.prefillQ = m.prefillQ
      /\ x.gpuEvent = m.gpuEvent /\ x.gpuDec = m.gpuDec /\ x.cpuDec = m.cpuDec
  BY <1>2 DEF SimType, SameGpu, SameCpu, SameCalls
<1>4. OneMoves(w, v, s, b) /\ (b = "in hbm" \/ b = "hbm queue")
  BY Moved DEF Placed, Stages, Resting, Passing
<1> HIDE DEF v
<1>5. PoolAt(Sessions, x.hbm, v, WaitHbm, HasHbm, Kv(x), HbmCap)
  <2>1. /\ HbmCap \in Int /\ PoolAt(Sessions, m.hbm, w, WaitHbm, HasHbm, Kv(m), HbmCap)
        /\ x.hbm = Acquire(m.hbm, Kv(m), s)
    <3>1. PoolAt(Sessions, m.hbm, w, WaitHbm, HasHbm, Kv(m), HbmCap)
      BY DEF Placed
    <3>2. x.hbm = Acquire(m.hbm, Kv(m), s)
      BY <1>3 DEF pool
    <3> QED BY <3>1, <3>2, CapTypes
  <2>2. /\ w[s] \notin WaitHbm /\ w[s] \notin HasHbm
        /\ Fits(m.hbm, Kv(m), s) => v[s] \in HasHbm /\ v[s] \notin WaitHbm
        /\ ~Fits(m.hbm, Kv(m), s) => v[s] \in WaitHbm /\ v[s] \notin HasHbm
    BY <1>4, StageSets DEF OneMoves
  <2>3. \A t \in Sessions : t # s => v[t] = w[t]
    BY <1>4 DEF OneMoves
  <2>4. PoolAt(Sessions, x.hbm, v, WaitHbm, HasHbm, Kv(m), HbmCap)
    BY <1>1, <2>1, <2>2, <2>3, AcquireAt, SessionsFinite
  <2>5. Kv(x) = Kv(m)
    BY <1>3, SameKv DEF SameCalls
  <2> QED BY <2>4, <2>5
<1>6. \A S \in {WaitCpu, HasCpu, OnLink, WaitGpu, OnGpu, InGpuBatch, InCpuBatch} :
        Level("between", b, S)
  BY <1>4, StageSets DEF Level
<1>7. Placed(x, v)
  BY <1>3, <1>4, <1>5, <1>6, MovePlaces
<1> QED BY <1>3, <1>7 DEF v

(* What neither moves a session nor changes a queue leaves all in place.   *)
LEMMA StillPlaced ==
  ASSUME NEW m, NEW w, Placed(m, w), NEW x, SameCalls(x, m),
         x.hbm = m.hbm, x.cpu = m.cpu, x.c2c = m.c2c, x.prefillQ = m.prefillQ,
         x.gpuEvent \ {Tick} = m.gpuEvent \ {Tick}, x.gpuDec = m.gpuDec, x.cpuDec = m.cpuDec
  PROVE  Placed(x, w)
<1>1. x.idx = m.idx /\ x.arrivals = m.arrivals /\ x.finished = m.finished
  BY DEF SameCalls
<1>2. Kv(x) = Kv(m)
  BY <1>1, SameKv
<1> QED BY <1>1, <1>2 DEF Placed

(* A session that holds HBM queues for prefill.                            *)
LEMMA QueuePrefill ==
  ASSUME NEW m \in SimType, NEW w, Placed(m, w), NEW s \in Sessions, w[s] = "in hbm",
         NEW x, x = [m EXCEPT !.prefillQ = Append(@, s)]
  PROVE  /\ x \in SimType /\ SameGpu(x, m) /\ SameCpu(x, m) /\ SameCalls(x, m)
         /\ Placed(x, [w EXCEPT ![s] = "prefill queue"])
<1> DEFINE q == Append(m.prefillQ, s)
           v == [w EXCEPT ![s] = "prefill queue"]
<1>1. OneMoves(w, v, s, "prefill queue")
  BY Moved DEF Placed, Stages, Resting
<1> HIDE DEF v
<1>2. q \in Seq(Sessions) /\ QueueAt(Sessions, q, v, WaitGpu)
  <2>1. m.prefillQ \in Seq(Sessions) /\ QueueAt(Sessions, m.prefillQ, w, WaitGpu)
    BY DEF Placed, SimType
  <2>2. w[s] \notin WaitGpu /\ v[s] \in WaitGpu /\ \A t \in Sessions : t # s => v[t] = w[t]
    BY <1>1, StageSets DEF OneMoves
  <2> QED BY <2>1, <2>2, JoinsQueue
<1>3. x = [m EXCEPT !.prefillQ = q]
  BY DEF SimType
<1> HIDE DEF q
<1>4. /\ x \in SimType /\ SameGpu(x, m) /\ SameCpu(x, m) /\ SameCalls(x, m)
      /\ x.hbm = m.hbm /\ x.cpu = m.cpu /\ x.c2c = m.c2c /\ x.prefillQ = q
      /\ x.gpuEvent = m.gpuEvent /\ x.gpuDec = m.gpuDec /\ x.cpuDec = m.cpuDec
  BY <1>2, <1>3 DEF SimType, SameGpu, SameCpu, SameCalls
<1>5. \A S \in {WaitHbm, HasHbm, WaitCpu, HasCpu, OnLink, OnGpu, InGpuBatch, InCpuBatch} :
        Level("in hbm", "prefill queue", S)
  BY StageSets DEF Level
<1>6. Placed(x, v)
  BY <1>1, <1>2, <1>4, <1>5, MovePlaces
<1> QED BY <1>4, <1>6 DEF v

(* _pump_gpu starts the first prefill of an idle GPU or a step, if there   *)
(* is one to start.                                                        *)
GpuRests(m) == ~m.gpuBusy => m.prefillQ = <<>> /\ m.gpuDec = <<>>

Starts(w, v) ==
  \A t \in Sessions : v[t] = w[t] \/ (w[t] = "prefill queue" /\ v[t] = "prefilling")

LEMMA PumpGpuPlaces ==
  ASSUME NEW m \in SimType, NEW w, Placed(m, w), NEW x, x = PumpGpu(m)
  PROVE  /\ SameCalls(x, m) /\ GpuRests(x)
         /\ \E v : Placed(x, v) /\ Starts(w, v)
<1>1. CASE m.gpuBusy
  BY <1>1 DEF PumpGpu, SameCalls, GpuRests, Starts
<1>2. CASE ~m.gpuBusy /\ m.prefillQ # <<>>
  <2> DEFINE h == Head(m.prefillQ)
             v == [w EXCEPT ![h] = "prefilling"]
  <2>1. m.prefillQ \in Seq(Sessions) /\ QueueAt(Sessions, m.prefillQ, w, WaitGpu)
    BY DEF Placed, SimType
  <2>2. /\ h \in Sessions /\ w[h] \in WaitGpu
        /\ \A u : /\ \A t \in Sessions : t # h => u[t] = w[t]
                  /\ u[h] \notin WaitGpu
                  => QueueAt(Sessions, Tail(m.prefillQ), u, WaitGpu)
    BY <1>2, <2>1, HeadLeaves
  <2>3. /\ x.hbm = m.hbm /\ x.cpu = m.cpu /\ x.c2c = m.c2c /\ x.prefillQ = Tail(m.prefillQ)
        /\ x.gpuEvent = m.gpuEvent \cup {h} /\ x.gpuDec = m.gpuDec /\ x.cpuDec = m.cpuDec
        /\ x.gpuBusy = TRUE /\ SameCalls(x, m)
    BY <1>2 DEF PumpGpu, SimType, SameCalls
  <2> HIDE DEF h
  <2>4. OneMoves(w, v, h, "prefilling")
    BY <2>2, Moved DEF Placed, Stages, Resting
  <2> HIDE DEF v
  <2>5. w[h] = "prefill queue" /\ v[h] \in OnGpu /\ v[h] \notin WaitGpu
    BY <2>2, <2>4, StageSets DEF OneMoves
  <2>6. QueueAt(Sessions, x.prefillQ, v, WaitGpu)
    BY <2>2, <2>3, <2>4, <2>5 DEF OneMoves
  <2>7. x.gpuEvent \ {Tick} = In(Sessions, v, OnGpu)
    <3>1. In(Sessions, v, OnGpu) = In(Sessions, w, OnGpu) \cup {h}
      <4>1. w[h] \notin OnGpu /\ "prefilling" \in OnGpu
        BY <2>5, StageSets
      <4> QED BY <2>2, <2>4, <4>1, MoveIn
    <3>2. h # Tick
      BY <2>2, DynAssumption
    <3> QED BY <2>3, <3>1, <3>2 DEF Placed
  <2>8. \A S \in {WaitHbm, HasHbm, WaitCpu, HasCpu, OnLink, InGpuBatch, InCpuBatch} :
          Level("prefill queue", "prefilling", S)
    BY StageSets DEF Level
  <2>9. Placed(x, v)
    BY <2>2, <2>3, <2>4, <2>5, <2>6, <2>7, <2>8, MovePlaces
  <2>10. Starts(w, v)
    BY <2>4, <2>5 DEF OneMoves, Starts
  <2> QED BY <2>3, <2>9, <2>10 DEF GpuRests
<1>3. CASE ~m.gpuBusy /\ m.prefillQ = <<>> /\ m.gpuDec # <<>>
  <2>1. /\ x.hbm = m.hbm /\ x.cpu = m.cpu /\ x.c2c = m.c2c /\ x.prefillQ = m.prefillQ
        /\ x.gpuEvent = m.gpuEvent \cup {Tick} /\ x.gpuDec = m.gpuDec /\ x.cpuDec = m.cpuDec
        /\ x.gpuBusy = TRUE /\ SameCalls(x, m)
    BY <1>3 DEF PumpGpu, GpuDecodeStep, SimType, SameCalls
  <2>2. x.gpuEvent \ {Tick} = m.gpuEvent \ {Tick}
    BY <2>1
  <2>3. Placed(x, w)
    BY <2>1, <2>2, StillPlaced
  <2> QED BY <2>1, <2>3 DEF GpuRests, Starts
<1>4. CASE ~m.gpuBusy /\ m.prefillQ = <<>> /\ m.gpuDec = <<>>
  BY <1>4 DEF PumpGpu, SameCalls, GpuRests, Starts
<1> QED BY <1>1, <1>2, <1>3, <1>4

(* Sessions that a method takes along: each of `moved` to a stage of       *)
(* `into`, and others at most inside `into`.                               *)
Taken(w, v, moved, into) ==
  /\ v \in [Sessions -> Stages]
  /\ \A t \in moved : v[t] \in into
  /\ \A t \in Sessions : t \notin moved => v[t] = w[t] \/ {w[t], v[t]} \subseteq into

LEMMA ReadyPrefillPlaces ==
  ASSUME NEW m \in SimType, NEW w, Placed(m, w), NEW s \in Sessions, w[s] = "in hbm"
  PROVE  /\ SameCalls(ReadyPrefill(m, s), m) /\ GpuRests(ReadyPrefill(m, s))
         /\ \E v : Placed(ReadyPrefill(m, s), v) /\ Taken(w, v, {s}, Prefills)
<1> DEFINE x == [m EXCEPT !.prefillQ = Append(@, s)]
           u == [w EXCEPT ![s] = "prefill queue"]
<1>1. x \in SimType /\ SameCalls(x, m) /\ Placed(x, u)
  BY QueuePrefill
<1>2. u[s] = "prefill queue" /\ \A t \in Sessions : t # s => u[t] = w[t]
  BY DEF Placed
<1>3. ReadyPrefill(m, s) = PumpGpu(x)
  BY DEF ReadyPrefill
<1> HIDE DEF x, u
<1>4. /\ SameCalls(PumpGpu(x), x) /\ GpuRests(PumpGpu(x))
      /\ \E v : Placed(PumpGpu(x), v) /\ Starts(u, v)
  BY <1>1, PumpGpuPlaces
<1>5. ASSUME NEW v, Placed(PumpGpu(x), v), Starts(u, v)
      PROVE  Taken(w, v, {s}, Prefills)
  BY <1>2, <1>5, StageSets DEF Starts, Taken, Prefills, Placed
<1> QED BY <1>1, <1>3, <1>4, <1>5 DEF SameCalls

(* A loop of callbacks that each take one session of the stage `from` into *)
(* `into` takes all of them there.                                         *)
LoopTakes(L, n, clients, from, into) ==
  \A k \in 1..n : \A u : Placed(L[k-1], u) /\ u[clients[k]] = from =>
     /\ SameCalls(L[k], L[k-1])
     /\ \E v : Placed(L[k], v) /\ Taken(u, v, {clients[k]}, into)

LEMMA LoopPlaces ==
  ASSUME NEW m, NEW w, Placed(m, w), NEW into, NEW from, from \notin into,
         NEW clients \in Seq(Sessions), Distinct(clients), NEW n, n = Len(clients),
         \A i \in 1..n : w[clients[i]] = from,
         NEW L, L[0] = m, LoopTakes(L, n, clients, from, into)
  PROVE  /\ SameCalls(L[n], m)
         /\ \E v : Placed(L[n], v) /\ Taken(w, v, Range(clients), into)
<1> DEFINE Upto(k) == /\ SameCalls(L[k], m)
                      /\ \E v : Placed(L[k], v) /\ Taken(w, v, First(clients, k), into)
<1>1. /\ n \in Nat /\ \A i \in 1..n : clients[i] \in Sessions
      /\ \A i, j \in 1..n : clients[i] = clients[j] => i = j
  BY DEF Distinct
<1>2. Upto(0)
  <2>1. First(clients, 0) = {}
    BY DEF First
  <2>2. SameCalls(m, m) /\ w \in [Sessions -> Stages]
    BY DEF SameCalls, Placed
  <2> QED BY <2>1, <2>2 DEF Taken
<1>3. ASSUME NEW k \in 1..n, Upto(k-1) PROVE Upto(k)
  <2> DEFINE s == clients[k]
  <2>1. PICK u : Placed(L[k-1], u) /\ Taken(w, u, First(clients, k-1), into)
    BY <1>3
  <2>2. s \notin First(clients, k-1) /\ s \in Sessions
    <3>1. \A i \in 1..(k-1) : i \in 1..n /\ i # k
      BY <1>1
    <3> QED BY <1>1, <3>1 DEF First
  <2>3. u[s] = from
    BY <2>1, <2>2 DEF Taken
  <2>4. SameCalls(L[k], L[k-1])
    BY <2>1, <2>3 DEF LoopTakes
  <2>5. PICK v : Placed(L[k], v) /\ Taken(u, v, {s}, into)
    BY <2>1, <2>3 DEF LoopTakes
  <2>6. First(clients, k) = First(clients, k-1) \cup {s}
    <3>1. 1..k = 1..(k-1) \cup {k}
      BY <1>1
    <3> QED BY <3>1 DEF First
  <2> HIDE DEF s
  <2>7. Taken(w, v, First(clients, k), into)
    <3>1. First(clients, k-1) \subseteq Sessions
      <4>1. \A i \in 1..(k-1) : i \in 1..n
        BY <1>1
      <4> QED BY <1>1, <4>1 DEF First
    <3> QED BY <2>1, <2>2, <2>5, <2>6, <3>1 DEF Taken
  <2>8. SameCalls(L[k], m)
    BY <1>3, <2>4 DEF SameCalls
  <2> QED BY <2>5, <2>7, <2>8
<1>4. Upto(n)
  <2> DEFINE S == {k \in 0..n : Upto(k)}
  <2> HIDE DEF Upto
  <2>1. 0 \in S
    BY <1>1, <1>2
  <2>2. ASSUME NEW k \in 0..(n-1), k \in S PROVE k+1 \in S
    <3>1. k+1 \in 1..n /\ (k+1)-1 = k
      BY <1>1
    <3>2. Upto(k+1)
      BY <1>3, <2>2, <3>1
    <3> QED BY <3>1, <3>2
  <2>3. \A k \in 0..n : k \in S
    <3> HIDE DEF S
    <3> QED BY <1>1, <2>1, <2>2, LoopInduction
  <2> QED BY <1>1, <2>3
<1>5. First(clients, n) = Range(clients)
  BY DEF First, Range
<1> QED BY <1>4, <1>5

(* The callbacks of a release of HBM queue those that were granted for     *)
(* prefill, and one of them may start.                                     *)
LEMMA ReadyAllPlaces ==
  ASSUME NEW m \in SimType, GpuCalm(m), NEW w, Placed(m, w),
         NEW clients \in Seq(Sessions), Distinct(clients), NEW n, n = Len(clients),
         \A i \in 1..n : w[clients[i]] = "in hbm"
  PROVE  /\ SameCalls(ReadyAll(m, clients), m)
         /\ \E v : /\ Placed(ReadyAll(m, clients), v)
                   /\ Taken(w, v, Range(clients), Prefills)
<1>1. n \in Nat /\ \A k \in 1..n : clients[k] \in Sessions
  BY Members
<1>2. PICK L : ReadyAllRuns(L, m, clients, n)
  BY ReadyAllLoop
<1>3. /\ L[0] = m /\ ReadyAll(m, clients) = L[n]
      /\ \A k \in 1..n : L[k] = ReadyPrefill(L[k-1], clients[k])
      /\ \A k \in 0..n : L[k] \in SimType
  BY <1>2 DEF ReadyAllRuns, Woken
<1>4. ASSUME NEW k \in 1..n, NEW u, Placed(L[k-1], u), u[clients[k]] = "in hbm"
      PROVE  /\ SameCalls(L[k], L[k-1])
             /\ \E v : Placed(L[k], v) /\ Taken(u, v, {clients[k]}, Prefills)
  <2>1. k - 1 \in 0..n
    BY <1>1, Before
  <2>2. L[k-1] \in SimType /\ clients[k] \in Sessions /\ L[k] = ReadyPrefill(L[k-1], clients[k])
    BY <1>1, <1>3, <2>1
  <2>3. ASSUME NEW y, y = L[k-1], NEW s, s = clients[k]
        PROVE  /\ SameCalls(ReadyPrefill(y, s), y)
               /\ \E v : Placed(ReadyPrefill(y, s), v) /\ Taken(u, v, {s}, Prefills)
    BY <1>4, <2>2, <2>3, ReadyPrefillPlaces
  <2> QED BY <2>2, <2>3
<1>5. LoopTakes(L, n, clients, "in hbm", Prefills)
  BY <1>4 DEF LoopTakes
<1>6. "in hbm" \notin Prefills
  BY StageSets DEF Prefills
<1>7. /\ SameCalls(L[n], m)
      /\ \E v : Placed(L[n], v) /\ Taken(w, v, Range(clients), Prefills)
  BY <1>3, <1>5, <1>6, LoopPlaces
<1> QED BY <1>3, <1>7

-----------------------------------------------------------------------------
(* A release of HBM before its callbacks: the session holds nothing any    *)
(* more, and those that were granted their bytes wait to be told.          *)
Grants(w, v, s, F, waits, has) ==
  /\ v \in [Sessions -> Stages] /\ v[s] = "between"
  /\ \A t \in F : w[t] = waits /\ v[t] = has
  /\ \A t \in Sessions : t # s /\ t \notin F => v[t] = w[t]

LEMMA GrantMoves ==
  ASSUME NEW w \in [Sessions -> Stages], NEW s \in Sessions, NEW waits,
         NEW F, F \subseteq In(Sessions, w, {waits}), w[s] # waits, NEW has \in Stages
  PROVE  \E v : Grants(w, v, s, F, waits, has)
<1> DEFINE v == [t \in Sessions |-> IF t = s THEN "between" ELSE IF t \in F THEN has ELSE w[t]]
<1>1. \A t \in F : t \in Sessions /\ w[t] = waits /\ t # s
  BY DEF In
<1>2. "between" \in Stages
  BY DEF Stages, Passing
<1>3. v \in [Sessions -> Stages] /\ v[s] = "between"
  BY <1>2
<1>4. /\ \A t \in F : v[t] = has
      /\ \A t \in Sessions : t # s /\ t \notin F => v[t] = w[t]
  BY <1>1
<1> QED BY <1>1, <1>3, <1>4 DEF Grants

(* How far the sessions are does not change by a release.                  *)
LEMMA GrantProgress ==
  ASSUME NEW m, NEW w, Placed(m, w), NEW x, SameCalls(x, m), NEW s \in Sessions,
         w[s] \notin {"arriving", "done"}, NEW F, NEW waits, NEW has,
         waits \notin {"arriving", "done"}, has \notin {"arriving", "done"},
         NEW v, Grants(w, v, s, F, waits, has)
  PROVE  \A t \in Sessions : ProgressOf(t, v[t], x.idx[t], x.finished[t], x.arrivals)
<1>1. ASSUME NEW t \in Sessions
      PROVE  ProgressOf(t, v[t], x.idx[t], x.finished[t], x.arrivals)
  <2>1. ProgressOf(t, w[t], m.idx[t], m.finished[t], m.arrivals)
    BY DEF Placed
  <2>2. CASE v[t] = w[t]
    BY <2>1, <2>2 DEF SameCalls
  <2>3. CASE v[t] # w[t]
    <3>1. w[t] \notin {"arriving", "done"} /\ v[t] \notin {"arriving", "done"}
      BY <2>3 DEF Grants
    <3> QED BY <2>1, <3>1 DEF ProgressOf, SameCalls
  <2> QED BY <2>2, <2>3
<1> QED BY <1>1

LEMMA GiveHbm ==
  ASSUME NEW m \in SimType, NEW w, Placed(m, w), NEW s \in Sessions, w[s] = "in hbm",
         NEW need, need = Kv(m), NEW amount, amount = need[s],
         NEW pool, pool = Release(m.hbm, need, HbmCap, amount),
         NEW clients, clients = Granted(m.hbm, pool),
         NEW x, x = [m EXCEPT !.hbm = pool]
  PROVE  /\ x \in SimType /\ SameGpu(x, m) /\ SameCpu(x, m) /\ SameCalls(x, m)
         /\ clients \in Seq(Sessions) /\ Distinct(clients)
         /\ \E v : Placed(x, v) /\ Grants(w, v, s, Range(clients), "hbm queue", "in hbm")
<1> DEFINE F == Range(clients)
<1>1. /\ need \in [Sessions -> Nat] /\ HbmCap \in Int
      /\ PoolAt(Sessions, m.hbm, w, WaitHbm, HasHbm, need, HbmCap)
      /\ w[s] \in HasHbm /\ w \in [Sessions -> Stages]
  BY KvTypes, CapTypes, StageSets DEF Placed
<1>2. Given(Sessions, w, WaitHbm, HasHbm, need, HbmCap, s, pool, clients)
  BY <1>1, SessionsFinite, GiveAt
<1>3. /\ pool \in Pools(Sessions) /\ clients \in Seq(Sessions) /\ Distinct(clients)
      /\ F \subseteq In(Sessions, w, WaitHbm)
  BY <1>2 DEF Given
<1>4. /\ x \in SimType /\ SameGpu(x, m) /\ SameCpu(x, m) /\ SameCalls(x, m)
      /\ x.hbm = pool /\ x.cpu = m.cpu /\ x.c2c = m.c2c /\ x.prefillQ = m.prefillQ
      /\ x.gpuEvent = m.gpuEvent /\ x.gpuDec = m.gpuDec /\ x.cpuDec = m.cpuDec
  BY <1>3 DEF SimType, SameGpu, SameCpu, SameCalls
<1> HIDE DEF F
<1>5. PICK v : Grants(w, v, s, F, "hbm queue", "in hbm")
  <2>1. F \subseteq In(Sessions, w, {"hbm queue"}) /\ w[s] # "hbm queue" /\ "in hbm" \in Stages
    BY <1>3 DEF WaitHbm, Stages, Passing
  <2> QED BY <1>1, <2>1, GrantMoves
<1>6. PoolAt(Sessions, x.hbm, v, WaitHbm, HasHbm, Kv(x), HbmCap)
  <2>1. HandedOn(Sessions, w, v, s, F, WaitHbm, HasHbm)
    BY <1>5, StageSets DEF HandedOn, Grants
  <2>2. Kv(x) = need
    BY <1>4, SameKv DEF SameCalls
  <2> QED BY <1>2, <1>4, <2>1, <2>2 DEF Given, F
<1>7. \A S \in {WaitCpu, HasCpu, OnLink, WaitGpu, OnGpu, InGpuBatch, InCpuBatch, ToArrive} :
        Alike(Sessions, w, v, S)
  BY <1>5, StageSets DEF Alike, Grants, ToArrive
<1>8. \A t \in Sessions : ProgressOf(t, v[t], x.idx[t], x.finished[t], x.arrivals)
  BY <1>4, <1>5, GrantProgress
<1>9. Placed(x, v)
  <2>1. x.arrivals = m.arrivals /\ x.idx = m.idx
    BY <1>4 DEF SameCalls
  <2>2. /\ ArrivalsAt(x.arrivals, v) /\ LinkAt(x.c2c, v)
        /\ QueueAt(Sessions, x.prefillQ, v, WaitGpu)
        /\ x.gpuEvent \ {Tick} = In(Sessions, v, OnGpu)
        /\ QueueAt(Sessions, x.gpuDec, v, InGpuBatch)
        /\ QueueAt(Sessions, x.cpuDec, v, InCpuBatch)
    BY <1>4, <1>7, <2>1, KeptParts
  <2>3. PoolAt(Sessions, x.cpu, v, WaitCpu, HasCpu, Kv(x), CpuCap)
    BY <1>4, <1>7, <2>1, Kept
  <2> QED BY <1>5, <1>6, <1>8, <2>2, <2>3 DEF Placed, Grants
<1> QED BY <1>3, <1>4, <1>5, <1>9 DEF F

(* What a wake-up of the GPU and of the CPU engine may do to a session.    *)
ToPrefill(a, b) == b = a \/ (a \in {"hbm queue"} \cup Prefills /\ b \in Prefills)
ToCpu(a, b)     == b = a \/ (a = "cpu queue" /\ b = "cpu batch")

GpuOnward(w, v, s) == \A t \in Sessions : t # s => ToPrefill(w[t], v[t])
CpuOnward(w, v, s) == \A t \in Sessions : t # s => ToCpu(w[t], v[t])

(* release of HBM with its callbacks.                                      *)
LEMMA ReleaseHbmPlaces ==
  ASSUME NEW m \in SimType, GpuCalm(m), NEW w, Placed(m, w), NEW s \in Sessions,
         w[s] = "in hbm"
  PROVE  /\ SameCalls(ReleaseHbm(m, s), m)
         /\ \E v : Placed(ReleaseHbm(m, s), v) /\ v[s] = "between" /\ GpuOnward(w, v, s)
<1> DEFINE pool == Release(m.hbm, Kv(m), HbmCap, Kv(m)[s])
           clients == Granted(m.hbm, pool)
           n == Len(clients)
           x == [m EXCEPT !.hbm = pool]
<1>1. ReleaseHbm(m, s) = ReadyAll(x, clients)
  BY DEF ReleaseHbm
<1>2. /\ x \in SimType /\ SameGpu(x, m) /\ SameCpu(x, m) /\ SameCalls(x, m)
      /\ clients \in Seq(Sessions) /\ Distinct(clients)
      /\ \E v : Placed(x, v) /\ Grants(w, v, s, Range(clients), "hbm queue", "in hbm")
  BY GiveHbm
<1>3. PICK u : Placed(x, u) /\ Grants(w, u, s, Range(clients), "hbm queue", "in hbm")
  BY <1>2
<1> HIDE DEF pool, clients, x
<1>4. \A i \in 1..n : u[clients[i]] = "in hbm"
  <2>1. \A i \in 1..n : clients[i] \in Range(clients)
    BY <1>2, Members
  <2> QED BY <1>3, <2>1 DEF Grants
<1>5. GpuCalm(x)
  BY <1>2 DEF GpuCalm, SameGpu
<1> HIDE DEF n
<1>6. /\ SameCalls(ReadyAll(x, clients), x)
      /\ \E v : Placed(ReadyAll(x, clients), v) /\ Taken(u, v, Range(clients), Prefills)
  BY <1>2, <1>3, <1>4, <1>5, ReadyAllPlaces DEF n
<1>7. PICK v : Placed(ReadyAll(x, clients), v) /\ Taken(u, v, Range(clients), Prefills)
  BY <1>6
<1>8. v[s] = "between" /\ GpuOnward(w, v, s)
  <2>1. u[s] = "between" /\ s \notin Range(clients) /\ "between" \notin Prefills
    BY <1>3, StageSets DEF Grants, Prefills
  <2>2. v[s] = "between"
    BY <1>7, <2>1 DEF Taken
  <2>3. ASSUME NEW t \in Sessions, t # s PROVE ToPrefill(w[t], v[t])
    <3>1. CASE t \in Range(clients)
      BY <1>3, <1>7, <3>1 DEF Grants, Taken, ToPrefill
    <3>2. CASE t \notin Range(clients)
      BY <1>3, <1>7, <2>3, <3>2 DEF Grants, Taken, ToPrefill
    <3> QED BY <3>1, <3>2
  <2> QED BY <2>2, <2>3 DEF GpuOnward
<1> QED BY <1>1, <1>2, <1>6, <1>7, <1>8 DEF SameCalls

-----------------------------------------------------------------------------
(* The same for the CPU: acquire gives a session its bytes of the CPU or   *)
(* makes it wait.                                                          *)
LEMMA TakeCpu ==
  ASSUME NEW m \in SimType, NEW w, Placed(m, w), NEW s \in Sessions, w[s] = "between",
         NEW x, x = [m EXCEPT !.cpu = Acquire(@, Kv(m), s)],
         NEW b, b = IF Fits(m.cpu, Kv(m), s) THEN "in cpu" ELSE "cpu queue"
  PROVE  /\ x \in SimType /\ SameGpu(x, m) /\ SameCpu(x, m) /\ SameCalls(x, m)
         /\ Placed(x, [w EXCEPT ![s] = b])
<1> DEFINE pool == Acquire(m.cpu, Kv(m), s)
           v == [w EXCEPT ![s] = b]
<1>1. Kv(m) \in [Sessions -> Nat] /\ m.cpu \in Pools(Sessions)
  BY KvTypes DEF SimType
<1>2. pool \in Pools(Sessions) /\ x = [m EXCEPT !.cpu = pool]
  BY <1>1, AcquireType DEF SimType
<1> HIDE DEF pool
<1>3. /\ x \in SimType /\ SameGpu(x, m) /\ SameCpu(x, m) /\ SameCalls(x, m)
      /\ x.hbm = m.hbm /\ x.cpu = pool /\ x.c2c = m.c2c /\ x.prefillQ = m.prefillQ
      /\ x.gpuEvent = m.gpuEvent /\ x.gpuDec = m.gpuDec /\ x.cpuDec = m.cpuDec
  BY <1>2 DEF SimType, SameGpu, SameCpu, SameCalls
<1>4. OneMoves(w, v, s, b) /\ (b = "in cpu" \/ b = "cpu queue")
  BY Moved DEF Placed, Stages, Resting, Passing
<1> HIDE DEF v
<1>5. PoolAt(Sessions, x.cpu, v, WaitCpu, HasCpu, Kv(x), CpuCap)
  <2>1. /\ CpuCap \in Int /\ PoolAt(Sessions, m.cpu, w, WaitCpu, HasCpu, Kv(m), CpuCap)
        /\ x.cpu = Acquire(m.cpu, Kv(m), s)
    <3>1. PoolAt(Sessions, m.cpu, w, WaitCpu, HasCpu, Kv(m), CpuCap)
      BY DEF Placed
    <3>2. x.cpu = Acquire(m.cpu, Kv(m), s)
      BY <1>3 DEF pool
    <3> QED BY <3>1, <3>2, CapTypes
  <2>2. /\ w[s] \notin WaitCpu /\ w[s] \notin HasCpu
        /\ Fits(m.cpu, Kv(m), s) => v[s] \in HasCpu /\ v[s] \notin WaitCpu
        /\ ~Fits(m.cpu, Kv(m), s) => v[s] \in WaitCpu /\ v[s] \notin HasCpu
    BY <1>4, StageSets DEF OneMoves
  <2>3. \A t \in Sessions : t # s => v[t] = w[t]
    BY <1>4 DEF OneMoves
  <2>4. PoolAt(Sessions, x.cpu, v, WaitCpu, HasCpu, Kv(m), CpuCap)
    BY <1>1, <2>1, <2>2, <2>3, AcquireAt, SessionsFinite
  <2>5. Kv(x) = Kv(m)
    BY <1>3, SameKv DEF SameCalls
  <2> QED BY <2>4, <2>5
<1>6. \A S \in {WaitHbm, HasHbm, OnLink, WaitGpu, OnGpu, InGpuBatch, InCpuBatch} :
        Level("between", b, S)
  BY <1>4, StageSets DEF Level
<1>7. Placed(x, v)
  BY <1>3, <1>4, <1>5, <1>6, MovePlaces
<1> QED BY <1>3, <1>7 DEF v

(* _pump_cpu starts a step if there is a batch; nobody moves.              *)
CpuRests(m) == ~m.cpuBusy => m.cpuDec = <<>>

LEMMA PumpCpuPlaces ==
  ASSUME NEW m \in SimType, NEW w, Placed(m, w), NEW x, x = PumpCpu(m)
  PROVE  SameCalls(x, m) /\ CpuRests(x) /\ Placed(x, w)
<1>1. /\ x.hbm = m.hbm /\ x.cpu = m.cpu /\ x.c2c = m.c2c /\ x.prefillQ = m.prefillQ
      /\ x.gpuEvent = m.gpuEvent /\ x.gpuDec = m.gpuDec /\ x.cpuDec = m.cpuDec
      /\ SameCalls(x, m) /\ (x.cpuBusy \/ x.cpuDec = <<>>)
  BY DEF PumpCpu, SimType, SameCalls
<1> QED BY <1>1, StillPlaced DEF CpuRests

(* A session that holds its bytes of the CPU joins the batch there.        *)
LEMMA CpuJoinPlaces ==
  ASSUME NEW m \in SimType, NEW w, Placed(m, w), NEW s \in Sessions, w[s] = "in cpu"
  PROVE  /\ SameCalls(CpuJoin(m, s), m) /\ CpuRests(CpuJoin(m, s))
         /\ \E v : Placed(CpuJoin(m, s), v) /\ Taken(w, v, {s}, {"cpu batch"})
<1> DEFINE x == [m EXCEPT !.cpuDec = Append(@, s)]
           q == Append(m.cpuDec, s)
           v == [w EXCEPT ![s] = "cpu batch"]
<1>1. OneMoves(w, v, s, "cpu batch")
  BY Moved DEF Placed, Stages, Resting
<1> HIDE DEF v
<1>2. q \in Seq(Sessions) /\ QueueAt(Sessions, q, v, InCpuBatch)
  <2>1. m.cpuDec \in Seq(Sessions) /\ QueueAt(Sessions, m.cpuDec, w, InCpuBatch)
    BY DEF Placed, SimType
  <2>2. w[s] \notin InCpuBatch /\ v[s] \in InCpuBatch /\ \A t \in Sessions : t # s => v[t] = w[t]
    BY <1>1, StageSets DEF OneMoves
  <2> QED BY <2>1, <2>2, JoinsQueue
<1>3. x = [m EXCEPT !.cpuDec = q] /\ CpuJoin(m, s) = PumpCpu(x)
  BY DEF SimType, CpuJoin
<1> HIDE DEF q, x
<1>4. /\ x \in SimType /\ SameCalls(x, m)
      /\ x.hbm = m.hbm /\ x.cpu = m.cpu /\ x.c2c = m.c2c /\ x.prefillQ = m.prefillQ
      /\ x.gpuEvent = m.gpuEvent /\ x.gpuDec = m.gpuDec /\ x.cpuDec = q
  BY <1>2, <1>3 DEF SimType, SameCalls
<1>5. \A S \in {WaitHbm, HasHbm, WaitCpu, HasCpu, OnLink, WaitGpu, OnGpu, InGpuBatch} :
        Level("in cpu", "cpu batch", S)
  BY StageSets DEF Level
<1>6. Placed(x, v)
  BY <1>1, <1>2, <1>4, <1>5, MovePlaces
<1>7. Placed(PumpCpu(x), v) /\ CpuRests(PumpCpu(x)) /\ SameCalls(PumpCpu(x), x)
  BY <1>4, <1>6, PumpCpuPlaces
<1>8. Taken(w, v, {s}, {"cpu batch"})
  BY <1>1 DEF OneMoves, Taken
<1> QED BY <1>3, <1>4, <1>7, <1>8 DEF SameCalls

(* The callbacks of a release of the CPU.                                  *)
LEMMA JoinAllPlaces ==
  ASSUME NEW m \in SimType, NEW w, Placed(m, w),
         NEW clients \in Seq(Sessions), Distinct(clients), NEW n, n = Len(clients),
         \A i \in 1..n : w[clients[i]] = "in cpu"
  PROVE  /\ SameCalls(JoinAll(m, clients), m)
         /\ \E v : /\ Placed(JoinAll(m, clients), v)
                   /\ Taken(w, v, Range(clients), {"cpu batch"})
<1>1. n \in Nat /\ \A k \in 1..n : clients[k] \in Sessions
  BY Members
<1>2. PICK L : JoinAllRuns(L, m, clients, n)
  BY JoinAllLoop
<1>3. /\ L[0] = m /\ JoinAll(m, clients) = L[n]
      /\ \A k \in 1..n : L[k] = CpuJoin(L[k-1], clients[k])
      /\ \A k \in 0..n : L[k] \in SimType
  BY <1>2 DEF JoinAllRuns, Joined
<1>4. ASSUME NEW k \in 1..n, NEW u, Placed(L[k-1], u), u[clients[k]] = "in cpu"
      PROVE  /\ SameCalls(L[k], L[k-1])
             /\ \E v : Placed(L[k], v) /\ Taken(u, v, {clients[k]}, {"cpu batch"})
  <2>1. k - 1 \in 0..n
    BY <1>1, Before
  <2>2. L[k-1] \in SimType /\ clients[k] \in Sessions /\ L[k] = CpuJoin(L[k-1], clients[k])
    BY <1>1, <1>3, <2>1
  <2>3. ASSUME NEW y, y = L[k-1], NEW s, s = clients[k]
        PROVE  /\ SameCalls(CpuJoin(y, s), y)
               /\ \E v : Placed(CpuJoin(y, s), v) /\ Taken(u, v, {s}, {"cpu batch"})
    BY <1>4, <2>2, <2>3, CpuJoinPlaces
  <2> QED BY <2>2, <2>3
<1>5. LoopTakes(L, n, clients, "in cpu", {"cpu batch"})
  BY <1>4 DEF LoopTakes
<1>6. "in cpu" \notin {"cpu batch"}
  OBVIOUS
<1>7. /\ SameCalls(L[n], m)
      /\ \E v : Placed(L[n], v) /\ Taken(w, v, Range(clients), {"cpu batch"})
  BY <1>3, <1>5, <1>6, LoopPlaces
<1> QED BY <1>3, <1>7

(* A release of the CPU before its callbacks, and with them.               *)
LEMMA GiveCpu ==
  ASSUME NEW m \in SimType, NEW w, Placed(m, w), NEW s \in Sessions, w[s] = "in cpu",
         NEW need, need = Kv(m), NEW amount, amount = need[s],
         NEW pool, pool = Release(m.cpu, need, CpuCap, amount),
         NEW clients, clients = Granted(m.cpu, pool),
         NEW x, x = [m EXCEPT !.cpu = pool]
  PROVE  /\ x \in SimType /\ SameGpu(x, m) /\ SameCpu(x, m) /\ SameCalls(x, m)
         /\ clients \in Seq(Sessions) /\ Distinct(clients)
         /\ \E v : Placed(x, v) /\ Grants(w, v, s, Range(clients), "cpu queue", "in cpu")
<1> DEFINE F == Range(clients)
<1>1. /\ need \in [Sessions -> Nat] /\ CpuCap \in Int
      /\ PoolAt(Sessions, m.cpu, w, WaitCpu, HasCpu, need, CpuCap)
      /\ w[s] \in HasCpu /\ w \in [Sessions -> Stages]
  BY KvTypes, CapTypes, StageSets DEF Placed
<1>2. Given(Sessions, w, WaitCpu, HasCpu, need, CpuCap, s, pool, clients)
  BY <1>1, SessionsFinite, GiveAt
<1>3. /\ pool \in Pools(Sessions) /\ clients \in Seq(Sessions) /\ Distinct(clients)
      /\ F \subseteq In(Sessions, w, WaitCpu)
  BY <1>2 DEF Given
<1>4. /\ x \in SimType /\ SameGpu(x, m) /\ SameCpu(x, m) /\ SameCalls(x, m)
      /\ x.hbm = m.hbm /\ x.cpu = pool /\ x.c2c = m.c2c /\ x.prefillQ = m.prefillQ
      /\ x.gpuEvent = m.gpuEvent /\ x.gpuDec = m.gpuDec /\ x.cpuDec = m.cpuDec
  BY <1>3 DEF SimType, SameGpu, SameCpu, SameCalls
<1> HIDE DEF F
<1>5. PICK v : Grants(w, v, s, F, "cpu queue", "in cpu")
  <2>1. F \subseteq In(Sessions, w, {"cpu queue"}) /\ w[s] # "cpu queue" /\ "in cpu" \in Stages
    BY <1>3 DEF WaitCpu, Stages, Passing
  <2> QED BY <1>1, <2>1, GrantMoves
<1>6. PoolAt(Sessions, x.cpu, v, WaitCpu, HasCpu, Kv(x), CpuCap)
  <2>1. HandedOn(Sessions, w, v, s, F, WaitCpu, HasCpu)
    BY <1>5, StageSets DEF HandedOn, Grants
  <2>2. Kv(x) = need
    BY <1>4, SameKv DEF SameCalls
  <2> QED BY <1>2, <1>4, <2>1, <2>2 DEF Given, F
<1>7. \A S \in {WaitHbm, HasHbm, OnLink, WaitGpu, OnGpu, InGpuBatch, InCpuBatch, ToArrive} :
        Alike(Sessions, w, v, S)
  BY <1>5, StageSets DEF Alike, Grants, ToArrive
<1>8. \A t \in Sessions : ProgressOf(t, v[t], x.idx[t], x.finished[t], x.arrivals)
  BY <1>4, <1>5, GrantProgress
<1>9. Placed(x, v)
  <2>1. x.arrivals = m.arrivals /\ x.idx = m.idx
    BY <1>4 DEF SameCalls
  <2>2. /\ ArrivalsAt(x.arrivals, v) /\ LinkAt(x.c2c, v)
        /\ QueueAt(Sessions, x.prefillQ, v, WaitGpu)
        /\ x.gpuEvent \ {Tick} = In(Sessions, v, OnGpu)
        /\ QueueAt(Sessions, x.gpuDec, v, InGpuBatch)
        /\ QueueAt(Sessions, x.cpuDec, v, InCpuBatch)
    BY <1>4, <1>7, <2>1, KeptParts
  <2>3. PoolAt(Sessions, x.hbm, v, WaitHbm, HasHbm, Kv(x), HbmCap)
    BY <1>4, <1>7, <2>1, Kept
  <2> QED BY <1>5, <1>6, <1>8, <2>2, <2>3 DEF Placed, Grants
<1> QED BY <1>3, <1>4, <1>5, <1>9 DEF F

LEMMA ReleaseCpuPlaces ==
  ASSUME NEW m \in SimType, NEW w, Placed(m, w), NEW s \in Sessions, w[s] = "in cpu"
  PROVE  /\ SameCalls(ReleaseCpu(m, s), m)
         /\ \E v : Placed(ReleaseCpu(m, s), v) /\ v[s] = "between" /\ CpuOnward(w, v, s)
<1> DEFINE pool == Release(m.cpu, Kv(m), CpuCap, Kv(m)[s])
           clients == Granted(m.cpu, pool)
           n == Len(clients)
           x == [m EXCEPT !.cpu = pool]
<1>1. ReleaseCpu(m, s) = JoinAll(x, clients)
  BY DEF ReleaseCpu
<1>2. /\ x \in SimType /\ SameGpu(x, m) /\ SameCpu(x, m) /\ SameCalls(x, m)
      /\ clients \in Seq(Sessions) /\ Distinct(clients)
      /\ \E v : Placed(x, v) /\ Grants(w, v, s, Range(clients), "cpu queue", "in cpu")
  BY GiveCpu
<1>3. PICK u : Placed(x, u) /\ Grants(w, u, s, Range(clients), "cpu queue", "in cpu")
  BY <1>2
<1> HIDE DEF pool, clients, x
<1>4. \A i \in 1..n : u[clients[i]] = "in cpu"
  <2>1. \A i \in 1..n : clients[i] \in Range(clients)
    BY <1>2, Members
  <2> QED BY <1>3, <2>1 DEF Grants
<1> HIDE DEF n
<1>5. /\ SameCalls(JoinAll(x, clients), x)
      /\ \E v : Placed(JoinAll(x, clients), v) /\ Taken(u, v, Range(clients), {"cpu batch"})
  BY <1>2, <1>3, <1>4, JoinAllPlaces DEF n
<1>6. PICK v : Placed(JoinAll(x, clients), v) /\ Taken(u, v, Range(clients), {"cpu batch"})
  BY <1>5
<1>7. v[s] = "between" /\ CpuOnward(w, v, s)
  <2>1. u[s] = "between" /\ s \notin Range(clients)
    BY <1>3 DEF Grants
  <2>2. v[s] = "between"
    BY <1>6, <2>1 DEF Taken
  <2>3. ASSUME NEW t \in Sessions, t # s PROVE ToCpu(w[t], v[t])
    <3>1. CASE t \in Range(clients)
      BY <1>3, <1>6, <3>1 DEF Grants, Taken, ToCpu
    <3>2. CASE t \notin Range(clients)
      BY <1>3, <1>6, <2>3, <3>2 DEF Grants, Taken, ToCpu
    <3> QED BY <3>1, <3>2
  <2> QED BY <2>2, <2>3 DEF CpuOnward
<1> QED BY <1>1, <1>2, <1>5, <1>6, <1>7 DEF SameCalls

-----------------------------------------------------------------------------
(* The moves of the engines and of the link.  The end of a prefill leaves  *)
(* a session with its bytes of HBM and in no list.                         *)
LEMMA PrefillEnds ==
  ASSUME NEW m \in SimType, NEW w, Placed(m, w), NEW s \in Sessions, s \in m.gpuEvent,
         NEW x, SameCalls(x, m), x.hbm = m.hbm, x.cpu = m.cpu, x.c2c = m.c2c,
         x.prefillQ = m.prefillQ, x.gpuDec = m.gpuDec, x.cpuDec = m.cpuDec,
         x.gpuEvent = m.gpuEvent \ {s}
  PROVE  w[s] = "prefilling" /\ Placed(x, [w EXCEPT ![s] = "in hbm"])
<1> DEFINE v == [w EXCEPT ![s] = "in hbm"]
<1>1. w[s] = "prefilling"
  <2>1. s # Tick
    BY DynAssumption
  <2> QED BY <2>1, StageSets DEF Placed, In
<1>2. OneMoves(w, v, s, "in hbm")
  BY Moved DEF Placed, Stages, Passing
<1> HIDE DEF v
<1>3. x.gpuEvent \ {Tick} = In(Sessions, v, OnGpu)
  <2>1. w[s] \in OnGpu /\ "in hbm" \notin OnGpu
    BY <1>1, StageSets
  <2>2. \A t \in Sessions : t \in In(Sessions, v, OnGpu) <=> t \in In(Sessions, w, OnGpu) \ {s}
    BY <1>2, <2>1 DEF In, OneMoves
  <2>3. In(Sessions, v, OnGpu) = In(Sessions, w, OnGpu) \ {s}
    BY <2>2 DEF In
  <2> QED BY <2>3 DEF Placed
<1>4. \A S \in {WaitHbm, HasHbm, WaitCpu, HasCpu, OnLink, WaitGpu, InGpuBatch, InCpuBatch} :
        Level("prefilling", "in hbm", S)
  BY StageSets DEF Level
<1>5. Placed(x, v)
  BY <1>1, <1>2, <1>3, <1>4, MovePlaces
<1> QED BY <1>1, <1>5 DEF v

(* A session with its bytes of HBM joins the batch of the GPU.             *)
LEMMA JoinGpu ==
  ASSUME NEW m \in SimType, NEW w, Placed(m, w), NEW s \in Sessions, w[s] = "in hbm",
         NEW x, x = [m EXCEPT !.gpuDec = Append(@, s)]
  PROVE  /\ x \in SimType /\ SameCalls(x, m)
         /\ Placed(x, [w EXCEPT ![s] = "gpu batch"])
<1> DEFINE q == Append(m.gpuDec, s)
           v == [w EXCEPT ![s] = "gpu batch"]
<1>1. OneMoves(w, v, s, "gpu batch")
  BY Moved DEF Placed, Stages, Resting
<1> HIDE DEF v
<1>2. q \in Seq(Sessions) /\ QueueAt(Sessions, q, v, InGpuBatch)
  <2>1. m.gpuDec \in Seq(Sessions) /\ QueueAt(Sessions, m.gpuDec, w, InGpuBatch)
    BY DEF Placed, SimType
  <2>2. w[s] \notin InGpuBatch /\ v[s] \in InGpuBatch /\ \A t \in Sessions : t # s => v[t] = w[t]
    BY <1>1, StageSets DEF OneMoves
  <2> QED BY <2>1, <2>2, JoinsQueue
<1>3. x = [m EXCEPT !.gpuDec = q]
  BY DEF SimType
<1> HIDE DEF q
<1>4. /\ x \in SimType /\ SameCalls(x, m)
      /\ x.hbm = m.hbm /\ x.cpu = m.cpu /\ x.c2c = m.c2c /\ x.prefillQ = m.prefillQ
      /\ x.gpuEvent = m.gpuEvent /\ x.gpuDec = q /\ x.cpuDec = m.cpuDec
  BY <1>2, <1>3 DEF SimType, SameCalls
<1>5. \A S \in {WaitHbm, HasHbm, WaitCpu, HasCpu, OnLink, OnGpu, WaitGpu, InCpuBatch} :
        Level("in hbm", "gpu batch", S)
  BY StageSets DEF Level
<1>6. Placed(x, v)
  BY <1>1, <1>2, <1>4, <1>5, MovePlaces
<1> QED BY <1>4, <1>6 DEF v

(* list.remove takes one session off a list that has it once.              *)
LEMMA WithoutDistinct ==
  ASSUME NEW q \in Seq(Sessions), Distinct(q), NEW s, s \in Range(q)
  PROVE  Distinct(Without(q, s)) /\ Range(Without(q, s)) = Range(q) \ {s}
<1> DEFINE i == CHOOSE j \in DOMAIN q : q[j] = s
<1>1. i \in DOMAIN q /\ q[i] = s
  BY DEF Range
<1>2. Without(q, s) = RemoveAt(q, i)
  BY DEF Without, RemoveAt
<1> HIDE DEF i
<1> QED BY <1>1, <1>2, RemoveAtDistinct

(* So it leaves the batch it is in, of the GPU or of the CPU.              *)
LEMMA WithoutAt ==
  ASSUME NEW q \in Seq(Sessions), NEW w, NEW S, QueueAt(Sessions, q, w, S),
         NEW s \in Sessions, w[s] \in S, NEW v, NEW b, OneMoves(w, v, s, b), b \notin S
  PROVE  Without(q, s) \in Seq(Sessions) /\ QueueAt(Sessions, Without(q, s), v, S)
<1>1. Distinct(q) /\ Range(q) = In(Sessions, w, S) /\ s \in Range(q)
  BY DEF QueueAt, In
<1>2. In(Sessions, v, S) = In(Sessions, w, S) \ {s}
  <2>1. \A t \in Sessions : t \in In(Sessions, v, S) <=> t \in In(Sessions, w, S) \ {s}
    BY DEF In, OneMoves
  <2> QED BY <2>1 DEF In
<1>3. Distinct(Without(q, s)) /\ Range(Without(q, s)) = Range(q) \ {s}
  BY <1>1, WithoutDistinct
<1> QED BY <1>1, <1>2, <1>3, WithoutType DEF QueueAt

LEMMA LeaveGpu ==
  ASSUME NEW m \in SimType, NEW w, Placed(m, w), NEW s \in Sessions, w[s] = "gpu batch",
         NEW x, x = [m EXCEPT !.gpuDec = Without(@, s)]
  PROVE  /\ x \in SimType /\ SameCalls(x, m)
         /\ Placed(x, [w EXCEPT ![s] = "in hbm"])
<1> DEFINE q == Without(m.gpuDec, s)
           v == [w EXCEPT ![s] = "in hbm"]
<1>1. OneMoves(w, v, s, "in hbm")
  BY Moved DEF Placed, Stages, Passing
<1> HIDE DEF v
<1>2. q \in Seq(Sessions) /\ QueueAt(Sessions, q, v, InGpuBatch)
  <2>1. m.gpuDec \in Seq(Sessions) /\ QueueAt(Sessions, m.gpuDec, w, InGpuBatch)
    BY DEF Placed, SimType
  <2>2. w[s] \in InGpuBatch /\ "in hbm" \notin InGpuBatch
    BY StageSets
  <2> QED BY <1>1, <2>1, <2>2, WithoutAt
<1>3. x = [m EXCEPT !.gpuDec = q]
  BY DEF SimType
<1> HIDE DEF q
<1>4. /\ x \in SimType /\ SameCalls(x, m)
      /\ x.hbm = m.hbm /\ x.cpu = m.cpu /\ x.c2c = m.c2c /\ x.prefillQ = m.prefillQ
      /\ x.gpuEvent = m.gpuEvent /\ x.gpuDec = q /\ x.cpuDec = m.cpuDec
  BY <1>2, <1>3 DEF SimType, SameCalls
<1>5. \A S \in {WaitHbm, HasHbm, WaitCpu, HasCpu, OnLink, OnGpu, WaitGpu, InCpuBatch} :
        Level("gpu batch", "in hbm", S)
  BY StageSets DEF Level
<1>6. Placed(x, v)
  BY <1>1, <1>2, <1>4, <1>5, MovePlaces
<1> QED BY <1>4, <1>6 DEF v

LEMMA LeaveCpu ==
  ASSUME NEW m \in SimType, NEW w, Placed(m, w), NEW s \in Sessions, w[s] = "cpu batch",
         NEW x, x = [m EXCEPT !.cpuDec = Without(@, s)]
  PROVE  /\ x \in SimType /\ SameCalls(x, m)
         /\ Placed(x, [w EXCEPT ![s] = "in cpu"])
<1> DEFINE q == Without(m.cpuDec, s)
           v == [w EXCEPT ![s] = "in cpu"]
<1>1. OneMoves(w, v, s, "in cpu")
  BY Moved DEF Placed, Stages, Passing
<1> HIDE DEF v
<1>2. q \in Seq(Sessions) /\ QueueAt(Sessions, q, v, InCpuBatch)
  <2>1. m.cpuDec \in Seq(Sessions) /\ QueueAt(Sessions, m.cpuDec, w, InCpuBatch)
    BY DEF Placed, SimType
  <2>2. w[s] \in InCpuBatch /\ "in cpu" \notin InCpuBatch
    BY StageSets
  <2> QED BY <1>1, <2>1, <2>2, WithoutAt
<1>3. x = [m EXCEPT !.cpuDec = q]
  BY DEF SimType
<1> HIDE DEF q
<1>4. /\ x \in SimType /\ SameCalls(x, m)
      /\ x.hbm = m.hbm /\ x.cpu = m.cpu /\ x.c2c = m.c2c /\ x.prefillQ = m.prefillQ
      /\ x.gpuEvent = m.gpuEvent /\ x.gpuDec = m.gpuDec /\ x.cpuDec = q
  BY <1>2, <1>3 DEF SimType, SameCalls
<1>5. \A S \in {WaitHbm, HasHbm, WaitCpu, HasCpu, OnLink, OnGpu, WaitGpu, InGpuBatch} :
        Level("cpu batch", "in cpu", S)
  BY StageSets DEF Level
<1>6. Placed(x, v)
  BY <1>1, <1>2, <1>4, <1>5, MovePlaces
<1> QED BY <1>4, <1>6 DEF v

(* An offloaded call waits for its flush, or is being flushed.             *)
LEMMA Send ==
  ASSUME NEW m \in SimType, NEW w, Placed(m, w), NEW s \in Sessions, w[s] = "between",
         NEW x, x = [m EXCEPT !.c2c = Transfer(@, s)]
  PROVE  /\ x \in SimType /\ SameGpu(x, m) /\ SameCpu(x, m) /\ SameCalls(x, m)
         /\ Placed(x, [w EXCEPT ![s] = "on link"])
<1> DEFINE l == Transfer(m.c2c, s)
           v == [w EXCEPT ![s] = "on link"]
<1>1. OneMoves(w, v, s, "on link")
  BY Moved DEF Placed, Stages, Resting
<1> HIDE DEF v
<1>2. l \in Links(Sessions) /\ LinkAt(l, v)
  <2>1. m.c2c \in Links(Sessions) /\ LinkAt(m.c2c, w)
    BY DEF Placed, SimType
  <2>2. s \notin Jobs(m.c2c)
    BY <2>1 DEF LinkAt
  <2>3. /\ l \in Links(Sessions) /\ Once(l, Sessions) /\ Rested(l)
        /\ Jobs(l) = Jobs(m.c2c) \cup {s}
    <3>1. Once(m.c2c, Sessions)
      BY <2>1 DEF LinkAt
    <3> QED BY <2>1, <2>2, <3>1, TransferJobs
  <2> QED BY <1>1, <2>1, <2>3 DEF LinkAt, OneMoves
<1>3. x = [m EXCEPT !.c2c = l]
  BY DEF SimType
<1> HIDE DEF l
<1>4. /\ x \in SimType /\ SameGpu(x, m) /\ SameCpu(x, m) /\ SameCalls(x, m)
      /\ x.hbm = m.hbm /\ x.cpu = m.cpu /\ x.c2c = l /\ x.prefillQ = m.prefillQ
      /\ x.gpuEvent = m.gpuEvent /\ x.gpuDec = m.gpuDec /\ x.cpuDec = m.cpuDec
  BY <1>2, <1>3 DEF SimType, SameGpu, SameCpu, SameCalls
<1>5. \A S \in {WaitHbm, HasHbm, WaitCpu, HasCpu, OnGpu, WaitGpu, InGpuBatch, InCpuBatch} :
        Level("between", "on link", S)
  BY StageSets DEF Level
<1>6. LinkAt(x.c2c, v)
  BY <1>2, <1>4
<1>7. Placed(x, v)
  BY <1>1, <1>2, <1>4, <1>5, <1>6, MovePlaces
<1> QED BY <1>4, <1>7 DEF v

LEMMA Landed ==
  ASSUME NEW m \in SimType, NEW w, Placed(m, w), NEW s \in Sessions, s \in m.c2c.flying,
         NEW x, x = [m EXCEPT !.c2c = Fin(@, s)]
  PROVE  /\ x \in SimType /\ SameGpu(x, m) /\ SameCpu(x, m) /\ SameCalls(x, m)
         /\ w[s] = "on link" /\ Placed(x, [w EXCEPT ![s] = "between"])
<1> DEFINE l == Fin(m.c2c, s)
           v == [w EXCEPT ![s] = "between"]
<1>1. OneMoves(w, v, s, "between")
  BY Moved DEF Placed, Stages, Passing
<1> HIDE DEF v
<1>2. l \in Links(Sessions) /\ LinkAt(l, v) /\ w[s] = "on link"
  <2>1. m.c2c \in Links(Sessions) /\ LinkAt(m.c2c, w)
    BY DEF Placed, SimType
  <2>2. /\ l \in Links(Sessions) /\ Once(l, Sessions) /\ Rested(l)
        /\ \A y : y # s => (y \in Jobs(l) <=> y \in Jobs(m.c2c))
        /\ s \notin Jobs(l)
    BY <2>1, FinJobs DEF LinkAt
  <2>3. w[s] = "on link"
    BY <2>1 DEF LinkAt, Jobs
  <2> QED BY <1>1, <2>1, <2>2, <2>3 DEF LinkAt, OneMoves
<1>3. x = [m EXCEPT !.c2c = l]
  BY DEF SimType
<1> HIDE DEF l
<1>4. /\ x \in SimType /\ SameGpu(x, m) /\ SameCpu(x, m) /\ SameCalls(x, m)
      /\ x.hbm = m.hbm /\ x.cpu = m.cpu /\ x.c2c = l /\ x.prefillQ = m.prefillQ
      /\ x.gpuEvent = m.gpuEvent /\ x.gpuDec = m.gpuDec /\ x.cpuDec = m.cpuDec
  BY <1>2, <1>3 DEF SimType, SameGpu, SameCpu, SameCalls
<1>5. \A S \in {WaitHbm, HasHbm, WaitCpu, HasCpu, OnGpu, WaitGpu, InGpuBatch, InCpuBatch} :
        Level("on link", "between", S)
  BY StageSets DEF Level
<1>6. LinkAt(x.c2c, v)
  BY <1>2, <1>4
<1>7. Placed(x, v)
  BY <1>1, <1>2, <1>4, <1>5, <1>6, MovePlaces
<1> QED BY <1>2, <1>4, <1>7 DEF v

-----------------------------------------------------------------------------
(* The calls.  An arrival is for the call after those that are complete.   *)
LEMMA Due ==
  ASSUME NEW m \in SimType, NEW w, Placed(m, w), NEW s \in Sessions, NEW i,
         <<s, i>> \in m.arrivals
  PROVE  /\ w[s] = "arriving" /\ i = m.finished[s] + 1
         /\ \/ m.finished[s] = 0 /\ m.idx[s] = 1
            \/ m.finished[s] = m.idx[s] /\ m.finished[s] < Len(Trace[s])
<1> DEFINE e0 == <<s, i>>
<1>1. e0 \in m.arrivals /\ e0[1] = s /\ e0[2] = i
  OBVIOUS
<1>2. ArrivalsAt(m.arrivals, w) /\ ProgressOf(s, w[s], m.idx[s], m.finished[s], m.arrivals)
  BY DEF Placed
<1>3. w[s] = "arriving"
  <2> HIDE DEF e0
  <2> QED BY <1>1, <1>2 DEF ArrivalsAt
<1> DEFINE f0 == <<s, m.finished[s] + 1>>
<1>4. f0 \in m.arrivals /\ f0[1] = s /\ f0[2] = m.finished[s] + 1
  BY <1>2, <1>3 DEF ProgressOf
<1>5. e0 = f0
  <2> HIDE DEF e0, f0
  <2> QED BY <1>1, <1>2, <1>4 DEF ArrivalsAt
<1>6. i = m.finished[s] + 1
  BY <1>1, <1>4, <1>5
<1> QED BY <1>2, <1>3, <1>6 DEF ProgressOf

(* Once it is taken off the heap its session does not arrive any more.     *)
LEMMA ArrivalTaken ==
  ASSUME NEW m, NEW w, Placed(m, w), NEW s \in Sessions, NEW i, <<s, i>> \in m.arrivals,
         NEW v, NEW b, OneMoves(w, v, s, b), b # "arriving"
  PROVE  ArrivalsAt(m.arrivals \ {<<s, i>>}, v)
<1> DEFINE e0 == <<s, i>>
           A == m.arrivals \ {e0}
<1>1. e0 \in m.arrivals /\ e0[1] = s /\ ArrivalsAt(m.arrivals, w)
  BY DEF Placed
<1> HIDE DEF e0
<1>2. \A e, f \in A : e[1] = f[1] => e = f
  BY <1>1 DEF ArrivalsAt
<1>3. ASSUME NEW t \in Sessions PROVE v[t] = "arriving" <=> \E e \in A : e[1] = t
  <2>1. CASE t = s
    <3>1. v[t] # "arriving"
      BY <2>1 DEF OneMoves
    <3>2. \A e \in A : e[1] # s
      BY <1>1 DEF ArrivalsAt
    <3> QED BY <2>1, <3>1, <3>2
  <2>2. CASE t # s
    <3>1. v[t] = "arriving" <=> \E e \in m.arrivals : e[1] = t
      BY <1>1, <2>2 DEF OneMoves, ArrivalsAt
    <3> QED BY <1>1, <2>2, <3>1
  <2> QED BY <2>1, <2>2
<1> QED BY <1>2, <1>3 DEF ArrivalsAt, e0

(* The next call of a session is of another size, which no pool knows of.  *)
LEMMA CallPool ==
  ASSUME NEW p, NEW w, NEW waits, NEW holds, NEW need, NEW cap,
         PoolAt(Sessions, p, w, waits, holds, need, cap),
         NEW s \in Sessions, w[s] \notin waits, w[s] \notin holds,
         NEW v, NEW b, OneMoves(w, v, s, b), b \notin waits, b \notin holds,
         NEW other, \A t \in Sessions : t # s => other[t] = need[t]
  PROVE  PoolAt(Sessions, p, v, waits, holds, other, cap)
<1>1. Alike(Sessions, w, v, waits) /\ Alike(Sessions, w, v, holds)
  BY DEF OneMoves, Alike
<1>2. In(Sessions, v, waits) = In(Sessions, w, waits) /\ In(Sessions, v, holds) = In(Sessions, w, holds)
  BY <1>1, SameIn
<1>3. \A c \in In(Sessions, w, holds) \cup In(Sessions, w, waits) : other[c] = need[c]
  BY DEF In
<1>4. ASSUME NEW held, held = In(Sessions, w, holds)
      PROVE  PoolSound(Sessions, p, held, other, cap)
  <2>1. PoolSound(Sessions, p, held, need, cap) /\ Range(p.q) = In(Sessions, w, waits)
    BY <1>4 DEF PoolAt
  <2>2. \A c \in held \cup Range(p.q) : other[c] = need[c]
    BY <1>3, <1>4, <2>1
  <2> QED BY <2>1, <2>2, NeedElsewhere
<1>5. PoolSound(Sessions, p, In(Sessions, w, holds), other, cap)
  BY <1>4
<1> QED BY <1>2, <1>5 DEF PoolAt

(* The parts of the simulator that an arrival and the end of a call leave. *)
SameParts(x, m) ==
  /\ x.hbm = m.hbm /\ x.cpu = m.cpu /\ x.c2c = m.c2c /\ x.prefillQ = m.prefillQ
  /\ x.gpuEvent = m.gpuEvent /\ x.gpuDec = m.gpuDec /\ x.cpuDec = m.cpuDec

(* A session that goes from one call to the next is in no queue.           *)
Nowhere == {"arriving", "between", "done"}

LEMMA CallPlaces ==
  ASSUME NEW m, NEW w, Placed(m, w), NEW x, SameParts(x, m),
         NEW s \in Sessions, w[s] \in Nowhere,
         NEW b, b \in Nowhere, NEW v, OneMoves(w, v, s, b),
         ArrivalsAt(x.arrivals, v),
         \A t \in Sessions : t # s =>
           /\ x.idx[t] = m.idx[t] /\ x.finished[t] = m.finished[t]
           /\ \A i : <<t, i>> \in x.arrivals <=> <<t, i>> \in m.arrivals,
         ProgressOf(s, b, x.idx[s], x.finished[s], x.arrivals)
  PROVE  Placed(x, v)
<1>1. \A t \in Sessions : t # s => Kv(x)[t] = Kv(m)[t]
  BY DEF Kv
<1>2. \A S \in {WaitHbm, HasHbm, WaitCpu, HasCpu, OnLink, WaitGpu, OnGpu, InGpuBatch, InCpuBatch} :
        w[s] \notin S /\ b \notin S
  BY StageSets DEF Nowhere
<1>3. PoolAt(Sessions, x.hbm, v, WaitHbm, HasHbm, Kv(x), HbmCap)
  <2>1. PoolAt(Sessions, x.hbm, w, WaitHbm, HasHbm, Kv(m), HbmCap)
    BY DEF Placed, SameParts
  <2>2. /\ w[s] \notin WaitHbm /\ w[s] \notin HasHbm
        /\ b \notin WaitHbm /\ b \notin HasHbm
    BY <1>2
  <2> QED BY <1>1, <2>1, <2>2, CallPool
<1>4. PoolAt(Sessions, x.cpu, v, WaitCpu, HasCpu, Kv(x), CpuCap)
  <2>1. PoolAt(Sessions, x.cpu, w, WaitCpu, HasCpu, Kv(m), CpuCap)
    BY DEF Placed, SameParts
  <2>2. /\ w[s] \notin WaitCpu /\ w[s] \notin HasCpu
        /\ b \notin WaitCpu /\ b \notin HasCpu
    BY <1>2
  <2> QED BY <1>1, <2>1, <2>2, CallPool
<1>5. \A S \in {OnLink, WaitGpu, OnGpu, InGpuBatch, InCpuBatch} : Alike(Sessions, w, v, S)
  BY <1>2 DEF OneMoves, Alike
<1>6. /\ LinkAt(x.c2c, v)
      /\ QueueAt(Sessions, x.prefillQ, v, WaitGpu)
      /\ x.gpuEvent \ {Tick} = In(Sessions, v, OnGpu)
      /\ QueueAt(Sessions, x.gpuDec, v, InGpuBatch)
      /\ QueueAt(Sessions, x.cpuDec, v, InCpuBatch)
  BY <1>5, KeptParts DEF SameParts
<1>7. ASSUME NEW t \in Sessions
      PROVE  ProgressOf(t, v[t], x.idx[t], x.finished[t], x.arrivals)
  <2>1. CASE t = s
    BY <2>1 DEF OneMoves
  <2>2. CASE t # s
    <3>1. ProgressOf(t, w[t], m.idx[t], m.finished[t], m.arrivals)
      BY DEF Placed
    <3> QED BY <2>2, <3>1 DEF ProgressOf, OneMoves
  <2> QED BY <2>1, <2>2
<1> QED BY <1>3, <1>4, <1>6, <1>7 DEF Placed, OneMoves

(* A session takes up its next call, or finds that it has no calls.        *)
LEMMA CallTaken ==
  ASSUME NEW m \in SimType, NEW w, Placed(m, w), NEW s \in Sessions, NEW i,
         <<s, i>> \in m.arrivals,
         NEW x, SameParts(x, m), x.finished = m.finished,
         x.arrivals = m.arrivals \ {<<s, i>>},
         x.idx = IF i > Len(Trace[s]) THEN m.idx ELSE [m.idx EXCEPT ![s] = i],
         NEW b, b = IF i > Len(Trace[s]) THEN "done" ELSE "between"
  PROVE  Placed(x, [w EXCEPT ![s] = b])
<1> DEFINE v == [w EXCEPT ![s] = b]
<1>1. /\ w[s] = "arriving" /\ i = m.finished[s] + 1
      /\ \/ m.finished[s] = 0 /\ m.idx[s] = 1
         \/ m.finished[s] = m.idx[s] /\ m.finished[s] < Len(Trace[s])
  BY Due
<1>2. /\ m.finished[s] \in Nat /\ Len(Trace[s]) \in Nat /\ m.idx \in [Sessions -> Nat \ {0}]
  BY DynAssumption DEF SimType
<1>3. OneMoves(w, v, s, b) /\ b \in Nowhere /\ w[s] \in Nowhere /\ b # "arriving"
  BY <1>1, Moved DEF Placed, Stages, Resting, Passing, Nowhere
<1> HIDE DEF v
<1>4. ArrivalsAt(x.arrivals, v)
  BY <1>3, ArrivalTaken
<1>5. ASSUME NEW t \in Sessions, t # s
      PROVE  /\ x.idx[t] = m.idx[t] /\ x.finished[t] = m.finished[t]
             /\ \A j : <<t, j>> \in x.arrivals <=> <<t, j>> \in m.arrivals
  BY <1>2, <1>5
<1>6. ProgressOf(s, b, x.idx[s], x.finished[s], x.arrivals)
  <2>1. CASE i > Len(Trace[s])
    <3>1. m.finished[s] = Len(Trace[s]) /\ b = "done"
      BY <1>1, <1>2, <2>1
    <3> QED BY <3>1 DEF ProgressOf
  <2>2. CASE ~(i > Len(Trace[s]))
    <3>1. x.idx[s] = i /\ m.finished[s] = i - 1 /\ i <= Len(Trace[s]) /\ b = "between"
      BY <1>1, <1>2, <2>2
    <3> QED BY <3>1 DEF ProgressOf
  <2> QED BY <2>1, <2>2
<1>7. Placed(x, v)
  BY <1>3, <1>4, <1>5, <1>6, CallPlaces
<1> QED BY <1>7 DEF v

(* _finish: the next call of the session arrives later, or it is done.     *)
LEMMA FinishPlaces ==
  ASSUME NEW m \in SimType, NEW w, Placed(m, w), NEW s \in Sessions, w[s] = "between",
         NEW x, x = Finish(m, s)
  PROVE  /\ x.idx = m.idx /\ x.finished = [m.finished EXCEPT ![s] = @ + 1]
         /\ \E v : /\ Placed(x, v) /\ v[s] \in {"arriving", "done"}
                   /\ \A t \in Sessions : t # s => v[t] = w[t]
<1> DEFINE next == m.idx[s] + 1
           e0 == <<s, next>>
           b == IF next <= Len(Trace[s]) THEN "arriving" ELSE "done"
           v == [w EXCEPT ![s] = b]
<1>1. /\ SameParts(x, m) /\ x.idx = m.idx /\ x.finished = [m.finished EXCEPT ![s] = @ + 1]
      /\ x.arrivals = IF next <= Len(Trace[s]) THEN m.arrivals \cup {e0} ELSE m.arrivals
  BY DEF Finish, SimType, SameParts
<1>2. /\ m.finished \in [Sessions -> Nat] /\ Len(Trace[s]) \in Nat /\ m.idx[s] \in Nat
      /\ m.finished[s] = m.idx[s] - 1 /\ m.idx[s] <= Len(Trace[s])
  <2>1. ProgressOf(s, w[s], m.idx[s], m.finished[s], m.arrivals)
    BY DEF Placed
  <2>2. m.finished[s] = m.idx[s] - 1 /\ m.idx[s] <= Len(Trace[s])
    BY <2>1 DEF ProgressOf
  <2>3. m.finished \in [Sessions -> Nat] /\ Len(Trace[s]) \in Nat /\ m.idx[s] \in Nat
    BY DynAssumption DEF SimType
  <2> QED BY <2>2, <2>3
<1>3. x.finished[s] = m.idx[s] /\ \A t \in Sessions : t # s => x.finished[t] = m.finished[t]
  BY <1>1, <1>2
<1>4. OneMoves(w, v, s, b) /\ b \in Nowhere /\ w[s] \in Nowhere /\ b \in {"arriving", "done"}
  BY Moved DEF Placed, Stages, Resting, Nowhere
<1> HIDE DEF v
<1>5. /\ ArrivalsAt(m.arrivals, w) /\ \A e \in m.arrivals : e[1] # s
  BY DEF Placed, ArrivalsAt
<1>6. e0[1] = s
  OBVIOUS
<1>7. ArrivalsAt(x.arrivals, v)
  <2>1. CASE next <= Len(Trace[s])
    <3>1. x.arrivals = m.arrivals \cup {e0} /\ b = "arriving"
      BY <1>1, <2>1
    <3> HIDE DEF e0, b
    <3>2. \A e, f \in x.arrivals : e[1] = f[1] => e = f
      BY <1>5, <1>6, <3>1 DEF ArrivalsAt
    <3>3. ASSUME NEW t \in Sessions
          PROVE  v[t] = "arriving" <=> \E e \in x.arrivals : e[1] = t
      BY <1>4, <1>5, <1>6, <3>1 DEF ArrivalsAt, OneMoves
    <3> QED BY <3>2, <3>3 DEF ArrivalsAt
  <2>2. CASE ~(next <= Len(Trace[s]))
    <3>1. x.arrivals = m.arrivals /\ b = "done"
      BY <1>1, <2>2
    <3> HIDE DEF b
    <3> QED BY <1>4, <1>5, <3>1 DEF ArrivalsAt, OneMoves
  <2> QED BY <2>1, <2>2
<1>8. ASSUME NEW t \in Sessions, t # s
      PROVE  /\ x.idx[t] = m.idx[t] /\ x.finished[t] = m.finished[t]
             /\ \A j : <<t, j>> \in x.arrivals <=> <<t, j>> \in m.arrivals
  BY <1>1, <1>3, <1>8
<1>9. ProgressOf(s, b, x.idx[s], x.finished[s], x.arrivals)
  <2>1. CASE next <= Len(Trace[s])
    <3>1. /\ <<s, x.finished[s] + 1>> \in x.arrivals /\ b = "arriving"
          /\ x.finished[s] = x.idx[s] /\ x.finished[s] < Len(Trace[s])
      BY <1>1, <1>2, <1>3, <2>1
    <3> QED BY <3>1 DEF ProgressOf
  <2>2. CASE ~(next <= Len(Trace[s]))
    <3>1. x.finished[s] = Len(Trace[s]) /\ b = "done"
      BY <1>2, <1>3, <2>2
    <3> QED BY <3>1 DEF ProgressOf
  <2> QED BY <2>1, <2>2
<1>10. Placed(x, v)
  <2>1. SameParts(x, m)
    BY <1>1
  <2>2. w[s] \in Nowhere /\ b \in Nowhere /\ OneMoves(w, v, s, b)
    BY <1>4
  <2> HIDE DEF b
  <2> QED BY <1>7, <1>8, <1>9, <2>1, <2>2, CallPlaces
<1> QED BY <1>1, <1>4, <1>10 DEF OneMoves

-----------------------------------------------------------------------------
(***************************************************************************)
(* The handlers.  What the turn of one event, from m to x, may do to a     *)
(* session t that goes from its stage in w to its stage in v: it is        *)
(* carried on inside its call, it takes up its next call, it turns out to  *)
(* have no calls, or it completes its call.                                *)
(***************************************************************************)
Carried(a, b) ==
  \/ ToPrefill(a, b) \/ ToCpu(a, b)
  \/ a = "prefilling" /\ b \in {"gpu batch", "on link"}
  \/ a = "on link" /\ b \in {"cpu queue", "cpu batch"}

Passes(t, m, w, x, v) ==
  \/ /\ Carried(w[t], v[t])
     /\ x.idx[t] = m.idx[t] /\ x.finished[t] = m.finished[t]
  \/ /\ w[t] = "arriving" /\ v[t] \in {"hbm queue"} \cup Prefills
     /\ x.idx[t] = m.finished[t] + 1 /\ x.finished[t] = m.finished[t]
  \/ /\ w[t] = "arriving" /\ v[t] = "done"
     /\ x.idx[t] = m.idx[t] /\ x.finished[t] = m.finished[t]
  \/ /\ w[t] \in {"gpu batch", "cpu batch"} /\ v[t] \in {"arriving", "done"}
     /\ x.idx[t] = m.idx[t] /\ x.finished[t] = m.finished[t] + 1

(* A turn of the GPU never brings a session into the batch of the CPU, and *)
(* a turn of the CPU none into the queue or the batch of the GPU.          *)
GpuTurn(m, w, x, v) ==
  /\ v \in [Sessions -> Resting] /\ Placed(x, v)
  /\ \A t \in Sessions : Passes(t, m, w, x, v) /\ (v[t] = "cpu batch" => w[t] = "cpu batch")

CpuTurn(m, w, x, v) ==
  /\ v \in [Sessions -> Resting] /\ Placed(x, v)
  /\ \A t \in Sessions :
       /\ Passes(t, m, w, x, v)
       /\ \A b \in {"prefill queue", "gpu batch"} : v[t] = b => w[t] = b

(* An engine that a turn does not touch rests if it did before.            *)
LEMMA CpuStillRests ==
  ASSUME NEW m, NEW w, Placed(m, w), CpuRests(m), NEW x \in SimType, NEW v, Placed(x, v),
         x.cpuBusy = m.cpuBusy,
         \A t \in Sessions : v[t] = "cpu batch" => w[t] = "cpu batch"
  PROVE  CpuRests(x)
<1> SUFFICES ASSUME ~m.cpuBusy PROVE x.cpuDec = <<>>
  BY DEF CpuRests
<1>1. m.cpuDec = <<>> /\ Range(m.cpuDec) = In(Sessions, w, InCpuBatch)
  BY DEF CpuRests, Placed, QueueAt
<1>2. \A t \in Sessions : w[t] # "cpu batch"
  BY <1>1, NoMembers DEF In, InCpuBatch
<1>3. Range(x.cpuDec) = In(Sessions, v, InCpuBatch) /\ x.cpuDec \in Seq(Sessions)
  BY DEF Placed, QueueAt, SimType
<1>4. Range(x.cpuDec) = {}
  BY <1>2, <1>3 DEF In, InCpuBatch
<1> QED BY <1>3, <1>4, NoMembers

LEMMA GpuStillRests ==
  ASSUME NEW m, NEW w, Placed(m, w), GpuRests(m), NEW x \in SimType, NEW v, Placed(x, v),
         x.gpuBusy = m.gpuBusy,
         \A t \in Sessions : \A b \in {"prefill queue", "gpu batch"} : v[t] = b => w[t] = b
  PROVE  GpuRests(x)
<1> SUFFICES ASSUME ~m.gpuBusy PROVE x.prefillQ = <<>> /\ x.gpuDec = <<>>
  BY DEF GpuRests
<1>1. /\ m.prefillQ = <<>> /\ Range(m.prefillQ) = In(Sessions, w, WaitGpu)
      /\ m.gpuDec = <<>> /\ Range(m.gpuDec) = In(Sessions, w, InGpuBatch)
  BY DEF GpuRests, Placed, QueueAt
<1>2. \A t \in Sessions : w[t] # "prefill queue" /\ w[t] # "gpu batch"
  BY <1>1, NoMembers DEF In, WaitGpu, InGpuBatch
<1>3. /\ Range(x.prefillQ) = In(Sessions, v, WaitGpu) /\ x.prefillQ \in Seq(Sessions)
      /\ Range(x.gpuDec) = In(Sessions, v, InGpuBatch) /\ x.gpuDec \in Seq(Sessions)
  BY DEF Placed, QueueAt, SimType
<1>4. Range(x.prefillQ) = {} /\ Range(x.gpuDec) = {}
  BY <1>2, <1>3 DEF In, WaitGpu, InGpuBatch
<1> QED BY <1>3, <1>4, NoMembers

(* An arrival: the call takes its HBM and queues for prefill, or it waits  *)
(* for HBM; a session without calls is done.                               *)
LEMMA ArrivePlaces ==
  ASSUME NEW m \in SimType, NEW w \in [Sessions -> Resting], Placed(m, w), GpuRests(m),
         NEW s \in Sessions, NEW i \in Nat \ {0}, <<s, i>> \in m.arrivals,
         NEW y, y = [m EXCEPT !.arrivals = @ \ {<<s, i>>}],
         NEW x, x = ArriveHandler(y, s, i), x \in SimType
  PROVE  GpuRests(x) /\ \E v : GpuTurn(m, w, x, v)
<1>1. w[s] = "arriving" /\ i = m.finished[s] + 1
  BY Due
<1>2. /\ y \in SimType /\ SameParts(y, m) /\ y.finished = m.finished /\ y.idx = m.idx
      /\ y.arrivals = m.arrivals \ {<<s, i>>} /\ y.gpuBusy = m.gpuBusy
  BY DEF SimType, SameParts
<1>3. CASE i > Len(Trace[s])
  <2> DEFINE v == [w EXCEPT ![s] = "done"]
  <2>1. x = y
    BY <1>3 DEF ArriveHandler
  <2>2. Placed(y, v)
    BY <1>2, <1>3, CallTaken
  <2>3. v \in [Sessions -> Resting]
    BY DEF Resting
  <2>4. \A t \in Sessions : Passes(t, m, w, y, v) /\ (v[t] = "cpu batch" => w[t] = "cpu batch")
    BY <1>1, <1>2 DEF Passes, Carried, ToPrefill
  <2>5. GpuRests(y)
    BY <1>2 DEF SameParts, GpuRests
  <2> QED BY <2>1, <2>2, <2>3, <2>4, <2>5 DEF GpuTurn
<1>4. CASE ~(i > Len(Trace[s]))
  <2> DEFINE call == [y EXCEPT !.idx[s] = i, !.left[s] = Trace[s][i].output]
             asked == [call EXCEPT !.hbm = Acquire(@, Kv(call), s)]
             w1 == [w EXCEPT ![s] = "between"]
             b == IF Fits(call.hbm, Kv(call), s) THEN "in hbm" ELSE "hbm queue"
             w2 == [w1 EXCEPT ![s] = b]
  <2>1. /\ call \in SimType /\ SameParts(call, m) /\ call.finished = m.finished
        /\ call.idx = [m.idx EXCEPT ![s] = i] /\ call.arrivals = m.arrivals \ {<<s, i>>}
        /\ call.gpuBusy = m.gpuBusy
    <3>1. call \in SimType
      BY <1>2, <1>4, CallType
    <3>2. /\ SameParts(call, y) /\ call.finished = y.finished
          /\ call.idx = [y.idx EXCEPT ![s] = i] /\ call.arrivals = y.arrivals
          /\ call.gpuBusy = y.gpuBusy
      BY <1>2 DEF SimType, SameParts
    <3> QED BY <1>2, <3>1, <3>2 DEF SameParts
  <2>2. x = IF Fits(call.hbm, Kv(call), s) THEN ReadyPrefill(asked, s) ELSE asked
    <3>1. y.hbm = call.hbm
      BY <1>2, <2>1 DEF SameParts
    <3> QED BY <1>4, <3>1 DEF ArriveHandler
  <2> HIDE DEF call
  <2>3. Placed(call, w1) /\ w1[s] = "between"
    BY <1>4, <2>1, CallTaken
  <2>4. /\ asked \in SimType /\ SameGpu(asked, call) /\ SameCalls(asked, call)
        /\ Placed(asked, w2)
    BY <2>1, <2>3, TakeHbm
  <2>5. /\ \A t \in Sessions : t # s => w2[t] = w[t]
        /\ w2[s] = b /\ w2 \in [Sessions -> Stages]
    BY <2>3, <2>4 DEF Placed
  <2>6. asked.prefillQ = m.prefillQ /\ asked.gpuDec = m.gpuDec /\ asked.gpuBusy = m.gpuBusy
    BY <2>1 DEF SameParts, SimType
  <2> HIDE DEF asked, w1, w2
  <2>7. m.idx \in [Sessions -> Nat \ {0}]
    BY DEF SimType
  <2>8. CASE Fits(call.hbm, Kv(call), s)
    <3>1. x = ReadyPrefill(asked, s) /\ w2[s] = "in hbm"
      BY <2>2, <2>5, <2>8
    <3>2. /\ SameCalls(x, asked) /\ GpuRests(x)
          /\ \E v : Placed(x, v) /\ Taken(w2, v, {s}, Prefills)
      BY <2>4, <3>1, ReadyPrefillPlaces
    <3>3. PICK v : Placed(x, v) /\ Taken(w2, v, {s}, Prefills)
      BY <3>2
    <3>4. \A t \in Sessions : t # s => ToPrefill(w[t], v[t])
      BY <2>5, <3>3 DEF Taken, ToPrefill
    <3>5. v \in [Sessions -> Resting]
      BY <3>3, <3>4 DEF Placed, Taken, ToPrefill, Prefills, WaitGpu, OnGpu, Resting
    <3>6. x.idx = [m.idx EXCEPT ![s] = i] /\ x.finished = m.finished
      BY <2>1, <2>4, <3>2 DEF SameCalls
    <3>7. v[s] \in Prefills
      BY <3>3 DEF Taken
    <3>8. ASSUME NEW t \in Sessions
          PROVE  Passes(t, m, w, x, v) /\ (v[t] = "cpu batch" => w[t] = "cpu batch")
      <4>1. CASE t = s
        BY <1>1, <2>7, <3>6, <3>7, <4>1 DEF Passes, Prefills, WaitGpu, OnGpu
      <4>2. CASE t # s
        <5>1. x.idx[t] = m.idx[t] /\ x.finished[t] = m.finished[t] /\ ToPrefill(w[t], v[t])
          BY <2>7, <3>4, <3>6, <4>2
        <5> QED BY <5>1 DEF Passes, Carried, ToPrefill, Prefills, WaitGpu, OnGpu
      <4> QED BY <4>1, <4>2
    <3> QED BY <3>2, <3>3, <3>5, <3>8 DEF GpuTurn
  <2>9. CASE ~Fits(call.hbm, Kv(call), s)
    <3>1. x = asked /\ w2[s] = "hbm queue"
      BY <2>2, <2>5, <2>9
    <3>2. w2 \in [Sessions -> Resting]
      BY <2>5, <3>1 DEF Resting
    <3>3. x.idx = [m.idx EXCEPT ![s] = i] /\ x.finished = m.finished
      BY <2>1, <2>4, <3>1 DEF SameCalls
    <3>4. ASSUME NEW t \in Sessions
          PROVE  Passes(t, m, w, x, w2) /\ (w2[t] = "cpu batch" => w[t] = "cpu batch")
      <4>1. CASE t = s
        BY <1>1, <2>7, <3>1, <3>3, <4>1 DEF Passes
      <4>2. CASE t # s
        BY <2>5, <2>7, <3>3, <4>2 DEF Passes, Carried, ToPrefill
      <4> QED BY <4>1, <4>2
    <3>5. GpuRests(x)
      BY <2>6, <3>1 DEF GpuRests
    <3> QED BY <2>4, <3>1, <3>2, <3>4, <3>5 DEF GpuTurn
  <2> QED BY <2>8, <2>9
<1> QED BY <1>3, <1>4

(* The last call of a handler of the GPU may start a prefill.              *)
LEMMA PumpTurn ==
  ASSUME NEW m, NEW w, NEW z \in SimType, NEW u, GpuTurn(m, w, z, u), NEW x, x = PumpGpu(z)
  PROVE  GpuRests(x) /\ \E v : GpuTurn(m, w, x, v)
<1>1. Placed(z, u) /\ u \in [Sessions -> Resting]
  BY DEF GpuTurn
<1>2. SameCalls(x, z) /\ GpuRests(x) /\ \E v : Placed(x, v) /\ Starts(u, v)
  BY <1>1, PumpGpuPlaces
<1>3. PICK v : Placed(x, v) /\ Starts(u, v)
  BY <1>2
<1>4. v \in [Sessions -> Resting]
  BY <1>1, <1>3 DEF Placed, Starts, Resting
<1>5. ASSUME NEW t \in Sessions
      PROVE  Passes(t, m, w, x, v) /\ (v[t] = "cpu batch" => w[t] = "cpu batch")
  <2>1. Passes(t, m, w, z, u) /\ (u[t] = "cpu batch" => w[t] = "cpu batch")
    BY DEF GpuTurn
  <2>2. x.idx = z.idx /\ x.finished = z.finished
    BY <1>2 DEF SameCalls
  <2>3. CASE v[t] = u[t]
    BY <2>1, <2>2, <2>3 DEF Passes
  <2>4. CASE u[t] = "prefill queue" /\ v[t] = "prefilling"
    <3>1. CASE Carried(w[t], u[t]) /\ z.idx[t] = m.idx[t] /\ z.finished[t] = m.finished[t]
      <4>1. w[t] \in {"hbm queue"} \cup Prefills
        BY <2>4, <3>1 DEF Carried, ToPrefill, ToCpu, Prefills, WaitGpu, OnGpu
      <4>2. Carried(w[t], v[t])
        BY <2>4, <4>1 DEF Carried, ToPrefill, Prefills, WaitGpu, OnGpu
      <4> QED BY <2>2, <2>4, <3>1, <4>2 DEF Passes
    <3>2. CASE w[t] = "arriving" /\ z.idx[t] = m.finished[t] + 1 /\ z.finished[t] = m.finished[t]
      BY <2>2, <2>4, <3>2 DEF Passes, Prefills, WaitGpu, OnGpu
    <3> QED BY <2>1, <2>4, <3>1, <3>2 DEF Passes
  <2> QED BY <1>3, <2>3, <2>4 DEF Starts
<1> QED BY <1>2, <1>3, <1>4, <1>5 DEF GpuTurn

(* The end of a prefill: the call is offloaded or joins the batch.         *)
LEMMA PrefillDonePlaces ==
  ASSUME NEW m \in SimType, NEW w \in [Sessions -> Resting], Placed(m, w),
         NEW s \in Sessions, m.gpuEvent = {s},
         NEW y, y = [m EXCEPT !.gpuEvent = @ \ {s}],
         NEW x, x = PrefillDoneHandler(y, s)
  PROVE  GpuRests(x) /\ \E v : GpuTurn(m, w, x, v)
<1> DEFINE idle == [y EXCEPT !.gpuBusy = FALSE]
           counted == [idle EXCEPT !.offloaded = @ + 1]
           released == ReleaseHbm(counted, s)
           sent == [released EXCEPT !.c2c = Transfer(@, s)]
           kept == [idle EXCEPT !.gpuDec = Append(@, s)]
           w1 == [w EXCEPT ![s] = "in hbm"]
<1>1. x = PumpGpu(IF RouteToCpu(idle, s) THEN sent ELSE kept)
  BY DEF PrefillDoneHandler
<1>2. /\ idle \in SimType /\ SameCalls(idle, m) /\ idle.hbm = m.hbm /\ idle.cpu = m.cpu
      /\ idle.c2c = m.c2c /\ idle.prefillQ = m.prefillQ /\ idle.gpuDec = m.gpuDec
      /\ idle.cpuDec = m.cpuDec /\ idle.gpuEvent = m.gpuEvent \ {s} /\ idle.gpuEvent = {}
  BY DEF SimType, SameCalls
<1> HIDE DEF idle
<1>3. s \in m.gpuEvent
  OBVIOUS
<1>4. w[s] = "prefilling" /\ Placed(idle, w1)
  BY <1>2, <1>3, PrefillEnds
<1>5. w1[s] = "in hbm" /\ \A t \in Sessions : t # s => w1[t] = w[t]
  OBVIOUS
<1> HIDE DEF w1
<1>6. m.idx \in [Sessions -> Nat \ {0}]
  BY DEF SimType
<1>7. ASSUME NEW u, NEW z, Placed(z, u), SameCalls(z, m), u[s] \in {"gpu batch", "on link"},
             GpuOnward(w1, u, s)
      PROVE  GpuTurn(m, w, z, u)
  <2>1. \A t \in Sessions : t # s => ToPrefill(w[t], u[t])
    BY <1>5, <1>7 DEF GpuOnward
  <2>2. u \in [Sessions -> Resting]
    BY <1>7, <2>1 DEF Placed, ToPrefill, Prefills, WaitGpu, OnGpu, Resting
  <2>3. ASSUME NEW t \in Sessions
        PROVE  Passes(t, m, w, z, u) /\ (u[t] = "cpu batch" => w[t] = "cpu batch")
    <3>1. z.idx[t] = m.idx[t] /\ z.finished[t] = m.finished[t]
      BY <1>7 DEF SameCalls
    <3>2. CASE t = s
      BY <1>4, <1>7, <3>1, <3>2 DEF Passes, Carried
    <3>3. CASE t # s
      BY <2>1, <3>1, <3>3 DEF Passes, Carried, ToPrefill, Prefills, WaitGpu, OnGpu
    <3> QED BY <3>2, <3>3
  <2> QED BY <1>7, <2>2, <2>3 DEF GpuTurn
<1>8. CASE RouteToCpu(idle, s)
  <2>1. /\ counted \in SimType /\ SameCalls(counted, idle) /\ counted.hbm = idle.hbm
        /\ counted.cpu = idle.cpu /\ counted.c2c = idle.c2c /\ counted.prefillQ = idle.prefillQ
        /\ counted.gpuDec = idle.gpuDec /\ counted.cpuDec = idle.cpuDec
        /\ counted.gpuEvent = idle.gpuEvent
    <3> DEFINE n == idle.offloaded + 1
    <3>1. n \in Nat /\ counted = [idle EXCEPT !.offloaded = n]
      BY <1>2 DEF SimType
    <3> HIDE DEF n, counted
    <3> QED BY <1>2, <3>1 DEF SimType, SameCalls
  <2> HIDE DEF counted
  <2>2. Placed(counted, w1) /\ GpuCalm(counted)
    BY <1>2, <1>4, <2>1, StillPlaced DEF GpuCalm
  <2>3. released \in SimType
    BY <2>1, <2>2, ReleaseHbmEffect DEF Woken
  <2>4. /\ SameCalls(released, counted)
        /\ \E u : Placed(released, u) /\ u[s] = "between" /\ GpuOnward(w1, u, s)
    BY <1>5, <2>1, <2>2, ReleaseHbmPlaces
  <2> HIDE DEF released
  <2>5. PICK u : Placed(released, u) /\ u[s] = "between" /\ GpuOnward(w1, u, s)
    BY <2>4
  <2> DEFINE v == [u EXCEPT ![s] = "on link"]
  <2>6. sent \in SimType /\ SameCalls(sent, released) /\ Placed(sent, v)
    BY <2>3, <2>5, Send
  <2>7. v[s] = "on link" /\ GpuOnward(w1, v, s)
    BY <2>5 DEF GpuOnward, Placed
  <2> HIDE DEF v, sent
  <2>8. SameCalls(sent, m)
    BY <1>2, <2>1, <2>4, <2>6 DEF SameCalls
  <2>9. GpuTurn(m, w, sent, v)
    BY <1>7, <2>6, <2>7, <2>8
  <2>10. x = PumpGpu(sent)
    BY <1>1, <1>8
  <2> QED BY <2>6, <2>9, <2>10, PumpTurn
<1>9. CASE ~RouteToCpu(idle, s)
  <2> DEFINE v == [w1 EXCEPT ![s] = "gpu batch"]
  <2>1. kept \in SimType /\ SameCalls(kept, idle) /\ Placed(kept, v)
    BY <1>2, <1>4, <1>5, JoinGpu
  <2>2. v[s] = "gpu batch" /\ GpuOnward(w1, v, s)
    BY <1>4 DEF GpuOnward, Placed, ToPrefill
  <2> HIDE DEF v, kept
  <2>3. SameCalls(kept, m)
    BY <1>2, <2>1 DEF SameCalls
  <2>4. GpuTurn(m, w, kept, v)
    BY <1>7, <2>1, <2>2, <2>3
  <2>5. x = PumpGpu(kept)
    BY <1>1, <1>9
  <2> QED BY <2>1, <2>4, <2>5, PumpTurn
<1> QED BY <1>8, <1>9

-----------------------------------------------------------------------------
(* A step of an engine.  A call of the batch that has its tokens completes *)
(* and the engine's wake-ups carry others on; batch is "gpu batch" or "cpu *)
(* batch".                                                                 *)
ABatch(batch) == batch \in {"gpu batch", "cpu batch"}

CarriedBy(batch, a, b) == IF batch = "gpu batch" THEN ToPrefill(a, b) ELSE ToCpu(a, b)

Completes(m, u, x, v, s, batch) ==
  /\ v \in [Sessions -> Resting] /\ Placed(x, v) /\ u[s] = batch
  /\ x.idx = m.idx /\ x.finished = [m.finished EXCEPT ![s] = @ + 1]
  /\ v[s] \in {"arriving", "done"}
  /\ \A t \in Sessions : t # s => CarriedBy(batch, u[t], v[t])

(* What a whole step may do to a session.                                  *)
Sifts(t, m, w, x, v, batch) ==
  \/ CarriedBy(batch, w[t], v[t]) /\ x.finished[t] = m.finished[t]
  \/ /\ w[t] = batch /\ v[t] \in {"arriving", "done"}
     /\ x.finished[t] = m.finished[t] + 1

Sifting(m, w, x, v, batch) == \A t \in Sessions : Sifts(t, m, w, x, v, batch)

LEMMA SiftsOn ==
  ASSUME NEW m \in SimType, NEW w, NEW y \in SimType, NEW u, NEW x, NEW v,
         NEW s \in Sessions, NEW batch, ABatch(batch), w[s] = batch,
         Completes(y, u, x, v, s, batch), Sifting(m, w, y, u, batch)
  PROVE  Sifting(m, w, x, v, batch)
<1>1. ASSUME NEW t \in Sessions PROVE Sifts(t, m, w, x, v, batch)
  <2>1. y.finished \in [Sessions -> Nat]
    BY DEF SimType
  <2>2. CASE t = s
    <3>1. Sifts(s, m, w, y, u, batch) /\ u[s] \notin {"arriving", "done"}
      BY DEF Sifting, ABatch, Completes
    <3>2. y.finished[s] = m.finished[s]
      BY <3>1 DEF Sifts
    <3>3. x.finished[s] = m.finished[s] + 1 /\ v[s] \in {"arriving", "done"}
      BY <2>1, <3>2 DEF Completes
    <3> QED BY <2>2, <3>2, <3>3 DEF Sifts
  <2>3. CASE t # s
    <3>1. x.finished[t] = y.finished[t] /\ CarriedBy(batch, u[t], v[t])
      BY <2>1, <2>3 DEF Completes
    <3>2. Sifts(t, m, w, y, u, batch)
      BY DEF Sifting
    <3>3. CASE CarriedBy(batch, w[t], u[t]) /\ y.finished[t] = m.finished[t]
      <4>1. CarriedBy(batch, w[t], v[t])
        BY <3>1, <3>3 DEF CarriedBy, ToPrefill, ToCpu, Prefills, WaitGpu, OnGpu
      <4> QED BY <3>1, <3>3, <4>1 DEF Sifts
    <3>4. CASE /\ w[t] = batch /\ u[t] \in {"arriving", "done"}
               /\ y.finished[t] = m.finished[t] + 1
      <4>1. v[t] = u[t]
        BY <3>1, <3>4 DEF CarriedBy, ToPrefill, ToCpu, Prefills, WaitGpu, OnGpu
      <4> QED BY <3>1, <3>4, <4>1 DEF Sifts
    <3> QED BY <3>2, <3>3, <3>4 DEF Sifts
  <2> QED BY <2>2, <2>3
<1> QED BY <1>1 DEF Sifting

(* A loop over the batch that completes some calls, one by one.            *)
SiftLoop(L, n, q, batch) ==
  /\ \A k \in 0..n : L[k] \in SimType
  /\ \A k \in 1..n :
       \/ L[k] = L[k-1]
       \/ \A u \in [Sessions -> Resting] : Placed(L[k-1], u) /\ u[q[k]] = batch =>
            \E v : Completes(L[k-1], u, L[k], v, q[k], batch)

Sifted(m, w, x, v, batch) ==
  /\ v \in [Sessions -> Resting] /\ Placed(x, v) /\ x.idx = m.idx
  /\ Sifting(m, w, x, v, batch)

LEMMA SiftOne ==
  ASSUME NEW m \in SimType, NEW w, NEW y \in SimType, NEW u, NEW x, NEW v,
         NEW s \in Sessions, NEW batch, ABatch(batch), w[s] = batch,
         Completes(y, u, x, v, s, batch), Sifted(m, w, y, u, batch)
  PROVE  Sifted(m, w, x, v, batch)
<1>1. Sifting(m, w, y, u, batch)
  BY DEF Sifted
<1>2. Sifting(m, w, x, v, batch)
  BY <1>1, SiftsOn
<1>3. x.idx = m.idx
  BY DEF Sifted, Completes
<1> QED BY <1>2, <1>3 DEF Sifted, Completes

LEMMA OthersStay ==
  ASSUME NEW y, NEW u, NEW x, NEW v, NEW s, NEW batch, ABatch(batch),
         Completes(y, u, x, v, s, batch)
  PROVE  \A t \in Sessions : t # s /\ u[t] = batch => v[t] = batch
<1> SUFFICES ASSUME NEW t \in Sessions, t # s, u[t] = batch PROVE v[t] = batch
  OBVIOUS
<1>1. CarriedBy(batch, batch, v[t])
  BY DEF Completes
<1>2. CASE batch = "gpu batch"
  BY <1>1, <1>2 DEF CarriedBy, ToPrefill, Prefills, WaitGpu, OnGpu
<1>3. CASE batch = "cpu batch"
  BY <1>1, <1>3 DEF CarriedBy, ToCpu
<1> QED BY <1>2, <1>3 DEF ABatch

LEMMA SiftPlaces ==
  ASSUME NEW m \in SimType, NEW w \in [Sessions -> Resting], Placed(m, w),
         NEW q \in Seq(Sessions), NEW batch, ABatch(batch),
         QueueAt(Sessions, q, w, {batch}), NEW n, n = Len(q),
         NEW L, L[0] = m, SiftLoop(L, n, q, batch)
  PROVE  \E v : Sifted(m, w, L[n], v, batch)
<1> DEFINE Rest(k, v) == \A j \in 1..n : j > k => v[q[j]] = batch
           Upto(k) == \E v : Sifted(m, w, L[k], v, batch) /\ Rest(k, v)
<1>1. /\ n \in Nat /\ \A i \in 1..n : q[i] \in Sessions
      /\ \A i, j \in 1..n : q[i] = q[j] => i = j
      /\ \A i \in 1..n : w[q[i]] = batch
  <2>1. n \in Nat /\ \A i \in 1..n : q[i] \in Sessions /\ q[i] \in Range(q)
    BY Members
  <2>2. \A t \in Range(q) : w[t] = batch
    BY DEF QueueAt, In
  <2>3. \A i, j \in 1..n : q[i] = q[j] => i = j
    BY DEF QueueAt, Distinct
  <2> QED BY <2>1, <2>2, <2>3
<1>2. Upto(0)
  <2>1. \A t \in Sessions : Sifts(t, m, w, m, w, batch)
    BY DEF Sifts, CarriedBy, ToPrefill, ToCpu
  <2>2. Sifted(m, w, L[0], w, batch)
    BY <2>1 DEF Sifted, Sifting
  <2>3. Rest(0, w)
    BY <1>1
  <2> HIDE DEF Rest
  <2> QED BY <2>2, <2>3
<1>3. ASSUME NEW k \in 1..n, Upto(k-1) PROVE Upto(k)
  <2> DEFINE s == q[k]
             y == L[k-1]
  <2>1. /\ k - 1 \in 0..n /\ k > k - 1
        /\ \A j \in 1..n : j > k => j > k - 1 /\ j # k
    <3>1. k - 1 \in 0..n
      BY <1>1, Before
    <3>2. k > k - 1 /\ \A j \in 1..n : j > k => j > k - 1 /\ j # k
      BY <1>1
    <3> QED BY <3>1, <3>2
  <2>2. s \in Sessions /\ w[s] = batch /\ y \in SimType
    BY <1>1, <2>1 DEF SiftLoop
  <2>3. PICK u : Sifted(m, w, y, u, batch) /\ Rest(k-1, u)
    BY <1>3
  <2>4. u[s] = batch
    BY <2>1, <2>3
  <2>5. ASSUME NEW v, \A t \in Sessions : t # s /\ u[t] = batch => v[t] = batch
        PROVE  Rest(k, v)
    <3>1. \A j \in 1..n : j > k => u[q[j]] = batch /\ q[j] # q[k] /\ q[j] \in Sessions
      BY <1>1, <2>1, <2>3
    <3> QED BY <2>5, <3>1
  <2>6. CASE L[k] = y
    BY <2>3, <2>5, <2>6
  <2>7. CASE L[k] # y
    <3>1. u \in [Sessions -> Resting] /\ Placed(y, u)
      BY <2>3 DEF Sifted
    <3>2. \E v : Completes(y, u, L[k], v, s, batch)
      BY <2>4, <2>7, <3>1 DEF SiftLoop
    <3> DEFINE x == L[k]
    <3> HIDE DEF s, y, x, Rest
    <3>3. PICK v : Completes(y, u, x, v, s, batch)
      BY <3>2 DEF x
    <3>4. Sifted(m, w, x, v, batch)
      BY <2>2, <2>3, <3>3, SiftOne
    <3>5. Rest(k, v)
      BY <2>5, <3>3, OthersStay
    <3> QED BY <3>4, <3>5 DEF x
  <2> QED BY <2>6, <2>7
<1>4. Upto(n)
  <2> DEFINE S == {k \in 0..n : Upto(k)}
  <2> HIDE DEF Upto
  <2>1. 0 \in S
    BY <1>1, <1>2
  <2>2. ASSUME NEW k \in 0..(n-1), k \in S PROVE k+1 \in S
    <3>1. k+1 \in 1..n /\ (k+1)-1 = k
      BY <1>1
    <3>2. Upto(k+1)
      BY <1>3, <2>2, <3>1
    <3> QED BY <3>1, <3>2
  <2>3. \A k \in 0..n : k \in S
    <3> HIDE DEF S
    <3> QED BY <1>1, <2>1, <2>2, LoopInduction
  <2> QED BY <1>1, <2>3
<1> QED BY <1>4

(* Once a call has left its batch and returned its bytes _finish completes *)
(* it.                                                                     *)
LEMMA FinishCompletes ==
  ASSUME NEW m, NEW u \in [Sessions -> Resting],
         NEW z \in SimType, SameCalls(z, m), NEW w, Placed(z, w),
         NEW s \in Sessions, w[s] = "between", NEW batch, ABatch(batch), u[s] = batch,
         \A t \in Sessions : t # s => CarriedBy(batch, u[t], w[t])
  PROVE  \E v : Completes(m, u, Finish(z, s), v, s, batch)
<1> DEFINE x == Finish(z, s)
<1>1. /\ x.idx = z.idx /\ x.finished = [z.finished EXCEPT ![s] = @ + 1]
      /\ \E v : /\ Placed(x, v) /\ v[s] \in {"arriving", "done"}
                /\ \A t \in Sessions : t # s => v[t] = w[t]
  BY FinishPlaces
<1> HIDE DEF x
<1>2. PICK v : /\ Placed(x, v) /\ v[s] \in {"arriving", "done"}
               /\ \A t \in Sessions : t # s => v[t] = w[t]
  BY <1>1
<1>3. \A t \in Sessions : t # s => CarriedBy(batch, u[t], v[t])
  BY <1>2
<1>4. v \in [Sessions -> Resting]
  <2>1. \A a, b : a \in Resting /\ CarriedBy(batch, a, b) => b \in Resting
    BY DEF CarriedBy, ToPrefill, ToCpu, Prefills, WaitGpu, OnGpu, Resting
  <2>2. \A t \in Sessions : v[t] \in Resting
    <3>1. v[s] \in Resting
      BY <1>2 DEF Resting
    <3> QED BY <1>3, <2>1, <3>1
  <2> QED BY <1>2, <2>2 DEF Placed
<1>5. x.idx = m.idx /\ x.finished = [m.finished EXCEPT ![s] = @ + 1]
  BY <1>1 DEF SameCalls
<1>6. Completes(m, u, x, v, s, batch)
  BY <1>2, <1>3, <1>4, <1>5 DEF Completes
<1> QED BY <1>6 DEF x

(* A call of the batch of the GPU that has its tokens returns its HBM,     *)
(* which may admit others, and is complete.                                *)
LEMMA SpentGpu ==
  ASSUME NEW m \in SimType, m.gpuBusy = TRUE, NEW u \in [Sessions -> Resting], Placed(m, u),
         NEW s \in Sessions, u[s] = "gpu batch",
         NEW y, y = [m EXCEPT !.gpuDec = Without(@, s)],
         NEW x, x = Finish(ReleaseHbm(y, s), s)
  PROVE  \E v : Completes(m, u, x, v, s, "gpu batch")
<1> DEFINE u1 == [u EXCEPT ![s] = "in hbm"]
           z == ReleaseHbm(y, s)
<1>1. y \in SimType /\ SameCalls(y, m) /\ Placed(y, u1)
  BY LeaveGpu
<1>2. GpuCalm(y)
  BY DEF GpuCalm, SimType
<1>3. u1[s] = "in hbm" /\ \A t \in Sessions : t # s => u1[t] = u[t]
  OBVIOUS
<1> HIDE DEF u1
<1>4. /\ SameCalls(z, y)
      /\ \E v : Placed(z, v) /\ v[s] = "between" /\ GpuOnward(u1, v, s)
  BY <1>1, <1>2, <1>3, ReleaseHbmPlaces
<1>5. z \in SimType
  BY <1>1, <1>2, ReleaseHbmEffect DEF Woken
<1> HIDE DEF z
<1>6. PICK u2 : Placed(z, u2) /\ u2[s] = "between" /\ GpuOnward(u1, u2, s)
  BY <1>4
<1>7. ABatch("gpu batch") /\ SameCalls(z, m)
  BY <1>1, <1>4 DEF ABatch, SameCalls
<1>8. \A t \in Sessions : t # s => CarriedBy("gpu batch", u[t], u2[t])
  BY <1>3, <1>6 DEF GpuOnward, CarriedBy
<1>9. \E v : Completes(m, u, Finish(z, s), v, s, "gpu batch")
  BY <1>5, <1>6, <1>7, <1>8, FinishCompletes
<1> QED BY <1>9 DEF z

(* The end of a step of the batch of the GPU.                              *)
LEMMA GpuTickPlaces ==
  ASSUME NEW m \in SimType, NEW w \in [Sessions -> Resting], Placed(m, w),
         m.gpuBusy = TRUE, m.gpuEvent = {Tick},
         NEW y, y = [m EXCEPT !.gpuEvent = @ \ {Tick}],
         NEW x, x = GpuTickHandler(y)
  PROVE  GpuRests(x) /\ \E v : GpuTurn(m, w, x, v)
<1> DEFINE q == y.gpuDec
           n == Len(q)
           stepped == Stepped(y, q)
           L == GpuFinishLoop(stepped, q)
           z == [L[n] EXCEPT !.gpuBusy = FALSE]
<1>1. x = PumpGpu(z)
  BY DEF GpuTickHandler
<1>2. /\ y \in SimType /\ y.gpuBusy = TRUE /\ y.gpuEvent = {} /\ SameCalls(y, m)
      /\ y.hbm = m.hbm /\ y.cpu = m.cpu /\ y.c2c = m.c2c /\ y.prefillQ = m.prefillQ
      /\ y.gpuDec = m.gpuDec /\ y.cpuDec = m.cpuDec
  BY DEF SimType, SameCalls
<1>3. q \in Seq(Sessions) /\ QueueAt(Sessions, q, w, {"gpu batch"})
  BY <1>2 DEF SimType, Placed, InGpuBatch
<1>4. stepped \in SimType /\ stepped.gpuBusy = TRUE /\ stepped.gpuEvent = {}
  BY <1>2, SteppedEffect DEF SameGpu
<1>5. /\ SameCalls(stepped, y)
      /\ stepped.hbm = y.hbm /\ stepped.cpu = y.cpu /\ stepped.c2c = y.c2c
      /\ stepped.prefillQ = y.prefillQ /\ stepped.gpuDec = y.gpuDec /\ stepped.cpuDec = y.cpuDec
  BY <1>2 DEF Stepped, SimType, SameCalls
<1> HIDE DEF stepped, q
<1>6. Placed(stepped, w) /\ SameCalls(stepped, m)
  <2>1. stepped.gpuEvent \ {Tick} = m.gpuEvent \ {Tick}
    BY <1>4
  <2>2. SameCalls(stepped, m)
    BY <1>2, <1>5 DEF SameCalls
  <2> QED BY <1>2, <1>5, <2>1, <2>2, StillPlaced
<1>7. /\ L[0] = stepped
      /\ \A k \in 1..n :
           L[k] = IF stepped.left[q[k]] > 0 THEN L[k-1]
                  ELSE Finish(ReleaseHbm([L[k-1] EXCEPT !.gpuDec = Without(@, q[k])], q[k]), q[k])
      /\ \A k \in 0..n : L[k] \in GpuKept(stepped)
  BY <1>3, <1>4, GpuFinishLoopDef
<1>8. n \in Nat /\ \A k \in 1..n : q[k] \in Sessions /\ k - 1 \in 0..n
  BY <1>3, Members, Before
<1> HIDE DEF L, n
<1>9. \A k \in 0..n : L[k] \in SimType /\ L[k].gpuBusy = TRUE
  BY <1>7 DEF GpuKept
<1>10. SiftLoop(L, n, q, "gpu batch")
  <2>1. ASSUME NEW k \in 1..n, L[k] # L[k-1], NEW u \in [Sessions -> Resting],
               Placed(L[k-1], u), u[q[k]] = "gpu batch"
        PROVE  \E v : Completes(L[k-1], u, L[k], v, q[k], "gpu batch")
    <3> DEFINE a == L[k-1]
               s == q[k]
               b == [a EXCEPT !.gpuDec = Without(@, s)]
    <3>1. a \in SimType /\ a.gpuBusy = TRUE /\ s \in Sessions
      BY <1>8, <1>9
    <3>2. L[k] = Finish(ReleaseHbm(b, s), s)
      BY <1>7, <2>1
    <3>3. Placed(a, u) /\ u[s] = "gpu batch"
      BY <2>1
    <3> HIDE DEF a, s
    <3>4. \E v : Completes(a, u, L[k], v, s, "gpu batch")
      BY <3>1, <3>2, <3>3, SpentGpu
    <3> QED BY <3>4 DEF a, s
  <2> QED BY <1>9, <2>1 DEF SiftLoop
<1>11. PICK v : Sifted(stepped, w, L[n], v, "gpu batch")
  <2>1. ABatch("gpu batch")
    BY DEF ABatch
  <2> QED BY <1>3, <1>4, <1>6, <1>7, <1>10, <2>1, SiftPlaces DEF n
<1>12. L[n] \in SimType
  BY <1>8, <1>9
<1> DEFINE e == L[n]
<1> HIDE DEF e
<1>13. /\ z \in SimType /\ SameCalls(z, e) /\ z.hbm = e.hbm /\ z.cpu = e.cpu /\ z.c2c = e.c2c
       /\ z.prefillQ = e.prefillQ /\ z.gpuEvent = e.gpuEvent /\ z.gpuDec = e.gpuDec
       /\ z.cpuDec = e.cpuDec
  BY <1>12 DEF e, SimType, SameCalls
<1> HIDE DEF z
<1>14. GpuTurn(m, w, z, v)
  <2>1. v \in [Sessions -> Resting] /\ Placed(e, v) /\ e.idx = stepped.idx
    BY <1>11 DEF e, Sifted
  <2>2. Placed(z, v)
    BY <1>13, <2>1, StillPlaced
  <2>3. z.idx = m.idx /\ stepped.finished = m.finished /\ z.finished = e.finished
    BY <1>6, <1>13, <2>1 DEF SameCalls
  <2>4. ASSUME NEW t \in Sessions
        PROVE  Passes(t, m, w, z, v) /\ (v[t] = "cpu batch" => w[t] = "cpu batch")
    <3>1. Sifts(t, stepped, w, e, v, "gpu batch")
      BY <1>11 DEF e, Sifted, Sifting
    <3>2. CASE ToPrefill(w[t], v[t]) /\ e.finished[t] = stepped.finished[t]
      <4>1. Passes(t, m, w, z, v)
        BY <2>3, <3>2 DEF Passes, Carried
      <4>2. v[t] = "cpu batch" => w[t] = "cpu batch"
        BY <3>2 DEF ToPrefill, Prefills, WaitGpu, OnGpu
      <4> QED BY <4>1, <4>2
    <3>3. CASE /\ w[t] = "gpu batch" /\ v[t] \in {"arriving", "done"}
               /\ e.finished[t] = stepped.finished[t] + 1
      BY <2>3, <3>3 DEF Passes
    <3> QED BY <3>1, <3>2, <3>3 DEF Sifts, CarriedBy
  <2> QED BY <2>1, <2>2, <2>4 DEF GpuTurn
<1> QED BY <1>1, <1>13, <1>14, PumpTurn DEF z

-----------------------------------------------------------------------------
(* The turns of the CPU.  The end of a flush wakes the next transfer after *)
(* the call has been admitted, and the order makes no difference.          *)
LEMMA FinCommutes ==
  ASSUME NEW m \in SimType, NEW s \in Sessions, NEW l
  PROVE  [CpuAdmit(m, s) EXCEPT !.c2c = l] = CpuAdmit([m EXCEPT !.c2c = l], s)
<1> DEFINE Landing(x) == [x EXCEPT !.c2c = l]
           pool == Acquire(m.cpu, Kv(m), s)
           asked == [m EXCEPT !.cpu = pool]
           joined == [asked EXCEPT !.cpuDec = Append(@, s)]
<1>1. Landing(m).idx = m.idx /\ Landing(m).cpu = m.cpu
  BY DEF SimType
<1>2. Kv(Landing(m)) = Kv(m)
  BY <1>1, SameKv
<1>3. /\ [Landing(m) EXCEPT !.cpu = pool] = Landing(asked)
      /\ [Landing(asked) EXCEPT !.cpuDec = Append(@, s)] = Landing(joined)
      /\ PumpCpu(Landing(joined)) = Landing(PumpCpu(joined))
  <2> HIDE DEF pool
  <2>1. [Landing(m) EXCEPT !.cpu = pool] = Landing(asked)
    BY DEF SimType
  <2>2. [Landing(asked) EXCEPT !.cpuDec = Append(@, s)] = Landing(joined)
    BY DEF SimType
  <2>3. PumpCpu(Landing(joined)) = Landing(PumpCpu(joined))
    BY DEF SimType, PumpCpu
  <2> QED BY <2>1, <2>2, <2>3
<1>4. CpuAdmit(m, s) = IF Fits(m.cpu, Kv(m), s) THEN PumpCpu(joined) ELSE asked
  BY DEF CpuAdmit, CpuJoin
<1>5. CpuAdmit(Landing(m), s)
        = IF Fits(m.cpu, Kv(m), s) THEN PumpCpu(Landing(joined)) ELSE Landing(asked)
  <2>1. [Landing(m) EXCEPT !.cpu = Acquire(@, Kv(m), s)] = Landing(asked)
    BY <1>1, <1>3
  <2> HIDE DEF asked, joined, pool
  <2> QED BY <1>1, <1>2, <1>3, <2>1 DEF CpuAdmit, CpuJoin
<1> HIDE DEF asked, joined, pool
<1> QED BY <1>3, <1>4, <1>5

(* The end of a flush: the call joins the batch of the CPU, or it waits    *)
(* for its bytes there.                                                    *)
LEMMA C2CFinPlaces ==
  ASSUME NEW m \in SimType, NEW w \in [Sessions -> Resting], Placed(m, w), CpuRests(m),
         NEW s \in Sessions, s \in m.c2c.flying,
         NEW x, x = [CpuAdmit(m, s) EXCEPT !.c2c = Fin(m.c2c, s)]
  PROVE  CpuRests(x) /\ \E v : CpuTurn(m, w, x, v)
<1> DEFINE y == [m EXCEPT !.c2c = Fin(@, s)]
           asked == [y EXCEPT !.cpu = Acquire(@, Kv(y), s)]
           w1 == [w EXCEPT ![s] = "between"]
           b == IF Fits(y.cpu, Kv(y), s) THEN "in cpu" ELSE "cpu queue"
           w2 == [w1 EXCEPT ![s] = b]
<1>1. x = CpuAdmit(y, s)
  BY FinCommutes
<1>2. /\ y \in SimType /\ SameCpu(y, m) /\ SameCalls(y, m)
      /\ w[s] = "on link" /\ Placed(y, w1)
  BY Landed
<1>3. y.cpuDec = m.cpuDec
  BY DEF SimType
<1> HIDE DEF y
<1>4. w1[s] = "between" /\ \A t \in Sessions : t # s => w1[t] = w[t]
  OBVIOUS
<1>5. /\ asked \in SimType /\ SameCpu(asked, y) /\ SameCalls(asked, y)
      /\ Placed(asked, w2)
  BY <1>2, <1>4, TakeCpu
<1>6. asked.cpuDec = m.cpuDec
  BY <1>2, <1>3 DEF SimType
<1>7. w2[s] = b /\ \A t \in Sessions : t # s => w2[t] = w[t]
  BY <1>4
<1>8. x = IF Fits(y.cpu, Kv(y), s) THEN CpuJoin(asked, s) ELSE asked
  BY <1>1 DEF CpuAdmit
<1> HIDE DEF asked, w1, w2
<1>9. ASSUME NEW v, Placed(x, v), v[s] \in {"cpu queue", "cpu batch"},
             \A t \in Sessions : t # s => v[t] = w[t], SameCalls(x, m)
      PROVE  CpuTurn(m, w, x, v)
  <2>1. v \in [Sessions -> Resting]
    BY <1>9 DEF Placed, Resting
  <2>2. ASSUME NEW t \in Sessions
        PROVE  /\ Passes(t, m, w, x, v)
               /\ \A c \in {"prefill queue", "gpu batch"} : v[t] = c => w[t] = c
    <3>1. x.idx[t] = m.idx[t] /\ x.finished[t] = m.finished[t]
      BY <1>9 DEF SameCalls
    <3>2. CASE t = s
      BY <1>2, <1>9, <3>1, <3>2 DEF Passes, Carried
    <3>3. CASE t # s
      BY <1>9, <3>1, <3>3 DEF Passes, Carried, ToPrefill
    <3> QED BY <3>2, <3>3
  <2> QED BY <1>9, <2>1, <2>2 DEF CpuTurn
<1>10. CASE Fits(y.cpu, Kv(y), s)
  <2>1. w2[s] = "in cpu" /\ x = CpuJoin(asked, s)
    BY <1>7, <1>8, <1>10
  <2>2. /\ SameCalls(x, asked) /\ CpuRests(x)
        /\ \E v : Placed(x, v) /\ Taken(w2, v, {s}, {"cpu batch"})
    BY <1>5, <2>1, CpuJoinPlaces
  <2>3. PICK v : Placed(x, v) /\ Taken(w2, v, {s}, {"cpu batch"})
    BY <2>2
  <2>4. v[s] = "cpu batch" /\ \A t \in Sessions : t # s => v[t] = w[t]
    BY <1>7, <2>3 DEF Taken
  <2>5. SameCalls(x, m)
    BY <1>2, <1>5, <2>2 DEF SameCalls
  <2>6. CpuTurn(m, w, x, v)
    BY <1>9, <2>3, <2>4, <2>5
  <2> QED BY <2>2, <2>6
<1>11. CASE ~Fits(y.cpu, Kv(y), s)
  <2>1. w2[s] = "cpu queue" /\ x = asked
    BY <1>7, <1>8, <1>11
  <2>2. SameCalls(x, m)
    BY <1>2, <1>5, <2>1 DEF SameCalls
  <2>3. CpuTurn(m, w, x, w2)
    BY <1>5, <1>7, <1>9, <2>1, <2>2
  <2>4. CpuRests(x)
    BY <1>2, <1>5, <1>6, <2>1 DEF CpuRests, SameCpu
  <2> QED BY <2>3, <2>4
<1> QED BY <1>10, <1>11

(* A call of the batch of the CPU that has its tokens returns its bytes    *)
(* there, which may admit others, and is complete.                         *)
LEMMA SpentCpu ==
  ASSUME NEW m \in SimType, NEW u \in [Sessions -> Resting], Placed(m, u),
         NEW s \in Sessions, u[s] = "cpu batch",
         NEW y, y = [m EXCEPT !.cpuDec = Without(@, s)],
         NEW x, x = Finish(ReleaseCpu(y, s), s)
  PROVE  \E v : Completes(m, u, x, v, s, "cpu batch")
<1> DEFINE u1 == [u EXCEPT ![s] = "in cpu"]
           z == ReleaseCpu(y, s)
<1>1. y \in SimType /\ SameCalls(y, m) /\ Placed(y, u1)
  BY LeaveCpu
<1>3. u1[s] = "in cpu" /\ \A t \in Sessions : t # s => u1[t] = u[t]
  OBVIOUS
<1> HIDE DEF u1
<1>4. /\ SameCalls(z, y)
      /\ \E v : Placed(z, v) /\ v[s] = "between" /\ CpuOnward(u1, v, s)
  BY <1>1, <1>3, ReleaseCpuPlaces
<1>5. z \in SimType
  BY <1>1, ReleaseCpuEffect DEF Joined
<1> HIDE DEF z
<1>6. PICK u2 : Placed(z, u2) /\ u2[s] = "between" /\ CpuOnward(u1, u2, s)
  BY <1>4
<1>7. ABatch("cpu batch") /\ SameCalls(z, m)
  BY <1>1, <1>4 DEF ABatch, SameCalls
<1>8. \A t \in Sessions : t # s => CarriedBy("cpu batch", u[t], u2[t])
  BY <1>3, <1>6 DEF CpuOnward, CarriedBy
<1>9. \E v : Completes(m, u, Finish(z, s), v, s, "cpu batch")
  BY <1>5, <1>6, <1>7, <1>8, FinishCompletes
<1> QED BY <1>9 DEF z

(* The end of a step of the batch of the CPU.                              *)
LEMMA CpuTickPlaces ==
  ASSUME NEW m \in SimType, NEW w \in [Sessions -> Resting], Placed(m, w),
         m.cpuBusy = TRUE, m.cpuEvent = {Tick},
         NEW y, y = [m EXCEPT !.cpuEvent = @ \ {Tick}],
         NEW x, x = CpuTickHandler(y)
  PROVE  CpuRests(x) /\ \E v : CpuTurn(m, w, x, v)
<1> DEFINE q == y.cpuDec
           n == Len(q)
           stepped == Stepped(y, q)
           L == CpuFinishLoop(stepped, q)
           z == [L[n] EXCEPT !.cpuBusy = FALSE]
<1>1. x = PumpCpu(z)
  BY DEF CpuTickHandler
<1>2. /\ y \in SimType /\ y.cpuBusy = TRUE /\ y.cpuEvent = {} /\ SameCalls(y, m)
      /\ y.hbm = m.hbm /\ y.cpu = m.cpu /\ y.c2c = m.c2c /\ y.prefillQ = m.prefillQ
      /\ y.gpuEvent = m.gpuEvent /\ y.gpuDec = m.gpuDec /\ y.cpuDec = m.cpuDec
  BY DEF SimType, SameCalls
<1>3. q \in Seq(Sessions) /\ QueueAt(Sessions, q, w, {"cpu batch"})
  BY <1>2 DEF SimType, Placed, InCpuBatch
<1>4. stepped \in SimType /\ stepped.cpuBusy = TRUE /\ stepped.cpuEvent = {}
  BY <1>2, SteppedEffect DEF SameCpu
<1>5. /\ SameCalls(stepped, y)
      /\ stepped.hbm = y.hbm /\ stepped.cpu = y.cpu /\ stepped.c2c = y.c2c
      /\ stepped.prefillQ = y.prefillQ /\ stepped.gpuEvent = y.gpuEvent
      /\ stepped.gpuDec = y.gpuDec /\ stepped.cpuDec = y.cpuDec
  BY <1>2 DEF Stepped, SimType, SameCalls
<1> HIDE DEF stepped, q
<1>6. Placed(stepped, w) /\ SameCalls(stepped, m)
  <2>1. stepped.gpuEvent \ {Tick} = m.gpuEvent \ {Tick}
    BY <1>2, <1>5
  <2>2. SameCalls(stepped, m)
    BY <1>2, <1>5 DEF SameCalls
  <2> QED BY <1>2, <1>5, <2>1, <2>2, StillPlaced
<1>7. /\ L[0] = stepped
      /\ \A k \in 1..n :
           L[k] = IF stepped.left[q[k]] > 0 THEN L[k-1]
                  ELSE Finish(ReleaseCpu([L[k-1] EXCEPT !.cpuDec = Without(@, q[k])], q[k]), q[k])
      /\ \A k \in 0..n : L[k] \in CpuKept(stepped)
  BY <1>3, <1>4, CpuFinishLoopDef
<1>8. n \in Nat /\ \A k \in 1..n : q[k] \in Sessions /\ k - 1 \in 0..n
  BY <1>3, Members, Before
<1> HIDE DEF L, n
<1>9. \A k \in 0..n : L[k] \in SimType /\ L[k].cpuBusy = TRUE
  BY <1>7 DEF CpuKept
<1>10. SiftLoop(L, n, q, "cpu batch")
  <2>1. ASSUME NEW k \in 1..n, L[k] # L[k-1], NEW u \in [Sessions -> Resting],
               Placed(L[k-1], u), u[q[k]] = "cpu batch"
        PROVE  \E v : Completes(L[k-1], u, L[k], v, q[k], "cpu batch")
    <3> DEFINE a == L[k-1]
               s == q[k]
               b == [a EXCEPT !.cpuDec = Without(@, s)]
    <3>1. a \in SimType /\ s \in Sessions
      BY <1>8, <1>9
    <3>2. L[k] = Finish(ReleaseCpu(b, s), s)
      BY <1>7, <2>1
    <3>3. Placed(a, u) /\ u[s] = "cpu batch"
      BY <2>1
    <3> HIDE DEF a, s
    <3>4. \E v : Completes(a, u, L[k], v, s, "cpu batch")
      BY <3>1, <3>2, <3>3, SpentCpu
    <3> QED BY <3>4 DEF a, s
  <2> QED BY <1>9, <2>1 DEF SiftLoop
<1>11. PICK v : Sifted(stepped, w, L[n], v, "cpu batch")
  <2>1. ABatch("cpu batch")
    BY DEF ABatch
  <2> QED BY <1>3, <1>4, <1>6, <1>7, <1>10, <2>1, SiftPlaces DEF n
<1>12. L[n] \in SimType
  BY <1>8, <1>9
<1> DEFINE e == L[n]
<1> HIDE DEF e
<1>13. /\ z \in SimType /\ SameCalls(z, e) /\ z.hbm = e.hbm /\ z.cpu = e.cpu /\ z.c2c = e.c2c
       /\ z.prefillQ = e.prefillQ /\ z.gpuEvent = e.gpuEvent /\ z.gpuDec = e.gpuDec
       /\ z.cpuDec = e.cpuDec
  BY <1>12 DEF e, SimType, SameCalls
<1> HIDE DEF z
<1>14. CpuTurn(m, w, z, v)
  <2>1. v \in [Sessions -> Resting] /\ Placed(e, v) /\ e.idx = stepped.idx
    BY <1>11 DEF e, Sifted
  <2>2. Placed(z, v)
    BY <1>13, <2>1, StillPlaced
  <2>3. z.idx = m.idx /\ stepped.finished = m.finished /\ z.finished = e.finished
    BY <1>6, <1>13, <2>1 DEF SameCalls
  <2>4. ASSUME NEW t \in Sessions
        PROVE  /\ Passes(t, m, w, z, v)
               /\ \A c \in {"prefill queue", "gpu batch"} : v[t] = c => w[t] = c
    <3>1. Sifts(t, stepped, w, e, v, "cpu batch")
      BY <1>11 DEF e, Sifted, Sifting
    <3>2. CASE ToCpu(w[t], v[t]) /\ e.finished[t] = stepped.finished[t]
      <4>1. Passes(t, m, w, z, v)
        BY <2>3, <3>2 DEF Passes, Carried
      <4>2. \A c \in {"prefill queue", "gpu batch"} : v[t] = c => w[t] = c
        BY <3>2 DEF ToCpu
      <4> QED BY <4>1, <4>2
    <3>3. CASE /\ w[t] = "cpu batch" /\ v[t] \in {"arriving", "done"}
               /\ e.finished[t] = stepped.finished[t] + 1
      BY <2>3, <3>3 DEF Passes
    <3> QED BY <3>1, <3>2, <3>3 DEF Sifts, CarriedBy
  <2> QED BY <2>1, <2>2, <2>4 DEF CpuTurn
<1>15. SameCalls(x, z) /\ CpuRests(x) /\ Placed(x, v)
  <2>1. Placed(z, v)
    BY <1>14 DEF CpuTurn
  <2> QED BY <1>1, <1>13, <2>1, PumpCpuPlaces
<1>16. CpuTurn(m, w, x, v)
  <2>1. \A t \in Sessions : Passes(t, m, w, x, v) <=> Passes(t, m, w, z, v)
    BY <1>15 DEF SameCalls, Passes
  <2> QED BY <1>14, <1>15, <2>1 DEF CpuTurn
<1> QED BY <1>15, <1>16

-----------------------------------------------------------------------------
(* The stronger inductive invariant: between two events every session is   *)
(* in a stage of rest, and an engine that does nothing has nothing to do.  *)
AtRest(m, w) ==
  /\ w \in [Sessions -> Resting] /\ Placed(m, w)
  /\ GpuRests(m) /\ CpuRests(m)

PInv == IInv /\ \E w : AtRest(sim, w)

(* One turn of the event loop, as seen by the stages.                      *)
Turn(m, w, x, v) ==
  AtRest(x, v) /\ \A t \in Sessions : Passes(t, m, w, x, v)

(* A turn of one engine is a turn, as the other engine still rests.        *)
LEMMA GpuTurnRests ==
  ASSUME NEW m, NEW w, AtRest(m, w), NEW x \in SimType, GpuRests(x), SameCpu(x, m),
         \E v : GpuTurn(m, w, x, v)
  PROVE  \E v : Turn(m, w, x, v)
<1>1. PICK v : GpuTurn(m, w, x, v)
  OBVIOUS
<1>2. /\ v \in [Sessions -> Resting] /\ Placed(x, v)
      /\ \A t \in Sessions : Passes(t, m, w, x, v)
      /\ \A t \in Sessions : v[t] = "cpu batch" => w[t] = "cpu batch"
  BY <1>1 DEF GpuTurn
<1>3. Placed(m, w) /\ CpuRests(m) /\ x.cpuBusy = m.cpuBusy
  BY DEF AtRest, SameCpu
<1>4. CpuRests(x)
  BY <1>2, <1>3, CpuStillRests
<1> QED BY <1>2, <1>4 DEF Turn, AtRest

LEMMA CpuTurnRests ==
  ASSUME NEW m, NEW w, AtRest(m, w), NEW x \in SimType, CpuRests(x), SameGpu(x, m),
         \E v : CpuTurn(m, w, x, v)
  PROVE  \E v : Turn(m, w, x, v)
<1>1. PICK v : CpuTurn(m, w, x, v)
  OBVIOUS
<1>2. /\ v \in [Sessions -> Resting] /\ Placed(x, v)
      /\ \A t \in Sessions : Passes(t, m, w, x, v)
      /\ \A t \in Sessions : \A b \in {"prefill queue", "gpu batch"} : v[t] = b => w[t] = b
  BY <1>1 DEF CpuTurn
<1>3. Placed(m, w) /\ GpuRests(m) /\ x.gpuBusy = m.gpuBusy
  BY DEF AtRest, SameGpu
<1>4. GpuRests(x)
  BY <1>2, <1>3, GpuStillRests
<1> QED BY <1>2, <1>4 DEF Turn, AtRest

(* At the start every session is arriving.                                 *)
LEMMA InitRests == Init => PInv
<1> SUFFICES ASSUME NEW policy \in Policies, sim = InitialSim(policy) PROVE \E w : AtRest(sim, w)
  BY InitHolds DEF Init, PInv
<1> DEFINE w == [s \in Sessions |-> "arriving"]
<1>1. /\ sim.hbm = EmptyPool(HbmCap) /\ sim.cpu = EmptyPool(CpuCap) /\ sim.c2c = IdleLink
      /\ sim.prefillQ = <<>> /\ sim.gpuDec = <<>> /\ sim.cpuDec = <<>> /\ sim.gpuEvent = {}
      /\ sim.arrivals = {<<s, 1>> : s \in Sessions}
      /\ sim.finished = [s \in Sessions |-> 0] /\ sim.idx = [s \in Sessions |-> 1]
  BY DEF InitialSim
<1>2. w \in [Sessions -> Stages] /\ w \in [Sessions -> Resting]
  BY DEF Stages, Resting
<1>3. /\ In(Sessions, w, WaitHbm) = {} /\ In(Sessions, w, HasHbm) = {} /\ In(Sessions, w, WaitCpu) = {}
      /\ In(Sessions, w, HasCpu) = {} /\ In(Sessions, w, WaitGpu) = {} /\ In(Sessions, w, OnGpu) = {}
      /\ In(Sessions, w, InGpuBatch) = {} /\ In(Sessions, w, InCpuBatch) = {}
  BY StageSets DEF In
<1>4. Range(<<>>) = {} /\ \A C : Distinct(<<>>) /\ <<>> \in Seq(C)
  BY DEF Range, Distinct
<1>5. ASSUME NEW cap \in Int, NEW need
      PROVE  PoolSound(Sessions, EmptyPool(cap), {}, need, cap)
  <2>1. Bytes({}, need) = {}
    BY DEF Bytes
  <2>2. Cardinality(Bytes({}, need)) = 0
    BY <2>1, FS_EmptySet
  <2>3. EmptyPool(cap).q = <<>> /\ EmptyPool(cap).free = cap /\ EmptyPool(cap) \in Pools(Sessions)
    BY <1>4 DEF EmptyPool, Pools
  <2> QED BY <1>4, <2>2, <2>3 DEF PoolSound, Blocked
<1>6. /\ PoolAt(Sessions, sim.hbm, w, WaitHbm, HasHbm, Kv(sim), HbmCap)
      /\ PoolAt(Sessions, sim.cpu, w, WaitCpu, HasCpu, Kv(sim), CpuCap)
  <2>1. sim.hbm.q = <<>> /\ sim.cpu.q = <<>>
    BY <1>1 DEF EmptyPool
  <2> QED BY <1>1, <1>3, <1>4, <1>5, <2>1, CapTypes DEF PoolAt
<1>7. LinkAt(sim.c2c, w)
  <2>1. sim.c2c.q = <<>> /\ sim.c2c.flying = {} /\ Len(<<>>) = 0
    BY <1>1 DEF IdleLink
  <2> QED BY <1>4, <2>1 DEF LinkAt, Once, Rested, Jobs
<1>8. ArrivalsAt(sim.arrivals, w)
  <2>1. \A e \in sim.arrivals : e = <<e[1], 1>> /\ e[1] \in Sessions
    BY <1>1
  <2>2. \A s \in Sessions : <<s, 1>> \in sim.arrivals /\ <<s, 1>>[1] = s
    BY <1>1
  <2>3. \A s \in Sessions : \E e \in sim.arrivals : e[1] = s
    BY <2>2
  <2> QED BY <2>1, <2>3 DEF ArrivalsAt
<1>9. /\ QueueAt(Sessions, sim.prefillQ, w, WaitGpu) /\ QueueAt(Sessions, sim.gpuDec, w, InGpuBatch)
      /\ QueueAt(Sessions, sim.cpuDec, w, InCpuBatch) /\ sim.gpuEvent \ {Tick} = In(Sessions, w, OnGpu)
  BY <1>1, <1>3, <1>4 DEF QueueAt
<1>10. ASSUME NEW s \in Sessions
       PROVE  ProgressOf(s, w[s], sim.idx[s], sim.finished[s], sim.arrivals)
  <2>1. sim.finished[s] = 0 /\ sim.idx[s] = 1 /\ <<s, 0 + 1>> \in sim.arrivals /\ w[s] = "arriving"
    BY <1>1
  <2> QED BY <2>1 DEF ProgressOf
<1> HIDE DEF w
<1>11. Placed(sim, w)
  BY <1>2, <1>6, <1>7, <1>8, <1>9, <1>10 DEF Placed
<1>12. AtRest(sim, w)
  BY <1>1, <1>2, <1>11 DEF AtRest, GpuRests, CpuRests
<1> QED BY <1>12

(* Every turn of the event loop brings the sessions to rest again, each    *)
(* of them carried on as Passes says.                                      *)
LEMMA TurnRests ==
  ASSUME IInv, NEW w, AtRest(sim, w), Next
  PROVE  \E v : Turn(sim, w, sim', v)
<1>1. /\ sim \in SimType /\ w \in [Sessions -> Resting] /\ Placed(sim, w)
      /\ GpuRests(sim) /\ CpuRests(sim)
  BY DEF IInv, TypeOK, AtRest
<1>2. ASSUME NEW s \in Sessions, Arrive(s) PROVE \E v : Turn(sim, w, sim', v)
  <2>1. PICK i \in 1..(Len(Trace[s]) + 1) :
          /\ <<s, i>> \in sim.arrivals
          /\ sim' = ArriveHandler([sim EXCEPT !.arrivals = @ \ {<<s, i>>}], s, i)
    BY <1>2 DEF Arrive
  <2> DEFINE y == [sim EXCEPT !.arrivals = @ \ {<<s, i>>}]
  <2>2. y \in SimType /\ SameGpu(y, sim) /\ SameCpu(y, sim)
    BY <1>1 DEF SimType, SameGpu, SameCpu
  <2>3. i \in Nat \ {0} /\ <<s, i>> \in sim.arrivals /\ sim' = ArriveHandler(y, s, i)
    BY <2>1
  <2>4. sim' \in SimType
    BY <1>2, ArriveStep DEF IInv, TypeOK
  <2>5. y = [sim EXCEPT !.arrivals = @ \ {<<s, i>>}]
    OBVIOUS
  <2> HIDE DEF y
  <2>6. GpuRests(sim') /\ \E v : GpuTurn(sim, w, sim', v)
    BY <1>1, <2>3, <2>4, <2>5, ArrivePlaces
  <2>7. GpuCalm(y)
    BY <2>2 DEF IInv, GpuOnce, GpuCalm, SameGpu
  <2>8. sim' \in Woken(y)
    BY <2>2, <2>3, <2>7, ArriveEffect
  <2>9. SameCpu(sim', sim)
    BY <2>2, <2>8 DEF Woken, SameCpu
  <2> QED BY <2>4, <2>6, <2>9, GpuTurnRests
<1>3. ASSUME NEW s \in Sessions, PrefillDone(s) PROVE \E v : Turn(sim, w, sim', v)
  <2> DEFINE y == [sim EXCEPT !.gpuEvent = @ \ {s}]
  <2>1. sim.gpuEvent = {s} /\ sim' = PrefillDoneHandler(y, s)
    BY <1>3, OnlyEvent DEF PrefillDone
  <2>2. y \in SimType /\ y.gpuEvent = {} /\ SameCpu(y, sim)
    BY <1>1, <2>1 DEF SimType, SameCpu
  <2>3. GpuRests(sim') /\ \E v : GpuTurn(sim, w, sim', v)
    BY <1>1, <2>1, PrefillDonePlaces
  <2> HIDE DEF y
  <2>4. sim' \in SimType /\ SameCpu(sim', y)
    BY <2>1, <2>2, PrefillDoneEffect
  <2>5. SameCpu(sim', sim)
    BY <2>2, <2>4 DEF SameCpu
  <2> QED BY <2>3, <2>4, <2>5, GpuTurnRests
<1>4. ASSUME NEW s \in Sessions, C2CFin(s) PROVE \E v : Turn(sim, w, sim', v)
  <2> DEFINE y == CpuAdmit(sim, s)
             link == Fin(sim.c2c, s)
  <2>1. y.c2c = sim.c2c /\ y \in Joined(sim)
    BY <1>1, CpuAdmitEffect DEF CpuAdmit, CpuJoin, PumpCpu, SimType
  <2>2. s \in sim.c2c.flying /\ sim' = [y EXCEPT !.c2c = Fin(@, s)]
    BY <1>4 DEF C2CFin
  <2>3. y \in SimType /\ SameGpu(y, sim)
    BY <2>1 DEF Joined
  <2> HIDE DEF y
  <2>4. sim' = [y EXCEPT !.c2c = link]
    BY <2>1, <2>2, <2>3 DEF SimType
  <2>5. CpuRests(sim') /\ \E v : CpuTurn(sim, w, sim', v)
    BY <1>1, <2>2, <2>4, C2CFinPlaces DEF y
  <2>6. sim' \in SimType
    BY <1>4, C2CFinStep DEF IInv, TypeOK
  <2> HIDE DEF link
  <2>7. SameGpu(sim', sim)
    BY <2>3, <2>4 DEF SameGpu, SimType
  <2> QED BY <2>5, <2>6, <2>7, CpuTurnRests
<1>5. ASSUME GpuTick PROVE \E v : Turn(sim, w, sim', v)
  <2> DEFINE y == [sim EXCEPT !.gpuEvent = @ \ {Tick}]
  <2>1. sim.gpuBusy = TRUE /\ sim.gpuEvent = {Tick} /\ sim' = GpuTickHandler(y)
    BY <1>5, OnlyEvent DEF GpuTick
  <2>2. y \in SimType /\ y.gpuBusy = TRUE /\ y.gpuEvent = {} /\ SameCpu(y, sim)
    BY <1>1, <2>1 DEF SimType, SameCpu
  <2>3. GpuRests(sim') /\ \E v : GpuTurn(sim, w, sim', v)
    BY <1>1, <2>1, GpuTickPlaces
  <2> HIDE DEF y
  <2>4. sim' \in SimType /\ SameCpu(sim', y)
    BY <2>1, <2>2, GpuTickEffect
  <2>5. SameCpu(sim', sim)
    BY <2>2, <2>4 DEF SameCpu
  <2> QED BY <2>3, <2>4, <2>5, GpuTurnRests
<1>6. ASSUME CpuTick PROVE \E v : Turn(sim, w, sim', v)
  <2> DEFINE y == [sim EXCEPT !.cpuEvent = @ \ {Tick}]
  <2>1. sim.cpuBusy = TRUE /\ sim.cpuEvent = {Tick} /\ sim' = CpuTickHandler(y)
    <3>1. sim.cpuBusy /\ sim.cpuBusy \in BOOLEAN /\ sim.cpuEvent \in SUBSET {Tick}
      BY <1>1, <1>6 DEF CpuTick, IInv, CpuOnce, SimType
    <3> QED BY <1>6, <3>1 DEF CpuTick
  <2>2. y \in SimType /\ y.cpuBusy = TRUE /\ y.cpuEvent = {} /\ SameGpu(y, sim)
    BY <1>1, <2>1 DEF SimType, SameGpu
  <2>3. CpuRests(sim') /\ \E v : CpuTurn(sim, w, sim', v)
    BY <1>1, <2>1, CpuTickPlaces
  <2> HIDE DEF y
  <2>4. sim' \in SimType /\ SameGpu(sim', y)
    BY <2>1, <2>2, CpuTickEffect
  <2>5. SameGpu(sim', sim)
    BY <2>2, <2>4 DEF SameGpu
  <2> QED BY <2>3, <2>4, <2>5, CpuTurnRests
<1> QED BY <1>2, <1>3, <1>4, <1>5, <1>6 DEF Next

LEMMA StepRests ==
  ASSUME PInv, [Next]_sim
  PROVE  PInv'
<1>1. PICK w : AtRest(sim, w)
  BY DEF PInv
<1>2. IInv /\ IInv'
  BY StepKeeps DEF PInv
<1>3. CASE Next
  <2>1. PICK v : Turn(sim, w, sim', v)
    BY <1>1, <1>2, <1>3, TurnRests
  <2> QED BY <1>2, <2>1 DEF PInv, Turn
<1>4. CASE UNCHANGED sim
  BY <1>1, <1>2, <1>4 DEF PInv
<1> QED BY <1>3, <1>4

(* Who holds bytes, read off the stages between two events.                *)
LEMMA HoldersAtRest ==
  ASSUME NEW m \in SimType, NEW w, AtRest(m, w)
  PROVE  /\ HbmHolders(m) = In(Sessions, w, HasHbm)
         /\ Range(m.cpuDec) = In(Sessions, w, HasCpu)
<1>1. w \in [Sessions -> Resting] /\ Placed(m, w)
  BY DEF AtRest
<1>2. /\ Range(m.prefillQ) = In(Sessions, w, WaitGpu) /\ m.gpuEvent \ {Tick} = In(Sessions, w, OnGpu)
      /\ Range(m.gpuDec) = In(Sessions, w, InGpuBatch) /\ Range(m.cpuDec) = In(Sessions, w, InCpuBatch)
  BY <1>1 DEF Placed, QueueAt
<1>3. In(Sessions, w, HasHbm)
        = In(Sessions, w, WaitGpu) \cup In(Sessions, w, OnGpu) \cup In(Sessions, w, InGpuBatch)
  BY <1>1, StageSets DEF In, Resting
<1>4. In(Sessions, w, HasCpu) = In(Sessions, w, InCpuBatch)
  BY <1>1, StageSets DEF In, Resting
<1> QED BY <1>2, <1>3, <1>4 DEF HbmHolders

(* No byte of HBM or of the CPU leaks or is handed out twice, on none of   *)
(* the three exits: the last token on the GPU, the offload, and the last   *)
(* token on the CPU.                                                       *)
THEOREM NoByteIsLost == Spec => []BytesConserved
<1>1. ASSUME PInv PROVE BytesConserved
  <2>1. PICK w : AtRest(sim, w)
    BY <1>1 DEF PInv
  <2>2. sim \in SimType
    BY <1>1 DEF PInv, IInv, TypeOK
  <2>3. HbmHolders(sim) = In(Sessions, w, HasHbm) /\ Range(sim.cpuDec) = In(Sessions, w, HasCpu)
    BY <2>1, <2>2, HoldersAtRest
  <2> QED BY <2>1, <2>3 DEF BytesConserved, AtRest, Placed, PoolAt, PoolSound
<1> QED BY InitRests, StepRests, <1>1, PTL DEF Spec

(* No wake-up is lost: whatever the GPU, the CPU engine, the link or a     *)
(* pool could start has been started when the handler of an event returns. *)
THEOREM NobodyIsForgotten == Spec => []NothingForgotten
<1>1. ASSUME PInv PROVE NothingForgotten
  <2>1. PICK w : AtRest(sim, w)
    BY <1>1 DEF PInv
  <2> QED BY <2>1 DEF AtRest, GpuRests, CpuRests, NothingForgotten, Placed, PoolAt, PoolSound,
                      Blocked, LinkAt, Rested
<1> QED BY InitRests, StepRests, <1>1, PTL DEF Spec

-----------------------------------------------------------------------------
(* Each part of Places of a session between two events.                    *)
LEMMA PlacesAtRest ==
  ASSUME NEW m \in SimType, NEW w, AtRest(m, w), NEW s \in Sessions
  PROVE  /\ AtMostOne(Places(m, s))
         /\ Places(m, s) # {} <=> w[s] # "done"
<1> DEFINE A == {"arrival"} \X {e \in m.arrivals : e[1] = s}
           H == Positions("hbm queue", m.hbm.q, s)
           P == Positions("prefill queue", m.prefillQ, s)
           G == {"prefilling"} \X (m.gpuEvent \cap {s})
           B == Positions("gpu batch", m.gpuDec, s)
           L == Positions("link queue", m.c2c.q, s)
           F == {"flushing"} \X (m.c2c.flying \cap {s})
           C == Positions("cpu queue", m.cpu.q, s)
           D == Positions("cpu batch", m.cpuDec, s)
<1>1. Places(m, s) = A \cup H \cup P \cup G \cup B \cup L \cup F \cup C \cup D
  BY DEF Places
<1>2. w \in [Sessions -> Resting] /\ Placed(m, w)
  BY DEF AtRest
<1>3. AtMostOne(A) /\ (A # {} <=> w[s] = "arriving")
  <2> DEFINE E == {e \in m.arrivals : e[1] = s}
  <2>1. (\A e, f \in E : e = f) /\ (E # {} <=> w[s] = "arriving")
    BY <1>2 DEF Placed, ArrivalsAt
  <2> HIDE DEF E
  <2>2. AtMostOne({"arrival"} \X E) /\ ({"arrival"} \X E # {} <=> E # {})
    BY <2>1, OneNamed
  <2> QED BY <2>1, <2>2 DEF E
<1>4. ASSUME NEW q \in Seq(Sessions), Distinct(q), NEW name
      PROVE  /\ AtMostOne(Positions(name, q, s))
             /\ Positions(name, q, s) # {} <=> s \in Range(q)
  <2>1. \A i, j \in DOMAIN q : q[i] = s /\ q[j] = s => i = j
    BY <1>4 DEF Distinct
  <2> QED BY <2>1, OnePosition DEF Positions
<1>5. /\ m.hbm.q \in Seq(Sessions) /\ Distinct(m.hbm.q)
      /\ m.cpu.q \in Seq(Sessions) /\ Distinct(m.cpu.q)
      /\ m.prefillQ \in Seq(Sessions) /\ Distinct(m.prefillQ)
      /\ m.gpuDec \in Seq(Sessions) /\ Distinct(m.gpuDec)
      /\ m.cpuDec \in Seq(Sessions) /\ Distinct(m.cpuDec)
  BY <1>2 DEF Placed, PoolAt, PoolSound, QueueAt, Pools, SimType
<1>6. /\ s \in Range(m.hbm.q) <=> w[s] = "hbm queue"
      /\ s \in Range(m.cpu.q) <=> w[s] = "cpu queue"
      /\ s \in Range(m.prefillQ) <=> w[s] = "prefill queue"
      /\ s \in Range(m.gpuDec) <=> w[s] = "gpu batch"
      /\ s \in Range(m.cpuDec) <=> w[s] = "cpu batch"
  BY <1>2, StageSets DEF Placed, PoolAt, QueueAt, In
<1>7. /\ AtMostOne(H) /\ (H # {} <=> w[s] = "hbm queue")
      /\ AtMostOne(C) /\ (C # {} <=> w[s] = "cpu queue")
      /\ AtMostOne(P) /\ (P # {} <=> w[s] = "prefill queue")
      /\ AtMostOne(B) /\ (B # {} <=> w[s] = "gpu batch")
      /\ AtMostOne(D) /\ (D # {} <=> w[s] = "cpu batch")
  BY <1>4, <1>5, <1>6
<1>8. AtMostOne(G) /\ (G # {} <=> w[s] = "prefilling")
  <2> DEFINE E == m.gpuEvent \cap {s}
  <2>1. s \in m.gpuEvent <=> w[s] = "prefilling"
    <3>1. s \in m.gpuEvent <=> s \in m.gpuEvent \ {Tick}
      BY DynAssumption
    <3> QED BY <1>2, <3>1, StageSets DEF Placed, In
  <2>2. (\A e, f \in E : e = f) /\ (E # {} <=> w[s] = "prefilling")
    BY <2>1
  <2> HIDE DEF E
  <2>3. AtMostOne({"prefilling"} \X E) /\ ({"prefilling"} \X E # {} <=> E # {})
    BY <2>2, OneNamed
  <2> QED BY <2>2, <2>3 DEF E
<1>9. AtMostOne(L \cup F) /\ (L \cup F # {} <=> w[s] = "on link")
  <2> DEFINE q == m.c2c.q
             E == m.c2c.flying \cap {s}
  <2>1. /\ Once(m.c2c, Sessions) /\ q \in Seq(Sessions)
        /\ s \in m.c2c.flying \cup Range(q) <=> w[s] = "on link"
    BY <1>2 DEF Placed, LinkAt, SimType, Links, Jobs
  <2>2. DOMAIN q = 1..Len(q)
    <3>1. q \in Seq(Sessions)
      BY <2>1
    <3> HIDE DEF q
    <3> QED BY <3>1
  <2>3. /\ \A i, j \in DOMAIN q : q[i] = s /\ q[j] = s => i = j
        /\ s \in Range(q) => s \notin m.c2c.flying
    BY <2>1, <2>2 DEF Once, Range
  <2>4. AtMostOne(L) /\ (L # {} <=> s \in Range(q))
    BY <2>3, OnePosition DEF Positions
  <2>5. (\A e, f \in E : e = f) /\ (E # {} <=> s \in m.c2c.flying)
    OBVIOUS
  <2> HIDE DEF E
  <2>6. AtMostOne({"flushing"} \X E) /\ ({"flushing"} \X E # {} <=> E # {})
    BY <2>5, OneNamed
  <2>7. AtMostOne(F) /\ (F # {} <=> s \in m.c2c.flying)
    BY <2>5, <2>6 DEF E
  <2> HIDE DEF L, F, q
  <2>8. L = {} \/ F = {}
    BY <2>3, <2>4, <2>7
  <2>9. L \cup F = L \/ L \cup F = F
    BY <2>8
  <2>10. L \cup F # {} <=> L # {} \/ F # {}
    OBVIOUS
  <2> QED BY <2>1, <2>4, <2>7, <2>9, <2>10
<1>10. w[s] \in Resting
  BY <1>2
<1> HIDE DEF A, H, P, G, B, L, F, C, D
<1> DEFINE LF == L \cup F
<1>11. Places(m, s) = A \cup H \cup P \cup G \cup B \cup LF \cup C \cup D
  BY <1>1
<1> HIDE DEF LF
<1>12. /\ A # {} <=> w[s] = "arriving"
       /\ H # {} <=> w[s] = "hbm queue"
       /\ P # {} <=> w[s] = "prefill queue"
       /\ G # {} <=> w[s] = "prefilling"
       /\ B # {} <=> w[s] = "gpu batch"
       /\ LF # {} <=> w[s] = "on link"
       /\ C # {} <=> w[s] = "cpu queue"
       /\ D # {} <=> w[s] = "cpu batch"
  BY <1>3, <1>7, <1>8, <1>9 DEF LF
<1>13. \E X \in {A, H, P, G, B, LF, C, D} :
          Places(m, s) = X /\ (X # {} <=> w[s] # "done")
  BY <1>10, <1>11, <1>12 DEF Resting
<1>14. \A X \in {A, H, P, G, B, LF, C, D} : AtMostOne(X)
  BY <1>3, <1>7, <1>8, <1>9 DEF LF
<1> QED BY <1>13, <1>14

(* A session is in one place at a time, on the GPU, on the CPU or between  *)
(* them, and nowhere only when all its calls are completed, each once and  *)
(* in order.                                                               *)
THEOREM OneCallPerSession == Spec => []OnePlace
<1>1. ASSUME PInv PROVE OnePlace
  <2>1. PICK w : AtRest(sim, w)
    BY <1>1 DEF PInv
  <2>2. sim \in SimType
    BY <1>1 DEF PInv, IInv, TypeOK
  <2> SUFFICES ASSUME NEW s \in Sessions
               PROVE  /\ Cardinality(Places(sim, s)) <= 1
                      /\ Places(sim, s) = {} => sim.finished[s] = Len(Trace[s])
                      /\ Places(sim, s) # {} =>
                           \/ sim.finished[s] = sim.idx[s] - 1
                           \/ <<s, sim.finished[s] + 1>> \in sim.arrivals
    BY DEF OnePlace
  <2>3. AtMostOne(Places(sim, s)) /\ (Places(sim, s) # {} <=> w[s] # "done")
    BY <2>1, <2>2, PlacesAtRest
  <2>4. ProgressOf(s, w[s], sim.idx[s], sim.finished[s], sim.arrivals)
    BY <2>1 DEF AtRest, Placed
  <2>5. Cardinality(Places(sim, s)) <= 1
    BY <2>3, AtMostOneCounts
  <2> QED BY <2>3, <2>4, <2>5 DEF ProgressOf
<1> QED BY InitRests, StepRests, <1>1, PTL DEF Spec

-----------------------------------------------------------------------------
(***************************************************************************)
(* The scheduler implements Serving.  At, the refinement mapping, is read  *)
(* off the stages: ServedAs is the stage of Serving.  A turn of the event  *)
(* loop, which may move many sessions, is a step of Serving, as Passes     *)
(* says how each of them moves.                                            *)
(***************************************************************************)
ServedAs(a) ==
  IF a = "hbm queue" THEN "waiting"
  ELSE IF a \in {"prefill queue", "prefilling", "gpu batch"} THEN "resident"
  ELSE IF a \in {"on link", "cpu queue", "cpu batch"} THEN "away"
  ELSE "done"

Served(m, w, s) ==
  IF w[s] = "arriving" THEN [call |-> m.finished[s] + 1, stage |-> "thinking"]
                       ELSE [call |-> m.idx[s], stage |-> ServedAs(w[s])]

(* What Serving sees of a session that rests.                              *)
LEMMA AtOfServed ==
  ASSUME NEW m \in SimType, NEW w, AtRest(m, w), NEW s \in Sessions
  PROVE  At(m)[s] = Served(m, w, s)
<1>1. w \in [Sessions -> Resting] /\ Placed(m, w)
  BY DEF AtRest
<1>2. /\ w[s] = "arriving" <=> \E e \in m.arrivals : e[1] = s
      /\ \A e \in m.arrivals : e[1] = s => w[s] = "arriving"
      /\ \A e, f \in m.arrivals : e[1] = f[1] => e = f
  BY <1>1 DEF Placed, ArrivalsAt
<1>3. CASE w[s] = "arriving"
  <2> DEFINE e == CHOOSE e \in m.arrivals : e[1] = s
  <2>1. e \in m.arrivals /\ e[1] = s
    BY <1>2, <1>3
  <2>2. <<s, m.finished[s] + 1>> \in m.arrivals
    BY <1>1, <1>3 DEF Placed, ProgressOf
  <2>3. e = <<s, m.finished[s] + 1>>
    BY <1>2, <2>1, <2>2
  <2>4. At(m)[s] = [call |-> e[2], stage |-> "thinking"]
    BY <1>2, <1>3 DEF At
  <2> HIDE DEF e
  <2>5. e[2] = m.finished[s] + 1
    BY <2>3
  <2> QED BY <1>3, <2>4, <2>5 DEF Served
<1>4. CASE w[s] # "arriving"
  <2>1. HbmHolders(m) = In(Sessions, w, HasHbm) /\ Range(m.cpuDec) = In(Sessions, w, HasCpu)
    BY HoldersAtRest
  <2>2. /\ s \in Range(m.hbm.q) <=> w[s] = "hbm queue"
        /\ s \in HbmHolders(m) <=> w[s] \in {"prefill queue", "prefilling", "gpu batch"}
        /\ s \in Flushing(m) <=> w[s] = "on link"
        /\ s \in Range(m.cpu.q) <=> w[s] = "cpu queue"
        /\ s \in Range(m.cpuDec) <=> w[s] = "cpu batch"
    BY <1>1, <2>1, StageSets DEF Placed, PoolAt, LinkAt, Jobs, Flushing, In, Resting
  <2>3. At(m)[s] = [call |-> m.idx[s],
                    stage |-> CASE s \in Range(m.hbm.q) -> "waiting"
                                [] s \in HbmHolders(m)  -> "resident"
                                [] s \in Flushing(m) \cup Range(m.cpu.q) \cup Range(m.cpuDec) -> "away"
                                [] OTHER                -> "done"]
    BY <1>2, <1>4 DEF At
  <2>4. At(m)[s] = [call |-> m.idx[s], stage |-> ServedAs(w[s])]
    BY <2>2, <2>3 DEF ServedAs
  <2> QED BY <1>4, <2>4 DEF Served
<1> QED BY <1>3, <1>4

(* The sizes of the calls, as Serving is given them.                       *)
Sizes == [s \in Sessions |-> [i \in DOMAIN Trace[s] |-> Trace[s][i].kv]]

LEMMA SizesOfCalls ==
  ASSUME NEW s \in Sessions
  PROVE  /\ Len(Trace[s]) \in Nat /\ DOMAIN Sizes[s] = 1..Len(Trace[s])
         /\ Len(Sizes[s]) = Len(Trace[s])
         /\ \A i \in 1..Len(Trace[s]) : Sizes[s][i] = Trace[s][i].kv
<1> DEFINE f == Sizes[s]
           n == Len(Trace[s])
           R == [kv : Nat, output : Int]
<1>1. Trace[s] \in Seq(R) /\ \A r \in R : r.kv \in Nat
  BY DynAssumption
<1>2. n \in Nat /\ DOMAIN Trace[s] = 1..n
  BY <1>1
<1>3. f = [i \in 1..n |-> Trace[s][i].kv]
  BY <1>2 DEF Sizes
<1>4. \A i \in 1..n : Trace[s][i] \in R
  BY <1>1, Members
<1> HIDE DEF f, n, R
<1>5. f \in [1..n -> Nat]
  BY <1>1, <1>3, <1>4
<1>6. f \in Seq(Nat) /\ DOMAIN f = 1..n /\ Len(f) \in Nat /\ DOMAIN f = 1..Len(f)
  BY <1>2, <1>5
<1>7. Len(f) = n
  BY <1>2, <1>6
<1> QED BY <1>2, <1>3, <1>7 DEF f, n

(* What Passes allows a session is a move of Serving or none.              *)
LEMMA PassesServed ==
  ASSUME NEW m \in SimType, NEW w, AtRest(m, w), NEW x \in SimType, NEW v, AtRest(x, v),
         NEW s \in Sessions, Passes(s, m, w, x, v)
  PROVE  Served(x, v, s) = Served(m, w, s) \/ Promise!Moves(s, Served(m, w, s), Served(x, v, s))
<1> DEFINE n == Len(Trace[s])
           old == Served(m, w, s)
           new == Served(x, v, s)
           a == w[s]
           b == v[s]
<1>1. /\ a \in Resting /\ b \in Resting
      /\ ProgressOf(s, a, m.idx[s], m.finished[s], m.arrivals)
      /\ ProgressOf(s, b, x.idx[s], x.finished[s], x.arrivals)
  BY DEF AtRest, Placed
<1>2. /\ m.idx[s] \in Nat \ {0} /\ m.finished[s] \in Nat
      /\ x.idx[s] \in Nat \ {0} /\ x.finished[s] \in Nat
  BY DEF SimType
<1>3. n \in Nat /\ Len(Sizes[s]) = n
  BY SizesOfCalls
<1>4. \A o, e : Promise!Moves(s, o, e) <=>
        \/ /\ o.stage = "thinking" /\ o.call > n
           /\ e = [o EXCEPT !.stage = "done"]
        \/ /\ o.call <= n
           /\ \E y \in Promise!Following(o.stage) :
                /\ y = "thinking" => o.call < n
                /\ y = "done" => o.call = n
                /\ e = [call |-> IF y = "thinking" THEN o.call + 1 ELSE o.call, stage |-> y]
  BY <1>3 DEF Promise!Moves, Sizes
<1>5. CASE Carried(a, b) /\ x.idx[s] = m.idx[s] /\ x.finished[s] = m.finished[s]
  <2>1. CASE b = a
    BY <1>5, <2>1 DEF Served
  <2>2. CASE a = "hbm queue" /\ b \in Prefills
    <3>1. m.idx[s] <= n
      BY <1>1, <2>2 DEF ProgressOf
    <3>2. old = [call |-> m.idx[s], stage |-> "waiting"] /\ new = [call |-> m.idx[s], stage |-> "resident"]
      BY <1>5, <2>2, StageSets DEF Served, ServedAs, Prefills
    <3>3. "resident" \in Promise!Following("waiting")
      BY DEF Promise!Following
    <3> QED BY <1>4, <3>1, <3>2, <3>3
  <2>3. CASE a = "prefilling" /\ b = "on link"
    <3>1. m.idx[s] <= n
      BY <1>1, <2>3 DEF ProgressOf
    <3>2. old = [call |-> m.idx[s], stage |-> "resident"] /\ new = [call |-> m.idx[s], stage |-> "away"]
      BY <1>5, <2>3 DEF Served, ServedAs
    <3>3. "away" \in Promise!Following("resident")
      BY DEF Promise!Following
    <3> QED BY <1>4, <3>1, <3>2, <3>3
  <2>4. CASE /\ a \in {"prefill queue", "prefilling"}
             /\ b \in {"prefill queue", "prefilling", "gpu batch"}
    BY <1>5, <2>4 DEF Served, ServedAs
  <2>5. CASE a \in {"on link", "cpu queue"} /\ b \in {"cpu queue", "cpu batch"}
    BY <1>5, <2>5 DEF Served, ServedAs
  <2>6. Prefills = {"prefill queue", "prefilling"}
    BY StageSets DEF Prefills
  <2>7. \/ b = a
        \/ a = "hbm queue" /\ b \in Prefills
        \/ a = "prefilling" /\ b = "on link"
        \/ /\ a \in {"prefill queue", "prefilling"}
           /\ b \in {"prefill queue", "prefilling", "gpu batch"}
        \/ a \in {"on link", "cpu queue"} /\ b \in {"cpu queue", "cpu batch"}
    BY <1>5, <2>6 DEF Carried, ToPrefill, ToCpu
  <2> QED BY <2>1, <2>2, <2>3, <2>4, <2>5, <2>7
<1>6. CASE /\ a = "arriving" /\ b \in {"hbm queue"} \cup Prefills
           /\ x.idx[s] = m.finished[s] + 1 /\ x.finished[s] = m.finished[s]
  <2>1. x.idx[s] <= n
    BY <1>1, <1>6, StageSets DEF ProgressOf, Prefills
  <2>2. /\ old = [call |-> x.idx[s], stage |-> "thinking"]
        /\ \E y \in {"waiting", "resident"} : new = [call |-> x.idx[s], stage |-> y]
    BY <1>6, StageSets DEF Served, ServedAs, Prefills
  <2>3. {"waiting", "resident"} = Promise!Following("thinking")
    BY DEF Promise!Following
  <2> QED BY <1>4, <2>1, <2>2, <2>3
<1>7. CASE /\ a = "arriving" /\ b = "done"
           /\ x.idx[s] = m.idx[s] /\ x.finished[s] = m.finished[s]
  <2>1. m.finished[s] = 0 /\ m.idx[s] = 1 /\ n = 0
    BY <1>1, <1>2, <1>3, <1>7 DEF ProgressOf
  <2>2. old = [call |-> 1, stage |-> "thinking"] /\ new = [call |-> 1, stage |-> "done"]
    BY <1>7, <2>1 DEF Served, ServedAs
  <2> QED BY <1>4, <2>1, <2>2
<1>8. CASE /\ a \in {"gpu batch", "cpu batch"} /\ b \in {"arriving", "done"}
           /\ x.idx[s] = m.idx[s] /\ x.finished[s] = m.finished[s] + 1
  <2>1. /\ m.finished[s] = m.idx[s] - 1 /\ m.idx[s] <= n
        /\ x.idx[s] = m.idx[s] /\ x.finished[s] = m.finished[s] + 1
    BY <1>1, <1>8 DEF ProgressOf
  <2>2. \E y \in {"resident", "away"} : old = [call |-> m.idx[s], stage |-> y]
    BY <1>8 DEF Served, ServedAs
  <2>3. {"thinking", "done"} \subseteq Promise!Following("resident") \cap Promise!Following("away")
    BY DEF Promise!Following
  <2>4. CASE b = "arriving"
    <3>1. m.idx[s] < n
      <4>1. \/ x.finished[s] = 0 /\ x.idx[s] = 1
            \/ x.finished[s] = x.idx[s] /\ x.finished[s] < n
        BY <1>1, <2>4 DEF ProgressOf
      <4> QED BY <1>2, <2>1, <4>1
    <3>2. new = [call |-> m.idx[s] + 1, stage |-> "thinking"]
      <4>1. new = [call |-> x.finished[s] + 1, stage |-> "thinking"]
        BY <2>4 DEF Served
      <4>2. x.finished[s] + 1 = m.idx[s] + 1
        BY <1>2, <2>1
      <4> QED BY <4>1, <4>2
    <3> QED BY <1>4, <2>1, <2>2, <2>3, <3>1, <3>2
  <2>5. CASE b = "done"
    <3>1. m.idx[s] = n
      <4>1. x.finished[s] = n
        BY <1>1, <2>5 DEF ProgressOf
      <4> QED BY <1>2, <2>1, <4>1
    <3>2. new = [call |-> m.idx[s], stage |-> "done"]
      BY <2>1, <2>5 DEF Served, ServedAs
    <3> QED BY <1>4, <2>1, <2>2, <2>3, <3>1, <3>2
  <2> QED BY <1>8, <2>4, <2>5
<1> QED BY <1>5, <1>6, <1>7, <1>8 DEF Passes

(* The calls that Serving sees in HBM fit there, as the pool counts them.  *)
LEMMA ServedFits == PInv => Promise!FitsHbm
<1> SUFFICES ASSUME PInv PROVE Promise!FitsHbm
  OBVIOUS
<1>1. PICK w : AtRest(sim, w)
  BY DEF PInv
<1>2. sim \in SimType /\ w \in [Sessions -> Resting] /\ Placed(sim, w)
  BY <1>1 DEF PInv, IInv, TypeOK, AtRest
<1>3. \A s \in Sessions : At(sim)[s] = Served(sim, w, s)
  BY <1>1, <1>2, AtOfServed
<1> DEFINE held == In(Sessions, w, HasHbm)
           asked == [s \in Sessions |->
                       IF At(sim)[s].call \in DOMAIN Sizes[s] THEN Sizes[s][At(sim)[s].call] ELSE 0]
<1>4. {s \in Sessions : At(sim)[s].stage = "resident"} = held
  <2>1. ASSUME NEW s \in Sessions PROVE At(sim)[s].stage = "resident" <=> w[s] \in HasHbm
    <3>1. At(sim)[s].stage = IF w[s] = "arriving" THEN "thinking" ELSE ServedAs(w[s])
      <4>1. At(sim)[s] = Served(sim, w, s)
        BY <1>3
      <4>2. CASE w[s] = "arriving"
        BY <4>1, <4>2 DEF Served
      <4>3. CASE w[s] # "arriving"
        BY <4>1, <4>3 DEF Served
      <4> QED BY <4>2, <4>3
    <3>2. w[s] \in HasHbm <=> w[s] \in {"prefill queue", "prefilling", "gpu batch"}
      BY <1>2, StageSets DEF Resting
    <3> QED BY <3>1, <3>2 DEF ServedAs
  <2> QED BY <2>1 DEF In
<1>5. ASSUME NEW s \in held PROVE asked[s] = Kv(sim)[s]
  <2>1. s \in Sessions /\ At(sim)[s].call = sim.idx[s]
    <3>1. s \in Sessions /\ w[s] # "arriving"
      BY StageSets DEF In
    <3>2. At(sim)[s] = Served(sim, w, s)
      BY <1>3, <3>1
    <3>3. At(sim)[s] = [call |-> sim.idx[s], stage |-> ServedAs(w[s])]
      BY <3>1, <3>2 DEF Served
    <3> QED BY <3>1, <3>3
  <2>2. DOMAIN Trace[s] = 1..Len(Trace[s])
    BY <2>1, DynAssumption
  <2> QED BY <2>1, <2>2, SizesOfCalls DEF Kv
<1>6. Promise!FitsHbm <=> Cardinality(Bytes(held, asked)) <= HbmCap
  <2>1. Promise!Resident = held
    BY <1>4 DEF Promise!Resident
  <2>2. Promise!Asked = asked
    BY DEF Promise!Asked, Sizes
  <2>3. Promise!Bytes(held, asked) = Bytes(held, asked)
    BY DEF Promise!Bytes, Bytes
  <2>4. \A S : Promise!Cardinality(S) = Cardinality(S)
    BY DEF Promise!Cardinality, Cardinality
  <2> HIDE DEF held, asked
  <2> QED BY <2>1, <2>2, <2>3, <2>4 DEF Promise!FitsHbm
<1>7. PoolSound(Sessions, sim.hbm, held, Kv(sim), HbmCap)
  BY <1>2 DEF Placed, PoolAt
<1> HIDE DEF held, asked
<1>8. Bytes(held, asked) = Bytes(held, Kv(sim))
  BY <1>5 DEF Bytes
<1>9. Cardinality(Bytes(held, Kv(sim))) <= HbmCap
  <2>1. CASE held = {}
    <3>1. Bytes(held, Kv(sim)) = {}
      BY <2>1 DEF Bytes
    <3> QED BY <3>1, FS_EmptySet, DynAssumption
  <2>2. CASE held # {}
    <3>1. held \subseteq Sessions /\ Kv(sim) \in [Sessions -> Nat]
      BY <1>2, <1>7, KvTypes DEF PoolSound
    <3>2. Cardinality(Bytes(held, Kv(sim))) \in Nat
      BY <3>1, BytesNumber, SessionsFinite
    <3>3. sim.hbm.free >= 0 /\ sim.hbm.free = HbmCap - Cardinality(Bytes(held, Kv(sim)))
      BY <1>7, <2>2 DEF PoolSound
    <3> QED BY <3>2, <3>3, CapTypes
  <2> QED BY <2>1, <2>2
<1> QED BY <1>6, <1>8, <1>9

(* The initial states are those of Serving.                                *)
LEMMA InitServed == Init => Promise!Init
<1> SUFFICES ASSUME Init PROVE Promise!Init
  OBVIOUS
<1>1. PInv
  BY InitRests
<1>2. /\ sim.arrivals = {<<s, 1>> : s \in Sessions}
  BY DEF Init, InitialSim
<1>3. ASSUME NEW s \in Sessions PROVE At(sim)[s] = [call |-> 1, stage |-> "thinking"]
  <2> DEFINE e == CHOOSE e \in sim.arrivals : e[1] = s
  <2>1. <<s, 1>> \in sim.arrivals /\ <<s, 1>>[1] = s
    BY <1>2
  <2>2. e \in sim.arrivals /\ e[1] = s
    BY <2>1
  <2>3. e[2] = 1
    <3>1. PICK r \in Sessions : e = <<r, 1>>
      BY <1>2, <2>2
    <3>2. <<r, 1>>[2] = 1
      OBVIOUS
    <3> HIDE DEF e
    <3> QED BY <3>1, <3>2
  <2>4. At(sim)[s] = [call |-> e[2], stage |-> "thinking"]
    BY <2>1 DEF At
  <2> HIDE DEF e
  <2> QED BY <2>3, <2>4
<1>4. At(sim) = [s \in Sessions |-> At(sim)[s]]
  BY DEF At
<1> QED BY <1>3, <1>4 DEF Promise!Init

(* A turn of the event loop is a step of Serving.                          *)
LEMMA TurnServed ==
  ASSUME PInv, Next, Promise!FitsHbm'
  PROVE  Promise!Step
<1>1. PICK w : AtRest(sim, w)
  BY DEF PInv
<1>2. IInv /\ IInv'
  BY StepKeeps DEF PInv
<1>3. PICK v : Turn(sim, w, sim', v)
  BY <1>1, <1>2, TurnRests
<1>4. sim \in SimType /\ sim' \in SimType /\ AtRest(sim', v)
  BY <1>2, <1>3 DEF IInv, TypeOK, Turn
<1>5. ASSUME NEW s \in Sessions
      PROVE  At(sim')[s] = At(sim)[s] \/ Promise!Moves(s, At(sim)[s], At(sim')[s])
  <2>1. At(sim)[s] = Served(sim, w, s) /\ At(sim')[s] = Served(sim', v, s)
    BY <1>1, <1>4, AtOfServed
  <2>2. Passes(s, sim, w, sim', v)
    BY <1>3 DEF Turn
  <2> QED BY <1>1, <1>4, <2>1, <2>2, PassesServed
<1>6. At(sim') = [s \in Sessions |-> At(sim')[s]]
  BY DEF At
<1> QED BY <1>5, <1>6 DEF Promise!Step

(* The safety half of the refinement: whatever the policy, each session    *)
(* runs its calls in order, one at a time, from waiting over HBM and       *)
(* perhaps the CPU to the next, and whoever is admitted to HBM fits there. *)
THEOREM ServesAsPromised == Spec => Promise!Safety
<1>1. PInv /\ Promise!FitsHbm' /\ [Next]_sim => [Promise!Step]_(At(sim))
  <2> SUFFICES ASSUME PInv, Promise!FitsHbm', [Next]_sim
               PROVE  [Promise!Step]_(At(sim))
    OBVIOUS
  <2>1. CASE Next
    BY <2>1, TurnServed
  <2>2. CASE UNCHANGED sim
    BY <2>2 DEF At
  <2> QED BY <2>1, <2>2
<1>2. PInv /\ [Next]_sim => PInv'
  BY StepRests
<1> QED BY <1>1, <1>2, InitRests, InitServed, ServedFits, PTL DEF Spec, Promise!Safety
=============================================================================
