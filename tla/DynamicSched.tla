---------------------------- MODULE DynamicSched ----------------------------
(***************************************************************************)
(* The simulator of dynamic decode offload of sim/dynamic_sched.py (class  *)
(* DynSim): a GPU that interleaves prefills with steps of its decode       *)
(* batch, a CPU engine with a decode batch of its own, and a scheduler     *)
(* that sends each prefilled call to one of them.                          *)
(*                                                                         *)
(* As in EventSim, the variable sim is the object with the events of its   *)
(* Env, an operator on a value m of sim translates each method with the    *)
(* callbacks it runs, an action is one turn of the event loop, and time is *)
(* left out: any pending event may be the next.                            *)
(***************************************************************************)
EXTENDS PoolOps, LinkOps, FiniteSets, Functions

CONSTANTS Sessions,
          Trace,       \* Trace[s]: the calls of s, with the bytes of their KV
                       \* and the tokens they put out
          HbmCap,      \* max(free HBM, 0)
          CpuCap,      \* DRAM of the attached share of CPUs
          Policies,    \* of "gpu_only", "all_cpu" and "dynamic", those run
          GpuTarget,   \* gpu_decode_target: sessions that fit HBM, at least 1
          CpuSloBatch, \* the largest batch for which _cpu_step_time, which
                       \* grows with the batch, is within the TPOT SLO; or 0
          Tick         \* names the end of a decode step

ASSUME DynAssumption ==
  /\ IsFiniteSet(Sessions)
  /\ Trace \in [Sessions -> Seq([kv : Nat, output : Int])]
  /\ HbmCap \in Nat /\ CpuCap \in Int
  /\ Policies \subseteq {"gpu_only", "all_cpu", "dynamic"}
  /\ GpuTarget \in Nat \ {0} /\ CpuSloBatch \in Nat
  /\ Tick \notin Sessions

VARIABLE sim

(* The bytes of each session's present call (_kv).                         *)
Kv(m) == [s \in Sessions |-> IF m.idx[s] \in DOMAIN Trace[s]
                              THEN Trace[s][m.idx[s]].kv ELSE 0]

InitialSim(policy) ==
  [policy    |-> policy,
   hbm       |-> EmptyPool(HbmCap),
   cpu       |-> EmptyPool(CpuCap),
   c2c       |-> IdleLink,
   prefillQ  |-> <<>>,
   gpuDec    |-> <<>>,
   cpuDec    |-> <<>>,
   gpuBusy   |-> FALSE,
   cpuBusy   |-> FALSE,
   arrivals  |-> {<<s, 1>> : s \in Sessions},  \* pending _arrive events
   gpuEvent  |-> {},                           \* pending _prefill_done, _gpu_tick
   cpuEvent  |-> {},                           \* pending _cpu_tick
   idx       |-> [s \in Sessions |-> 1],
   left      |-> [s \in Sessions |-> 0],
   finished  |-> [s \in Sessions |-> 0],
   offloaded |-> 0]

-----------------------------------------------------------------------------
(* The GPU.                                                                *)

(* A step of the batch; its only caller has seen that there is a batch.    *)
GpuDecodeStep(m) ==
  IF m.gpuDec = <<>> THEN [m EXCEPT !.gpuBusy = FALSE]
                     ELSE [m EXCEPT !.gpuBusy = TRUE, !.gpuEvent = @ \cup {Tick}]

(* Mutant of PumpGpu: a busy GPU starts a prefill too.                     *)
PumpGpuEvenBusy(m) ==
  IF m.prefillQ # <<>>
    THEN [m EXCEPT !.gpuBusy = TRUE, !.prefillQ = Tail(@),
                   !.gpuEvent = @ \cup {Head(m.prefillQ)}]
  ELSE IF m.gpuDec # <<>> /\ ~m.gpuBusy THEN GpuDecodeStep(m)
  ELSE m

PumpGpu(m) ==
  IF m.gpuBusy THEN m
  ELSE IF m.prefillQ # <<>>
         THEN [m EXCEPT !.gpuBusy = TRUE, !.prefillQ = Tail(@),
                        !.gpuEvent = @ \cup {Head(m.prefillQ)}]
  ELSE IF m.gpuDec # <<>> THEN GpuDecodeStep(m)
  ELSE m

(* Mutant of ReadyPrefill: the GPU is not woken.                           *)
ReadyPrefillQuietly(m, s) == [m EXCEPT !.prefillQ = Append(@, s)]

ReadyPrefill(m, s) == PumpGpu([m EXCEPT !.prefillQ = Append(@, s)])

(* The callbacks of a release of HBM: a granted call may start at once if  *)
(* the GPU is idle.                                                        *)
ReadyAll(m, clients) ==
  LET loop[k \in 0..Len(clients)] == IF k = 0 THEN m ELSE ReadyPrefill(loop[k-1], clients[k])
  IN  loop[Len(clients)]

ReleaseHbm(m, s) ==
  LET pool == Release(m.hbm, Kv(m), HbmCap, Kv(m)[s])
  IN  ReadyAll([m EXCEPT !.hbm = pool], Granted(m.hbm, pool))

(* Mutant of ArriveHandler: the present call is numbered from 0.           *)
ArriveNumbersFromZero(m, s, i) ==
  LET call == [m EXCEPT !.idx[s] = i - 1, !.left[s] = Trace[s][i].output]
      asked == [call EXCEPT !.hbm = Acquire(@, Kv(call), s)]
  IN  IF i > Len(Trace[s]) THEN m
      ELSE IF Fits(m.hbm, Kv(call), s) THEN ReadyPrefill(asked, s) ELSE asked

(* The handler of an arrival; a session without calls is ignored.          *)
ArriveHandler(m, s, i) ==
  LET call == [m EXCEPT !.idx[s] = i, !.left[s] = Trace[s][i].output]
      asked == [call EXCEPT !.hbm = Acquire(@, Kv(call), s)]
  IN  IF i > Len(Trace[s]) THEN m
      ELSE IF Fits(m.hbm, Kv(call), s) THEN ReadyPrefill(asked, s) ELSE asked

-----------------------------------------------------------------------------
(* The CPU engine.                                                         *)

PumpCpu(m) ==
  IF m.cpuBusy \/ m.cpuDec = <<>> THEN m
  ELSE [m EXCEPT !.cpuBusy = TRUE, !.cpuEvent = @ \cup {Tick}]

(* Mutant of CpuJoin: the CPU engine is not woken.                         *)
CpuJoinQuietly(m, s) == [m EXCEPT !.cpuDec = Append(@, s)]

(* A call joins the batch even while a step of the batch is under way.     *)
CpuJoin(m, s) == PumpCpu([m EXCEPT !.cpuDec = Append(@, s)])

JoinAll(m, clients) ==
  LET loop[k \in 0..Len(clients)] == IF k = 0 THEN m ELSE CpuJoin(loop[k-1], clients[k])
  IN  loop[Len(clients)]

ReleaseCpu(m, s) ==
  LET pool == Release(m.cpu, Kv(m), CpuCap, Kv(m)[s])
  IN  JoinAll([m EXCEPT !.cpu = pool], Granted(m.cpu, pool))

(* Mutant of CpuAdmit: the call joins without its bytes.                   *)
CpuAdmitAtOnce(m, s) == CpuJoin(m, s)

(* The bytes of the CPU are taken only when the KV arrives there.          *)
CpuAdmit(m, s) ==
  LET asked == [m EXCEPT !.cpu = Acquire(@, Kv(m), s)]
  IN  IF Fits(m.cpu, Kv(m), s) THEN CpuJoin(asked, s) ELSE asked

-----------------------------------------------------------------------------
(* The scheduler.                                                          *)

(* What the CPU engine looks like now: calls that were sent to it and have *)
(* not arrived are counted neither in its pool nor in its batch.           *)
CpuOk(m, s) == Fits(m.cpu, Kv(m), s) /\ Len(m.cpuDec) + 1 <= CpuSloBatch

RouteToCpu(m, s) ==
  /\ m.policy # "gpu_only"
  /\ m.policy = "dynamic" => Len(m.gpuDec) >= GpuTarget
  /\ CpuOk(m, s)

(* Mutant of PrefillDoneHandler: an offloaded call decodes on the GPU too. *)
PrefillDoneDecodesTwice(m, s) ==
  LET idle == [m EXCEPT !.gpuBusy = FALSE]
      released == ReleaseHbm([idle EXCEPT !.offloaded = @ + 1], s)
      decodes(n) == [n EXCEPT !.gpuDec = Append(@, s)]
  IN  PumpGpu(IF RouteToCpu(idle, s)
                THEN decodes([released EXCEPT !.c2c = Transfer(@, s)])
                ELSE decodes(idle))

(* The GPU is marked idle first, so the release of HBM may start the next  *)
(* prefill; the bytes of HBM are returned before the flush is queued.      *)
PrefillDoneHandler(m, s) ==
  LET idle == [m EXCEPT !.gpuBusy = FALSE]
      released == ReleaseHbm([idle EXCEPT !.offloaded = @ + 1], s)
  IN  PumpGpu(IF RouteToCpu(idle, s)
                THEN [released EXCEPT !.c2c = Transfer(@, s)]
                ELSE [idle EXCEPT !.gpuDec = Append(@, s)])

Finish(m, s) ==
  LET next == m.idx[s] + 1
  IN  [m EXCEPT !.finished[s] = @ + 1,
                !.arrivals = IF next <= Len(Trace[s]) THEN @ \cup {<<s, next>>} ELSE @]

(* list.remove; it is only called for members of the list.                 *)
Without(q, s) ==
  IF s \notin Range(q) THEN q
  ELSE LET i == CHOOSE i \in DOMAIN q : q[i] = s
       IN  SubSeq(q, 1, i - 1) \o SubSeq(q, i + 1, Len(q))

Stepped(m, batch) ==
  [m EXCEPT !.left = [s \in Sessions |-> IF s \in Range(batch) THEN @[s] - 1 ELSE @[s]]]

(* The calls of a batch that have all their tokens leave it and finish one *)
(* by one; those that get their HBM meanwhile queue for prefill while      *)
(* gpu_busy still holds.  The simulator after the first k calls.           *)
GpuFinishLoop(m, batch) ==
  LET loop[k \in 0..Len(batch)] ==
        IF k = 0 THEN m
        ELSE IF m.left[batch[k]] > 0 THEN loop[k-1]
        ELSE Finish(ReleaseHbm([loop[k-1] EXCEPT !.gpuDec = Without(@, batch[k])], batch[k]),
                    batch[k])
  IN  loop

CpuFinishLoop(m, batch) ==
  LET loop[k \in 0..Len(batch)] ==
        IF k = 0 THEN m
        ELSE IF m.left[batch[k]] > 0 THEN loop[k-1]
        ELSE Finish(ReleaseCpu([loop[k-1] EXCEPT !.cpuDec = Without(@, batch[k])], batch[k]),
                    batch[k])
  IN  loop

GpuTickHandler(m) ==
  LET sifted == GpuFinishLoop(Stepped(m, m.gpuDec), m.gpuDec)[Len(m.gpuDec)]
  IN  PumpGpu([sifted EXCEPT !.gpuBusy = FALSE])

(* A step of the CPU credits a token to every call in the batch now.       *)
CpuTickHandler(m) ==
  LET sifted == CpuFinishLoop(Stepped(m, m.cpuDec), m.cpuDec)[Len(m.cpuDec)]
  IN  PumpCpu([sifted EXCEPT !.cpuBusy = FALSE])

-----------------------------------------------------------------------------
Init == \E policy \in Policies : sim = InitialSim(policy)

Arrive(s) ==
  \E i \in 1..(Len(Trace[s]) + 1) :
    /\ <<s, i>> \in sim.arrivals
    /\ sim' = ArriveHandler([sim EXCEPT !.arrivals = @ \ {<<s, i>>}], s, i)

PrefillDone(s) ==
  /\ s \in sim.gpuEvent
  /\ sim' = PrefillDoneHandler([sim EXCEPT !.gpuEvent = @ \ {s}], s)

GpuTick ==
  /\ Tick \in sim.gpuEvent
  /\ sim' = GpuTickHandler([sim EXCEPT !.gpuEvent = @ \ {Tick}])

(* The end of a flush: the call asks for its bytes on the CPU.             *)
C2CFin(s) ==
  /\ s \in sim.c2c.flying
  /\ sim' = [CpuAdmit(sim, s) EXCEPT !.c2c = Fin(@, s)]

CpuTick ==
  /\ Tick \in sim.cpuEvent
  /\ sim' = CpuTickHandler([sim EXCEPT !.cpuEvent = @ \ {Tick}])

Next ==
  \/ \E s \in Sessions : Arrive(s) \/ PrefillDone(s) \/ C2CFin(s)
  \/ GpuTick
  \/ CpuTick

Quiet == /\ sim.arrivals = {} /\ sim.c2c.flying = {}
         /\ sim.gpuEvent = {} /\ sim.cpuEvent = {}

(* Env.run takes events until the heap is empty: the weak fairness of      *)
(* Next, with its enabling condition written out as in EventSim.           *)
LoopRuns == []<>Quiet \/ []<><<Next>>_sim

Spec == Init /\ [][Next]_sim /\ LoopRuns

-----------------------------------------------------------------------------
Flushing(m)   == m.c2c.flying \cup Range(m.c2c.q)
HbmHolders(m) == Range(m.prefillQ) \cup (m.gpuEvent \ {Tick}) \cup Range(m.gpuDec)

Positions(name, q, x) == {name} \X {i \in DOMAIN q : q[i] = x}

Places(m, s) ==
  ({"arrival"} \X {e \in m.arrivals : e[1] = s})
    \cup Positions("hbm queue", m.hbm.q, s)
    \cup Positions("prefill queue", m.prefillQ, s)
    \cup ({"prefilling"} \X (m.gpuEvent \cap {s}))
    \cup Positions("gpu batch", m.gpuDec, s)
    \cup Positions("link queue", m.c2c.q, s)
    \cup ({"flushing"} \X (m.c2c.flying \cap {s}))
    \cup Positions("cpu queue", m.cpu.q, s)
    \cup Positions("cpu batch", m.cpuDec, s)

(* Type invariant.                                                         *)
SimType ==
  [policy    : Policies,
   hbm       : Pools(Sessions),
   cpu       : Pools(Sessions),
   c2c       : Links(Sessions),
   prefillQ  : Seq(Sessions),
   gpuDec    : Seq(Sessions),
   cpuDec    : Seq(Sessions),
   gpuBusy   : BOOLEAN,
   cpuBusy   : BOOLEAN,
   arrivals  : SUBSET (Sessions \X (Nat \ {0})),
   gpuEvent  : SUBSET (Sessions \cup {Tick}),
   cpuEvent  : SUBSET {Tick},
   idx       : [Sessions -> Nat \ {0}],
   left      : [Sessions -> Int],
   finished  : [Sessions -> Nat],
   offloaded : Nat]
TypeOK == sim \in SimType

(* A call holds its bytes of HBM from its admission until it leaves the    *)
(* GPU, by its last token or by an offload, and its bytes of the CPU while *)
(* it is in the batch of the CPU; nothing leaks on any of the three exits. *)
BytesConserved ==
  /\ sim.hbm.free = HbmCap - Cardinality(Bytes(HbmHolders(sim), Kv(sim)))
  /\ sim.cpu.free = CpuCap - Cardinality(Bytes(Range(sim.cpuDec), Kv(sim)))

(* A session has one call under way, in one place: never in both batches,  *)
(* and never lost between them.                                            *)
OnePlace ==
  \A s \in Sessions :
    /\ Cardinality(Places(sim, s)) <= 1
    /\ Places(sim, s) = {} => sim.finished[s] = Len(Trace[s])
    /\ Places(sim, s) # {} =>
         \/ sim.finished[s] = sim.idx[s] - 1
         \/ <<s, sim.finished[s] + 1>> \in sim.arrivals

(* Each engine does one thing at a time, though _prefill_done runs the     *)
(* callbacks of a release when gpu_busy is already cleared.                *)
EnginesExclusive ==
  /\ IF sim.gpuBusy THEN \E e \in Sessions \cup {Tick} : sim.gpuEvent = {e}
                    ELSE sim.gpuEvent = {}
  /\ sim.cpuBusy <=> Tick \in sim.cpuEvent

(* No wake-up is lost by the GPU, the CPU engine, the link or a pool.      *)
NothingForgotten ==
  /\ ~sim.gpuBusy => sim.prefillQ = <<>> /\ sim.gpuDec = <<>>
  /\ ~sim.cpuBusy => sim.cpuDec = <<>>
  /\ ~sim.c2c.busy => sim.c2c.q = <<>>
  /\ sim.hbm.q # <<>> => ~Fits(sim.hbm, Kv(sim), Head(sim.hbm.q))
  /\ sim.cpu.q # <<>> => ~Fits(sim.cpu, Kv(sim), Head(sim.cpu.q))

(* No call joins or leaves the batch of the GPU during a step, although    *)
(* transfers end and calls arrive meanwhile.                               *)
GpuBatchFrozen ==
  [][(Tick \in sim.gpuEvent /\ ~GpuTick) => sim'.gpuDec = sim.gpuDec]_sim

(* If every call fits HBM, every call completes, whatever the route.       *)
AllComplete == <>(\A s \in Sessions : sim.finished[s] = Len(Trace[s]))

(* "offload IFF ... the CPU engine still meets the TPOT SLO at +1 session" *)
(* (docstring of the module): the batch of the CPU stays within the SLO.   *)
SloKept == Len(sim.cpuDec) <= CpuSloBatch

(* "flush KV to CPU DRAM over C2C, release HBM, then join CPU decode" (the *)
(* comment in _prefill_done): until its flush has ended, the KV of a call  *)
(* is still in HBM, so it has to fit there with the rest.                  *)
KvStaysUntilFlushed ==
  Cardinality(Bytes(HbmHolders(sim) \cup Flushing(sim), Kv(sim))) <= HbmCap

-----------------------------------------------------------------------------
(* What each session is doing, as Serving sees it: an offloaded call is    *)
(* away from the moment its HBM is returned.                               *)
At(m) == [s \in Sessions |->
  IF \E e \in m.arrivals : e[1] = s
    THEN [call |-> (CHOOSE e \in m.arrivals : e[1] = s)[2], stage |-> "thinking"]
  ELSE [call |-> m.idx[s],
        stage |-> CASE s \in Range(m.hbm.q) -> "waiting"
                    [] s \in HbmHolders(m)  -> "resident"
                    [] s \in Flushing(m) \cup Range(m.cpu.q) \cup Range(m.cpuDec) -> "away"
                    [] OTHER                -> "done"]]

(* The simulator serves its sessions as promised: in order, one call at a  *)
(* time, within HBM, and each to its end.                                  *)
Promise == INSTANCE Serving WITH
  at <- At(sim), Cap <- HbmCap, Offloads <- TRUE,
  Size <- [s \in Sessions |-> [i \in DOMAIN Trace[s] |-> Trace[s][i].kv]]
KeepsPromise == Promise!Spec
=============================================================================
