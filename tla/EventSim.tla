------------------------------ MODULE EventSim ------------------------------
(***************************************************************************)
(* The discrete-event simulator of sim/event_sim.py (class Sim): sessions  *)
(* of calls that pass through HBM admission, the CPU KV store, the C2C     *)
(* link, and a GPU that interleaves prefills with steps of a decode batch. *)
(*                                                                         *)
(* The one variable, sim, is the object: its fields are those of the       *)
(* Python object that decide what happens next, and the events that its    *)
(* Env holds.  An operator on a value m of sim translates each method, so  *)
(* a callback that the code runs inside a method is applied inside its     *)
(* operator.  An action is one turn of the event loop: it takes one event  *)
(* and runs its handler, with every call the handler makes.                *)
(*                                                                         *)
(* Time is left out: any pending event may be the next.  How long a        *)
(* transfer, a prefill, a decode step or a pause takes depends on the      *)
(* hardware and model parameters, and the arrivals are random, so every    *)
(* order that no event causes is allowed.                                  *)
(***************************************************************************)
EXTENDS PoolOps, LinkOps, FiniteSets, Functions

CONSTANTS Sessions, \* the sessions
          Trace,    \* Trace[s]: the calls of s, with the bytes each needs in
                    \* HBM and on the CPU and the tokens it puts out
          HbmCap,   \* free HBM; negative if the weights do not fit
          CpuCap,   \* DRAM of the CPU
          Tick      \* names the end of a decode step among the GPU's events

CallSizes == [hbm : Nat, cpu : Nat, output : Int]

ASSUME SimAssumption ==
  /\ IsFiniteSet(Sessions)
  /\ Trace \in [Sessions -> Seq(CallSizes)]
  /\ HbmCap \in Int /\ CpuCap \in Int
  /\ Tick \notin Sessions

VARIABLE sim

(* The jobs of the link: the old KV of a session's call is loaded, the new *)
(* KV of a call is flushed.                                                *)
Load(s)  == <<"load", s>>
Flush(s) == <<"flush", s>>
LinkJobs == {"load", "flush"} \X Sessions

(* The bytes of each session's present call: _kv_hbm and _kv_cpu.          *)
HbmNeed(m) == [s \in Sessions |-> IF m.idx[s] \in DOMAIN Trace[s]
                                    THEN Trace[s][m.idx[s]].hbm ELSE 0]
CpuNeed(m) == [s \in Sessions |-> IF m.idx[s] \in DOMAIN Trace[s]
                                    THEN Trace[s][m.idx[s]].cpu ELSE 0]

InitialSim ==
  [hbm      |-> EmptyPool(HbmCap),
   cpu      |-> EmptyPool(CpuCap),
   c2c      |-> IdleLink,
   prefillQ |-> <<>>,
   decoding |-> <<>>,
   gpuBusy  |-> FALSE,
   arrivals |-> {<<s, 1>> : s \in Sessions},  \* pending _arrive events
   gpuEvent |-> {},                           \* pending _prefill_done, _decode_tick
   idx      |-> [s \in Sessions |-> 1],       \* the call a session is at
   left     |-> [s \in Sessions |-> 0],       \* o_output of that call
   finished |-> [s \in Sessions |-> 0],       \* its calls in `completed`
   resident |-> 0,
   peak     |-> 0]

-----------------------------------------------------------------------------
(* Admission: HBM, then the CPU store, then the load of the old KV.        *)

OldKvLoad(m, s) == [m EXCEPT !.c2c = Transfer(@, Load(s))]

Admitted(m, s) ==
  LET counted == [m EXCEPT !.resident = @ + 1,
                           !.peak = IF m.resident + 1 > @ THEN m.resident + 1 ELSE @,
                           !.cpu = Acquire(@, CpuNeed(m), s)]
  IN  IF Fits(m.cpu, CpuNeed(m), s) THEN OldKvLoad(counted, s) ELSE counted

(* Mutant of ArriveHandler: the present call is numbered from 0.           *)
ArriveNumbersFromZero(m, s, i) ==
  LET call == [m EXCEPT !.idx[s] = i - 1, !.left[s] = Trace[s][i].output]
      asked == [call EXCEPT !.hbm = Acquire(@, HbmNeed(call), s)]
  IN  IF i > Len(Trace[s]) THEN m
      ELSE IF Fits(m.hbm, HbmNeed(call), s) THEN Admitted(asked, s) ELSE asked

(* The handler of an arrival; a session without calls is ignored.          *)
ArriveHandler(m, s, i) ==
  LET call == [m EXCEPT !.idx[s] = i, !.left[s] = Trace[s][i].output]
      asked == [call EXCEPT !.hbm = Acquire(@, HbmNeed(call), s)]
  IN  IF i > Len(Trace[s]) THEN m
      ELSE IF Fits(m.hbm, HbmNeed(call), s) THEN Admitted(asked, s) ELSE asked

(* The callbacks of a release, in the order of the clients granted: the    *)
(* simulator after the first k of them.                                    *)
AdmitLoop(m, clients) ==
  LET loop[k \in 0..Len(clients)] == IF k = 0 THEN m ELSE Admitted(loop[k-1], clients[k])
  IN  loop

LoadLoop(m, clients) ==
  LET loop[k \in 0..Len(clients)] == IF k = 0 THEN m ELSE OldKvLoad(loop[k-1], clients[k])
  IN  loop

AdmitAll(m, clients) == AdmitLoop(m, clients)[Len(clients)]
LoadAll(m, clients)  == LoadLoop(m, clients)[Len(clients)]

(* Mutant of ReleaseHbm: the size on the CPU is returned.                  *)
ReleaseHbmCpuSize(m, s) ==
  LET pool == Release(m.hbm, HbmNeed(m), HbmCap, CpuNeed(m)[s])
  IN  AdmitAll([m EXCEPT !.hbm = pool], Granted(m.hbm, pool))

ReleaseHbm(m, s) ==
  LET pool == Release(m.hbm, HbmNeed(m), HbmCap, HbmNeed(m)[s])
  IN  AdmitAll([m EXCEPT !.hbm = pool], Granted(m.hbm, pool))

ReleaseCpu(m, s) ==
  LET pool == Release(m.cpu, CpuNeed(m), CpuCap, CpuNeed(m)[s])
  IN  LoadAll([m EXCEPT !.cpu = pool], Granted(m.cpu, pool))

-----------------------------------------------------------------------------
(* The GPU.                                                                *)

(* A step of the batch; its only caller has seen that there is a batch.    *)
DecodeStep(m) ==
  IF m.decoding = <<>> THEN [m EXCEPT !.gpuBusy = FALSE]
                       ELSE [m EXCEPT !.gpuBusy = TRUE, !.gpuEvent = @ \cup {Tick}]

(* Mutants of PumpGpu: decode goes first, and a busy GPU starts a prefill. *)
PumpGpuDecodeFirst(m) ==
  IF m.gpuBusy THEN m
  ELSE IF m.decoding # <<>> THEN DecodeStep(m)
  ELSE IF m.prefillQ # <<>>
         THEN [m EXCEPT !.gpuBusy = TRUE, !.prefillQ = Tail(@),
                        !.gpuEvent = @ \cup {Head(m.prefillQ)}]
  ELSE m

PumpGpuEvenBusy(m) ==
  IF m.prefillQ # <<>>
    THEN [m EXCEPT !.gpuBusy = TRUE, !.prefillQ = Tail(@),
                   !.gpuEvent = @ \cup {Head(m.prefillQ)}]
  ELSE IF m.decoding # <<>> /\ ~m.gpuBusy THEN DecodeStep(m)
  ELSE m

(* An idle GPU starts the oldest prefill, or else a step of the batch.     *)
PumpGpu(m) ==
  IF m.gpuBusy THEN m
  ELSE IF m.prefillQ # <<>>
         THEN [m EXCEPT !.gpuBusy = TRUE, !.prefillQ = Tail(@),
                        !.gpuEvent = @ \cup {Head(m.prefillQ)}]
  ELSE IF m.decoding # <<>> THEN DecodeStep(m)
  ELSE m

(* Mutant of ReadyPrefill: the GPU is not woken.                           *)
ReadyPrefillQuietly(m, s) == [m EXCEPT !.prefillQ = Append(@, s)]

ReadyPrefill(m, s) == PumpGpu([m EXCEPT !.prefillQ = Append(@, s)])

(* Mutant of PrefillDoneHandler: the call goes back to the prefill queue.  *)
PrefillDoneAgain(m, s) ==
  PumpGpu([m EXCEPT !.gpuBusy = FALSE,
                    !.c2c = Transfer(@, Flush(s)),
                    !.prefillQ = Append(@, s)])

PrefillDoneHandler(m, s) ==
  PumpGpu([m EXCEPT !.gpuBusy = FALSE,
                    !.c2c = Transfer(@, Flush(s)),
                    !.decoding = Append(@, s)])

(* Mutant of Finish: the last call of a session is not launched.           *)
FinishDropsLastCall(m, s) ==
  LET released == ReleaseCpu(ReleaseHbm(m, s), s)
      next == m.idx[s] + 1
  IN  [released EXCEPT !.resident = @ - 1,
                       !.finished[s] = @ + 1,
                       !.arrivals = IF next < Len(Trace[s]) THEN @ \cup {<<s, next>>} ELSE @]

(* The end of a call: HBM first, then the CPU store, then the counter; the *)
(* next call of the session arrives after a pause.                         *)
Finish(m, s) ==
  LET released == ReleaseCpu(ReleaseHbm(m, s), s)
      next == m.idx[s] + 1
  IN  [released EXCEPT !.resident = @ - 1,
                       !.finished[s] = @ + 1,
                       !.arrivals = IF next <= Len(Trace[s]) THEN @ \cup {<<s, next>>} ELSE @]

(* list.remove; it is only called for members of the list.                 *)
Without(q, s) ==
  IF s \notin Range(q) THEN q
  ELSE LET i == CHOOSE i \in DOMAIN q : q[i] = s
       IN  SubSeq(q, 1, i - 1) \o SubSeq(q, i + 1, Len(q))

(* Mutant of FinishLoop: a call stays for one token too many.              *)
FinishLoopOneMore(m, batch) ==
  LET loop[k \in 0..Len(batch)] ==
        IF k = 0 THEN m
        ELSE IF m.left[batch[k]] >= 0 THEN loop[k-1]
        ELSE Finish([loop[k-1] EXCEPT !.decoding = Without(@, batch[k])], batch[k])
  IN  loop

(* The calls of a batch that have all their tokens leave it and finish, in *)
(* the order of the batch: the simulator after the first k calls.          *)
FinishLoop(m, batch) ==
  LET loop[k \in 0..Len(batch)] ==
        IF k = 0 THEN m
        ELSE IF m.left[batch[k]] > 0 THEN loop[k-1]
        ELSE Finish([loop[k-1] EXCEPT !.decoding = Without(@, batch[k])], batch[k])
  IN  loop

(* One token for every call of the batch, and then the batch is sifted.    *)
DecodeTickHandler(m) ==
  LET stepped == [m EXCEPT !.left = [s \in Sessions |->
                              IF s \in Range(m.decoding) THEN @[s] - 1 ELSE @[s]]]
      sifted == FinishLoop(stepped, m.decoding)[Len(m.decoding)]
  IN  PumpGpu([sifted EXCEPT !.gpuBusy = FALSE])

(* The end of a transfer: the callback of a load, none for a flush; then   *)
(* the link takes its next job.                                            *)
C2CFinHandler(m, job) ==
  LET called == IF job[1] = "load" THEN ReadyPrefill(m, job[2]) ELSE m
  IN  [called EXCEPT !.c2c = Fin(@, job)]

-----------------------------------------------------------------------------
Init == sim = InitialSim

Arrive(s) ==
  \E i \in 1..(Len(Trace[s]) + 1) :
    /\ <<s, i>> \in sim.arrivals
    /\ sim' = ArriveHandler([sim EXCEPT !.arrivals = @ \ {<<s, i>>}], s, i)

C2CFin(job) ==
  /\ job \in sim.c2c.flying
  /\ sim' = C2CFinHandler(sim, job)

PrefillDone(s) ==
  /\ s \in sim.gpuEvent
  /\ sim' = PrefillDoneHandler([sim EXCEPT !.gpuEvent = @ \ {s}], s)

DecodeTick ==
  /\ Tick \in sim.gpuEvent
  /\ sim' = DecodeTickHandler([sim EXCEPT !.gpuEvent = @ \ {Tick}])

Next ==
  \/ \E s \in Sessions : Arrive(s) \/ PrefillDone(s)
  \/ \E job \in LinkJobs : C2CFin(job)
  \/ DecodeTick

Quiet == sim.arrivals = {} /\ sim.gpuEvent = {} /\ sim.c2c.flying = {}

(* Env.run takes events until the heap is empty.  This is the weak         *)
(* fairness of Next with its enabling condition, a pending event, written  *)
(* out: TLC evaluates ENABLED of such handlers too slowly.                 *)
LoopRuns == []<>Quiet \/ []<><<Next>>_sim

Spec == Init /\ [][Next]_sim /\ LoopRuns
-----------------------------------------------------------------------------
(* Where the calls are.                                                    *)
Loading(m)    == {s \in Sessions : Load(s) \in m.c2c.flying \cup Range(m.c2c.q)}
Prefilling(m) == m.gpuEvent \ {Tick}
CpuHolders(m) == Loading(m) \cup Range(m.prefillQ) \cup Prefilling(m) \cup Range(m.decoding)
HbmHolders(m) == CpuHolders(m) \cup Range(m.cpu.q)

Positions(name, q, x) == {name} \X {i \in DOMAIN q : q[i] = x}

(* Every occurrence of session s among the events, queues and the batch.   *)
Places(m, s) ==
  ({"arrival"} \X {e \in m.arrivals : e[1] = s})
    \cup Positions("hbm queue", m.hbm.q, s)
    \cup Positions("cpu queue", m.cpu.q, s)
    \cup Positions("link queue", m.c2c.q, Load(s))
    \cup ({"loading"} \X (m.c2c.flying \cap {Load(s)}))
    \cup Positions("prefill queue", m.prefillQ, s)
    \cup ({"prefilling"} \X (m.gpuEvent \cap {s}))
    \cup Positions("decoding", m.decoding, s)

(* Type invariant.                                                         *)
SimType ==
  [hbm      : Pools(Sessions),
   cpu      : Pools(Sessions),
   c2c      : Links(LinkJobs),
   prefillQ : Seq(Sessions),
   decoding : Seq(Sessions),
   gpuBusy  : BOOLEAN,
   arrivals : SUBSET (Sessions \X (Nat \ {0})),
   gpuEvent : SUBSET (Sessions \cup {Tick}),
   idx      : [Sessions -> Nat \ {0}],
   left     : [Sessions -> Int],
   finished : [Sessions -> Nat],
   resident : Int,
   peak     : Int]
TypeOK == sim \in SimType

(* The bytes of HBM and of the CPU store are exactly those of the calls    *)
(* that passed the admission and did not finish: whatever the order of     *)
(* callbacks in _finish, no byte leaks and no byte is handed out twice.    *)
(* The counter of calls in HBM agrees whenever a handler has returned.     *)
BytesConserved ==
  /\ sim.hbm.free = HbmCap - Cardinality(Bytes(HbmHolders(sim), HbmNeed(sim)))
  /\ sim.cpu.free = CpuCap - Cardinality(Bytes(CpuHolders(sim), CpuNeed(sim)))
  /\ sim.resident = Cardinality(HbmHolders(sim))

(* A session has one call under way, in one place, and is nowhere only     *)
(* when all its calls are in `completed`, each once.                       *)
OnePlace ==
  \A s \in Sessions :
    /\ Cardinality(Places(sim, s)) <= 1
    /\ Places(sim, s) = {} => sim.finished[s] = Len(Trace[s])
    /\ Places(sim, s) # {} =>
         \/ sim.finished[s] = sim.idx[s] - 1
         \/ <<s, sim.finished[s] + 1>> \in sim.arrivals

(* The GPU does one thing at a time: gpu_busy tells whether the end of a   *)
(* prefill or of a decode step is pending, and there is never a second.    *)
GpuExclusive ==
  IF sim.gpuBusy THEN \E e \in Sessions \cup {Tick} : sim.gpuEvent = {e}
                 ELSE sim.gpuEvent = {}

(* No wake-up is lost: an idle GPU, an idle link and a queue of a pool     *)
(* have nothing they could start now.                                      *)
NothingForgotten ==
  /\ ~sim.gpuBusy => sim.prefillQ = <<>> /\ sim.decoding = <<>>
  /\ ~sim.c2c.busy => sim.c2c.q = <<>>
  /\ sim.hbm.q # <<>> => ~Fits(sim.hbm, HbmNeed(sim), Head(sim.hbm.q))
  /\ sim.cpu.q # <<>> => ~Fits(sim.cpu, CpuNeed(sim), Head(sim.cpu.q))

(* The next call of a session reads old KV from the CPU only after the     *)
(* flush of the call before it has landed there.                           *)
FlushBeforeLoad ==
  \A s \in Sessions :
    Load(s) \in sim.c2c.flying \/ s \in Range(sim.prefillQ) \cup sim.gpuEvent
      => Flush(s) \notin sim.c2c.flying \cup Range(sim.c2c.q)

(* A call leaves the batch with its last token: one that stays has tokens  *)
(* left, or has not been through a step yet.                               *)
NoOverrun ==
  \A s \in Range(sim.decoding) :
    sim.left[s] > 0 \/ sim.left[s] = Trace[s][sim.idx[s]].output

(* A decode step is priced for the batch it starts with, and no call joins *)
(* or leaves the batch until it ends: the tokens it credits are those it   *)
(* was priced for.                                                         *)
BatchFrozen ==
  [][(Tick \in sim.gpuEvent /\ ~DecodeTick) => sim'.decoding = sim.decoding]_sim

(* Prefill has priority: a decode step starts only if no prefill waits.    *)
PrefillFirst ==
  [][(Tick \in sim'.gpuEvent /\ (Tick \notin sim.gpuEvent \/ DecodeTick))
       => sim'.prefillQ = <<>>]_sim

(* The event loop ends, even with calls that can never be admitted.        *)
Terminates == <>[]Quiet

(* "completed == sum(len(c) for c in s)" of tests/test_event_sim.py: if    *)
(* every call fits the two pools, every call completes.  Calls that hold   *)
(* HBM and wait for the CPU do not block each other for ever.              *)
AllComplete == <>(\A s \in Sessions : sim.finished[s] = Len(Trace[s]))

(* A call that can never fit stays in the queue, and so does every call    *)
(* behind it: they never start, though they would fit.                     *)
Oversize(s) == HbmNeed(sim)[s] > HbmCap
BehindOversize ==
  [][\A i, j \in DOMAIN sim.hbm.q :
       Oversize(sim.hbm.q[i]) /\ i <= j => sim.hbm.q[j] \in Range(sim'.hbm.q)]_sim

(* "calls holding HBM (admitted, not finished)", the comment on resident:  *)
(* the peak that is reported is a number of calls that fit HBM together.   *)
PeakFitsHbm ==
  \E calls \in SUBSET UNION {{s} \X DOMAIN Trace[s] : s \in Sessions} :
    /\ Cardinality(calls) = sim.peak
    /\ \A c, d \in calls : c[1] = d[1] => c = d
    /\ Cardinality(UNION {{c} \X (1..Trace[c[1]][c[2]].hbm) : c \in calls}) <= HbmCap

-----------------------------------------------------------------------------
(* What each session is doing, as Serving sees it.                         *)
At(m) == [s \in Sessions |->
  IF \E e \in m.arrivals : e[1] = s
    THEN [call |-> (CHOOSE e \in m.arrivals : e[1] = s)[2], stage |-> "thinking"]
  ELSE [call |-> m.idx[s],
        stage |-> CASE s \in Range(m.hbm.q) -> "waiting"
                    [] s \in HbmHolders(m)  -> "resident"
                    [] OTHER                -> "done"]]

(* The simulator serves its sessions as promised: in order, one call at a  *)
(* time, within HBM, and each to its end.                                  *)
Promise == INSTANCE Serving WITH
  at <- At(sim), Cap <- HbmCap, Offloads <- FALSE,
  Size <- [s \in Sessions |-> [i \in DOMAIN Trace[s] |-> Trace[s][i].hbm]]
KeepsPromise == Promise!Spec
=============================================================================
