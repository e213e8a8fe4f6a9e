# Verification of the serving simulators

This directory holds TLA+ models of the program in `sim/` and `model/`, the
TLC runs that check them on small instances, and TLAPS proofs of what holds for
every instance. The program asks whether offloading KV cache and decode work
from a GPU to its attached CPU pays. It answers with closed formulas and
searches (`model/`) and with two discrete-event simulators (`sim/`). Both are
modelled: the simulators as state machines whose state is that of the objects,
the programs of `model/` as operators over exact fractions, called by actions
that follow the program's control, and the download of the trace, which the
parser and the simulators share, as a machine that may stop at any step.

## 1. Inventory

### The simulators (`sim/`)

| component | state | operations | talks to |
|---|---|---|---|
| `Env` (`event_sim.py` 44-65) | clock `now`, heap of events, `_seq` | `at`, `after`, `run` (and `event`, a counter for the report) | runs every handler below |
| `C2CLink` (68-95) | `busy`, queue of (bytes, callback), `busy_time` | `transfer`, `_next`, `_fin` | schedules `_fin` with `Env`; `_fin` runs the callback, then takes the next job |
| `Pool` (98-119) | `free`, `cap`, queue of (bytes, callback, time), `stall_time` | `acquire`, `release` | runs callbacks of whom it grants, inside the call |
| `Sim` (167-341) | HBM pool, CPU pool, link, `prefill_q`, `decoding`, `gpu_busy`, `completed`, `resident`, `peak_resident` | `_arrive`, `_admitted`, `_old_kv_load`, `_ready_prefill`, `_pump_gpu`, `_prefill_done`, `_decode_step`, `_decode_tick`, `_finish`, `run` | all of the above |
| `DynSim` (`dynamic_sched.py` 40-232) | as `Sim`, with two batches `gpu_dec`, `cpu_dec`, two flags, `offloaded` | `_arrive`, `_ready_prefill`, `_pump_gpu`, `_route`, `_cpu_ok`, `_prefill_done`, `_cpu_admit`, `_cpu_join`, `_gpu_decode_step`, `_gpu_tick`, `_pump_cpu`, `_cpu_tick`, `_finish`, `run` | `Env`, two pools, the link |
| drivers (`load_calls`, `run_one`, `main`, `admission_sweep.py`) | none | build sessions, run the simulators over parameters, write Markdown | `model/trace_parser.py`, the simulators |

A *session* is a list of calls; the next call arrives a pause after the
previous one finished. In `Sim` a call asks for HBM, then for room in the CPU
store, has its old KV loaded over the link, is prefilled on the GPU, flushes its
new KV over the link while it decodes in the batch, and returns both kinds of
bytes when its last token is out. In `DynSim` it asks for HBM only; after the
prefill the scheduler keeps it on the GPU or sends it away: its HBM is returned,
its KV crosses the link, it asks for CPU bytes and joins the CPU batch.

There are no threads. What makes this code hard is that a handler runs many
callbacks before it returns: `_decode_tick` finishes a call, whose release of
HBM admits other calls, each of which may take CPU bytes and start a transfer,
before the next call of the batch is looked at and before `gpu_busy` is cleared.
The hard behaviours are therefore

* **re-entrancy**: `_finish` -> `release` -> `_admitted` while counters and flags
  are half updated; `_prefill_done` of `DynSim` -> `release` -> `_pump_gpu` twice;
* **ordering**: who is granted first, whether the flush of a call ends before
  the next call of the session loads it, events of the same time;
* **stale decisions**: `_cpu_ok` judges the CPU engine before the flush, the call
  joins after it;
* **liveness**: each of five queues is served only by explicit wake-ups; a call
  holds HBM while it waits for the CPU store; a call too large for a pool is
  never granted and stops the queue without an error;
* **boundaries**: calls without output, negative capacities (the weights do not
  fit), negative durations, `min(cap, ...)` in `release`.

What makes each component correct:

* `Env`: no event in the past; the order of events is that of time, then of
  scheduling; no two entries compare equal.
* `C2CLink`: one transfer at a time, first in first out, nothing lost, nothing
  waits on an idle link.
* `Pool`: bytes are conserved and not overdrawn; the queue keeps its order; when
  an operation returns, the head really does not fit.
* `Sim`: bytes on both devices belong to exactly the calls that should hold
  them; one task on the GPU; the batch is not changed under a step; a call is in
  one place and is finished once; every call completes if each fits.
* `DynSim`: the same for two engines, and the KV of a call moves at most once.

### The analytical model (`model/`)

Except for the download of the trace there is no state beyond local variables;
a module is a set of functions and a report. Discrete parts are set in bold.

| component | what it does | what makes it correct |
|---|---|---|
| `config.py` | records of hardware, model, workload, policy, SLO | sizes that scale with the GPUs keep their product |
| `analytical.py` | byte and time formulas; **`decode_batch_cap`, `_best_bd_at_f`, `optimize_f`, `crossover_ok`** | the search skips what is infeasible, finds the best point that is not, and never recommends worse than no offload |
| `concurrent.py` | mix of classes on one GPU; **bisections `_batch_slo_cap`, `fit_overlap`, search `best_f`** | the batch is the largest that the SLO and the memories allow; an overlap is fitted exactly when the measurement lies in the band |
| `contention.py` | closed formula of HBM contention | offload costs no throughput before the CPU or the link is the bottleneck |
| `disagg.py` | **`cpu_decode_capacity`**, `crossover_cpus`: decode on CPUs | the scan does not stop at a batch that misses the SLO if a later one is better |
| `pd_disagg.py` | prefill-decode disaggregation | with perfect overlap, no better than GPUs that do both phases unless the link binds |
| `parallelism.py` | **`expert_pieces`, `valid`, `shard`, `best_for_config`, `deployment_grid`** | the ranks of a replica hold all weights; the best batch of a layout is the best |
| `roofline.py` | closed formulas | no serving throughput lies above the ceiling |
| `scenario.py` | **parsing of a mix, the chain of sections, the verdict** | the verdict follows from the numbers it is about |
| `sweep.py` | nested loops, CSV | the batch of a row fits HBM exactly when the row says so |
| `trace_parser.py` | **paged fetch with a cache, segmentation into trials**, percentiles | the cache is the whole trace or unreadable; the calls of a trial lie end to end |
| `validate.py` | **calibration (grid search), leave-one-out** | the efficiency that made the data is found again; more parameters never fit worse |

The hard parts are searches whose answer depends on monotonicity or on `break`
versus `continue`, rounding and division at boundaries (no room for the weights,
no KV, `inf`), values computed twice in two ways that must agree, decisions taken
on a row that is not the one reported, and the fetch that can fail between two
pages or while it writes.

## 2. Modules

| module | models | note |
|---|---|---|
| `PoolOps` | `Pool` as operators on `[free, q]` | shared by everything below |
| `LinkOps` | `C2CLink` as operators on `[busy, q, flying]` | `flying` is the set of jobs whose `_fin` is pending |
| `Pool`, `MCPool` | one pool with its clients | `AcquireBy`, `ReleaseBy` |
| `C2CLink`, `MCC2CLink` | one link with its jobs | `Submit`, `End` |
| `EventLoop`, `MCEventLoop` | `Env` | `At`, `Fire`; times are integers |
| `EventSim`, `MCEventSim` | `Sim`, composed of two `PoolOps` pools and a `LinkOps` link | one action per kind of event |
| `DynamicSched`, `MCDynamicSched` | `DynSim`, composed likewise | one action per kind of event |
| `Rationals` | exact fractions `<<n, d>>` with one infinity, in the place of floats | |
| `Config`, `Analytical`, `Concurrent`, `Roofline` (with `contention.py`), `Disagg` (with `pd_disagg.py`), `Parallelism`, `Validate` | the modules of `model/` of these names | functions as operators |
| `TraceCache` | `fetch_rows` and its file | one action per step that can fail |
| `TraceParser` | `trace_parser.py` and `load_calls` of the simulators | extends `TraceCache` |
| `Studies` | the drivers of `model/` | one action per driver |
| `Scenario` | `scenario.py` | one action per section of the report |
| `Tools`, `MCModel` | all programs of `model/` together | composes `TraceParser`, `Studies`, `Scenario` |
| `Serving` | abstract: what both simulators promise | refined by `EventSim` and `DynamicSched` |
| `OpsProofs` | lemmas about `PoolOps`, `LinkOps`, and loops | |
| `PoolProofs`, `C2CLinkProofs`, `EventLoopProofs`, `EventSimProofs`, `DynamicSchedProofs`, `ServingProofs`, `ToolsProofs` | theorems | |

**Correspondence, simulators.** In `EventSim` and `DynamicSched` the only variable is `sim`,
the object: one field for each attribute that decides what happens next, and
the events that the heap holds, split by kind (`arrivals`, `gpuEvent`,
`cpuEvent`, and `flying` in the link). A method is an operator from a value of
the object to the value it leaves. A callback is applied inside the operator of
the method that runs it, at the point where the code runs it, so one action is
one whole turn of `Env.run`. The loop of `release` is the recursive function
`GrantLoop`, and `Granted` names the clients whose callbacks run, in order. In
the code these callbacks run between the grants and not after them; that makes
no difference, because no callback of a pool uses the same pool (the callbacks
of the HBM pool use the CPU pool, the link and the GPU; those of the CPU pool use
the link or the CPU engine), so what they do and the remaining grants commute.
A call is named by its session, since a session has one call under way.

**Correspondence, `model/`.** A Python function is an operator of the same name
(`serving_mix`, `optimize_f`, `shard`), and an object of keyword arguments is a
record: `x` holds the workload, model, hardware, coefficients and SLO, `pol` a
policy, `s` the settings of a mix. A loop that keeps the best so far is a fold in
the order of the loop, so that ties fall as in the code; a bisection is a
recursive function with the number of rounds as a constant. Long bodies are split
into operators by the values they compute first. `Studies` runs one
driver on one input: `study` holds the driver, what it was given and what it
found, and the properties compare the two. `Scenario` follows `run` from section
to section with its early returns. `TraceCache` has the file on disk (absent,
torn or whole), what the server holds, and where `fetch_rows` is.
`Stop` may happen at every step of a download: a timeout, a refused request and
a killed process look alike, since no exception is caught on this path.

**What is abstracted in the simulators.** Time: any pending event may be the next, so every order
of events that causality allows is explored. Durations depend on hardware and
model constants and arrivals are random, so each of these orders is one that some
configuration can come close to; safety checked here holds for all of them.
Bytes are counted in an abstract unit, and the size of a call is a constant:
floating-point rounding of sizes is not modelled. Everything that only the
report reads (`busy_time`, `stall_time`, time stamps, event counts) is left out;
`resident` and `peak` are kept because they are the count of admission. The
SLO test of `_cpu_ok` is the constant `CpuSloBatch`: `_cpu_step_time` does not
fall as the batch grows, so the test is a bound on the batch.

**What is abstracted in `model/`.** Floats are exact fractions and the
tolerances that the code adds because of rounding are left out, so the rounding error of a
formula is not modelled. An empty workload, a missing field or a division by zero
is modelled as the code has it: a fallback value, an infinity, an exception. The
text of a trace is reduced to the lengths of its turns. The server answers a page
with all its rows; see section 6 for one that does not.

Several modules hold, next to a definition, variants of it that are named and
commented as mutants. No specification uses them. Each is a plausible mistake
in that code, and substituted for the definition it makes some property fail:
they show that the properties look at the code.

## 3. Runs

| run | what it asks | instance | result |
|---|---|---|---|
| `pool` | conservation, queue order, no lost wake-up | 6 clients of 0..5 bytes, capacity 4 | holds, 418 states |
| `pool_fifo` | is admission first in, first out? | the same | violated (finding 1) |
| `link` | single server, order, every job ends | 4 jobs | holds, 261 states |
| `event_loop` | order of events, clamp of delays | 3 start times, delays -2..2, 5 events, 2 per handler | holds, 1899 states |
| `event_sim` | all of `Sim` when every call fits | 4 sessions, 6 calls, HBM 4, CPU 3 | holds, 8095 states |
| `event_sim_oversize` | calls that can never fit, a session without calls | 5 sessions, 7 calls | holds, 7610 states |
| `event_sim_peak` | does the reported peak fit HBM? | HBM for one call | violated (finding 2) |
| `dyn_dynamic` | all of `DynSim`, each of the three policies | 4 sessions, 6 calls, HBM 4, CPU 3, target 1, SLO batch 2 | holds, 28622 states |
| `dyn_slo` | does the CPU batch keep the SLO? | the same | violated (finding 3) |
| `dyn_kv_flush` | does KV stay in HBM until it is flushed? | the same | violated (finding 4) |
| `model` | all programs of `model/` | 4 kinds of hardware, 3 workloads, 2 models; 2 traces; 72 scenarios | holds, 1665 states |
| `mix_cpu_dram` | does offloaded KV fit the memory of the CPU? | a mix with all KV on the CPU | violated (finding 5) |

**Bounds.** The sizes are chosen so that both pools are contended, a small call
can pass a large one, several clients can be granted by one release, a call
needs the whole of a pool, a call puts out nothing, and a session has two calls
so that launches and the order of flush and load occur. Four sessions are enough
for two calls to finish in one decode step while two others wait on different
queues. `MaxEvents` and `MaxRequests` of `EventLoop` bound the events in all and
per handler; ties, a negative delay and an `until` that leaves events in the
heap all occur within them. Sizes are not interchangeable between sessions, so no
symmetry is used. Deadlock is not checked: a simulator stops when its heap is
empty, a pool when all its clients wait or hold, and a link when all jobs ended;
a study ends when it has its result.

In `model` the inputs are fractions with small denominators, and `MCModel` picks the four
machines so that HBM, the CPU, the link, compute and the SLO each bind for some
of them: HBM that holds hardly more than the weights, a fast CPU with little
memory, scarce compute. `FGrid`, `BdGrid` and the other grids have two to five points in
the place of the five to twenty of the code, the lowest point of `EtaGridJoint` is
missing as it is in the code, `BatchMax` is 12 in the place of 1e9 (like 1e9 no power of
two, so that doubling goes past it, and small enough that some mixes reach it), and the bisections have `SloBisections` = 4
and `FitBisections` = 3 rounds for 60 and 50: the properties are stated for the
resolution these leave. `N_ROWS` = 5 with
`Page` = 2 gives a last page that is short; one of the two traces has fewer rows
than are asked for, and none of them a complete call. The scenarios include a rack on which
no layout fits, an unknown field, an unknown class of a mix, and one whose merge
of attentions takes the whole SLO.

**The properties of `Sim` and `DynSim`.** `BytesConserved` relates
the free bytes of both devices (and in `Sim` the counter `resident`) to the set of
calls that are in the stages that hold them. As in the code the size
of a call is computed anew when it is released, so it also says that this agrees with what was
taken; a mismatch is what `min(cap, ...)` in
`release` would hide. `Conservation` of `Pool` has one size per client and cannot. `OnePlace` counts all occurrences
of a session in events, queues and batches. `GpuExclusive` (`EnginesExclusive`)
ties the flag to the pending event. `NothingForgotten` says that no queue could
be served now. `FlushBeforeLoad` says that a session's flush has left the link
before its next load is served. `NoOverrun` bounds the tokens of a call that stays in
the batch. `BatchFrozen` (`GpuBatchFrozen`) and `PrefillFirst` are action
properties of the GPU. `BehindOversize` states head-of-line blocking as a fact: behind a call that never fits, nobody starts.
`AllComplete` is the assertion of `tests/test_event_sim.py` that the number of
completed calls is that of all calls; `Terminates` holds even when it does not.
`KeepsPromise` is the refinement of `Serving`; for `DynSim` it includes that
the KV of a call moves at most once: an offloaded call never comes back to HBM.

**`Serving`** knows only, for each session, its present call and whether that is
thinking, waiting, resident in HBM, away (offloaded) or done. A step moves any
number of sessions by one stage each, admits only what fits with all that is
resident, and every session gets done. The mapping `At` reads the stage off the
queues, the batches and the events. That one step may move several sessions is
the point: a decode step may finish several calls and admit others in their
place, and the fit must hold for the state that results.

**The properties of `model/`.**

* `TraceUsable`: a file that can be read holds the whole trace, whatever failed
  before, and so does what the parser is given. `SegmentsTile`: each call of a
  trial finds in the cache exactly what was said before it, in the report and in
  what the simulators replay; the anchored mean is the documented one, each
  summary rises from the minimum over p50, p90 and p99 to the maximum with the
  mean in between, and the fraction that is not cached (one less the hit rate) is
  that of the means.
* `BestPoint`: `optimize_f`, `best_f`, `cpu_decode_capacity` and
  `best_for_config` return a feasible candidate that no other beats, and none
  only if there is none. The candidates are written down as a set, the search in
  the order of the code.
* `LargestWithinSlo`: what `_batch_slo_cap` settles on meets the SLO and, up to the
  resolution of the bisection, no larger whole batch does. It would fail if the
  step time could fall as the batch grows. The answer `BatchMax` stands for "no
  bound", and then the property asks only that up to half of it meets the SLO:
  the code returns 1e9 as soon as the next power of two is beyond, without a look
  at the batches between the last one it tried and 1e9 (section 6).
* `OverlapFitted`: `fit_overlap` answers exactly when the measurement lies between
  no overlap and perfect overlap, and brackets it; the band is monotone.
* `PhysicalBounds`: agreement of quantities that different modules compute: cap and
  bytes, throughput and roofline, predictions and floors, weights of the
  ranks and of the model, disaggregated and colocated prefill. The last is the claim of
  `tests/test_pd_disagg.py` ("dedicating GPUs to one phase can only lose"), and it needs a
  condition: the link to the shared KV pool must not be what binds. For HBM
  contention it is the reading in the report: offload raises the throughput until
  the CPU or the link is the bottleneck.
* `CalibrationRecovers`: points made with an efficiency give it back without
  error, also for the point that is left out; the joint fit is no worse
  than the single one when its grid has that efficiency.
* `VerdictHolds`: when the scenario recommends an offload, the fraction it names is
  feasible and wins by more than 2%; when it does not, no fraction of the
  grid wins, or compute binds. It speaks of a baseline that meets the SLO.

**Fairness.** `Env.run` takes events until the heap is empty, so a simulator with
a pending event takes another turn: weak fairness of `Next`. In `LoopRuns` this
is written `[]<>Quiet \/ []<><<Next>>_sim` with its enabling condition spelt
out, because TLC evaluates `ENABLED` of whole handlers slowly. The link alone
has weak fairness of its `_fin`. No fairness between events is assumed: it
follows from the finite number of calls.

**Findings.**

1. `Pool` is documented as "FIFO admission", but `acquire` (line 107) grants what
   fits without looking at the queue. Among those that wait the order is kept
   (`QueueOrder`); the newcomer passes them.
2. `_finish` (line 306) releases HBM before it lowers `resident`, so the admissions
   inside the release push `peak_resident` above the number of calls that were
   ever in HBM together: the finished call is still counted when the call that
   takes its place is. The reported peak can be one too high.
3. `_cpu_ok` (`dynamic_sched.py` line 140) counts the calls that decode on the CPU
   now, not those whose flush is under way or that wait for CPU bytes, so the
   CPU batch exceeds the SLO that the docstring promises.
4. `_prefill_done` (`dynamic_sched.py` line 151) returns the HBM of an offloaded call before the
   flush its comment puts first; until the flush ends, HBM holds more than fits.
5. `serving_mix` (`concurrent.py` line 312) takes the batch to be unbounded when
   no KV stays in HBM (f = 1) before it looks at the memory of the CPU. Only the
   SLO then bounds the batch, and the result is marked as fitting. On one machine of the
   run the CPU holds 64 units and the KV of the batch is 108.

## 4. Theorems

All are for any values of the constants that the named assumptions allow.

* `PoolProofs`: type, `Conservation`, `NobodyWaitsTwice`, `HeadBlocked` and
  `QueueOrder`, from `PoolAssumption` (finitely many clients, sizes in `Nat`, any
  integer capacity). The inductive invariant is the conjunction of these: that
  `min(cap, ...)` cuts nothing off needs conservation, conservation needs that the
  released client is not also in the queue, and so on. The heart is
  `ReleaseEffect` in `OpsProofs`: a release grants exactly the first n clients
  of the queue, for some n, takes exactly their bytes, and stops at a head
  that does not fit.
* `C2CLinkProofs`: type, `SingleServer`, `IdleMeansEmpty`, `FifoDelivery`, for any
  set of jobs.
* `EventLoopProofs`: type, `NoPast`, `NoTie` and `InOrder`. `InOrder` needs an
  invariant of its own: every pending event comes after the last one fired, in
  the order of the heap.
* `EventSimProofs`: type, `GpuExclusive`, `BatchFrozen`, `PrefillFirst`, then
  `BytesConserved`, `OnePlace`, `NothingForgotten` and `NoOverrun`, then
  `FlushBeforeLoad`, the refinement of `Serving` (`ServesAsPromised`) and
  `BehindOversize`. For the first
  four the inductive invariant `IInv` is the type with `GpuExclusive`: that a handler
  starts no second task, and that nobody but the end of a step touches the batch,
  rests on the pending event being the only one. The lemmas go up from the
  methods to the handlers: what `_admitted`, `_finish` and the loops of callbacks
  leave alone of the GPU, and what `_pump_gpu` makes of an idle one.

  For the next four the invariant `PInv` adds that every session *rests*: for some
  function w from sessions to stages (`arriving`, `hbm queue`, ..., `decoding`,
  `done`) there is `AtRest(sim, w)`: each pool, queue, event, the batch and the
  counter are those of w, the pools have handed out exactly the bytes of
  the sessions in the stages that hold them, and the head of no queue fits. None
  of the four is inductive without the others: that `min(cap, ...)` cuts nothing off needs
  the bytes, the bytes need that who releases holds, and that needs the
  places. Inside a handler a session passes through stages of its own (`granted`
  before its callback has run, `half` between the two releases of `_finish`, ...),
  and the lemmas say of each method from which stage to which it takes a session
  and that `Placed` holds again: `AcquireAt` and `ReleaseAt` for the pools, `LoopPlaces` for
  callbacks, `FinishPlaces` for `_finish`, `FinishLoopPlaces` for the sifting of a
  batch, and one lemma for each handler.

  Each of these lemmas also says how a handler may move each session (`Turn`: it
  stays, is admitted, loaded, finishes, ...). `ServedAs` maps the stages to
  those of `Serving`, and a turn of every session is then a step of `Serving` or a
  stutter. So `ServesAsPromised` proves `Spec => Promise!Safety`: the
  initial states and all steps of `KeepsPromise`.

  For `FlushBeforeLoad` the invariant `FInv` adds the order on the link: a flush
  never waits behind a load of its session, and no session in the
  prefill queue or prefilling has a flush under way. `Placed` gives that
  a session with a flush under way has no other place, hence no load, when a
  handler queues the flush; the methods themselves queue only loads (`LoadsOnly`).

  `BehindOversize` (`NobodyPassesOversize`) needs the types only: a release
  takes clients from the front of the queue and none whose need exceeds the
  capacity (`LeftFromFront`, which is transitive), a new client joins at the back,
  so who is behind a call that never fits is still behind it after any step.
* `DynamicSchedProofs`: type, `EnginesExclusive`, `GpuBatchFrozen`, then
  `BytesConserved`, `OnePlace`, `NothingForgotten` and the refinement of `Serving`
  (`ServesAsPromised`), from sizes and
  outputs in `Nat`. Here a handler may wake the GPU several times: the release of
  HBM in `_prefill_done` runs `_pump_gpu`, and then the handler runs it again.
  So the lemmas about the engines speak of *sets* of objects: `Woken(s)`, the objects that an idle or
  busy GPU may turn into by being woken, and `Joined(s)`, the same for the CPU engine. Every
  callback stays in such a set, so do loops of callbacks, and each handler ends
  in one whose engines have exactly one pending event if their flag is set.
  The bytes and places go as in `EventSimProofs`, with the stages of this
  scheduler (`cpu queue`, `joining`, `on the cpu`, ...) and the invariant `PInv`. That a
  call moves at most once, from HBM to the CPU and never back, is part of `Turn`.
* `OpsProofs` holds what these share: the stages of a pool and its queue
  (`PoolAt`, `QueueAt`), what acquiring and releasing do to them (`AcquireAt`,
  `ReleaseAt`), and the loops below.
* `ToolsProofs` is about the programs of `model/`.

  *The download*: type, `TraceUsable`, and that the rows in memory are those
  up to `off` (`PagesAreInOrder`), for any server, number of rows and page
  size. The inductive invariant needs the last: when the loop ends, `off` is
  `N_ROWS` and the rows are the trace. Its arithmetic is in `PageContinues`:
  the rows up to `off` followed by the next page are the rows up to its end.
  These theorems are about the specification of `TraceCache`. `ToolsDownload` shows
  that `ToolsSpec`, all programs together, implements it, so they carry over
  (`ToolsReadTheWhole`): no driver, study or scenario touches the file otherwise.

  *The searches* (`SearchesFindTheBest`): `BestPoint` for any inputs and grids. All
  searches are `FirstBest`, whose loop invariant is `BestOfFirst`: after k
  candidates the best so far is one of them, and allowed, and none of the k that are
  allowed scores higher. `optimize_f` is a search over the results of
  searches (`BestOfBests`). `cpu_decode_capacity` stops at the first batch that the
  memory does not hold and keeps on past a batch that misses the SLO; that stopping loses
  nothing needs that the grid rises and that the demand of a batch
  rises with it (`ProductMonotone`).

  *The verdict* (`VerdictIsSound`): `VerdictHolds` for any arguments. The inductive
  invariant `ScenarioInv` says of each section of `run` what the sections
  before have found: that the mix is the one of the arguments, that the two tables are
  those of `best_f`, and that the verdict is on the row of the second. The proof
  then goes from gains, which the verdict compares, to throughputs, which the property
  compares: a quotient exceeds 51/50 exactly if the dividend exceeds
  51/50 of the divisor (`QuotientOrder`).

  *The largest batch* (`BatchIsLargest`): `LargestWithinSlo` for any dense model,
  machine, mix and SLO. It has three parts. `TpotRises`: the time of a step never
  falls as the batch grows. `Rises(a, b)` says that a and b are not negative and
  a is at most b; sums, products, quotients, the guarded quotient, the larger of two
  and `combine` keep it; `combine` because no more than all of the smaller demand is
  hidden (`RisesCombine`, where the overlap must be a share). `FirstMissIs`: doubling ends at
  a power of two that misses the SLO or is beyond `BatchMax`, and half of it
  does neither; that `BatchMax` turns are enough follows from h > k after k turns.
  `BisectIs`: after each turn the lower end meets the SLO, the upper end misses it, and
  for some w <= m the ends are p * m / w and p * (m + 1) / w where
  the resolution is 1 / w (`Between`). So the upper end is at most the lower one
  times 1 + the resolution, and whatever is beyond that misses the SLO because the step time rises.

  *Fractions*. Comparison in `Rationals` follows the continued fraction of both
  sides, so that TLC's 32-bit integers do not overflow. `CrosswiseOrder` shows that
  this is the order of the cross products, from which follow that it is
  total and transitive and what products and quotients do to it. `GcdDivides` is
  what normal form needs. `Over(a, n, D)` says that a is n/D, in lowest terms or not:
  sums, differences and products of such fractions are those of arithmetic
  (`OverPlus`, `OverMinus`, `OverTimes`), any four have a common denominator,
  and over it they are ordered as their numerators (`OverOrder`).

  *The calls of the trace* (`CallsLieEndToEnd`): `SegmentsTile` for any rows, documented
  number and bounds. Three things come together. `SegmentIs`: cut out at c
  characters per token, the calls are those cut out at 1 with every
  number divided by c, and each begins where the last one ended (`EndToEnd`); the list of
  all calls keeps this although it is flattened twice (`FlattenTyped`, `FlattenPaired`).
  `Anchored`: the mean of quotients is the quotient of the mean, so dividing by
  the characters per token, which are a mean over the documented one, gives the
  documented one. `SummaryInOrder`: the k-th smallest value is the
  least that k values do not exceed (`NthExists`, by counting), it rises with k, and
  so do the percentiles, which lie between two neighbours. The equality of two
  results of different formulas needs that numbers in lowest terms are equal if their
  values are (`SameValue`). That rests on the greatest common divisor being a combination of
  the two numbers (`GcdCombines`), by induction along Euclid's algorithm.

  *The calibration* (`CalibrationIsRecovered`): `CalibrationRecovers` for any points, mixtures of
  experts included, and any grids. `PredictedSlowed`: at one efficiency eta everything takes
  1/eta of its time at the peak rates, so the prediction is that at the peak divided by
  eta. This goes through the larger of two times, sums and the guarded quotients of
  `tpot`. Different efficiencies therefore predict different times (`SlowedTells`), the
  error is 0 exactly for the one that made the points (`ErrorIs`), a mean of errors
  is 0 exactly if they all are (`MeanError`), and the search returns the least
  (`LeastIs`). Points without one of them are still points made with eta, which is
  the part about leave-one-out (`OthersMadeUp`). The joint fit is one list of the turns of three
  nested loops; `SameTurn` shows at which place the two efficiencies are the same
  and the dispatch time is 0, so what the single fit finds was tried there as well.

  *The fitted overlap* (`OverlapIsFitted`): `OverlapFitted` for any mix and any number of
  bisections. The part that carries it is that more overlap never costs throughput, which is
  not plain, since for every overlap the code seeks the batch within the SLO anew and every
  batch has other times. Of two overlaps each quantity of the step is followed from the lower
  to the higher (the lemmas `Shrinks...`): a step takes no longer (`OverlapEases`), so a batch
  that met the SLO still meets it; the doubling ends at the same power of two or a later
  one, and bisections over the same grid end no lower (`BatchRises`); a larger
  batch shares the weights among more, so a call demands no more bytes of either
  memory (`MixDemandShrinks`) and takes no longer (`CallTimeShrinks`). `Shrinks`
  also says that what was positive stays positive, for a time of 0 counts as a
  throughput of 0. The rest is
  the bisection: with N turns its ends lie next to each other on a grid of 2^N
  parts and keep the measurement between their throughputs (`Enclosing`), and the midpoint it
  returns is half a part from either.

  Seven assumptions, which TLC evaluates for the instance of the runs, say that the inputs
  are those a Python program survives. `ScoresAreNumbers`: the scores that a
  search compares are finite, since a division by zero raises in the
  code and ends the program, and `optimize_f` is called with a grid that begins with 0.
  `CpuBatchesAreNumbers`: the same for decode on the CPU, with `BC_GRID` in ascending
  order as in the code, and sizes that are not negative. `MixesAreNumbers`: the
  throughputs of a mix are finite and not negative, and if the baseline meets the SLO with
  a throughput of 0, which means that no class puts out a token, no offload has any.
  `MixesAreTyped`: the sizes, rates and times a step is made of are not
  negative, what divides is positive, and overlap and offload are shares, as
  `_overlap_frac` requires of the overlap. It also asks for a dense model. That is a
  limit of the model and not of the code: what a mixture of experts reads has a power of
  the batch (`Coverage`), a fractional batch has an irrational power, and
  `Rationals` has the powers of whole batches only. No run bisects for such a model either.
  `TraceAssumption`: a trace is rows of lengths, bounds are natural numbers, and the
  documented numbers are positive. `CalibrationsAreTyped`: sizes and measurements are
  not negative or positive as they divide, points are made with an efficiency of the grid, and
  `TD_GRID` begins with 0 as in the code. These two ask for numbers in lowest terms
  (`LowestTerms`), as every constructor of `Rationals` returns them. `OverlapsAreTyped`:
  what `MixesAreTyped` says, of each mix that an overlap is fitted to: its classes are lists of
  sizes and weights that are not negative and not all 0, and the HBM that the model weights leave
  free is a number.
* `ServingProofs`: in `Serving` the residents always fit (`ResidentsFit`), from
  sizes in `Nat` and the safety half of the specification (`Safety`) alone. With the
  two refinements above it carries over to both simulators.

**Loops.** `release`, the callbacks it runs and the sifting of a batch are loops
over queues of any length. They are recursive functions on `0..n`, so that
facts about them need induction. The induction is first-order: `LeastNumber`
follows from the well-foundedness of < on `Nat` in the library, `LoopInduction`
from it for a *set* of numbers, `LoopExists` shows that a recursive function whose
turns stay in a set exists, and `LoopStays` that it stays there.

**Only model-checked.** Liveness (`AllComplete`, `Terminates`, `Delivered`) and the
liveness half of `KeepsPromise` (that every session gets done), which TLAPS cannot
prove. Of `model/` one invariant: `PhysicalBounds`, whose six parts each compare long
formulas of two modules. One of them is not
true for all inputs: in a sweep that leaves no KV of a call in HBM, with exactly as much free
HBM as the append brings back, the bytes fit and the cap is 0.

## 5. Not modelled

* Times, durations and the statistics of the reports of the simulators, their
  command lines and `admission_sweep.py`, and the text of all reports. They
  change no state that is read back.
* Tests, documents and measurements. What they claim is quoted where a
  property is about it.
* Rounding of floats.
* The module docstring of `event_sim.py` names transfers during decode, which its
  code does not simulate, so the model has none.
* A call that joins the CPU batch of `DynSim` during a step is credited a token
  at the end of it (`_cpu_join`, line 161). The model does the same; a property
  about it would need the times of a step, which are abstracted.

## 6. Observations without a run

Met while translating; the models do what the code does, and no run is about
them, either because no document says otherwise or because the program
ends there.

* `run_sweep` with fewer GPUs than any layout needs has an empty grid, and
  `rows[0]` raises (`parallelism.py` 300) after the old CSV has been truncated.
* The lower end of the band in the printed verdict belongs to the best fraction
  without overlap, which may differ from the fraction that is recommended
  (`scenario.py` 206-212, 242).
* An explicit `--mix long:1.0` equals the default and is replaced when
  a workload is given (`scenario.py` 185-186).
* `PolicyConfig` says that sparsity scales the CPU side only (`config.py`
  291-294); `gpu_attn_time` uses it for the GPU as well.
* After a writer died, `fetch_rows` raises on the torn file until it is removed or
  a download is forced, while `load_calls` catches that and
  replays made-up sessions with a note (`FetchRaises`, `load_calls`).
* A page that holds fewer rows than asked for is accepted: `off` advances by
  what was asked, and the cache is then not the whole trace. `PageOf` assumes a
  server that keeps its promise, and so do `TraceUsable` and its proof.
* `_batch_slo_cap` returns 1e9 as soon as doubling goes past it. The last batch it
  tried is then 2^29, so 1e9 itself may miss the SLO (`concurrent.py` 204-207).
  `serving_mix` takes 1e9 for "no bound" and limits it by the memory; only a
  KV of almost nothing would let such a batch run.
* The gain 0 of `best_f` is said to signal that nothing is feasible
  (`concurrent.py` 471-472), but it appears whenever the baseline is
  infeasible, and the scenario then advises against offloading.
* `contention.report` attaches CPUs to the hardware and passes their number on,
  so they count twice (`contention.py` 103); the report is marked superseded.
* `baseline_out_tps`, `serving_2res` and `system_pd` run a batch of at least 1 even
  when the weights leave no room for it.
* The balanced split of `system_pd` is not the best one when the
  RDMA link binds.
* `serving_mix` and `serving_2res` at perfect overlap can exceed the
  roofline, which `outputs/contention_validation.md` says never happens;
  `PhysicalBounds` compares the roofline with `serving_tps`.
* The grid of the joint calibration starts at 0.10 and that of the single one at 0.05,
  so three parameters may fit worse than one at the lower edge.

## 7. What could come next

1. Time in the simulators: stall and busy time, and the token credited to a late
   joiner.
2. The parts of `PhysicalBounds`, one at a time, with the equality of numbers in lowest terms
   (`SameValue`) and the laws of order in `ToolsProofs`; and finite scores from
   finite inputs (`ScoresAreNumbers`) for a mix of one class.
