------------------------------ MODULE Scenario ------------------------------
(***************************************************************************)
(* The scenario of model/scenario.py: from the arguments of the command    *)
(* line through the three analyses to a verdict in words.  Each action is  *)
(* a section of run; a run may end early, by an argument that is refused   *)
(* ("exit"), an exception ("raised") or a mix that does not fit ("oom").   *)
(* The argument mix is a sequence of <<name, weight>>, and workload one of *)
(* <<field, value>>, empty if the option is not given.                     *)
(***************************************************************************)
EXTENDS Concurrent, Parallelism, TLC

CONSTANTS Arguments,   \* the command lines that are tried
          MixClasses,  \* MIX_CLASSES: the workload of each class name
          DefaultWork  \* WorkloadConfig()

VARIABLE scn

NoScenario == [at |-> "start"]
DefaultMix == <<<<"long", One>>>>

-----------------------------------------------------------------------------
field(key) == CASE key = "sc" -> "s_cached" [] key = "a" -> "a_append"
                [] key = "o" -> "o_output"  [] key = "idle" -> "t_idle"
                [] OTHER -> key

parse_workload(spec) ==
  LET known == {"s_cached", "a_append", "o_output", "t_idle", "name"}
      fields == [i \in DOMAIN spec |-> [spec[i] EXCEPT ![1] = field(@)]]
      (* A field that is given twice has its last value.                   *)
      value(key) == Seqs!FoldLeft(LAMBDA v, e : IF e[1] = key THEN e[2] ELSE v,
                             DefaultWork[key], fields)
  IN  IF \E i \in DOMAIN fields : fields[i][1] \notin known THEN [ok |-> FALSE]
      ELSE [ok |-> TRUE,
            work |-> [key \in DOMAIN DefaultWork |-> value(key)]]

(* The classes of a mix; "custom" is the workload of the command line, if  *)
(* there is one.                                                           *)
parse_mix(spec, custom) ==
  LET classes == IF custom.ok THEN MixClasses @@ [custom |-> custom.work] ELSE MixClasses
  IN  IF spec = <<>> \/ \E i \in DOMAIN spec : spec[i][1] \notin DOMAIN classes
        THEN [ok |-> FALSE]
      ELSE [ok |-> TRUE,
            classes |-> [i \in DOMAIN spec |-> [work |-> classes[spec[i][1]], p |-> spec[i][2]]]]

Custom(args) == IF args.workload = <<>> THEN [ok |-> FALSE] ELSE parse_workload(args.workload)

(* A workload of one's own takes the place of the mix, unless a mix is     *)
(* given that differs from the default.                                    *)
MixOf(args) ==
  parse_mix(IF args.workload # <<>> /\ args.mix = DefaultMix
              THEN <<<<"custom", One>>>> ELSE args.mix,
            Custom(args))

build(args) ==
  [work   |-> IF args.workload = <<>> THEN DefaultWork ELSE Custom(args).work,
   model  |-> args.model,
   hw     |-> effective(system(args.spec), args.eta, args.eta),
   coeffs |-> args.coeffs, slo |-> args.slo]

(* The CPUs are part of the hardware already.                              *)
Settings(f, sparse, ov) ==
  [f |-> f, sparse |-> sparse, cpus_per_gpu |-> One, overlap |-> ov, pool |-> FALSE]

(* The throughputs of a mix are numbers and not negative; and where the    *)
(* mix meets the SLO but brings out no token, no offload of it does: then  *)
(* no class has output.                                                    *)
ASSUME MixesAreNumbers ==
  /\ MixGrid \in Seq(Finite)
  /\ \A args \in {a \in Arguments : a.workload # <<>> => Custom(a).ok} : MixOf(args).ok =>
       \A rows \in {[f \in Fractions |->
                      MixRow(MixOf(args).classes, build(args), Settings(Zero, args.sparse, One), f)]} :
         /\ \A f \in Fractions : rows[f].score \in Finite /\ Zero \preceq rows[f].score
         /\ rows[Zero].row.slo_feasible /\ ~rows[Zero].ok => \A f \in Fractions : ~rows[f].ok

Serving(sparse) == [sparse |-> sparse, r |-> One, overlap |-> "optimistic", objective |-> "serving"]

-----------------------------------------------------------------------------
ScenarioInit == scn = NoScenario

(* The analyses fill in what they find, one after the other.               *)
Begun(args) ==
  [at |-> "single", args |-> args, x |-> build(args), single |-> None, multi |-> None,
   mix |-> None, rows |-> None, verdict |-> None, fit |-> None]
Build ==
  /\ scn.at = "start"
  /\ \E args \in Arguments :
       scn' = IF args.workload # <<>> /\ ~Custom(args).ok THEN [at |-> "exit", args |-> args]
                                                          ELSE Begun(args)

(* [1] The best offload of one GPU, dense and sparse.                      *)
SingleGpu ==
  /\ scn.at = "single"
  /\ scn' = [scn EXCEPT !.at = IF One \prec scn.x.hw.n_gpus THEN "multi" ELSE "mix",
                         !.single = [i \in 1..2 |->
                           optimize_f(scn.x, Serving(<<One, scn.args.sparse>>[i]))]]

(* [2] The five best deployments.                                          *)
FirstFive(rows) == SubSeq(rows, 1, IF Len(rows) <= 5 THEN Len(rows) ELSE 5)
BestFive(rows) ==
  FirstFive(SortSeq(SelectSeq(rows, LAMBDA r : r.best.ok),
                    LAMBDA a, b : b.best.score \prec a.best.score))
AfterSweep(sweep) ==
  IF sweep.raised THEN [scn EXCEPT !.at = "raised"]
                  ELSE [scn EXCEPT !.at = "mix", !.multi = BestFive(sweep.rows)]
MultiGpu == /\ scn.at = "multi"
            /\ scn' = AfterSweep(run_sweep(scn.x))

(* [3] The mix without offload, at both ends of the overlap.               *)
AfterMix(classes, mix) ==
  [scn EXCEPT !.at = IF mix[Zero].fits THEN "offload" ELSE "oom",
              !.mix = [classes |-> classes, base |-> mix[Zero],
                       band |-> [con |-> mix[Zero].tps, opt |-> mix[One].tps]]]
ConcurrentMix ==
  /\ scn.at = "mix"
  /\ scn' = IF ~MixOf(scn.args).ok THEN [scn EXCEPT !.at = "exit"]
            ELSE AfterMix(MixOf(scn.args).classes,
                          [ov \in {Zero, One} |->
                             serving_mix(MixOf(scn.args).classes, scn.x, Settings(Zero, One, ov))])

(* The best offload of the mix, dense and sparse, at both ends of the      *)
(* overlap.                                                                *)
OffloadRows ==
  /\ scn.at = "offload"
  /\ scn' = [scn EXCEPT !.at = "verdict",
                         !.rows = [i \in 1..2 |-> [ov \in {Zero, One} |->
                           best_f(scn.mix.classes, scn.x,
                                  Settings(Zero, <<One, scn.args.sparse>>[i], ov))]]]

(* The verdict is on the second row: sparse.                               *)
VerdictOn(con, opt) ==
  IF scn.mix.base.binding = "compute" \/ opt.gain \preceq Ratio(51, 50) THEN [offload |-> FALSE]
  ELSE [offload |-> TRUE, f |-> opt.f,
        precond |-> IF con.gain \prec Ratio(103, 100) THEN "requires overlap"
                    ELSE IF con.gain ** Ratio(6, 5) \prec opt.gain THEN "floor without overlap"
                    ELSE "robust"]
Verdict ==
  /\ scn.at = "verdict"
  /\ scn' = [scn EXCEPT !.at = "calibrate",
                         !.verdict = VerdictOn(scn.rows[2][Zero], scn.rows[2][One])]

(* A measured throughput narrows the band to one number.                   *)
Narrowed(fit) ==
  IF scn.args.measured = Zero \/ ~fit.ok THEN None
  ELSE fit @@ [gain |-> best_f(scn.mix.classes, scn.x,
                               Settings(Zero, scn.args.sparse, fit.ov)).gain]
Calibrate ==
  /\ scn.at = "calibrate"
  /\ scn' = [scn EXCEPT !.at = "end",
                         !.fit = Narrowed(fit_overlap(scn.mix.classes, scn.x,
                                          Settings(Zero, One, One), scn.args.measured))]

ScenarioNext ==
  Build \/ SingleGpu \/ MultiGpu \/ ConcurrentMix \/ OffloadRows \/ Verdict \/ Calibrate

-----------------------------------------------------------------------------
(* The verdict is a decision that holds: the recommended offload fits HBM  *)
(* and the CPU, meets the SLO and beats f = 0 by more than 2% with perfect *)
(* overlap, and without a recommendation no fraction of the grid does so,  *)
(* unless the GPU is bound by compute.  A baseline that misses the SLO is  *)
(* left out: best_f then reports the gain 0 although an offload may serve. *)
Wins(row, base) == row.slo_feasible /\ base.tps ** Ratio(51, 50) \prec row.tps
JustifiedBy(rows) ==
  rows[Zero].slo_feasible =>
    IF scn.verdict.offload THEN Wins(rows[scn.verdict.f], rows[Zero])
    ELSE \/ scn.mix.base.binding = "compute"
         \/ \A f \in DOMAIN rows : ~Wins(rows[f], rows[Zero])
VerdictHolds ==
  scn.at \in {"calibrate", "end"} =>
    JustifiedBy([f \in Fractions |->
                   serving_mix(scn.mix.classes, scn.x, Settings(f, scn.args.sparse, One))])
=============================================================================
