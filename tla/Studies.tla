------------------------------- MODULE Studies -------------------------------
(***************************************************************************)
(* The studies of model/: each driver reads its input, computes one table  *)
(* and ends.  The variable study holds the driver that ran, what it was    *)
(* given and what it found.                                                *)
(***************************************************************************)
EXTENDS Disagg, Parallelism, Validate, FiniteSets, TLC

CONSTANT Cases  \* Cases[driver]: the inputs of each driver

(* What the searches compare are numbers: no division by zero goes into    *)
(* the score of a candidate.  The grids begin and rise as in the code.     *)
ASSUME ScoresAreNumbers ==
  /\ BdGrid \in Seq(Finite) /\ BGrid \in Seq(Finite) /\ MixGrid \in Seq(Finite)
  /\ FGrid \in Seq(Finite) /\ FGrid # <<>> /\ FGrid[1] = Zero
  /\ \A c \in Cases.optimize, i \in DOMAIN FGrid, j \in DOMAIN BdGrid :
       Scored(Point(FGrid[i], BdGrid[j], c.x, c.q))
  /\ \A c \in Cases.offload, f \in Fractions :
       Scored(MixRow(c.classes, c.x, c.s, f))
  /\ \A x \in Cases.deployments :
       LET sweep == run_sweep(x)
       IN  ~sweep.raised =>
             \A n \in DOMAIN sweep.rows, j \in DOMAIN BGrid :
               Scored(BatchOf(x, sweep.rows[n].pcfg, sweep.rows[n].f, sweep.rows[n].sparse, BGrid[j]))
ASSUME CpuBatchesAreNumbers ==
  /\ BcGrid \in Seq(Finite)
  /\ \A i \in DOMAIN BcGrid : \A j \in 1..i : BcGrid[j] \preceq BcGrid[i]
  /\ \A c \in Cases.cpu_decode :
       /\ kv_size(s_context(c.x.work), c.x.model) \in Finite
       /\ Zero \preceq kv_size(s_context(c.x.work), c.x.model)
       /\ c.x.hw.m_cpu ** c.cpus \in Finite
       /\ \A i \in DOMAIN BcGrid :
            LET t == gpu_decode_tpot(CpuEngine(c.x, c.cpus), BcGrid[i])
            IN  t \preceq c.x.slo.slo_tpot => BcGrid[i] // t \in Finite

(* A step of a mix with the mean context S is made of sizes, rates and     *)
(* times that are not negative; what divides is positive, and what is      *)
(* hidden or offloaded is a share.  The model is dense: what a mixture of  *)
(* experts reads is a power of the batch, and the powers of Rationals are  *)
(* those of whole batches.                                                 *)
NonNegative == {a \in Finite : Zero \preceq a}
Positive    == {a \in Finite : Zero \prec a}
Share       == {a \in NonNegative : a \preceq One}
StepTyped(S, x, s) ==
  /\ S \in NonNegative /\ s.sparse \in NonNegative
  /\ s.f \in Share /\ s.overlap \in Share /\ x.slo.slo_tpot \in Finite
  /\ {x.model.layers, x.model.n_heads, x.model.head_dim, x.model.n_kv_heads,
      x.model.mla_kv_dim, x.model.p_act, x.model.q_weight, x.model.q_kv, x.model.q_act,
      x.model.kv_compress, x.model.kv_decompress_flops} \subseteq NonNegative
  /\ IsDense(x.model)
  /\ {x.hw.f_gpu, x.hw.bw_hbm, x.hw.bw_cpu, x.hw.bw_c2c} \subseteq Positive
  /\ {x.hw.f_cpu, x.hw.t_sync} \subseteq NonNegative
  /\ {x.coeffs.alpha, x.coeffs.beta, x.coeffs.t_dispatch, x.coeffs.t_merge} \subseteq NonNegative
ASSUME MixesAreTyped ==
  /\ BatchMax \in Nat \ {0} /\ SloBisections \in Nat
  /\ \A c \in Cases.mix :
       StepTyped(AvgContext(Normalized(c.classes)), WithCpus(c.x, c.s.cpus_per_gpu), c.s)

(* The same for a fitted overlap, with the classes of the mix; the         *)
(* weights do not all vanish, and what is free of HBM is a number.         *)
Work  == [s_cached : NonNegative, a_append : NonNegative, o_output : NonNegative]
Class == [work : Work, p : NonNegative]
Settled == [f : Share, sparse : NonNegative, cpus_per_gpu : Positive, overlap : Share,
            pool : BOOLEAN]
MixTyped(classes, x, s) ==
  /\ classes \in Seq(Class) /\ Zero \prec Total(LAMBDA c : c.p, classes)
  /\ s \in Settled /\ StepTyped(Zero, x, s) /\ x.coeffs.gamma \in NonNegative
  /\ FreeHbm(x) \in Finite /\ x.hw.m_cpu \in Finite
ASSUME OverlapsAreTyped ==
  /\ FitBisections \in Nat
  /\ \A c \in Cases.overlap :
       c.measured \in Finite /\ MixTyped(c.classes, WithCpus(c.x, c.s.cpus_per_gpu), c.s)

(* What is measured and what predicts it are positive, in lowest terms, and *)
(* whole batches decode.  The dispatch times begin with 0, as in the code, *)
(* and points are made up with an efficiency of the grid.                  *)
PointTyped(p) ==
  LET m == p.model
  IN  /\ {m.layers, m.n_heads, m.head_dim, m.n_kv_heads, m.mla_kv_dim, m.q_weight, m.q_kv,
          m.kv_compress, m.kv_decompress_flops, p.context} \subseteq NonNegative \cap LowestTerms
      /\ {m.expert_frac_act, m.expert_frac_total} \subseteq Share \cap LowestTerms
      /\ {m.p_act, m.p_total, p.b_d, p.spec.gpu_flops, p.spec.hbm_bw, p.spec.cpu_flops,
          p.spec.cpu_dram_bw, p.spec.cpus_per_gpu} \subseteq Positive \cap LowestTerms
      /\ p.b_d[2] = 1
ASSUME CalibrationsAreTyped ==
  /\ EtaGrid \in Seq(Positive \cap LowestTerms) /\ EtaGrid # <<>>
  /\ EtaGridJoint \in Seq(Positive \cap LowestTerms) /\ EtaGridJoint # <<>>
  /\ TdGrid \in Seq(NonNegative \cap LowestTerms) /\ TdGrid # <<>> /\ TdGrid[1] = Zero
  /\ \A c \in Cases.calibration :
       /\ c.points \in Seq({c.points[i] : i \in DOMAIN c.points})
       /\ \A i \in DOMAIN c.points : PointTyped(c.points[i])
       /\ IF c.eta = Zero
          THEN \A i \in DOMAIN c.points : measured_tpot(c.points[i]) \in Positive \cap LowestTerms
          ELSE c.points # <<>> /\ \E i \in DOMAIN EtaGrid : EtaGrid[i] = c.eta

VARIABLE study

NoStudy == [driver |-> "none"]

Ran(driver, in, out) ==
  /\ study = NoStudy
  /\ study' = [driver |-> driver, in |-> in, out |-> out]

(* One row of the table of model/sweep.py; what is reported of a step is   *)
(* that of the batch that is run.                                          *)
RowOfStep(run, x) ==
  [b_eff |-> run.b_d, tpot_opt |-> tpot(run, x, "optimistic"),
   tpot_cons |-> tpot(run, x, "conservative"), append |-> append_time(run, x),
   hbm_fits |-> hbm_fits(run, x)]
SweptRow(pol, x, baseline, th) ==
  [tps |-> th.tps, gain |-> OverOrZero(th.tps, tps(baseline, x, "optimistic").tps),
   gain_cons |-> gain(pol, baseline, x, "conservative"),
   pays |-> crossover_ok(pol, baseline, x, "optimistic")]
    @@ RowOfStep([pol EXCEPT !.b_d = th.batch], x)
SweepPoint(pol, x, baseline) == SweptRow(pol, x, baseline, tps(pol, x, "optimistic"))
sweep_row(c) ==
  SweepPoint(policy(kind(c.f), c.f, c.r, c.b_d, c.sparse),
             [c.x EXCEPT !.hw = effective(@, c.eta, c.eta)],
             policy("gpu_hot", Zero, c.r, c.b_d, One))

-----------------------------------------------------------------------------
StudyInit == study = NoStudy

Sweep    == \E c \in Cases.sweep : Ran("sweep", c, sweep_row(c))
Optimize == \E c \in Cases.optimize : Ran("optimize", c, optimize_f(c.x, c.q))
Mix      == \E c \in Cases.mix : Ran("mix", c, serving_mix(c.classes, c.x, c.s))
Offload  == \E c \in Cases.offload : Ran("offload", c, best_f(c.classes, c.x, c.s))
Overlap  == \E c \in Cases.overlap :
              Ran("overlap", c, fit_overlap(c.classes, c.x, c.s, c.measured))

(* disagg.run for one number of CPUs, with the crossover.                  *)
CpuDecode ==
  \E c \in Cases.cpu_decode :
    Ran("cpu_decode", c, [cpu |-> cpu_decode_capacity(c.x, c.cpus),
                          tps |-> disagg_out_tps(c.x, c.cpus),
                          base |-> baseline_out_tps(c.x),
                          cross |-> crossover_cpus(c.x, <<c.cpus, Q(2) ** c.cpus>>)])
Split ==
  \E c \in Cases.split :
    Ran("split", c, [pd |-> system_pd(c.x, c.gpus, c.s),
                     colocated |-> system_colocated(c.x, c.gpus, c.s)])

(* contention.report attaches the CPUs to the hardware and also passes     *)
(* their number on.                                                        *)
Attached(x, cpus) == [x EXCEPT !.hw.bw_cpu = @ ** cpus, !.hw.f_cpu = @ ** cpus]
Contention ==
  \E c \in Cases.contention :
    Ran("contention", c, serving_2res(Attached(c.x, c.cpus), c.f, One, c.cpus))
Ceiling ==
  \E c \in Cases.ceiling :
    Ran("ceiling", c,
        [ceiling |-> serving_roofline(c.x, Zero),
         share |-> utilization(tps(PlainPolicy(c.b_d), c.x, "optimistic").tps, c.x, Zero)])
Deployments ==
  \E x \in Cases.deployments : Ran("deployments", [x |-> x], run_sweep(x))

(* The self-test with points of a known efficiency, or measured points.    *)
Calibrated(points) ==
  [fit |-> calibrate_eta(points), joint |-> calibrate_joint(points),
   loo |-> [joint \in BOOLEAN |-> leave_one_out(points, joint)],
   floors |-> \A i \in DOMAIN points : roofline_ok(points[i])]
Calibration ==
  \E c \in Cases.calibration :
    Ran("calibration", c,
        Calibrated(IF c.eta = Zero THEN load_measurements(c.points)
                                   ELSE synthetic_points(c.points, c.eta)))

StudyNext == Sweep \/ Optimize \/ Mix \/ Offload \/ Overlap \/ CpuDecode \/ Split
               \/ Contention \/ Ceiling \/ Deployments \/ Calibration

-----------------------------------------------------------------------------
Study(driver) == study.driver = driver

(* best is one of the candidates that are allowed and none of them scores  *)
(* higher; there is none only if none is allowed.                          *)
IsBest(best, candidates) ==
  /\ best.ok <=> \E c \in candidates : c.ok
  /\ best.ok => /\ \E c \in candidates : c.ok /\ c.score = best.score
                /\ \A c \in candidates : c.ok => c.score \preceq best.score

(* The searches (optimize_f, best_f, cpu_decode_capacity, best_for_config) *)
(* skip what is infeasible without stopping at it or settling for it, and  *)
(* the offload that is recommended is never worse than none.               *)
OptimizeBest(c, out) ==
  /\ IsBest(out.best, {Point(FGrid[i], BdGrid[j], c.x, c.q) :
                         i \in DOMAIN FGrid, j \in DOMAIN BdGrid})
  /\ out.best.ok => One \preceq out.gain
MixRows(c) ==
  {serving_mix(c.classes, c.x, [c.s EXCEPT !.f = f]) : f \in Fractions}
BestMixRow(c, out, rows) ==
  \A r \in {q \in rows : q.slo_feasible /\ Zero \prec q.tps} :
    /\ out.row.slo_feasible /\ out.row \in rows
    /\ r.tps \preceq out.tps
BestCpuBatch(c, cpu) ==
  \A i \in DOMAIN BcGrid :
    LET t == gpu_decode_tpot(CpuEngine(c.x, c.cpus), BcGrid[i])
    IN  /\ BcGrid[i] ** kv_size(s_context(c.x.work), c.x.model) \preceq c.x.hw.m_cpu ** c.cpus
        /\ t \preceq c.x.slo.slo_tpot
        => BcGrid[i] // t \preceq cpu.tok
BestConfig(x, r) ==
  IsBest(r.best, {BatchOf(x, r.pcfg, r.f, r.sparse, BGrid[j]) : j \in DOMAIN BGrid})
BestConfigs(x, sweep) ==
  ~sweep.raised => \A n \in DOMAIN sweep.rows : BestConfig(x, sweep.rows[n])
BestPoint ==
  /\ Study("optimize") => OptimizeBest(study.in, study.out)
  /\ Study("offload") => BestMixRow(study.in, study.out, MixRows(study.in))
  /\ Study("cpu_decode") => BestCpuBatch(study.in, study.out.cpu)
  /\ Study("deployments") => BestConfigs(study.in.x, study.out)

(* The batch that bisection settles on meets the SLO, and no whole batch   *)
(* that is larger by more than its resolution does.  BatchMax stands for   *)
(* no bound: then any batch up to half of it meets the SLO.                *)
Resolution == Turns([r \in Finite |-> r // Q(2)], SloBisections, One)
IsLargest(top, S, x, s) ==
  IF top = Q(BatchMax) THEN \A n \in 1..BatchMax : 2 * n <= BatchMax => MeetsSlo(Q(n), S, x, s)
  ELSE /\ One \prec top => MeetsSlo(top, S, x, s)
       /\ \A n \in 1..BatchMax :
            top ** (One ++ Resolution) \prec Q(n) => ~MeetsSlo(Q(n), S, x, s)
LargestWithinSlo ==
  Study("mix") =>
    LET S == AvgContext(Normalized(study.in.classes))
        x == WithCpus(study.in.x, study.in.s.cpus_per_gpu)
    IN  IsLargest(batch_slo_cap(S, x, study.in.s), S, x, study.in.s)

(* A measured throughput is explained by an overlap exactly if it lies in  *)
(* the band, and then the throughputs around that overlap enclose it; more *)
(* overlap never lowers the throughput, or the band would be no band.      *)
FitSteps == Turns([n \in Nat |-> 2 * n], FitBisections + 1, 1)
Overlaps == {Ratio(n, FitSteps) : n \in 0..FitSteps}
Explains(out, measured, at) ==
  /\ \A lo, hi \in Overlaps : lo \prec hi => at[lo] \preceq at[hi]
  /\ out.ok <=> at[Zero] \preceq measured /\ measured \preceq at[One]
  /\ out.ok => LET near == Ratio(1, FitSteps)
               IN  at[out.ov -- near] \preceq measured /\ measured \preceq at[out.ov ++ near]
OverlapFitted ==
  Study("overlap") =>
    Explains(study.out, study.in.measured,
             [ov \in Overlaps |-> MixTps(study.in.classes, study.in.x, study.in.s, ov)])

(* "Raising f moves KV streaming off HBM: throughput rises UNTIL the       *)
(* bottleneck moves to CPU DRAM (or C2C)" (model/contention.py, report).   *)
HelpsUntilBound(x, f, cpus, out) ==
  \/ serving_2res(x, Zero, One, cpus).tps \preceq out.tps
  \/ x.work.o_output // out.tps =
        ContendedCpu(x, x.work.o_output ** f, kv_size(s_context(x.work), x.model), cpus)
          \sqcup ContendedC2c(x, f)

(* No formula promises more than the hardware: the batch that is run is    *)
(* within the capacity exactly if the bytes fit, though the two are        *)
(* computed apart; the serving throughput is below the roofline; a         *)
(* predicted time per token is above its floor; the ranks of a replica     *)
(* together hold all weights; and with perfect overlap GPUs that do both   *)
(* phases lose nothing to GPUs that do one each, unless the link to the KV *)
(* pool holds them up; to offload attention does not cost throughput       *)
(* before the CPU or the link is the bottleneck.                           *)
PhysicalBounds ==
  /\ Study("sweep") =>
       (study.out.hbm_fits <=>
          study.out.b_eff \preceq
            decode_batch_cap(policy(kind(study.in.f), study.in.f, study.in.r, study.in.b_d,
                                    study.in.sparse), study.in.x))
  /\ Study("ceiling") =>
       serving_tps(PlainPolicy(study.in.b_d), study.in.x, "optimistic")
         \preceq study.out.ceiling.per_gpu
  /\ Study("calibration") => study.out.floors
  /\ Study("deployments") /\ ~study.out.raised =>
       \A p \in {study.out.rows[i].pcfg : i \in DOMAIN study.out.rows} :
         study.in.x.model.p_total
           \preceq Q(gpus_per_replica(p)) ** shard(study.in.x.model, p).p_tot_rank
  /\ Study("contention") =>
       HelpsUntilBound(Attached(study.in.x, study.in.cpus), study.in.f, study.in.cpus, study.out)
  /\ Study("split") /\ study.in.s.overlap = One =>
       \A mix \in {serving_mix(<<[work |-> study.in.x.work, p |-> One]>>, study.in.x, study.in.s)} :
         mix.fits /\ mix.binding # "c2c" => study.out.pd.tps \preceq study.out.colocated

(* The efficiency that made the points is found again, without error, also *)
(* for a point that is left out; and three parameters never fit worse than *)
(* one whose efficiency the joint fit tries as well.                       *)
CalibrationRecovers ==
  Study("calibration") =>
    /\ study.in.eta # Zero =>
         /\ study.out.fit = [fit |-> OneEta(study.in.eta), mape |-> Zero]
         /\ study.out.loo[FALSE].ok => study.out.loo[FALSE].mape = Zero
    /\ (\E i \in DOMAIN EtaGridJoint : EtaGridJoint[i] = study.out.fit.fit.ec) =>
         study.out.joint.mape \preceq study.out.fit.mape

(* "the offloaded f-fraction of KV must PHYSICALLY fit CPU memory too" and *)
(* "B is bounded by HBM capacity, CPU-DRAM capacity, AND the latency SLO"  *)
(* (comments in serving_mix).                                              *)
OffloadedKvFits ==
  Study("mix") /\ study.out.fits =>
    LET c == study.in
    IN  study.out.B ** c.s.f ** kv_size(AvgContext(Normalized(c.classes)), c.x.model)
          \preceq WithCpus(c.x, c.s.cpus_per_gpu).hw.m_cpu \sqcup Zero
=============================================================================
