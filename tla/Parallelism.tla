---------------------------- MODULE Parallelism ----------------------------
(***************************************************************************)
(* The deployments of a model on a rack, of model/parallelism.py: how a    *)
(* layout p = [dp, tp, pp, vpp, ep, cp] shards weights and KV, what a      *)
(* decode step of a rank costs, the best batch of a layout, and the sweep  *)
(* over the layouts the rack has room for.                                 *)
(***************************************************************************)
EXTENDS Analytical

CONSTANTS BGrid,       \* B_GRID: decode batches of a replica
          EpImbalance  \* ep_imbalance: experts are not loaded evenly

ParallelConfig(dp, tp, pp, vpp, ep) ==
  [dp |-> dp, tp |-> tp, pp |-> pp, vpp |-> vpp, ep |-> ep, cp |-> 1,
   shard_experts_with_tp |-> TRUE]

(* Mutant of expert_pieces: not capped by the GPUs of a stage.             *)
expert_pieces_uncapped(p) == p.ep * (IF p.shard_experts_with_tp THEN p.tp ELSE 1)

(* The GPUs of a pipeline stage that the experts are spread over.          *)
expert_pieces(p) ==
  IF p.ep * (IF p.shard_experts_with_tp THEN p.tp ELSE 1) <= p.tp * p.cp
    THEN p.ep * (IF p.shard_experts_with_tp THEN p.tp ELSE 1) ELSE p.tp * p.cp

gpus_per_replica(p) == p.tp * p.pp * p.cp
total_gpus(p)       == p.dp * gpus_per_replica(p)
valid(p, rack)      == 1 <= total_gpus(p) /\ total_gpus(p) <= rack

(* The part of a quantity that TP shards, and that which EP does.          *)
shard(model, p) ==
  [layers_rank |-> model.layers // Q(p.pp),
   p_act_rank  |-> ((model.p_act ** (One -- model.expert_frac_act)) // Q(p.tp))
                     ++ ((model.p_act ** model.expert_frac_act) // Q(expert_pieces(p))),
   p_tot_rank  |-> ((model.p_total ** (One -- model.expert_frac_total)) // Q(p.tp * p.pp))
                     ++ ((model.p_total ** model.expert_frac_total) // Q(expert_pieces(p) * p.pp)),
   kv_shard    |-> One // (Q(p.pp * p.cp) ** (Q(p.tp) \sqcap model.n_kv_heads))]

pp_bubble(p, microbatches) ==
  IF p.pp <= 1 THEN One ELSE One ++ (Q(p.pp - 1) // (Q(p.vpp) ** (One \sqcup microbatches)))

rank_weight_read_bytes(model, p, b_d) ==
  ( ((model.p_total ** (One -- model.expert_frac_total)) // Q(p.tp * p.pp))
      ++ ( ((model.p_total ** model.expert_frac_total) // Q(expert_pieces(p) * p.pp))
             ** (IF IsDense(model) THEN One ELSE Coverage(model, b_d)) )
  ) ** model.q_weight

(* A collective over n ranks moves this many bytes of a step per layer.    *)
Collective(n, model, b_d) ==
  (Q(2 * (n - 1)) // Q(n)) ** model.hidden ** model.q_act ** b_d

(* The parts of a step: linear layers with the skew of the experts, or the *)
(* reading of weights; exchanges with the CPU; collectives; and the rest   *)
(* that nothing overlaps.                                                  *)
ExpertSkew(x, p, b_d) ==
  IF Zero \prec x.model.expert_frac_act /\ expert_pieces(p) > 1
    THEN (Q(2) ** x.model.p_act ** x.model.expert_frac_act ** b_d ** EpImbalance)
           // (Q(expert_pieces(p)) ** x.hw.f_gpu)
    ELSE Zero
RankNonattn(x, p, rv, b_d) ==
  (((Q(2) ** rv.p_act_rank ** b_d) // x.hw.f_gpu) ++ ExpertSkew(x, p, b_d))
    \sqcup (rank_weight_read_bytes(x.model, p, b_d) // x.hw.bw_hbm)
RankC2c(x, rv, f, b_d) ==
  IF Zero \prec f
    THEN rv.layers_rank
           ** (((b_d ** Q(2) ** d_io(x.model) ** x.model.q_act) // bw_c2c_oneway(x.hw))
                 ++ (Q(2) ** x.hw.t_sync))
    ELSE Zero
RankCollectives(x, p, rv, b_d) ==
  ( ( Collective(p.tp, x.model, b_d)
        ++ Collective(IF Zero \prec x.model.expert_frac_act THEN p.ep ELSE 1, x.model, b_d)
    ) // x.hw.bw_nvlink ) ** rv.layers_rank
RankSerial(x, p, rv, f, b_d) ==
  RankNonattn(x, p, rv, b_d) ++ RankCollectives(x, p, rv, b_d)
    ++ (IF Zero \prec f THEN x.coeffs.t_merge ELSE Zero)

(* HBM of a rank without its KV: weights, overhead, the cached prefix.     *)
RankFixed(x, rv) ==
  (rv.p_tot_rank ** x.model.q_weight) ++ x.coeffs.m_runtime ++ x.coeffs.m_workspace
    ++ (kv_size(x.work.s_cached, x.model) ** rv.kv_shard)

RankTimes(bubble, serial, gpu, away, fixed, hot, b_d, m_hbm) ==
  [tpot      |-> bubble ** (serial ++ (gpu \sqcup away)),
   tpot_cons |-> bubble ** (serial ++ gpu ++ away),
   hbm_used  |-> fixed ++ (b_d ** hot),
   b_cap     |-> BatchIn(m_hbm -- fixed, hot)]

StepOfRank(x, p, f, sparse, b_d, rv, kv) ==
  RankTimes(pp_bubble(p, b_d), RankSerial(x, p, rv, f, b_d),
            ((One -- f) ** b_d ** kv) // x.hw.bw_hbm,
            ((sparse ** f ** b_d ** kv) // x.hw.bw_cpu) ++ RankC2c(x, rv, f, b_d),
            RankFixed(x, rv), (One -- f) ** kv, b_d, x.hw.m_hbm)

rank_step(x, p, f, sparse, b_d) ==
  StepOfRank(x, p, f, sparse, b_d, shard(x.model, p),
             kv_size(s_context(x.work), x.model) ** shard(x.model, p).kv_shard)

(* A batch of a layout: whether it fits and meets the SLO, and the         *)
(* throughput of all replicas.                                             *)
ReplicaRate(x, p, prefill, t, b_d) ==
  (Q(p.dp) ** x.work.o_output) // (prefill ++ ((x.work.o_output ** t) // b_d))
BatchRow(x, p, b_d, rs, prefill, load) ==
  [ok |-> /\ rs.hbm_used \preceq x.hw.m_hbm /\ b_d \preceq rs.b_cap
          /\ rs.tpot \preceq x.slo.slo_tpot
          /\ prefill ++ load ++ rs.tpot \preceq x.slo.slo_ttft,
   score |-> ReplicaRate(x, p, prefill, rs.tpot, b_d),
   cons |-> ReplicaRate(x, p, prefill, rs.tpot_cons, b_d), b_d |-> b_d]
BatchOf(x, p, f, sparse, b_d) ==
  BatchRow(x, p, b_d, rank_step(x, p, f, sparse, b_d),
           (Q(2) ** shard(x.model, p).p_act_rank ** x.work.a_append) // x.hw.f_gpu,
           (kv_size(x.work.s_cached, x.model) ** shard(x.model, p).kv_shard)
             // bw_c2c_oneway(x.hw))

best_for_config(x, p, f, sparse) ==
  [pcfg |-> p, f |-> f, sparse |-> sparse,
   best |-> FirstBest(Len(BGrid), [i \in DOMAIN BGrid |-> BatchOf(x, p, f, sparse, BGrid[i])])]

Layouts ==
  << ParallelConfig(1, 8, 9, 1, 1), ParallelConfig(2, 8, 4, 1, 1),
     ParallelConfig(4, 6, 3, 1, 1), ParallelConfig(8, 3, 3, 1, 1),
     ParallelConfig(1, 8, 9, 4, 1), ParallelConfig(1, 8, 8, 1, 8),
     ParallelConfig(2, 8, 4, 1, 8), ParallelConfig(9, 8, 1, 1, 1) >>

deployment_grid(rack) == SelectSeq(Layouts, LAMBDA p : valid(p, rack))

(* run_sweep: each layout the rack has room for, without offload and with. *)
(* Without a layout the columns of the file are taken from rows[0], which  *)
(* raises; the file has been opened, and emptied, before that.             *)
SweptOffloads == << [f |-> Zero, sparse |-> One], [f |-> Ratio(3, 10), sparse |-> Ratio(1, 10)] >>
RowOfLayout(x, p, offload) == best_for_config(x, p, offload.f, offload.sparse)
SweepOf(x, grid) ==
  IF grid = <<>> THEN [raised |-> TRUE]
  ELSE [raised |-> FALSE,
        rows |-> [n \in 1..(2 * Len(grid)) |->
                    RowOfLayout(x, grid[(n + 1) \div 2], SweptOffloads[2 - (n % 2)])]]
run_sweep(x) == SweepOf(x, deployment_grid(x.hw.n_gpus[1]))
=============================================================================
