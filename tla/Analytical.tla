----------------------------- MODULE Analytical -----------------------------
(***************************************************************************)
(* The closed-form model of model/analytical.py: bytes, capacities and     *)
(* times of a policy pol in a study x, its throughput, and the search for  *)
(* the fraction f of attention that is best computed by the CPU.           *)
(***************************************************************************)
EXTENDS Config

CONSTANTS BdGrid,  \* B_D_GRID: the decode batches optimize_f tries
          FGrid    \* its default grid of fractions; it begins with 0

-----------------------------------------------------------------------------
(* Sizes and capacities.                                                   *)

kv_elems(s, model) == model.layers ** s ** d_kv(model)
kv_size(s, model)  == kv_elems(s, model) ** model.q_kv ** model.kv_compress

weights_bytes(model) == model.p_total ** model.q_weight

(* A mixture of experts reads the share of its experts that a batch of b   *)
(* tokens activates, if each token activates the share rho.                *)
Rho(model) == (model.p_act ** model.expert_frac_act) //
              (model.p_total ** model.expert_frac_total)
Coverage(model, b) == One -- Power(One -- (One \sqcap Rho(model)), b)

IsDense(model) == model.expert_frac_total \preceq Zero \/ model.expert_frac_act \preceq Zero

weight_read_bytes(model, b) ==
  IF IsDense(model) THEN model.p_act ** model.q_weight
  ELSE ( (model.p_act ** (One -- model.expert_frac_act)) ++
         (model.p_total ** model.expert_frac_total ** Coverage(model, b))
       ) ** model.q_weight

(* HBM that neither weights nor the runtime occupy.                        *)
FreeHbm(x) == x.hw.m_hbm -- weights_bytes(x.model)
              -- x.coeffs.m_runtime -- x.coeffs.m_workspace

KvAppend(pol, x) == pol.b_p ** pol.r ** kv_size(x.work.s_cached, x.model)
KvHot(pol, x)    == (One -- pol.f) ** kv_size(s_context(x.work), x.model)

(* hbm_capacity(...).fits: weights, overhead, hot KV and the KV that is    *)
(* brought back for append.                                                *)
hbm_fits(pol, x) ==
  (pol.b_d ** KvHot(pol, x)) ++ KvAppend(pol, x) \preceq FreeHbm(x)

(* How many sequences with so much KV fit what is free.                    *)
BatchIn(free, kv) == IF free \preceq Zero THEN Zero ELSE OverOrInf(free, kv)

decode_batch_cap(pol, x) == BatchIn(FreeHbm(x) -- KvAppend(pol, x), KvHot(pol, x))

-----------------------------------------------------------------------------
(* Times.                                                                  *)

(* append_time: the old KV is loaded, the new tokens are prefilled, their  *)
(* KV is flushed if the CPU backs it.                                      *)
PrefillFlops(work, x) ==
  Q(2) ** x.model.p_act ** work.a_append
PrefillAttnFlops(work, x) ==
  x.coeffs.gamma ** x.model.layers ** work.a_append
    ** (work.s_cached ++ (work.a_append // Q(2))) ** d_attn(x.model)

KvNew(pol, x) == pol.b_p ** kv_size(x.work.a_append, x.model)
AppendCompute(pol, x) ==
  ((pol.b_p ** (PrefillFlops(x.work, x) \sqcup PrefillAttnFlops(x.work, x))) // x.hw.f_gpu)
    \sqcup ((weight_read_bytes(x.model, pol.b_p) ++ KvNew(pol, x)) // x.hw.bw_hbm)

AppendParts(load, gpu, flush) ==
  [total |-> load ++ gpu ++ flush, old_kv_load |-> load,
   gpu_compute |-> gpu, new_kv_flush |-> flush]

append_time(pol, x) ==
  AppendParts(KvAppend(pol, x) // bw_c2c_oneway(x.hw), AppendCompute(pol, x),
              IF pol.cpu_backing THEN KvNew(pol, x) // bw_c2c_oneway(x.hw) ELSE Zero)

gpu_nonattn_time(pol, x) ==
  ((Q(2) ** x.model.p_act ** pol.b_d) // x.hw.f_gpu)
    \sqcup (weight_read_bytes(x.model, pol.b_d) // x.hw.bw_hbm)

(* Attention over so many sequences of context S: bytes, and flops with    *)
(* those of decompression.                                                 *)
AttnBytes(share, S, model) == share ** kv_size(S, model)
AttnFlops(share, factor, S, model) ==
  (factor ** share ** model.layers ** S ** d_attn(model))
    ++ (share ** kv_elems(S, model) ** model.kv_decompress_flops)

GpuShare(pol) == (One -- pol.f) ** pol.b_d ** pol.sparse
CpuShare(pol) == pol.f ** pol.b_d ** pol.sparse

gpu_attn_time(pol, x) ==
  (AttnBytes(GpuShare(pol), s_context(x.work), x.model) // x.hw.bw_hbm)
    \sqcup (AttnFlops(GpuShare(pol), x.coeffs.gamma, s_context(x.work), x.model) // x.hw.f_gpu)

cpu_attn_time(pol, x) ==
  ((x.coeffs.alpha ** AttnBytes(CpuShare(pol), s_context(x.work), x.model)) // x.hw.bw_cpu)
    \sqcup (AttnFlops(CpuShare(pol), x.coeffs.beta, s_context(x.work), x.model) // x.hw.f_cpu)

(* Q out and O back, one after the other, per layer.                       *)
QOBytes(pol, x) ==
  IF Offloads(pol)
    THEN x.model.layers ** pol.b_d ** Q(2) ** d_io(x.model) ** x.model.q_act
    ELSE Zero

c2c_decode_time(pol, x) ==
  IF ~Offloads(pol) THEN Zero
  ELSE (QOBytes(pol, x) // bw_c2c_oneway(x.hw))
         ++ (Q(2) ** x.model.layers ** x.hw.t_sync)

(* With the overlap "optimistic" the CPU works beside the GPU, else after  *)
(* it.                                                                     *)
Overlapped(gpu, away, overlap) ==
  IF overlap = "optimistic" THEN gpu \sqcup away ELSE gpu ++ away

tpot(pol, x, overlap) ==
  gpu_nonattn_time(pol, x)
    ++ Overlapped(gpu_attn_time(pol, x), cpu_attn_time(pol, x) ++ c2c_decode_time(pol, x), overlap)
    ++ (IF Offloads(pol) THEN x.coeffs.t_merge ELSE Zero) ++ x.coeffs.t_dispatch

(* The share of the link that decode and append each take, in a step of    *)
(* time t.                                                                 *)
LinkShares(pol, x, t, append) ==
  [decode |-> OverOrZero(QOBytes(pol, x), t) // bw_c2c_oneway(x.hw),
   append |-> OverOrZero((append.old_kv_load ++ append.new_kv_flush) ** bw_c2c_oneway(x.hw),
                         append.total ++ (x.work.o_output ** t)) // bw_c2c_oneway(x.hw)]

c2c_util(pol, x) == LinkShares(pol, x, tpot(pol, x, "optimistic"), append_time(pol, x))

-----------------------------------------------------------------------------
(* Throughput.                                                             *)

(* The batch that is run: what is asked for, or what fits, but at least 1. *)
BatchWithin(b_d, cap) == IF b_d \preceq cap THEN b_d ELSE One \sqcup Floor(cap)
EffectiveBatch(pol, x) == BatchWithin(pol.b_d, decode_batch_cap(pol, x))

(* The link throttles decode when the append traffic does not fit in what  *)
(* decode leaves of it.                                                    *)
Throttled(base, residual, append) ==
  IF residual \prec append THEN (base ** residual) // append ELSE base

(* Without the HBM it needs a batch has no throughput.                     *)
Throughput(batch, t, util, fits) ==
  [tps |-> IF fits THEN Throttled(OverOrZero(batch, t), Zero \sqcup (One -- util.decode), util.append)
                   ELSE Zero,
   tpot_s |-> t, batch |-> batch, hbm_fits |-> fits, c2c_util |-> util.decode ++ util.append]

RunBatch(run, x, overlap) ==
  Throughput(run.b_d, tpot(run, x, overlap), c2c_util(run, x), hbm_fits(run, x))

tps(pol, x, overlap) == RunBatch([pol EXCEPT !.b_d = EffectiveBatch(pol, x)], x, overlap)

gain(pol, baseline, x, overlap) ==
  OverOrInf(tps(pol, x, overlap).tps, tps(baseline, x, overlap).tps)

prefill_time(pol, x) == append_time(pol, x).gpu_compute

(* Prefill and decode of a call take turns; th is what tps returns.        *)
ServingRate(th, prefill, output) ==
  IF th.hbm_fits THEN OverOrZero(output, prefill ++ ((output ** th.tpot_s) // (One \sqcup th.batch)))
                 ELSE Zero
serving_tps(pol, x, overlap) ==
  ServingRate(tps(pol, x, overlap), prefill_time(pol, x), x.work.o_output)

ttft(th, pol, x) == append_time([pol EXCEPT !.b_d = th.batch], x).total ++ th.tpot_s

Outpaces(a, b) == b.batch // b.tpot_s \prec a.batch // a.tpot_s
crossover_ok(pol, baseline, x, overlap) ==
  Outpaces(tps(pol, x, overlap), tps(baseline, x, overlap))

-----------------------------------------------------------------------------
(* The search.                                                             *)

(* The loop of every search of model/: the first of n candidates that is   *)
(* allowed and has a higher score than those before it.                    *)
None == [ok |-> FALSE]
Better(best, c) == IF c.ok /\ (best.ok => best.score \prec c.score) THEN c ELSE best
FirstBest(n, candidates) ==
  LET best[k \in 0..n] == IF k = 0 THEN None ELSE Better(best[k-1], candidates[k])
  IN  best[n]

(* The score of what is allowed is a number.                               *)
Scored(c) == c.ok => c.score \in Finite

kind(f) == CASE f = Zero -> "gpu_hot"
             [] One \preceq f -> "full_cpu_attn"
             [] OTHER -> "partial_cpu_attn"

(* One point (f, b_d) of the search; q holds its sparsity, r, overlap and  *)
(* objective.                                                              *)
Candidate(f, pol, x, q, th) ==
  [ok |-> /\ th.hbm_fits
          /\ th.tpot_s \preceq x.slo.slo_tpot /\ ttft(th, pol, x) \preceq x.slo.slo_ttft
          /\ th.c2c_util \preceq x.slo.max_c2c_util,
   score |-> IF q.objective = "decode" THEN th.tps
             ELSE ServingRate(th, prefill_time(pol, x), x.work.o_output),
   f |-> f, b_d |-> pol.b_d, tpot |-> th.tpot_s, ttft |-> ttft(th, pol, x)]

PointOf(f, pol, x, q) == Candidate(f, pol, x, q, tps(pol, x, q.overlap))
Point(f, b_d, x, q) == PointOf(f, policy(kind(f), f, q.r, b_d, q.sparse), x, q)

best_bd_at_f(f, x, q) == FirstBest(Len(BdGrid), [i \in DOMAIN BdGrid |-> Point(f, BdGrid[i], x, q)])

(* The best point and its gain over the best point with f = 0: infinite if *)
(* that does not exist, and 0 if there is no best point.                   *)
WithGain(best, base) ==
  [best |-> best,
   gain |-> IF ~best.ok THEN Zero
            ELSE IF base.ok THEN OverOrInf(best.score, base.score) ELSE Inf]
optimize_f(x, q) ==
  WithGain(FirstBest(Len(FGrid), [i \in DOMAIN FGrid |-> best_bd_at_f(FGrid[i], x, q)]),
           best_bd_at_f(Zero, x, q))
=============================================================================
