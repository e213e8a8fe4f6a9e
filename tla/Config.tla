------------------------------- MODULE Config -------------------------------
(***************************************************************************)
(* The configuration objects of model/config.py as records of rationals,   *)
(* with the quantities they derive.  Bytes, flops and seconds are counted  *)
(* in abstract units, the same for binary and decimal prefixes.            *)
(*                                                                         *)
(* A study is a record x of the configuration objects every formula takes: *)
(*   x.work, x.model, x.hw, x.coeffs, x.slo                                *)
(***************************************************************************)
EXTENDS Rationals

WorkloadConfig(s_cached, a_append, o_output) ==
  [s_cached |-> s_cached, a_append |-> a_append, o_output |-> o_output]

s_context(work) == work.s_cached ++ work.a_append

(* The fields of ModelConfig; mla_kv_dim is read when kv_mode is "mla".    *)
ModelConfig(layers, hidden, heads, kv_heads, head_dim, p_act, p_total) ==
  [layers |-> layers, hidden |-> hidden,
   n_heads |-> heads, n_kv_heads |-> kv_heads, head_dim |-> head_dim,
   p_act |-> p_act, p_total |-> p_total,
   q_kv |-> One, q_weight |-> One, q_act |-> One,
   kv_mode |-> "gqa", mla_kv_dim |-> One,
   kv_compress |-> One, kv_decompress_flops |-> Zero,
   expert_frac_act |-> Zero, expert_frac_total |-> Zero]

d_kv(model) == IF model.kv_mode = "mla" THEN model.mla_kv_dim
               ELSE Q(2) ** model.n_kv_heads ** model.head_dim
d_attn(model) == Q(4) ** model.n_heads ** model.head_dim
d_io(model) == model.n_heads ** model.head_dim  \* d_Q = d_O

bw_c2c_oneway(hw) == hw.bw_c2c // Q(2)

(* From specifications per component to what one GPU has at its disposal:  *)
(* the resources of its CPUs are added up.                                 *)
system(spec) ==
  [n_gpus |-> spec.n_gpus, f_gpu |-> spec.gpu_flops, m_hbm |-> spec.hbm_capacity,
   bw_hbm |-> spec.hbm_bw, bw_nvlink |-> spec.nvlink_bw, bw_c2c |-> spec.c2c_bw,
   f_cpu  |-> spec.cpu_flops ** spec.cpus_per_gpu,
   bw_cpu |-> spec.cpu_dram_bw ** spec.cpus_per_gpu,
   m_cpu  |-> spec.cpu_mem ** spec.cpus_per_gpu,
   t_sync |-> spec.t_sync]

(* What is achieved of the peak: ec of the flops and em of the bandwidths; *)
(* capacities stay.                                                        *)
effective(hw, ec, em) ==
  [hw EXCEPT !.f_gpu = @ ** ec, !.f_cpu = @ ** ec,
             !.bw_hbm = @ ** em, !.bw_cpu = @ ** em,
             !.bw_c2c = @ ** em, !.bw_nvlink = @ ** em]

(* A policy of the given kind; only two of the four kinds use the f they   *)
(* are given.                                                              *)
policy(kind, f, r, b_d, sparse) ==
  [f |-> CASE kind \in {"gpu_hot", "cpu_backing"} -> Zero
           [] kind = "partial_cpu_attn" -> f
           [] kind = "full_cpu_attn" -> One,
   r |-> r, b_p |-> One, b_d |-> b_d,
   cpu_backing |-> kind # "gpu_hot", sparse |-> sparse]

Offloads(pol) == Zero \prec pol.f

Coeffs(t_merge, t_dispatch, overhead) ==
  [alpha |-> One, beta |-> One, gamma |-> One, t_merge |-> t_merge,
   t_dispatch |-> t_dispatch, m_runtime |-> overhead, m_workspace |-> Zero]

SLOConfig(slo_tpot, slo_ttft, max_c2c_util) ==
  [slo_tpot |-> slo_tpot, slo_ttft |-> slo_ttft, max_c2c_util |-> max_c2c_util]
=============================================================================
