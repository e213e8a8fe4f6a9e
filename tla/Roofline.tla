------------------------------ MODULE Roofline ------------------------------
(***************************************************************************)
(* What the hardware allows: the ceiling of the output tokens per second   *)
(* of model/roofline.py, and the two-resource throughput of                *)
(* model/contention.py, where prefill and decode contend for the compute   *)
(* and the HBM bandwidth of one GPU.                                       *)
(***************************************************************************)
EXTENDS Analytical

PlainPolicy(b_d) == policy("gpu_hot", Zero, One, b_d, One)

(* Per token: stream the KV or compute, and a share of the prefill.        *)
CeilingOf(gpu, n_gpus) == [per_gpu |-> gpu, system |-> gpu ** n_gpus]
serving_roofline(x, f) ==
  CeilingOf(OverOrInf(One,
              ((((One -- f) ** kv_size(s_context(x.work), x.model)) // x.hw.bw_hbm)
                 \sqcup ((Q(2) ** x.model.p_act) // x.hw.f_gpu))
                ++ (prefill_time(PlainPolicy(Q(32)), x) // x.work.o_output)),
            x.hw.n_gpus)

utilization(operating, x, f) == OverOrZero(operating, serving_roofline(x, f).per_gpu)

(* The seconds a call of work.o_output tokens takes of each resource.      *)
ContendedCompute(x) ==
  (PrefillFlops(x.work, x) ++ (x.work.o_output ** Q(2) ** x.model.p_act)) // x.hw.f_gpu
ContendedHbm(x, f, kv, B) ==
  (weight_read_bytes(x.model, x.work.a_append)
     ++ (x.work.o_output ** (((One -- f) ** kv) ++ (weight_read_bytes(x.model, B) // B))))
    // x.hw.bw_hbm
ContendedCpu(x, away, kv, cpus_per_gpu) ==
  ((away ** kv) // (x.hw.bw_cpu ** cpus_per_gpu))
    ++ ((away ** kv_elems(s_context(x.work), x.model) ** x.model.kv_decompress_flops)
          // (x.hw.f_cpu ** cpus_per_gpu))
ContendedC2c(x, f) ==
  (x.work.o_output ** f ** x.model.layers ** Q(2) ** d_io(x.model) ** x.model.q_act)
    // bw_c2c_oneway(x.hw)

ContendedRate(x, f, sparse, cpus_per_gpu, kv, B) ==
  [tps |-> OverOrZero(x.work.o_output,
             ContendedCompute(x) \sqcup ContendedHbm(x, f, kv, B)
               \sqcup ContendedCpu(x, x.work.o_output ** f ** sparse, kv, cpus_per_gpu)
               \sqcup ContendedC2c(x, f)),
   B |-> B]

serving_2res(x, f, sparse, cpus_per_gpu) ==
  ContendedRate(x, f, sparse, cpus_per_gpu, kv_size(s_context(x.work), x.model),
    One \sqcup decode_batch_cap(
      policy(IF Zero \prec f THEN "partial_cpu_attn" ELSE "gpu_hot", f, One, One, One), x))
=============================================================================
