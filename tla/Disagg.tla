------------------------------- MODULE Disagg -------------------------------
(***************************************************************************)
(* Two ways to divide the phases of a call: the GPU prefills and the CPUs  *)
(* decode (model/disagg.py), or some GPUs prefill and the others decode    *)
(* (model/pd_disagg.py).                                                   *)
(***************************************************************************)
EXTENDS Concurrent, Roofline

CONSTANTS BcGrid,  \* BC_GRID: the batches tried on the CPUs, rising
          BwRdma   \* bw_rdma: the network between prefill and decode GPUs

gpu_decode_tpot(x, B) ==
  tpot(PlainPolicy(B), [x EXCEPT !.work.a_append = Zero], "optimistic")

(* The GPU alone, at the batch that fits.                                  *)
CallRate(x, B) ==
  x.work.o_output // ( prefill_time(PlainPolicy(One), x)
                         ++ ((x.work.o_output ** gpu_decode_tpot(x, B)) // B) )
baseline_out_tps(x) == CallRate(x, One \sqcup Floor(decode_batch_cap(PlainPolicy(One), x)))

(* The pooled CPUs as if they were a GPU.                                  *)
CpuEngine(x, cpus) ==
  [x EXCEPT !.hw.f_gpu = x.hw.f_cpu ** cpus, !.hw.bw_hbm = x.hw.bw_cpu ** cpus]

(* Mutant of CpusHold: the DRAM of one CPU for all of them.                *)
OneCpuHolds(x, cpus, Bc) == Bc ** kv_size(s_context(x.work), x.model) \preceq x.hw.m_cpu
CpusHold(x, cpus, Bc) == Bc ** kv_size(s_context(x.work), x.model) \preceq x.hw.m_cpu ** cpus

(* The best batch of the CPUs: the loop ends at the first batch whose KV   *)
(* does not fit (over), and passes over those that miss the SLO.           *)
DecodeTurn(st, Bc, fits, t, slo) ==
  IF st.over \/ ~fits THEN [st EXCEPT !.over = TRUE]
  ELSE IF t \preceq slo /\ st.tok \prec Bc // t
         THEN [st EXCEPT !.tok = Bc // t, !.Bc = Bc, !.tpot = t]
  ELSE st

DecodeWith(st, x, cpus, Bc) ==
  DecodeTurn(st, Bc, CpusHold(x, cpus, Bc), gpu_decode_tpot(CpuEngine(x, cpus), Bc),
             x.slo.slo_tpot)
cpu_decode_capacity(x, cpus) ==
  LET decode[n \in 0..Len(BcGrid)] ==
        IF n = 0 THEN [over |-> FALSE, tok |-> Zero, Bc |-> Zero, tpot |-> Inf]
                 ELSE DecodeWith(decode[n-1], x, cpus, BcGrid[n])
  IN  decode[Len(BcGrid)]

(* The GPU feeds so many calls per second, and the CPUs decode at a rate.  *)
Pipeline(output, cpu, feed, rate) ==
  [out_tps |-> output ** (feed \sqcap rate), Bc |-> cpu.Bc,
   bound |-> CASE cpu.tok = Zero -> "cpu_infeasible(SLO)"
               [] cpu.tok # Zero /\ feed \preceq rate -> "gpu_prefill"
               [] OTHER -> "cpu_decode"]
PipelineOf(x, cpu) ==
  Pipeline(x.work.o_output, cpu, One // prefill_time(PlainPolicy(One), x), cpu.tok // x.work.o_output)

disagg_out_tps(x, cpus) == PipelineOf(x, cpu_decode_capacity(x, cpus))

(* run: the smallest number of CPUs, of those tried, with a gain over 1.   *)
crossover_cpus(x, tried) ==
  Seqs!FoldLeft(LAMBDA cross, cpus :
             IF cross = Zero /\ baseline_out_tps(x) \prec disagg_out_tps(x, cpus).out_tps
               THEN cpus ELSE cross, Zero, tried)

-----------------------------------------------------------------------------
prefill_rate_per_gpu(x) ==
  One // ( ((PrefillFlops(x.work, x) ++ PrefillAttnFlops(x.work, x)) // x.hw.f_gpu)
             \sqcup ((weight_read_bytes(x.model, x.work.a_append)
                        ++ kv_size(x.work.a_append, x.model)) // x.hw.bw_hbm) )

(* The KV of a sequence that stays on the GPU bounds the batch.            *)
DecodeBatch(x, s, S, kv) ==
  One \sqcup ((IF Zero \prec kv THEN One \sqcup (FreeHbm(x) // kv) ELSE Q(BatchMax))
                \sqcap batch_slo_cap(S, x, s))
DecodeRate(x, s, S, B) == OverOrZero(B // decode_tpot(B, S, x, s), x.work.o_output)

decode_rate_per_gpu(x, s) ==
  IF FreeHbm(x) \preceq Zero THEN Zero
  ELSE DecodeRate(x, s, s_context(x.work),
         DecodeBatch(x, s, s_context(x.work),
                     (One -- s.f) ** kv_size(s_context(x.work), x.model)))

(* The calls per second of n_p prefill and n_d decode GPUs.                *)
SplitRate(n_p, n_d, lam_p, lam_d, kv) ==
  (n_p ** lam_p) \sqcap (n_d ** lam_d) \sqcap ((n_d ** BwRdma) // kv)

(* The GPUs are divided so that neither phase waits for the other; then    *)
(* the network may still be the limit.                                     *)
Divide(x, gpus, lam_p, lam_d, n_p) ==
  [tps |-> SplitRate(n_p, gpus -- n_p, lam_p, lam_d, kv_size(s_context(x.work), x.model))
             ** x.work.o_output,
   n_p |-> n_p]
DivideBy(x, gpus, lam_p, lam_d) ==
  IF lam_p \preceq Zero \/ lam_d \preceq Zero THEN [tps |-> Zero, n_p |-> Zero]
  ELSE Divide(x, gpus, lam_p, lam_d, (gpus ** lam_d) // (lam_p ++ lam_d))

system_pd(x, gpus, s) == DivideBy(x, gpus, prefill_rate_per_gpu(x), decode_rate_per_gpu(x, s))

system_colocated(x, gpus, s) ==
  gpus ** serving_mix(<<[work |-> x.work, p |-> One]>>, x, s).tps
=============================================================================
