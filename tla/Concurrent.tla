----------------------------- MODULE Concurrent -----------------------------
(***************************************************************************)
(* The steady state of a mix of workload classes on one GPU, of            *)
(* model/concurrent.py.  A mix is a sequence of [work, p], p the relative  *)
(* weight; the settings s of a mix are [f, sparse, cpus_per_gpu, overlap,  *)
(* pool], where overlap is the fraction ov of perfect overlap              *)
(* (_overlap_frac maps "optimistic" to 1 and "conservative" to 0).  x.work *)
(* is not used.                                                            *)
(***************************************************************************)
EXTENDS Analytical

CONSTANTS BatchMax,       \* 1e9: the batch that stands for "no bound"
          SloBisections,  \* 60: turns of the bisection for the batch
          FitBisections,  \* 50: turns of the bisection for the overlap
          MixGrid         \* the default grid of best_f; it begins with 0

WithOverlap(s, ov) == [s EXCEPT !.overlap = ov]

(* Two resources whose lesser demand hides behind the other by ov.         *)
combine(a, b, ov) == (a ++ b) -- (ov ** (a \sqcap b))

(* The CPU resources of one GPU, multiplied.                               *)
WithCpus(x, k) ==
  [x EXCEPT !.hw.bw_cpu = @ ** k, !.hw.f_cpu = @ ** k, !.hw.m_cpu = @ ** k]

(* What one call of a class asks of each resource, in flops and bytes, and *)
(* as seconds of it.                                                       *)
CallFlops(work, x, s) ==
  PrefillFlops(work, x) ++ PrefillAttnFlops(work, x) ++ (work.o_output ** Q(2) ** x.model.p_act)
    ++ AttnFlops(work.o_output ** (One -- s.f) ** s.sparse, One, s_context(work), x.model)
CallHbmBytes(work, x, s, B) ==
  ((work.o_output ** weight_read_bytes(x.model, B)) // (B \sqcup One))
    ++ AttnBytes(work.o_output ** (One -- s.f) ** s.sparse, s_context(work), x.model)
    ++ weight_read_bytes(x.model, work.a_append) ++ kv_size(work.a_append, x.model)
CallC2cBytes(work, x, s) ==
  (work.o_output ** s.f ** x.model.layers ** Q(2) ** d_io(x.model) ** x.model.q_act)
    ++ (s.f ** (kv_size(work.s_cached, x.model) ++ kv_size(work.a_append, x.model)))
    ++ (IF s.pool THEN kv_size(work.s_cached, x.model) ++ kv_size(s_context(work), x.model)
                  ELSE Zero)

(* The CPU attends to so many sequences of context S.                      *)
CpuTime(share, S, x) ==
  ((x.coeffs.alpha ** AttnBytes(share, S, x.model)) // x.hw.bw_cpu)
    \sqcup OverOrZero(AttnFlops(share, x.coeffs.beta, S, x.model), x.hw.f_cpu)

class_demand(work, x, s, B) ==
  [compute |-> CallFlops(work, x, s) // x.hw.f_gpu,
   hbm     |-> CallHbmBytes(work, x, s, B) // x.hw.bw_hbm,
   cpu     |-> CpuTime(work.o_output ** s.f ** s.sparse, s_context(work), x),
   c2c     |-> CallC2cBytes(work, x, s) // bw_c2c_oneway(x.hw)]

(* The time of one decode step of a batch B of sequences of context S.     *)
StepCompute(B, S, x, s) ==
  ((B ** Q(2) ** x.model.p_act)
     ++ (B ** (One -- s.f) ** s.sparse ** x.model.layers ** S ** d_attn(x.model))) // x.hw.f_gpu
StepHbm(B, S, x, s) ==
  (weight_read_bytes(x.model, B) ++ AttnBytes(B ** (One -- s.f) ** s.sparse, S, x.model))
    // x.hw.bw_hbm
StepC2c(B, x, s) ==
  ((B ** s.f ** x.model.layers ** Q(2) ** d_io(x.model) ** x.model.q_act) // bw_c2c_oneway(x.hw))
    ++ (Q(2) ** x.model.layers ** x.hw.t_sync)

decode_tpot(B, S, x, s) ==
  combine(combine(StepCompute(B, S, x, s), StepHbm(B, S, x, s), s.overlap),
          IF Zero \prec s.f THEN CpuTime(B ** s.f ** s.sparse, S, x) ++ StepC2c(B, x, s) ELSE Zero,
          s.overlap)
    ++ x.coeffs.t_dispatch ++ (IF Zero \prec s.f THEN x.coeffs.t_merge ELSE Zero)

(* n turns of a loop that makes f[v] of v, and begins with v0.             *)
Turns(f, n, v0) ==
  LET after[k \in 0..n] == IF k = 0 THEN v0 ELSE f[after[k-1]] IN after[n]

Midpoint(b) == (b[1] ++ b[2]) // Q(2)

(* A bisection of the interval b: what is below the bound moves its lower  *)
(* end, and what is not its upper end.                                     *)
Bisect(below(_), n, b) ==
  Turns([c \in Finite \X Finite |->
           IF below(Midpoint(c)) THEN <<Midpoint(c), c[2]>> ELSE <<c[1], Midpoint(c)>>], n, b)

MeetsSlo(B, S, x, s) == decode_tpot(B, S, x, s) \preceq x.slo.slo_tpot

(* The first power of two that misses the SLO, or is beyond all bounds:    *)
(* BatchMax turns are more than enough to get there.                       *)
Misses(hi, S, x, s) == ~MeetsSlo(Q(hi), S, x, s) \/ BatchMax < hi
FirstMiss(S, x, s) ==
  Turns([hi \in Nat |-> IF Misses(hi, S, x, s) THEN hi ELSE 2 * hi], BatchMax, 1)

(* The batches between which the SLO begins to be missed.                  *)
SloBracket(top, S, x, s) ==
  IF top = 1 THEN <<One, One>>
  ELSE IF BatchMax < top THEN <<Q(BatchMax), Q(BatchMax)>>
  ELSE Bisect(LAMBDA B : MeetsSlo(B, S, x, s), SloBisections, <<Q(top \div 2), Q(top)>>)

(* Mutant of batch_slo_cap: the end of the bisection that misses the SLO.  *)
batch_slo_cap_upper(S, x, s) == SloBracket(FirstMiss(S, x, s), S, x, s)[2]

(* The largest batch within the SLO.                                       *)
batch_slo_cap(S, x, s) == SloBracket(FirstMiss(S, x, s), S, x, s)[1]

(* Time to the first token, averaged over the classes.                     *)
ClassTtft(work, x, s, B) ==
  combine((PrefillFlops(work, x) ++ PrefillAttnFlops(work, x)) // x.hw.f_gpu,
          IF s.pool THEN kv_size(work.s_cached, x.model) // bw_c2c_oneway(x.hw) ELSE Zero,
          s.overlap)
    ++ decode_tpot(B, s_context(work), x, s)
mix_ttft(norm, x, s, B) == Total(LAMBDA c : c.p ** ClassTtft(c.work, x, s, B), norm)

-----------------------------------------------------------------------------
Weighted(classes, tot) == [i \in DOMAIN classes |-> [classes[i] EXCEPT !.p = @ // tot]]
Normalized(classes) == Weighted(classes, Total(LAMBDA c : c.p, classes))

(* The mean context, weighted by the time a call decodes.                  *)
OutputTokens(norm) == Total(LAMBDA c : c.p ** c.work.o_output, norm)
AvgContext(norm) ==
  IF Zero \prec OutputTokens(norm)
    THEN Total(LAMBDA c : c.p ** c.work.o_output ** s_context(c.work), norm) // OutputTokens(norm)
    ELSE Total(LAMBDA c : c.p ** s_context(c.work), norm)

LongestContext(norm) ==
  Seqs!FoldLeft(LAMBDA S, c : S \sqcup s_context(c.work), Zero, norm)

(* The batch that HBM and the DRAM of the CPU have room for, a sequence    *)
(* with the KV kv; with all of it offloaded neither is looked at.          *)
CapacityBatch(kv, x, s) ==
  IF (One -- s.f) ** kv \preceq Zero THEN Q(BatchMax)
  ELSE (One \sqcup (FreeHbm(x) // ((One -- s.f) ** kv)))
         \sqcap (IF Zero \prec s.f ** kv THEN One \sqcup (x.hw.m_cpu // (s.f ** kv)) ELSE Inf)

(* One sequence of the longest class fits HBM, and the CPU.                *)
HbmHoldsOne(norm, x, s) ==
  /\ Zero \prec FreeHbm(x)
  /\ (One -- s.f) ** kv_size(LongestContext(norm), x.model) \preceq FreeHbm(x)
CpuHoldsOne(norm, x, s) ==
  s.f \preceq Zero \/ s.f ** kv_size(LongestContext(norm), x.model) \preceq x.hw.m_cpu

(* The resource with the highest demand; the first of equals.              *)
hottest(su) ==
  LET names == <<"compute", "hbm", "cpu", "c2c">>
  IN  Seqs!FoldLeft(LAMBDA best, r : IF su[best] \prec su[r] THEN r ELSE best, "compute", names)

MixFits(norm, x, s) == HbmHoldsOne(norm, x, s) /\ CpuHoldsOne(norm, x, s)

(* The batch of a mix with the mean context S.                             *)
MixBatch(norm, S, x, s) ==
  IF ~MixFits(norm, x, s) THEN One
  ELSE One \sqcup (CapacityBatch(kv_size(S, x.model), x, s) \sqcap batch_slo_cap(S, x, s)
                     \sqcap Q(BatchMax))

(* The demands of the classes, by their weights.                           *)
MixDemand(norm, x, s, B) ==
  [r \in {"compute", "hbm", "cpu", "c2c"} |->
     Total(LAMBDA c : c.p ** class_demand(c.work, x, s, B)[r], norm)]

CallTime(su, overlap) ==
  combine(combine(su.compute, su.hbm, overlap), su.cpu ++ su.c2c, overlap)

MixResult(norm, x, s, B, tp, su) ==
  [tps |-> IF MixFits(norm, x, s)
             THEN OverOrZero(One, CallTime(su, s.overlap)) ** OutputTokens(norm) ELSE Zero,
   binding |-> CASE ~HbmHoldsOne(norm, x, s) -> "hbm_capacity_oom"
                 [] ~CpuHoldsOne(norm, x, s) -> "cpu_capacity_oom"
                 [] OutputTokens(norm) \preceq Zero -> "no_output_tokens"
                 [] OTHER -> hottest(su),
   B |-> B, tpot |-> tp, ttft |-> mix_ttft(norm, x, s, B),
   fits |-> MixFits(norm, x, s),
   slo_feasible |-> MixFits(norm, x, s) /\ tp \preceq x.slo.slo_tpot]

MixAt(norm, S, x, s, B) ==
  MixResult(norm, x, s, B, decode_tpot(B, S, x, s), MixDemand(norm, x, s, B))
MixWith(norm, S, x, s) == MixAt(norm, S, x, s, MixBatch(norm, S, x, s))
MixOn(norm, x, s) == MixWith(norm, AvgContext(norm), x, s)

serving_mix(classes, x, s) == MixOn(Normalized(classes), WithCpus(x, s.cpus_per_gpu), s)

(* The throughputs without overlap and with perfect overlap.               *)
MixTps(classes, x, s, ov) == serving_mix(classes, x, WithOverlap(s, ov)).tps
serving_band(classes, x, s) ==
  [con |-> MixTps(classes, x, s, Zero), opt |-> MixTps(classes, x, s, One)]

(* The overlap that explains a measured throughput, if it lies in the      *)
(* band.                                                                   *)
FitIn(band, measured, ov) ==
  IF band.con \preceq measured /\ measured \preceq band.opt
    THEN [ok |-> TRUE, ov |-> ov] ELSE [ok |-> FALSE]

(* Mutant of fit_overlap: the halves of the bisection are swapped.         *)
fit_overlap_swapped(classes, x, s, measured) ==
  FitIn(serving_band(classes, x, s), measured,
        Midpoint(Bisect(LAMBDA ov : measured \preceq MixTps(classes, x, s, ov),
                        FitBisections, <<Zero, One>>)))

fit_overlap(classes, x, s, measured) ==
  FitIn(serving_band(classes, x, s), measured,
        Midpoint(Bisect(LAMBDA ov : MixTps(classes, x, s, ov) \prec measured,
                        FitBisections, <<Zero, One>>)))

(* Mutant of RowOf: a fraction that misses the SLO is a candidate.         *)
RowOfAnySlo(r, f) ==
  [ok |-> r.fits /\ Zero \prec r.tps, score |-> r.tps, f |-> f, row |-> r]

(* One fraction as a candidate of best_f.                                  *)
RowOf(r, f) ==
  [ok |-> r.fits /\ r.slo_feasible /\ Zero \prec r.tps,
   score |-> r.tps, f |-> f, row |-> r]

(* The best row and its gain over the row of f = 0.                        *)
BestOver(best, base) ==
  [f |-> IF best.ok THEN best.f ELSE Zero,
   base |-> IF base.ok THEN base.score ELSE Zero,
   tps  |-> IF best.ok THEN best.score ELSE Zero,
   gain |-> IF best.ok /\ base.ok THEN best.score // base.score ELSE Zero,
   row  |-> IF best.ok THEN best.row ELSE base.row]

Fractions == {Zero} \cup {MixGrid[i] : i \in DOMAIN MixGrid}

(* The offload fraction with the highest throughput among those that fit   *)
(* and meet the SLO; f = 0 comes first, then the grid.                     *)
MixRow(classes, x, s, f) == RowOf(serving_mix(classes, x, [s EXCEPT !.f = f]), f)
BestOfRows(n, rows) == BestOver(FirstBest(n, rows), rows[1])
best_f(classes, x, s) ==
  BestOfRows(Len(MixGrid) + 1,
             [i \in 1..(Len(MixGrid) + 1) |-> MixRow(classes, x, s, (<<Zero>> \o MixGrid)[i])])
=============================================================================
