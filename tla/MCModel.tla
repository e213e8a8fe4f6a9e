------------------------------ MODULE MCModel ------------------------------
(* Tools on small inputs: all quantities are small fractions, chosen so    *)
(* that HBM, the CPU, the link, compute and the SLO each bind in turn.     *)
EXTENDS Tools

MCDatasets == { << <<2, 1, 1, 2>>, <<3>>, <<1, 1, 2>>, <<2, 2, 1, 1, 1, 1>>, <<4, 2>> >>,
                << <<3>>, <<>> >> }
MCRow == UNION {{rows[i] : i \in DOMAIN rows} : rows \in MCDatasets}
MCDocInput == Q(5)
MCSimCpt == Q(2)
MCLoadBounds == {<<2, 2>>, <<3, 1>>, <<9, 9>>}
MCTraceDefault == [cached |-> Q(4), uncached |-> One, output |-> One]

Quarters(ns) == [i \in DOMAIN ns |-> Ratio(ns[i], 4)]
MCBdGrid == Quarters(<<4, 8, 16, 32>>)
MCFGrid == Quarters(<<0, 1, 2, 4>>)
MCMixGrid == Quarters(<<0, 1, 2, 3, 4>>)
MCBcGrid == Quarters(<<4, 8, 16, 32>>)
MCBwRdma == Q(64)
MCEpImbalance == Ratio(1, 4)
MCEtaGrid == Quarters(<<1, 2, 3, 4>>)
MCEtaGridJoint == Quarters(<<2, 3, 4>>)  \* as in the code, without the lowest
MCTdGrid == Quarters(<<0, 1>>)

(* The model, the hardware, the workloads.                                 *)
Dense == ModelConfig(Q(2), Q(4), Q(2), One, One, Q(8), Q(8))
Experts == [Dense EXCEPT !.p_total = Q(32), !.expert_frac_act = Ratio(1, 2),
                         !.expert_frac_total = Ratio(3, 4), !.kv_mode = "mla"]

Spec1(gpu_flops, hbm_bw, hbm_cap, cpu_bw, cpu_mem) ==
  [n_gpus |-> One, cpus_per_gpu |-> One, gpu_flops |-> Q(gpu_flops), hbm_capacity |-> Q(hbm_cap),
   hbm_bw |-> Q(hbm_bw), nvlink_bw |-> Q(16), c2c_bw |-> Q(16),
   cpu_flops |-> Q(2 * cpu_bw), cpu_dram_bw |-> Q(cpu_bw), cpu_mem |-> Q(cpu_mem), t_sync |-> Ratio(1, 64)]
Specs == { Spec1(256, 16, 64, 8, 64),    \* decode is bound by HBM
           Spec1(16, 64, 128, 8, 128),   \* compute is scarce
           Spec1(256, 16, 40, 64, 32),   \* HBM is small, the CPU fast but small
           Spec1(64, 16, 16, 8, 64) }    \* HBM holds hardly more than the weights
Roomy == Spec1(256, 16, 64, 8, 64)

Long  == WorkloadConfig(Q(4), Q(2), Q(4))
Short == WorkloadConfig(One, One, Q(2))
Cold  == WorkloadConfig(Zero, Q(4), One)
Works == {Long, Short, Cold}

X(spec, model, work, slo) ==
  [work |-> work, model |-> model, hw |-> system(spec),
   coeffs |-> Coeffs(Ratio(1, 8), Ratio(1, 8), Q(4)),
   slo |-> SLOConfig(slo, Q(16), Q(2))]
Xs(works, slos) == {X(spec, Dense, w, slo) : spec \in Specs, w \in works, slo \in slos}

Mixes == { << [work |-> Long, p |-> One] >>,
           << [work |-> Short, p |-> Q(3)], [work |-> Long, p |-> One] >> }
S(f, k, ov, pool) == [f |-> f, sparse |-> One, cpus_per_gpu |-> k, overlap |-> ov, pool |-> pool]
Thrifty(s) == [s EXCEPT !.sparse = Ratio(1, 2)]

Query(objective, overlap) ==
  [sparse |-> Ratio(1, 2), r |-> One, overlap |-> overlap, objective |-> objective]

Point1(spec, model, b_d, context, measured, skip) ==
  [spec |-> spec, model |-> model, b_d |-> b_d, context |-> context,
   measured |-> measured, skip |-> skip]
Points == [spec \in Specs |->
  << Point1(spec, Dense, One, Q(4), Q(2), FALSE), Point1(spec, Dense, Q(2), Q(2), Q(3), FALSE),
     Point1(spec, Dense, One, Q(8), One, TRUE), Point1(spec, Experts, Q(2), Q(8), Q(1), FALSE) >>]

Rack(n, model) ==
  [X(Spec1(64, 16, 64, 8, 64), model, Long, Q(4)) EXCEPT
     !.hw.n_gpus = Q(n), !.model.layers = Q(9), !.model.n_kv_heads = Q(2)]

MCCases ==
  [sweep |-> {[x |-> x, eta |-> Ratio(1, 2), r |-> One, b_d |-> b, f |-> f, sparse |-> One] :
                x \in Xs({Long}, {Q(4)}), b \in {One, Q(4)}, f \in {Zero, Ratio(1, 2), One}},
   optimize |-> {[x |-> x, q |-> q] : x \in Xs({Long, Short}, {Q(2), Q(4)}),
                   q \in {Query("serving", "optimistic"), Query("decode", "conservative")}},
   mix |-> {[classes |-> m, x |-> x, s |-> s] :
              m \in Mixes, x \in Xs({Long}, {One, Q(4), Q(32)}),
              s \in {S(Zero, One, One, FALSE), S(Ratio(1, 2), Q(2), Zero, TRUE)}},
   offload |-> {[classes |-> m, x |-> x, s |-> S(Zero, One, ov, FALSE)] :
                  m \in Mixes, x \in Xs({Long}, {Q(2), Q(8)}), ov \in {Zero, One}},
   overlap |-> {[classes |-> m, x |-> x, s |-> S(Zero, One, One, FALSE), measured |-> t] :
                  m \in Mixes, x \in Xs({Long}, {Q(4)}), t \in {Ratio(3, 20), Ratio(2, 5), Ratio(3, 5)}},
   cpu_decode |-> {[x |-> x, cpus |-> k] : x \in Xs({Long, Short}, {Q(4)}), k \in {One, Q(4)}},
   split |-> {[x |-> x, gpus |-> Q(8), s |-> S(Zero, One, ov, TRUE)] :
                x \in Xs(Works, {Q(4)}), ov \in {Zero, One}},
   contention |-> {[x |-> x, f |-> f, cpus |-> k] :
                     x \in Xs({Long, Cold}, {Q(4)}), f \in {Zero, Ratio(1, 4), Ratio(1, 2)}, k \in {Ratio(1, 2), Q(4)}},
   ceiling |-> {[x |-> x, b_d |-> b] : x \in Xs(Works, {Q(4)}), b \in {One, Q(4)}},
   deployments |-> {Rack(8, Dense), Rack(72, Experts)},
   calibration |-> {[points |-> Points[spec], eta |-> e] :
                      spec \in Specs, e \in {Zero, Ratio(1, 2), One}}]

(* All of the KV on a CPU that has room for one sequence of a batch.       *)
MCDramCases ==
  [[driver \in DOMAIN MCCases |-> {}] EXCEPT !.mix =
     {[classes |-> << [work |-> Long, p |-> One] >>, x |-> x, s |-> S(One, One, One, FALSE)] :
        x \in Xs({Long}, {Q(32)})}]
MCNoArguments == {}

MCMixClasses == [long |-> Long, short |-> Short]
Args(spec, gpus, workload, mix, measured) ==
  [spec |-> [spec EXCEPT !.n_gpus = Q(gpus)], model |-> Dense, eta |-> One,
   coeffs |-> Coeffs(Zero, Zero, Q(4)), slo |-> SLOConfig(Q(8), Q(16), Q(2)),
   workload |-> workload, mix |-> mix, sparse |-> Ratio(1, 2), measured |-> measured]
Own == <<<<"o", Q(2)>>>>
MCArguments ==
  {Args(spec, g, w, m, t) :
     spec \in Specs, g \in {1, 64}, w \in {<<>>, Own}, t \in {Zero, Ratio(2, 5)},
     m \in {DefaultMix, <<<<"short", One>>, <<"long", One>>>>}}
  \cup {Args(Roomy, 8, <<>>, DefaultMix, Zero),                \* no layout fits
        Args(Roomy, 1, <<<<"x", One>>>>, DefaultMix, Zero),    \* no such field
        Args(Roomy, 1, <<>>, <<<<"custom", One>>>>, Zero),     \* no such class
        Args(Roomy, 1, Own, <<<<"custom", One>>>>, Zero)}
  (* To merge the attentions takes as long as the SLO allows.              *)
  \cup {[Args(spec, 1, <<>>, DefaultMix, Zero) EXCEPT !.coeffs.t_merge = Q(8)] : spec \in Specs}
=============================================================================
