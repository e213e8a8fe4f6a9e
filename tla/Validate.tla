------------------------------ MODULE Validate ------------------------------
(***************************************************************************)
(* The comparison with measurements of model/validate.py.  A point is a    *)
(* record [spec, model, b_d, context, measured, skip]: the specifications  *)
(* of its hardware, the measured time per token and whether the file marks *)
(* it "_skip".  How well a fit e = [ec, em, td] explains points is their   *)
(* mean relative error.                                                    *)
(***************************************************************************)
EXTENDS Analytical

CONSTANTS EtaGrid,      \* the efficiencies of calibrate_eta
          EtaGridJoint, \* ETA_GRID, for compute and memory apart
          TdGrid        \* TD_GRID, the dispatch times

OneEta(eta) == [ec |-> eta, em |-> eta, td |-> Zero]

hw_from_point(point, e) == effective(system(point.spec), e.ec, e.em)

(* Only t_dispatch of the coefficients differs from its default.           *)
predict_tpot(point, e, overlap) ==
  tpot(policy("gpu_hot", Zero, One, point.b_d, One),
       [work |-> WorkloadConfig(point.context, Zero, Zero), model |-> point.model,
        hw |-> hw_from_point(point, e), coeffs |-> Coeffs(Zero, e.td, Zero)], overlap)

(* Either the time per token, or the batch over the throughput.            *)
measured_tpot(point) ==
  IF "measured" \in DOMAIN point THEN point.measured
                                 ELSE point.b_d // point.measured_throughput

(* Weights and KV are read once per token, and the flops are done.         *)
FloorOn(point, hw) ==
  ((weight_read_bytes(point.model, point.b_d)
      \sqcup (point.b_d ** kv_size(point.context, point.model))) // hw.bw_hbm)
    \sqcup ((Q(2) ** point.model.p_act ** point.b_d) // hw.f_gpu)
roofline_floor_tpot(point, e) == FloorOn(point, hw_from_point(point, e))

roofline_ok(point) ==
  roofline_floor_tpot(point, OneEta(One)) \preceq predict_tpot(point, OneEta(One), "conservative")

RelativeError(pred, meas) == ((pred -- meas) \sqcup (meas -- pred)) // meas

mape(points, e) ==
  IF points = <<>> THEN Inf
  ELSE Mean(LAMBDA pt : RelativeError(predict_tpot(pt, e, "conservative"), measured_tpot(pt)), points)

LessError(best, e) == IF e.mape \prec best.mape THEN e ELSE best

(* Mutant of LeastOf: the least error so far is not remembered.            *)
LeastOfStale(tried) ==
  LET least[i \in DOMAIN tried] ==
        IF i = 1 \/ ~(tried[i].mape \prec tried[1].mape) THEN tried[1] ELSE tried[i]
  IN  least[Len(tried)]

(* The first fit of a list with the least error.                           *)
LeastOf(tried) ==
  LET least[i \in DOMAIN tried] ==
        IF i = 1 THEN tried[1] ELSE LessError(least[i-1], tried[i])
  IN  least[Len(tried)]
LeastError(points, fits) ==
  LeastOf([i \in DOMAIN fits |-> [fit |-> fits[i], mape |-> mape(points, fits[i])]])

calibrate_eta(points) ==
  LeastError(points, [i \in DOMAIN EtaGrid |-> OneEta(EtaGrid[i])])

(* Three nested loops, the last of them over the dispatch times.           *)
calibrate_joint(points) ==
  LET n == Len(EtaGridJoint)
      m == Len(TdGrid)
  IN  LeastError(points, [i \in 1..(n * n * m) |->
        [ec |-> EtaGridJoint[((i - 1) \div (n * m)) + 1],
         em |-> EtaGridJoint[(((i - 1) \div m) % n) + 1],
         td |-> TdGrid[((i - 1) % m) + 1]]])

(* The error of each point under a fit to the others; three parameters     *)
(* need more than four points.                                             *)
FitTo(points, joint) ==
  IF joint THEN calibrate_joint(points).fit ELSE calibrate_eta(points).fit
LeftOutError(points, i, joint) ==
  RelativeError(predict_tpot(points[i], FitTo(Seqs!RemoveAt(points, i), joint), "conservative"),
                measured_tpot(points[i]))
leave_one_out(points, joint) ==
  IF Len(points) < 2 \/ (joint /\ Len(points) <= 4) THEN [ok |-> FALSE]
  ELSE [ok |-> TRUE,
        mape |-> Mean(LAMBDA i : LeftOutError(points, i, joint), [i \in DOMAIN points |-> i])]

(* Points made up with a known efficiency.                                 *)
synthetic_points(cases, eta) ==
  [i \in DOMAIN cases |->
     [spec |-> cases[i].spec, model |-> cases[i].model, b_d |-> cases[i].b_d,
      context |-> cases[i].context,
      measured |-> predict_tpot(cases[i], OneEta(eta), "conservative")]]

load_measurements(file) ==
  Seqs!FlattenSeq([i \in DOMAIN file |-> IF file[i].skip THEN <<>> ELSE <<file[i]>>])
=============================================================================
