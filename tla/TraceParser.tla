---------------------------- MODULE TraceParser ----------------------------
(***************************************************************************)
(* The trace parser of model/trace_parser.py on the rows of TraceCache,    *)
(* and the simulators' load_calls, which reads the same file.  A row, a    *)
(* conversation, is the sequence of the lengths of its turns, which are    *)
(* taken to alternate: human, model, human, ...                            *)
(***************************************************************************)
EXTENDS TraceCache, Rationals, FiniteSets

CONSTANTS DocInput,    \* DOC["input"]: the documented mean of the input
          SimCpt,      \* cpt of load_calls
          LoadBounds,  \* pairs <<max_sessions, max_calls_per_session>>
          TraceDefault \* the calls of a synthetic session: cached, uncached, output

(* Turns have lengths, and the ratios are those of positive numbers.       *)
ASSUME TraceAssumption ==
  /\ (\A row \in Row : row \in Seq(Nat)) /\ \A bounds \in LoadBounds : bounds \in Nat \X Nat
  /\ \A ratio \in {DocInput, SimCpt} : ratio \in LowestTerms /\ Zero \prec ratio

VARIABLES report,   \* the last report written: the trials and their statistics
          sessions  \* what load_calls handed to a simulator last

traceVars == <<vars, report, sessions>>

NotYet == [is |-> "none"]

-----------------------------------------------------------------------------
(* Characters of the first turns, however many.                            *)
prefix(conv) ==
  LET cum[k \in 0..Len(conv)] == IF k = 0 THEN 0 ELSE cum[k-1] + conv[k] IN cum

(* Mutant of Segment: the last answer of the model is not in the cache.    *)
SegmentSkipsAnswer(conv, i, cpt) ==
  [idx      |-> i,
   input    |-> Q(prefix(conv)[(2 * i) + 1]) // cpt,
   cached   |-> Q(prefix(conv)[IF i > 0 THEN (2 * i) - 1 ELSE 0]) // cpt,
   uncached |-> Q(conv[(2 * i) + 1]) // cpt,
   output   |-> Q(conv[(2 * i) + 2]) // cpt]

(* Call i, from 0, of a conversation, in tokens; what it takes from the    *)
(* cache is the whole conversation up to its new turn.                     *)
Segment(conv, i, cpt) ==
  [idx      |-> i,
   input    |-> Q(prefix(conv)[(2 * i) + 1]) // cpt,
   cached   |-> Q(prefix(conv)[2 * i]) // cpt,
   uncached |-> Q(conv[(2 * i) + 1]) // cpt,
   output   |-> Q(conv[(2 * i) + 2]) // cpt]

(* A turn without an answer is dropped, and a conversation without calls.  *)
TrialOf(conv, cpt) ==
  [n_calls |-> Len(conv) \div 2,
   calls   |-> [i \in 1..(Len(conv) \div 2) |-> Segment(conv, i - 1, cpt)]]
parse_trials(conversations, cpt) ==
  Seqs!FlattenSeq([j \in DOMAIN conversations |->
    IF Len(conversations[j]) < 2 THEN <<>> ELSE <<TrialOf(conversations[j], cpt)>>])

CallsOf(trials) == Seqs!FlattenSeq([j \in DOMAIN trials |-> trials[j].calls])

(* Characters per token such that the mean input is the documented one.    *)
calibrate_cpt(conversations) ==
  Mean(LAMBDA c : c.input, CallsOf(parse_trials(conversations, One))) // DocInput

-----------------------------------------------------------------------------
(* The k-th value has fewer than k values below it, and k up to it.        *)
AtOrBelow(xs, v) == {i \in DOMAIN xs : xs[i] \preceq v}
Below(xs, v)     == {i \in DOMAIN xs : xs[i] \prec v}
IsNth(xs, k, v) == Cardinality(Below(xs, v)) < k /\ k <= Cardinality(AtOrBelow(xs, v))
Sorted(xs) ==
  [k \in DOMAIN xs |-> xs[CHOOSE i \in DOMAIN xs : IsNth(xs, k, xs[i])]]

(* Percentile p, interpolated; k is in hundredths.                         *)
pct(xs, p) ==
  LET s  == Sorted(xs)
      k  == (Len(xs) - 1) * p
      lo == (k \div 100) + 1
      hi == IF lo < Len(xs) THEN lo + 1 ELSE lo
  IN  IF xs = <<>> THEN Zero ELSE s[lo] ++ ((s[hi] -- s[lo]) ** Ratio(k % 100, 100))

summarize(xs) ==
  [mean |-> Mean(LAMBDA v : v, xs), p50 |-> pct(xs, 50), p90 |-> pct(xs, 90),
   p99 |-> pct(xs, 99), min |-> Sorted(xs)[1], max |-> Sorted(xs)[Len(xs)]]

(* The share of the tenth of the values that is largest.                   *)
heavy_tail_share(xs) ==
  LET k   == IF Len(xs) < 20 THEN 1 ELSE Len(xs) \div 10
      top == SubSeq(Sorted(xs), Len(xs) - k + 1, Len(xs))
  IN  OverOrZero(Total(LAMBDA v : v, top), Total(LAMBDA v : v, xs))

compute_stats(trials, cpt) ==
  LET calls    == CallsOf(trials)
      all(key) == [i \in DOMAIN calls |-> calls[i][key]]
      sum(key) == Total(LAMBDA c : c[key], calls)
      hit      == OverOrZero(sum("cached"), sum("input"))
      counts   == [j \in DOMAIN trials |-> Q(trials[j].n_calls)]
      growth   == [k \in 1..(Sorted(counts)[Len(counts)][1]) |->
                     LET long == SelectSeq(trials, LAMBDA t : t.n_calls >= k)
                     IN  Mean(LAMBDA t : t.calls[k].input, long)]
  IN  [chars_per_token |-> cpt, n_trials |-> Len(trials), n_calls_total |-> Len(calls),
       per_trial |-> summarize(counts), input |-> summarize(all("input")),
       cached |-> summarize(all("cached")), uncached |-> summarize(all("uncached")),
       output |-> summarize(all("output")),
       cache_hit_rate |-> hit, uncached_fraction |-> One -- hit,
       input_output_ratio |-> OverOrZero(sum("input"), sum("output")),
       uncached_top |-> heavy_tail_share(all("uncached")),
       output_top |-> heavy_tail_share(all("output")),
       growth |-> UpTo(growth, 60)]

-----------------------------------------------------------------------------
(* The calls of at most maxS sessions, at most maxC of each.  Without a    *)
(* readable trace, and when nothing is left of it, they are made up.       *)
load_calls(maxS, maxC) ==
  LET trials == UpTo(parse_trials(cache.rows, SimCpt), maxS)
      traced == [j \in DOMAIN trials |->
                   LET calls == UpTo(trials[j].calls, maxC)
                   IN  [i \in DOMAIN calls |->
                          [cached |-> calls[i].cached, uncached |-> calls[i].uncached,
                           output |-> calls[i].output]]]
      kept   == Seqs!FlattenSeq([j \in DOMAIN traced |->
                  IF traced[j] = <<>> THEN <<>> ELSE <<traced[j]>>])
  IN  IF cache.is = "whole" /\ kept # <<>> THEN kept
      ELSE [j \in 1..maxS |-> [i \in 1..maxC |-> TraceDefault]]

-----------------------------------------------------------------------------
TraceInit == Init /\ report = NotYet /\ sessions = <<>>

TraceStep == Download /\ UNCHANGED <<report, sessions>>

(* main: a trace without calls, or of empty calls, raises in               *)
(* calibrate_cpt or in the division by its result.                         *)
Analyze ==
  LET cpt == calibrate_cpt(fetch.rows)
      trials == parse_trials(fetch.rows, cpt)
  IN  /\ Done
      /\ CallsOf(parse_trials(fetch.rows, One)) # <<>> /\ cpt # Zero
      /\ report' = [is |-> "written", trials |-> trials, stats |-> compute_stats(trials, cpt)]
      /\ UNCHANGED sessions

LoadCalls ==
  \E bounds \in LoadBounds :
    /\ sessions' = load_calls(bounds[1], bounds[2])
    /\ UNCHANGED <<vars, report>>

TraceNext == TraceStep \/ Analyze \/ LoadCalls

-----------------------------------------------------------------------------
(* Each call finds all that was said before it in the cache and adds its   *)
(* own turn.                                                               *)
EndToEnd(calls) ==
  /\ calls[1].cached = Zero
  /\ \A i \in DOMAIN calls : calls[i].input = calls[i].cached ++ calls[i].uncached
  /\ \A i \in 1..(Len(calls) - 1) : calls[i+1].cached = calls[i].input ++ calls[i].output
InOrder(s) ==
  /\ s.min \preceq s.p50 /\ s.p50 \preceq s.p90 /\ s.p90 \preceq s.p99 /\ s.p99 \preceq s.max
  /\ s.min \preceq s.mean /\ s.mean \preceq s.max
(* The mean input is the documented one, and the fraction that is not      *)
(* cached, worked out from the hits, is the one the means show.            *)
Tallies(stats) ==
  /\ stats.input.mean = DocInput
  /\ stats.uncached_fraction = stats.uncached.mean // stats.input.mean
  /\ \A key \in {"per_trial", "input", "cached", "uncached", "output"} : InOrder(stats[key])
Replayed(calls) ==
  \A i \in 1..(Len(calls) - 1) :
    \/ calls[i+1].cached = calls[i].cached ++ calls[i].uncached ++ calls[i].output
    \/ calls[i] = TraceDefault /\ calls[i+1] = TraceDefault

(* The calls of a trial lie end to end, so that the new tokens of a trial  *)
(* add up to the context of its last call; and percentiles, fractions and  *)
(* the anchored mean of the report are those of such calls.  What the      *)
(* simulators replay lies end to end as well, or is made up.               *)
SegmentsTile ==
  /\ report.is = "written" =>
       /\ \A j \in DOMAIN report.trials : EndToEnd(report.trials[j].calls)
       /\ Tallies(report.stats)
  /\ \A j \in DOMAIN sessions : Replayed(sessions[j])
=============================================================================
