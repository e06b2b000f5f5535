------------------------------- MODULE Evaluator -------------------------------
(***************************************************************************)
(* The decision rules of packages/experiment_engine: the guards on the     *)
(* design of an experiment, and evaluate_experiment, a pure function from  *)
(* the design and the aggregated metrics to an evaluation state.           *)
(*                                                                         *)
(* Numbers are kept to what the rules compare.  A relative difference is   *)
(* counted in halves of min_difference, so that 2 reaches it.  A           *)
(* confidence is 1 below 0.6, 2 from there and 3 from min_confidence;      *)
(* 0 stands for None.                                                      *)
(***************************************************************************)
EXTENDS Integers, FiniteSets

CONSTANTS
  Variants,  \* the variants an experiment is created with, if any
  Control,   \* the first of them
  Criteria,  \* how many of the four minimum criteria are set
  Diffs,     \* the relative differences considered, within -2..2
  Confs      \* the confidences considered, within 1..3

ASSUME EvaluatorAssumption ==
  /\ Control \in Variants /\ IsFiniteSet(Variants) /\ Criteria \in 1..4
  /\ Diffs \subseteq -2..2 /\ Confs \subseteq 1..3

-----------------------------------------------------------------------------
(* Designs and their guards.                                                *)

\* What the primary metric is to the evaluator: a click rate; a number of purchases or
\* leads; a continuous value of which more, or less, is better; or a name that the
\* aggregated metrics do not have (cvr, purchase_rate, lead_rate).
MetricKinds == {"ctr", "count", "continuous", "lower", "absent"}

\* "pure": every test variant changes the primary variable and nothing else.
Design == [mode : {"CONTROLLED", "EXPLORATORY"}, metric : MetricKinds,
           variants : {{}, Variants}, controls : SUBSET Variants,
           pure : BOOLEAN, affordable : BOOLEAN]

\* A draft without variants is let through, here and when it starts.
MissesBaseline(d)     == d.variants # {} /\ d.controls = {}
MixesVariables(d)     == d.mode = "CONTROLLED" /\ d.variants # {} /\ ~d.pure
ExceedsBudget(d)      == ~d.affordable
Blocked(d)            == MissesBaseline(d) \/ MixesVariables(d) \/ ExceedsBudget(d)

\* The evaluator compares with the first control and tests every other variant that
\* is not a control.
Tests(d) == d.variants \ d.controls

-----------------------------------------------------------------------------
(* The metrics of a variant against the control.                            *)

\* None if the control's value is zero, which "known" tells.
Differences == Diffs \cup {0}

\* The sum over a grid of 300 points is too coarse for the posteriors of large samples,
\* so a confidence need not agree with the difference.
Confidences == Confs \cup {0}

Result == [known : BOOLEAN, diff : Differences, conf : Confidences]

\* The results that _build_results can return.  A confidence is computed for rates and
\* counts of more than nine trials, for two metrics that have no value, too.
Results(metric) ==
  {r \in Result : /\ r.known \/ r.diff = 0
                  /\ metric = "absent" => ~r.known
                  /\ metric \in {"continuous", "lower"} => r.conf = 0}

\* How many of the minimum criteria the aggregate of a variant may miss: spend,
\* impressions, clicks (each unless it is 0), and at least one matured snapshot.
Lacking(matured) == IF matured = 0 THEN 1..Criteria ELSE 0..(Criteria - 1)

-----------------------------------------------------------------------------
(* evaluate_experiment.                                                     *)

Greatest(S) == CHOOSE x \in S : \A y \in S : y <= x

\* The differences are improvements already; for a metric of which less is better the
\* sign is turned once more, which makes the worst variant the best.
BestDiff(metric, diffs) ==
  IF metric = "lower" THEN Greatest({-x : x \in diffs}) ELSE Greatest(diffs)

\* Mutant: the mode is not looked at.
ConclusionAnyMode(d, res) ==
  LET diffs == {res[v].diff : v \in {u \in DOMAIN res : res[u].known}}
      conf  == Greatest({res[v].conf : v \in DOMAIN res} \cup {0})
      best  == BestDiff(d.metric, diffs)
  IN  IF diffs = {} THEN "inconclusive"
      ELSE IF best >= 2 /\ conf >= 3 THEN "winner_candidate"
      ELSE "inconclusive"

\* The state for variants that all have enough data.
Conclusion(d, res) ==
  LET diffs == {res[v].diff : v \in {u \in DOMAIN res : res[u].known}}
      conf  == Greatest({res[v].conf : v \in DOMAIN res} \cup {0})
      best  == BestDiff(d.metric, diffs)
  IN  CASE diffs = {}               -> "inconclusive"
        [] diffs # {} /\ best >= 2 /\ conf >= 3
             -> IF d.mode = "CONTROLLED" THEN "winner_candidate" ELSE "promising"
        [] diffs # {} /\ best >= 1 /\ conf >= 2 /\ ~(best >= 2 /\ conf >= 3)
             -> "promising"
        [] diffs # {} /\ ~(best >= 1 /\ conf >= 2)
             -> IF \A x \in diffs : x <= -1 THEN "underperforming" ELSE "inconclusive"

\* "missing" is the number of criteria that the control and the tests miss.
EvaluationState(d, missing, res) ==
  IF d.controls = {} \/ missing > 2 THEN "insufficient_data"
  ELSE IF missing > 0 THEN "collecting"
  ELSE Conclusion(d, res)

\* The variants that reach both thresholds of a winner.
Strong(res) == {v \in DOMAIN res : res[v].known /\ res[v].diff >= 2 /\ res[v].conf >= 3}

EvaluationStates == {"insufficient_data", "collecting", "inconclusive", "promising",
                     "underperforming", "winner_candidate"}
=============================================================================
