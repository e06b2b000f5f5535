------------------------- MODULE MCExperimentLifecycle -------------------------
(* Instances of ExperimentLifecycle for TLC.                                *)
EXTENDS ExperimentLifecycle

\* A variant has at most two rows, of one day or of two; no collection passes over the
\* control before it has one; and the design without a test variant is a controlled one.
Bounds ==
  /\ \A v \in Variants : RowsOn(v, 0) + RowsOn(v, 1) <= 2
  /\ \A p \in Runs : Control \in run[p].found => HasRow(Control, run[p].day)
  /\ design.controls = Variants => design.mode = "CONTROLLED"
=============================================================================
