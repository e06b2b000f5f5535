------------------------------ MODULE MCNextRound ------------------------------
(* Instance of NextRound for TLC.                                           *)
EXTENDS NextRound, TLC

Symmetry == Permutations(Runs)

NoLearnings == \A l \in Learnings : learning[l].status = "none"

\* Analyses share no row with the rest and are explored on their own; the longer histories
\* of versions are explored without learnings, and the longest with one suggestion.
Apart ==
  /\ analyses # <<>> \/ (\E p \in Runs : run[p].op = "analyze") => versions = <<>> /\ NoLearnings
  /\ Len(versions) > 2 => NoLearnings
  /\ Len(versions) > 3 => Len(suggestions) <= 1
=============================================================================
