---------------------------- MODULE MCCreativeReview ---------------------------
(* Instance of CreativeReview for TLC.                                      *)
EXTENDS CreativeReview, TLC

Symmetry == Permutations(Runs) \cup Permutations(Creatives)

Decided == {c \in Creatives : decision[c].last # "none"}

\* Images meet in the pipeline alone: of two creatives with an image the checks and the
\* decisions of one are explored, and of three creatives none.  Nothing is generated once
\* a creative has passed the gate.
OneReviewed ==
  /\ \A c \in Decided : \A d \in Creatives \ {c} :
       \/ creative[c].image = NoImage /\ checks[c] = <<>>
       \/ creative[d].image = NoImage /\ checks[d] = <<>>
       \/ d \notin Decided /\ checks[d] \in {<<>>, <<"open">>}
  /\ attempt # NoAttempt => \A p \in Runs : run[p].op # "generate"
  /\ Cardinality(Rows \cup files) > 2 =>
       /\ Decided = {}
       /\ \A c \in Creatives : creative[c].stored => checks[c] = <<>>
       /\ \A p \in Runs : run[p].op \in {"none", "generate"}
=============================================================================
