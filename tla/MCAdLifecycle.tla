----------------------------- MODULE MCAdLifecycle -----------------------------
(* Instances of AdLifecycle for TLC.                                        *)
EXTENDS AdLifecycle, TLC

Symmetric == Permutations(Runs)
=============================================================================
