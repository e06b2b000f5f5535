----------------------------- MODULE MCPublishGate -----------------------------
(* Instances of PublishGate for TLC.                                        *)
EXTENDS PublishGate, TLC

Symmetric == Permutations(Runs) \cup Permutations(Keys \ {Idle.key})

\* A bound: organisations, payloads and modes meet under one key, which only one of the
\* organisations uses with more than one payload; the other keys are there for the daily
\* limit, and are simulated by that organisation.
OneKeyIsShared ==
  \A p \in Runs :
    /\ run[p].org # Idle.org => run[p].payload = Idle.payload
    /\ run[p].key # Idle.key
         => /\ run[p].org = Idle.org /\ run[p].payload = Idle.payload
            /\ run[p].mode = "DRY_RUN" /\ run[p].at # "blocked"
=============================================================================
