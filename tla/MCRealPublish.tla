----------------------------- MODULE MCRealPublish -----------------------------
(* Instances of RealPublish for TLC.                                        *)
EXTENDS RealPublishOnce, TLC

CONSTANTS k1, k2, t1, t2

MCTagOf   == k1 :> t1 @@ k2 :> t2
\* Tags that do not contain each other.
MCApart   == t1 :> {t1} @@ t2 :> {t2}
\* One key.
MCOneKey  == k1 :> t1
MCOneSelf == t1 :> {t1}

Symmetric == Permutations(Runs)
=============================================================================
