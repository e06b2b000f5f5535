------------------------------ MODULE MCMetaImport ------------------------------
(* Instances of MetaImport for TLC.                                         *)
EXTENDS MetaImport

\* The earlier sync is about to commit: its listings left out the campaign and the ad
\* set, and it has inserted the ad, its snapshot and the image.
InFlight ==
  /\ meta = 1 /\ listed = FALSE /\ twins = {}
  /\ row = [k \in Kinds |-> NoRow]
  /\ status = [r \in Runs |-> IF r = Earlier THEN "running" ELSE "none"]
  /\ created = [r \in Runs |-> {}]
  /\ overlooked = [r \in Runs |-> IF r = Earlier THEN {"campaign", "adset"} ELSE {}]
  /\ run = [r \in Runs |->
       IF r # Earlier THEN Start("new")
       ELSE [Start("complete") EXCEPT
               !.step = Len(Order), !.began = 1, !.raw = 1,
               !.change["asset"].new = [ver |-> 1, stamp |-> NoRun, linked |-> TRUE],
               !.own = [k \in AdKinds |-> [ver |-> 1, stamp |-> r, linked |-> k = "snapshot"]],
               !.made = {"ad", "asset", "snapshot"}]]

\* The listings leave out one kind, or the two that keep a sync from waiting for another
\* before both insert the ad.
Bounds ==
  LET missing == {x \in Runs \X Kinds : x[2] \in overlooked[x[1]]}
  IN  Cardinality(missing) <= 1 \/ \E r \in Runs : missing = {r} \X {"campaign", "adset"}

MCSpec == (Init \/ InFlight) /\ [][Next]_vars /\ \A r \in Runs : WF_vars(Work(r))
=============================================================================
