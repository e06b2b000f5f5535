-------------------------- MODULE RealPublish_proofs --------------------------
(* Proofs about RealPublish: its types, that a key has one handler, that     *)
(* duplicates at Meta have a cause, and that no id that was learned is lost. *)
EXTENDS RealPublish, TLAPS

LEMMA AdvanceType ==
  ASSUME NEW r \in Local, NEW kind \in Kinds, NEW id \in Nat
  PROVE  Advance(r, kind, id) \in Local
<1> DEFINE has == [r EXCEPT !.got[kind] = id]
<1>1. has \in Local
  BY DEF Local
<1>2. \A at \in Places, k \in Kinds : [has EXCEPT !.at = at, !.kind = k] \in Local
  BY <1>1 DEF Local
<1>3. [has EXCEPT !.at = "status"] \in Local
  BY <1>1 DEF Local, Places
<1>4. "find" \in Places /\ "adsets" \in Kinds /\ "adcreatives" \in Kinds /\ "ads" \in Kinds
  BY DEF Places, Kinds
<1> HIDE DEF has
<1>5. /\ [has EXCEPT !.at = "find", !.kind = "adsets"] \in Local
      /\ [has EXCEPT !.at = "find", !.kind = "adcreatives"] \in Local
      /\ [has EXCEPT !.at = "find", !.kind = "ads"] \in Local
  BY <1>2, <1>4
<1> QED BY <1>3, <1>5 DEF Advance, has

LEMMA FailedType ==
  ASSUME NEW r \in Local, NEW recoverable \in BOOLEAN
  PROVE  Failed(r, recoverable) \in Local
BY DEF Failed, Local, Places, States

LEMMA SavedRowType ==
  ASSUME NEW stored \in Row, NEW r \in Local PROVE SavedRow(stored, r) \in Row
<1> DEFINE ids == IF r.keepIds THEN r.got ELSE NoIds
           status == IF r.outcome = "completed" THEN "PAUSED" ELSE r.outcome
<1>1. /\ ids \in [Kinds -> Nat]
      /\ status \in Statuses
      /\ r.outcome \in States
      /\ r.loaded \in Row
  BY DEF Local, NoIds, NoId, States, Statuses
<1>2. [kind \in Kinds |-> Flush(stored.ids[kind], r.loaded.ids[kind], ids[kind])]
        \in [Kinds -> Nat]
  <2> SUFFICES ASSUME NEW kind \in Kinds
               PROVE  Flush(stored.ids[kind], r.loaded.ids[kind], ids[kind]) \in Nat
    OBVIOUS
  <2>1. stored.ids[kind] \in Nat /\ ids[kind] \in Nat
    BY <1>1 DEF Row
  <2> QED BY <2>1 DEF Flush
<1>3. /\ Flush(stored.workflow, r.loaded.workflow, r.outcome) \in States
      /\ Flush(stored.status, r.loaded.status, status) \in Statuses
  BY <1>1 DEF Flush, Row
<1> QED BY <1>2, <1>3 DEF SavedRow, Row

LEMMA TypeInitially == Init => TypeOK
<1> SUFFICES ASSUME Init PROVE TypeOK
  OBVIOUS
<1>1. NoIds \in [Kinds -> Nat]
  BY DEF NoIds, NoId
<1>2. NoRow \in Row
  BY <1>1 DEF NoRow, Row, States, Statuses
<1>3. (CHOOSE k \in Keys : TRUE) \in Keys
  BY RealPublishAssumption
<1>4. run \in [Runs -> Local]
  BY <1>1, <1>2, <1>3 DEF Init, Local, Places, Kinds, Results, States
<1> QED BY <1>2, <1>4 DEF Init, TypeOK, Results

\* The local states an execution goes through at a step that only moves it.
LEMMA MoveType ==
  ASSUME NEW r \in Local, NEW place \in Places PROVE [r EXCEPT !.at = place] \in Local
BY DEF Local

\* Every variable keeps its type.
LEMMA TypeInductive == TypeOK /\ [Next]_vars => TypeOK'
<1> SUFFICES ASSUME TypeOK, [Next]_vars PROVE TypeOK'
  OBVIOUS
<1> USE DEF TypeOK, dbVars, metaVars
<1>tag. \A p \in Runs : run[p] \in Local /\ run[p].key \in Keys /\ Tag(p) \in Tags
  BY RealPublishAssumption DEF Tag, Local
<1>new. [workflow |-> "validated", status |-> "PAUSED", ids |-> NoIds] \in Row
  BY DEF Row, States, Statuses, NoIds, NoId
<1>overlap. ASSUME NEW p \in Runs, NEW k \in Keys, Overlap(p, k) PROVE excused' \subseteq Tags
  BY <1>overlap, RealPublishAssumption DEF Overlap
<1>1. ASSUME NEW p \in Runs, NEW k \in Keys, Check(p, k) PROVE TypeOK'
  <2>1. \A place \in {"insert", "done"} : [run[p] EXCEPT !.key = k, !.at = place] \in Local
    BY DEF Local, Places
  <2>2. run' \in [Runs -> Local]
    BY <1>1, <2>1 DEF Check
  <2> QED BY <1>1, <2>2 DEF Check
<1>2. ASSUME NEW p \in Runs, NEW k \in Keys, Deliver(p, k) PROVE TypeOK'
  <2>1. [run[p] EXCEPT !.at = "upload", !.key = k, !.task = TRUE,
                       !.loaded = row[k], !.was = attempt[k]] \in Local
    BY DEF Local, Places
  <2>2. run' \in [Runs -> Local]
    BY <1>2, <2>1 DEF Deliver
  <2> QED BY <1>2, <2>2, <1>overlap DEF Deliver
<1>3. ASSUME NEW p \in Runs, Insert(p) PROVE TypeOK'
  <2> DEFINE new == [workflow |-> "validated", status |-> "PAUSED", ids |-> NoIds]
  <2>1. [run[p] EXCEPT !.at = "upload", !.loaded = new, !.was = "in_progress"] \in Local
    <3>1. new \in Row /\ run[p] \in Local /\ "in_progress" \in Results
      BY <1>new DEF Results
    <3>2. "upload" \in Places
      BY DEF Places
    <3> HIDE DEF new
    <3> QED BY <3>1, <3>2 DEF Local
  <2>2. run' \in [Runs -> Local]
    BY <1>3, <2>1 DEF Insert
  <2>3. row' \in [Keys -> Row] /\ attempt' \in [Keys -> Results]
    BY <1>3, <1>new, <1>tag DEF Insert, Results
  <2>4. excused' \subseteq Tags
    BY <1>3, <1>tag, <1>overlap DEF Insert
  <2> QED BY <1>3, <2>2, <2>3, <2>4 DEF Insert
<1>4. ASSUME NEW p \in Runs, Reject(p) PROVE TypeOK'
  <2>1. run' \in [Runs -> Local]
    BY <1>4, <1>tag, MoveType DEF Reject, Places
  <2> QED BY <1>4, <2>1 DEF Reject, Results
<1>5. ASSUME NEW p \in Runs, InsertConflict(p) PROVE TypeOK'
  BY <1>5, <1>tag, MoveType DEF InsertConflict, Places
<1>6. ASSUME NEW p \in Runs, Upload(p) PROVE TypeOK'
  <2>1. [run[p] EXCEPT !.at = "find", !.kind = "campaigns"] \in Local
    <3>1. "find" \in Places /\ "campaigns" \in Kinds
      BY DEF Places, Kinds
    <3> QED BY <1>tag, <3>1 DEF Local
  <2>2. run' \in [Runs -> Local]
    BY <1>6, <2>1, <1>tag, FailedType DEF Upload
  <2> QED BY <1>6, <2>2 DEF Upload
<1>7. ASSUME NEW p \in Runs, Reconcile(p) PROVE TypeOK'
  <2>1. \A o \in Matches(run[p].kind, Tag(p)) : o.id \in Nat
    BY DEF Matches, Resource
  <2>2. run[p].kind \in Kinds
    BY <1>tag DEF Local
  <2>3. run' \in [Runs -> Local]
    BY <1>7, <2>1, <2>2, <1>tag, AdvanceType DEF Reconcile
  <2> QED BY <1>7, <2>3 DEF Reconcile
<1>8. ASSUME NEW p \in Runs, FindNothing(p) PROVE TypeOK'
  <2>1. run' \in [Runs -> Local]
    BY <1>8, <1>tag, MoveType DEF FindNothing, Places
  <2>2. excused' \subseteq Tags
    BY <1>8, <1>tag DEF FindNothing
  <2> QED BY <1>8, <2>1, <2>2 DEF FindNothing
<1>makes. ASSUME NEW p \in Runs, NEW id \in Nat, Makes(p, id) PROVE meta' \subseteq Resource
  <2>1. run[p].kind \in Kinds /\ run[p].got \in [Kinds -> Nat]
    BY <1>tag DEF Local
  <2>2. UsedBy(run[p].kind, run[p].got) \subseteq Nat
    BY <2>1 DEF UsedBy, Kinds
  <2> QED BY <1>makes, <2>1, <2>2, <1>tag DEF Makes, Resource
<1>9. ASSUME NEW p \in Runs, Create(p) PROVE TypeOK'
  <2>1. PICK id \in 1..(Cardinality(meta) + 1) :
          Makes(p, id) /\ run' = [run EXCEPT ![p] = Advance(@, run[p].kind, id)]
    BY <1>9 DEF Create
  <2>2. id \in Nat
    BY <2>1
  <2>3. run[p].kind \in Kinds
    BY <1>tag DEF Local
  <2>4. meta' \subseteq Resource
    BY <2>1, <2>2, <1>makes
  <2>5. Advance(run[p], run[p].kind, id) \in Local
    BY <2>2, <2>3, <1>tag, AdvanceType
  <2>6. run' \in [Runs -> Local]
    BY <2>1, <2>5
  <2> QED BY <1>9, <2>4, <2>6 DEF Create
<1>9a. ASSUME NEW p \in Runs, CreateLost(p) PROVE TypeOK'
  <2>1. run' \in [Runs -> Local]
    BY <1>9a, <1>tag, FailedType DEF CreateLost
  <2> QED BY <1>9a, <2>1 DEF CreateLost
<1>9b. ASSUME NEW p \in Runs, Land(p) PROVE TypeOK'
  <2>1. PICK id \in 1..(Cardinality(meta) + 1) : Makes(p, id) /\ unseen' = unseen \cup {id}
    BY <1>9b DEF Land
  <2>2. id \in Nat
    BY <2>1
  <2>3. meta' \subseteq Resource
    BY <2>1, <2>2, <1>makes
  <2> QED BY <1>9b, <2>1, <2>2, <2>3 DEF Land
<1>10. ASSUME NEW p \in Runs, CreateRefused(p) PROVE TypeOK'
  BY <1>10, <1>tag, FailedType DEF CreateRefused
<1>11. ASSUME NEW p \in Runs, CheckStatus(p) PROVE TypeOK'
  <2>1. [run[p] EXCEPT !.at = "save", !.keepIds = TRUE,
                       !.outcome = IF run[p].got["ads"] \in live
                                   THEN "requires_manual_review" ELSE "completed"] \in Local
    <3> DEFINE outcome == IF run[p].got["ads"] \in live
                          THEN "requires_manual_review" ELSE "completed"
    <3>1. "save" \in Places /\ outcome \in States \ {"validated"}
      BY DEF Places, States
    <3> HIDE DEF outcome
    <3>2. [run[p] EXCEPT !.at = "save", !.keepIds = TRUE, !.outcome = outcome] \in Local
      BY <1>tag, <3>1 DEF Local
    <3> QED BY <3>2 DEF outcome
  <2>2. run' \in [Runs -> Local]
    BY <1>11, <2>1, <1>tag, FailedType DEF CheckStatus
  <2> QED BY <1>11, <2>2 DEF CheckStatus
<1>12. ASSUME NEW p \in Runs, Save(p) PROVE TypeOK'
  <2>1. run' \in [Runs -> Local]
    BY <1>12, <1>tag, MoveType DEF Save, Places
  <2>2. ResultOf(run[p].outcome) \in Results
    BY <1>tag DEF ResultOf, Local, States, Results
  <2>3. attempt' \in [Keys -> Results]
    BY <1>12, <2>2, <1>tag DEF Save, Flush
  <2>4. row' \in [Keys -> Row]
    BY <1>12, <1>tag, SavedRowType DEF Save
  <2>5. Learned(p) \subseteq Nat
    BY <1>tag DEF Learned, Local
  <2>6. steps' \in [Keys -> SUBSET Nat]
    BY <1>12, <2>5, <1>tag DEF Save
  <2> QED BY <1>12, <2>1, <2>3, <2>4, <2>6 DEF Save
<1>13. ASSUME NEW p \in Runs, Crash(p) PROVE TypeOK'
  <2>1. run' \in [Runs -> Local]
    BY <1>13, <1>tag, MoveType DEF Crash, Places
  <2> QED BY <1>13, <2>1 DEF Crash, Abandons
<1>14. ASSUME NEW p \in Runs, TaskError(p) PROVE TypeOK'
  <2>1. run' \in [Runs -> Local]
    BY <1>14, <1>tag, MoveType DEF TaskError, Places
  <2> QED BY <1>14, <2>1 DEF TaskError, Abandons, Results
<1>15. ASSUME NEW k \in Keys, Activate(k) \/ Pause(k) PROVE TypeOK'
  <2>1. row[k].ids["ads"] \in Nat
    BY DEF Row, Kinds
  <2>2. [row[k] EXCEPT !.status = "ACTIVE"] \in Row /\ [row[k] EXCEPT !.status = "PAUSED"] \in Row
    BY DEF Row, Statuses
  <2> QED BY <1>15, <2>1, <2>2 DEF Activate, Pause
<1>16. CASE UNCHANGED vars
  BY <1>16 DEF vars
<1> QED BY <1>1, <1>2, <1>3, <1>4, <1>5, <1>6, <1>7, <1>8, <1>9, <1>9a, <1>9b, <1>10, <1>11,
           <1>12, <1>13, <1>14, <1>15, <1>16 DEF Next, Step

\* Whatever is lost, interrupted or delivered twice, the rows, the executions and the
\* resources at Meta are well-formed.
THEOREM TypeCorrect == Spec => []TypeOK
BY TypeInitially, TypeInductive, PTL DEF Spec

-----------------------------------------------------------------------------
(* What a step does to the executions.                                      *)

\* An execution at work goes on; the others and the tables stay as they are.
Continues(p) ==
  /\ run[p].at \in Working
  /\ run'[p].key = run[p].key /\ run'[p].task = run[p].task
  /\ \A q \in Runs \ {p} : run'[q] = run[q]
  /\ excused \subseteq excused'
  /\ UNCHANGED dbVars

\* An execution does not work after the step.
Stops(p) ==
  /\ run'[p].at \notin Working
  /\ \A q \in Runs \ {p} : run'[q] = run[q]
  /\ UNCHANGED <<meta, unseen, excused>>

\* An execution that was started keeps its key, and what it was about to do.
Holds(p) == run'[p].key = run[p].key /\ run'[p].kind = run[p].kind

LEMMA AdvanceKeeps ==
  ASSUME NEW r \in Local, NEW kind \in Kinds, NEW id \in Nat
  PROVE  /\ Advance(r, kind, id).key = r.key
         /\ Advance(r, kind, id).task = r.task
         /\ Advance(r, kind, id).at \in {"find", "status"}
         /\ Advance(r, kind, id).got = [r.got EXCEPT ![kind] = id]
BY DEF Advance, Local

\* The same without the ids.
LEMMA AdvanceMoves ==
  ASSUME NEW r \in Local, NEW kind \in Kinds, NEW id \in Nat
  PROVE  /\ Advance(r, kind, id).key = r.key
         /\ Advance(r, kind, id).task = r.task
         /\ Advance(r, kind, id).at \in {"find", "status"}
BY AdvanceKeeps

LEMMA FailedKeeps ==
  ASSUME NEW r \in Local, NEW recoverable \in BOOLEAN
  PROVE  LET next == Failed(r, recoverable)
         IN  /\ next.key = r.key /\ next.task = r.task /\ next.at = "save"
             /\ next.got = r.got /\ next.kind = r.kind
             /\ next.outcome \in {"failed", "requires_manual_review"}
BY DEF Failed, Local

\* Execution p becomes r, and the others stay as they are.
LEMMA Update ==
  ASSUME TypeOK, NEW p \in Runs, NEW r, run' = [run EXCEPT ![p] = r]
  PROVE  run'[p] = r /\ \A q \in Runs \ {p} : run'[q] = run[q]
BY DEF TypeOK

\* Execution p goes to one of the places, and has an outcome if it is to save it.
Goes(p, places) ==
  /\ \A q \in Runs \ {p} : run'[q] = run[q]
  /\ run'[p].at \in places
  /\ run'[p].key = run[p].key /\ run'[p].task = run[p].task
  /\ run'[p].at = "save" => run'[p].outcome # "none"

LEMMA UploadGoes ==
  ASSUME TypeOK, NEW p \in Runs, Upload(p)
  PROVE  Goes(p, {"find", "save"}) /\ run'[p].got = run[p].got
<1>1. run[p] \in Local
  BY DEF TypeOK
<1>2. PICK r : /\ run' = [run EXCEPT ![p] = r]
               /\ \/ r = [run[p] EXCEPT !.at = "find", !.kind = "campaigns"]
                  \/ \E recoverable \in BOOLEAN : r = Failed(run[p], recoverable)
  BY DEF Upload
<1>3. /\ r.key = run[p].key /\ r.task = run[p].task /\ r.got = run[p].got
      /\ r.at \in {"find", "save"} /\ (r.at = "save" => r.outcome # "none")
  <2>1. CASE r = [run[p] EXCEPT !.at = "find", !.kind = "campaigns"]
    BY <1>1, <2>1 DEF Local
  <2>2. CASE \E recoverable \in BOOLEAN : r = Failed(run[p], recoverable)
    BY <1>1, <2>2, FailedKeeps
  <2> QED BY <1>2, <2>1, <2>2
<1> QED BY <1>2, <1>3, Update DEF Goes

LEMMA ReconcileGoes ==
  ASSUME TypeOK, NEW p \in Runs, Reconcile(p)
  PROVE  /\ Goes(p, {"find", "status"})
         /\ \E id \in Nat : run'[p].got = [run[p].got EXCEPT ![run[p].kind] = id]
         /\ \E id \in Nat : run'[p] = Advance(run[p], run[p].kind, id)
<1>1. run[p] \in Local /\ run[p].kind \in Kinds
  BY DEF TypeOK, Local
<1>2. PICK o \in Matches(run[p].kind, Tag(p)) :
             run' = [run EXCEPT ![p] = Advance(run[p], run[p].kind, o.id)]
  BY DEF Reconcile
<1>3. o.id \in Nat
  BY DEF Matches, TypeOK, Resource
<1> DEFINE r == Advance(run[p], run[p].kind, o.id)
<1>4. /\ r.key = run[p].key /\ r.task = run[p].task /\ r.at \in {"find", "status"}
      /\ r.got = [run[p].got EXCEPT ![run[p].kind] = o.id]
  BY <1>1, <1>3, AdvanceKeeps
<1>5. run'[p] = r /\ \A q \in Runs \ {p} : run'[q] = run[q]
  BY <1>2, Update
<1> QED BY <1>3, <1>4, <1>5 DEF Goes

LEMMA FindNothingGoes ==
  ASSUME TypeOK, NEW p \in Runs, FindNothing(p)
  PROVE  /\ Goes(p, {"create"})
         /\ run'[p].got = run[p].got /\ run'[p].kind = run[p].kind
<1> DEFINE r == [run[p] EXCEPT !.at = "create"]
<1>1. /\ r.key = run[p].key /\ r.task = run[p].task /\ r.got = run[p].got
      /\ r.kind = run[p].kind /\ r.at = "create"
  BY DEF TypeOK, Local
<1>2. run'[p] = r /\ \A q \in Runs \ {p} : run'[q] = run[q]
  BY Update DEF FindNothing
<1> QED BY <1>1, <1>2 DEF Goes

LEMMA CreateGoes ==
  ASSUME TypeOK, NEW p \in Runs, Create(p)
  PROVE  /\ Goes(p, {"find", "status"})
         /\ \E id \in Nat : Makes(p, id) /\ run'[p] = Advance(run[p], run[p].kind, id)
<1>1. run[p] \in Local /\ run[p].kind \in Kinds
  BY DEF TypeOK, Local
<1>2. PICK id \in 1..(Cardinality(meta) + 1) :
        Makes(p, id) /\ run' = [run EXCEPT ![p] = Advance(run[p], run[p].kind, id)]
  BY DEF Create
<1>3. id \in Nat
  BY <1>2
<1>4. /\ Advance(run[p], run[p].kind, id).key = run[p].key
      /\ Advance(run[p], run[p].kind, id).task = run[p].task
      /\ Advance(run[p], run[p].kind, id).at \in {"find", "status"}
  BY <1>1, <1>3, AdvanceMoves
<1>5. /\ run'[p] = Advance(run[p], run[p].kind, id)
      /\ \A q \in Runs \ {p} : run'[q] = run[q]
  BY <1>2, Update
<1> QED BY <1>2, <1>3, <1>4, <1>5 DEF Goes

LEMMA CreateLostGoes ==
  ASSUME TypeOK, NEW p \in Runs, CreateLost(p)
  PROVE  /\ Goes(p, {"save"}) /\ Holds(p)
         /\ run'[p].got = run[p].got /\ run'[p].outcome \in {"failed", "requires_manual_review"}
         /\ run'[p] = Failed(run[p], TRUE)
<1>1. run[p] \in Local
  BY DEF TypeOK
<1>2. run' = [run EXCEPT ![p] = Failed(run[p], TRUE)]
  BY DEF CreateLost
<1>3. run'[p] = Failed(run[p], TRUE) /\ \A q \in Runs \ {p} : run'[q] = run[q]
  BY <1>2, Update
<1>4. LET next == Failed(run[p], TRUE)
      IN  /\ next.key = run[p].key /\ next.task = run[p].task /\ next.at = "save"
          /\ next.got = run[p].got /\ next.kind = run[p].kind
          /\ next.outcome \in {"failed", "requires_manual_review"}
  BY <1>1, TRUE \in BOOLEAN, FailedKeeps
<1> QED BY <1>3, <1>4 DEF Goes, Holds

LEMMA CreateRefusedGoes ==
  ASSUME TypeOK, NEW p \in Runs, CreateRefused(p)
  PROVE  Goes(p, {"save"}) /\ run'[p].got = run[p].got
<1>1. run[p] \in Local
  BY DEF TypeOK
<1>2. PICK recoverable \in BOOLEAN : run' = [run EXCEPT ![p] = Failed(run[p], recoverable)]
  BY DEF CreateRefused
<1>3. run'[p] = Failed(run[p], recoverable) /\ \A q \in Runs \ {p} : run'[q] = run[q]
  BY <1>2, Update
<1> QED BY <1>1, <1>3, FailedKeeps DEF Goes

LEMMA CheckStatusGoes ==
  ASSUME TypeOK, NEW p \in Runs, CheckStatus(p)
  PROVE  Goes(p, {"save"}) /\ run'[p].got = run[p].got
<1>1. run[p] \in Local
  BY DEF TypeOK
<1>2. PICK r : /\ run' = [run EXCEPT ![p] = r]
               /\ \/ \E outcome \in {"requires_manual_review", "completed"} :
                       r = [run[p] EXCEPT !.at = "save", !.keepIds = TRUE, !.outcome = outcome]
                  \/ r = Failed(run[p], TRUE)
  BY DEF CheckStatus
<1>3. /\ r.key = run[p].key /\ r.task = run[p].task /\ r.got = run[p].got
      /\ r.at = "save" /\ r.outcome # "none"
  <2>1. CASE \E outcome \in {"requires_manual_review", "completed"} :
               r = [run[p] EXCEPT !.at = "save", !.keepIds = TRUE, !.outcome = outcome]
    BY <1>1, <2>1 DEF Local
  <2>2. CASE r = Failed(run[p], TRUE)
    BY <1>1, <2>2, FailedKeeps
  <2> QED BY <1>2, <2>1, <2>2
<1> QED BY <1>2, <1>3, Update DEF Goes

LEMMA WorkContinues ==
  ASSUME TypeOK, NEW p \in Runs,
         Upload(p) \/ Reconcile(p) \/ FindNothing(p) \/ Create(p) \/ CreateLost(p)
           \/ CreateRefused(p) \/ CheckStatus(p)
  PROVE  Continues(p)
BY UploadGoes, ReconcileGoes, FindNothingGoes, CreateGoes, CreateLostGoes, CreateRefusedGoes,
   CheckStatusGoes
   DEF Goes, Continues, Upload, Reconcile, FindNothing, Create, CreateLost, CreateRefused,
       CheckStatus, Working, dbVars, metaVars

LEMMA WorkStops ==
  ASSUME TypeOK, NEW p \in Runs,
         \/ \E k \in Keys : Check(p, k)
         \/ Reject(p) \/ InsertConflict(p) \/ Save(p) \/ Crash(p) \/ TaskError(p)
  PROVE  Stops(p)
<1> USE DEF dbVars, metaVars, Working, Stops
<1>1. run[p] \in Local /\ DOMAIN run = Runs
  BY DEF TypeOK
<1>2. \A place : [run[p] EXCEPT !.at = place].at = place
  BY <1>1 DEF Local
<1>3. ASSUME NEW k \in Keys, Check(p, k) PROVE Stops(p)
  <2>1. \A place : [run[p] EXCEPT !.key = k, !.at = place].at = place
    BY <1>1 DEF Local
  <2> QED BY <1>3, <1>1, <2>1 DEF Check
<1>4. CASE Reject(p)
  BY <1>4, <1>1, <1>2 DEF Reject
<1>5. CASE InsertConflict(p)
  BY <1>5, <1>1, <1>2 DEF InsertConflict
<1>6. CASE Save(p)
  BY <1>6, <1>1, <1>2 DEF Save
<1>7. CASE Crash(p)
  BY <1>7, <1>1, <1>2 DEF Crash
<1>8. CASE TaskError(p)
  BY <1>8, <1>1, <1>2 DEF TaskError
<1> QED BY <1>3, <1>4, <1>5, <1>6, <1>7, <1>8

-----------------------------------------------------------------------------
(* Duplicates at Meta have a cause.                                         *)

\* Two executions with one tag at work at once are an excuse.
Overlapping ==
  \A p, q \in Runs :
    p # q /\ run[p].at \in Working /\ run[q].at \in Working /\ Tag(p) = Tag(q)
      => Tag(p) \in excused

\* Something else of the kind and under the tag that execution p works with exists at Meta,
\* or may come.
Another(p) ==
  \/ \E o \in meta : o.kind = run[p].kind /\ o.tag = Tag(p)
  \/ \E q \in underway \ {p} : run[q].kind = run[p].kind /\ Tag(q) = Tag(p)

\* An execution about to create what already exists or may come has missed it, and so has
\* one whose create may come.
Overlooked ==
  \A p \in Runs : (run[p].at = "create" \/ p \in underway) /\ Another(p) => Tag(p) \in excused

\* Who waits for no answer any more has left the publisher.
Late == \A p \in underway : run[p].at \in {"save", "done", "dead"}

DuplicateInv == TypeOK /\ Overlapping /\ Overlooked /\ Late /\ NoDuplicateWithoutCause

\* An execution that starts next to another one with its tag excuses the tag.
LEMMA StartOverlaps ==
  ASSUME TypeOK, Overlapping, NEW p \in Runs, NEW k \in Keys, Overlap(p, k),
         run'[p].key = k, \A q \in Runs \ {p} : run'[q] = run[q]
  PROVE  Overlapping'
BY DEF Overlapping, Overlap, Tag

LEMMA OverlappingInductive == DuplicateInv /\ [Next]_vars => Overlapping'
<1> SUFFICES ASSUME DuplicateInv, [Next]_vars PROVE Overlapping'
  OBVIOUS
<1> USE DEF DuplicateInv
<1>1. ASSUME NEW p \in Runs, Continues(p) PROVE Overlapping'
  BY <1>1 DEF Overlapping, Continues, Tag
<1>2. ASSUME NEW p \in Runs, Stops(p) PROVE Overlapping'
  BY <1>2 DEF Overlapping, Stops, Tag
<1>3. ASSUME NEW p \in Runs, NEW k \in Keys, Deliver(p, k) PROVE Overlapping'
  <2>1. run'[p].key = k /\ \A q \in Runs \ {p} : run'[q] = run[q]
    BY <1>3 DEF Deliver, TypeOK, Local
  <2> QED BY <1>3, <2>1, StartOverlaps DEF Deliver
<1>4. ASSUME NEW p \in Runs, Insert(p) PROVE Overlapping'
  <2>1. run'[p].key = run[p].key /\ \A q \in Runs \ {p} : run'[q] = run[q]
    BY <1>4 DEF Insert, TypeOK, Local
  <2>2. run[p].key \in Keys
    BY DEF TypeOK, Local
  <2> QED BY <1>4, <2>1, <2>2, StartOverlaps DEF Insert
<1>5. CASE UNCHANGED <<run, excused>>
  BY <1>5 DEF Overlapping, Tag
<1> QED BY <1>1, <1>2, <1>3, <1>4, <1>5, WorkContinues, WorkStops
        DEF Next, Step, Land, Activate, Pause, vars

\* What exists of a kind and tag, or may come, is what a search for the tag would hit.
LEMMA OwnMatch ==
  ASSUME TypeOK, NEW p \in Runs, Another(p)
  PROVE  Matches(run[p].kind, Tag(p)) \cup Coming(run[p].kind, Tag(p)) # {}
<1>1. Tag(p) \in Matched[Tag(p)]
  BY RealPublishAssumption DEF Tag, TypeOK, Local
<1> QED BY <1>1 DEF Another, Matches, Coming

\* A step that ends an execution keeps its key and kind.
LEMMA EndHolds ==
  ASSUME TypeOK, NEW p \in Runs, Save(p) \/ Crash(p) \/ TaskError(p)
  PROVE  Holds(p) /\ run'[p].at \in {"done", "dead"} /\ \A q \in Runs \ {p} : run'[q] = run[q]
<1>1. run[p] \in Local
  BY DEF TypeOK
<1>2. PICK place \in {"done", "dead"} : run' = [run EXCEPT ![p] = [run[p] EXCEPT !.at = place]]
  BY DEF Save, Crash, TaskError
<1>3. run'[p] = [run[p] EXCEPT !.at = place] /\ \A q \in Runs \ {p} : run'[q] = run[q]
  BY <1>2, Update
<1> QED BY <1>1, <1>3 DEF Holds, Local

\* What is underway after a step of execution p.
LEMMA UnderwayNext ==
  ASSUME [Next]_vars
  PROVE  \/ underway' = underway
         \/ \E p \in Runs : /\ CreateLost(p) \/ Crash(p) \/ TaskError(p)
                            /\ run[p].at = "create" /\ underway' = underway \cup {p}
         \/ \E p \in Runs : Land(p) /\ underway' = underway \ {p}
BY DEF Next, Step, vars, metaVars, Check, Deliver, Insert, Reject, InsertConflict, Upload,
       Reconcile, FindNothing, Create, CreateLost, CreateRefused, CheckStatus, Save, Crash,
       TaskError, Abandons, Land, Activate, Pause

\* An execution that saves, or has ended, keeps its key and kind whoever makes a step.
LEMMA EndedHolds ==
  ASSUME TypeOK, [Next]_vars, NEW p \in Runs, run[p].at \in {"save", "done", "dead"}
  PROVE  Holds(p) /\ (run'[p] = run[p] \/ run'[p].at \in {"done", "dead"})
<1>1. ASSUME NEW q \in Runs, q # p, Continues(q) \/ Stops(q) PROVE run'[p] = run[p]
  BY <1>1 DEF Continues, Stops
<1>2. ASSUME NEW q \in Runs, q # p, \/ \E k \in Keys : Deliver(q, k)
                                    \/ Insert(q)
      PROVE  run'[p] = run[p]
  BY <1>2 DEF Deliver, Insert, TypeOK
<1>3. ASSUME NEW q \in Runs, Save(q) \/ Crash(q) \/ TaskError(q)
      PROVE  Holds(p) /\ (run'[p] = run[p] \/ run'[p].at \in {"done", "dead"})
  BY <1>3, EndHolds DEF Holds
<1>4. CASE UNCHANGED run
  BY <1>4 DEF Holds
<1>5. ASSUME NEW q \in Runs,
             \/ \E k \in Keys : Check(q, k) \/ Deliver(q, k)
             \/ Insert(q) \/ Reject(q) \/ InsertConflict(q)
             \/ Upload(q) \/ Reconcile(q) \/ FindNothing(q)
             \/ Create(q) \/ CreateLost(q) \/ CreateRefused(q) \/ CheckStatus(q)
      PROVE  run'[p] = run[p]
  <2>1. q # p
    BY <1>5 DEF Check, Deliver, Insert, Reject, InsertConflict, Upload, Reconcile, FindNothing,
                Create, CreateLost, CreateRefused, CheckStatus
  <2> QED BY <1>1, <1>2, <1>5, <2>1, WorkContinues, WorkStops
<1>6. ASSUME NEW q \in Runs,
             \/ \E k \in Keys : Check(q, k) \/ Deliver(q, k)
             \/ Step(q) \/ Crash(q) \/ TaskError(q) \/ Land(q)
      PROVE  Holds(p) /\ (run'[p] = run[p] \/ run'[p].at \in {"done", "dead"})
  BY <1>3, <1>4, <1>5, <1>6 DEF Step, Land, Holds
<1> QED BY <1>4, <1>6 DEF Next, Activate, Pause, vars

LEMMA LateInductive == DuplicateInv /\ [Next]_vars => Late'
<1> SUFFICES ASSUME DuplicateInv, [Next]_vars, NEW p \in underway'
             PROVE  run'[p].at \in {"save", "done", "dead"}
  BY DEF Late
<1> USE DEF DuplicateInv
<1>1. p \in Runs
  BY TypeInductive DEF TypeOK
<1>2. CASE p \in underway
  BY <1>1, <1>2, EndedHolds DEF Late
<1>3. CASE CreateLost(p) \/ Crash(p) \/ TaskError(p)
  BY <1>1, <1>3, CreateLostGoes, EndHolds DEF Goes
<1> QED BY <1>2, <1>3, UnderwayNext

\* The steps after which no execution is about to create that was not so before, and that
\* neither make nor leave anything at Meta.
LEMMA QuietOverlooks ==
  ASSUME DuplicateInv, [Next]_vars, NEW p \in Runs, run'[p].at # "create",
         \A q \in Runs \ {p} : run'[q] = run[q],
         meta' = meta, underway' = underway, excused \subseteq excused'
  PROVE  Overlooked'
<1> SUFFICES ASSUME NEW q \in Runs, run'[q].at = "create" \/ q \in underway, Another(q)'
             PROVE  Tag(q)' \in excused'
  BY DEF Overlooked
<1>1. \A r \in underway : run'[r].key = run[r].key /\ run'[r].kind = run[r].kind
  BY EndedHolds DEF DuplicateInv, Late, Holds, TypeOK
<1>2. run'[q].key = run[q].key /\ run'[q].kind = run[q].kind
      /\ (run[q].at = "create" \/ q \in underway)
  BY <1>1
<1>3. Another(q)
  BY <1>1, <1>2 DEF Another, Tag
<1> QED BY <1>2, <1>3 DEF DuplicateInv, Overlooked, Tag

LEMMA OverlookedInductive == DuplicateInv /\ [Next]_vars => Overlooked'
<1> SUFFICES ASSUME DuplicateInv, [Next]_vars PROVE Overlooked'
  OBVIOUS
<1> USE DEF DuplicateInv
<1>late. \A q \in underway : /\ run'[q].key = run[q].key /\ run'[q].kind = run[q].kind
                             /\ q \in Runs /\ run[q].at # "create"
  BY EndedHolds DEF Late, Holds, TypeOK
<1>1. ASSUME NEW p \in Runs, FindNothing(p) PROVE Overlooked'
  <2>1. \A q \in Runs : run'[q].kind = run[q].kind /\ run'[q].key = run[q].key
    BY <1>1, FindNothingGoes DEF Goes
  <2>2. \A q \in Runs \ {p} : run'[q] = run[q]
    BY <1>1, FindNothingGoes DEF Goes
  <2>3. excused \subseteq excused' /\ meta' = meta /\ underway' = underway
    BY <1>1 DEF FindNothing
  <2>4. ASSUME Another(p) PROVE Tag(p) \in excused'
    BY <1>1, <2>4, OwnMatch DEF FindNothing
  <2>5. \A q \in Runs : Tag(q)' = Tag(q) /\ (Another(q)' => Another(q))
    BY <1>late, <2>1, <2>3 DEF Another, Tag
  <2> QED BY <2>2, <2>3, <2>4, <2>5 DEF Overlooked
<1>2. ASSUME NEW p \in Runs, Create(p) PROVE Overlooked'
  <2>1. Continues(p) /\ excused' = excused /\ underway' = underway
    BY <1>2, WorkContinues DEF Create
  <2>2. run'[p].at # "create" /\ p \notin underway
    BY <1>2, <1>late, CreateGoes DEF Goes, Create
  <2>3. \A o \in meta' : o \in meta \/ (o.kind = run[p].kind /\ o.tag = Tag(p))
    BY <1>2 DEF Create, Makes
  <2>4. ASSUME NEW q \in Runs, run'[q].at = "create" \/ q \in underway', Another(q)'
        PROVE  Tag(q)' \in excused'
    <3>1. q # p /\ run'[q] = run[q] /\ Tag(q)' = Tag(q) /\ (run[q].at = "create" \/ q \in underway)
      BY <2>1, <2>2, <2>4 DEF Continues, Tag
    <3>2. CASE Another(q)
      BY <3>1, <3>2, <2>1 DEF Overlooked
    <3>3. CASE run[q].kind = run[p].kind /\ Tag(q) = Tag(p)
      <4>1. CASE run[q].at = "create"
        BY <1>2, <3>1, <3>3, <4>1, <2>1 DEF Overlapping, Working, Create
      <4>2. CASE q \in underway
        <5>1. Another(p)
          BY <3>1, <3>3, <4>2 DEF Another
        <5> QED BY <1>2, <3>1, <3>3, <5>1, <2>1 DEF Overlooked, Create
      <4> QED BY <3>1, <4>1, <4>2
    <3>4. Another(q) \/ (run[q].kind = run[p].kind /\ Tag(q) = Tag(p))
      BY <1>late, <2>1, <2>3, <2>4, <3>1 DEF Another, Tag
    <3> QED BY <3>2, <3>3, <3>4
  <2> QED BY <2>4 DEF Overlooked
<1>3. ASSUME NEW p \in Runs, run[p].at = "create", Holds(p), underway' = underway \cup {p},
             \A q \in Runs \ {p} : run'[q] = run[q],
             meta' = meta, excused' = excused
      PROVE  Overlooked'
  <2>1. \A q \in Runs : run'[q].kind = run[q].kind /\ Tag(q)' = Tag(q)
    BY <1>3 DEF Holds, Tag
  <2>2. ASSUME NEW q \in Runs, run'[q].at = "create" \/ q \in underway', Another(q)'
        PROVE  Tag(q)' \in excused'
    <3>1. run[q].at = "create" \/ q \in underway
      BY <1>3, <2>2
    <3>2. CASE Another(q)
      BY <1>3, <2>1, <3>1, <3>2 DEF Overlooked
    <3>3. CASE q # p /\ run[q].kind = run[p].kind /\ Tag(q) = Tag(p)
      <4>1. CASE run[q].at = "create"
        BY <1>3, <2>1, <3>3, <4>1 DEF Overlapping, Working
      <4>2. CASE q \in underway
        <5>1. Another(p)
          BY <3>3, <4>2 DEF Another
        <5> QED BY <1>3, <2>1, <3>3, <5>1 DEF Overlooked
      <4> QED BY <3>1, <4>1, <4>2
    <3>4. Another(q) \/ (q # p /\ run[q].kind = run[p].kind /\ Tag(q) = Tag(p))
      BY <1>3, <1>late, <2>1, <2>2 DEF Another
    <3> QED BY <3>2, <3>3, <3>4
  <2> QED BY <2>2 DEF Overlooked
<1>4. ASSUME NEW p \in Runs, Land(p) PROVE Overlooked'
  <2>1. /\ UNCHANGED <<run, excused>> /\ underway' = underway \ {p} /\ p \in underway
        /\ \A o \in meta' : o \in meta \/ (o.kind = run[p].kind /\ o.tag = Tag(p))
    BY <1>4 DEF Land, Makes
  <2>2. \A q \in Runs : Tag(q)' = Tag(q) /\ run'[q] = run[q]
    BY <2>1 DEF Tag
  <2>3. ASSUME NEW q \in Runs, run'[q].at = "create" \/ q \in underway', Another(q)'
        PROVE  Another(q)
    <3>1. q # p
      BY <1>late, <2>1, <2>3
    <3>2. CASE \E o \in meta' : o.kind = run[q].kind /\ o.tag = Tag(q)
      BY <2>1, <3>1, <3>2 DEF Another
    <3>3. CASE \E r \in underway' \ {q} : run[r].kind = run[q].kind /\ Tag(r) = Tag(q)
      BY <2>1, <3>3 DEF Another
    <3> QED BY <1>late, <2>1, <2>2, <2>3, <3>2, <3>3 DEF Another
  <2> QED BY <2>1, <2>2, <2>3 DEF Overlooked
<1>5. ASSUME NEW p \in Runs, Upload(p) \/ Reconcile(p) \/ CreateRefused(p) \/ CheckStatus(p)
      PROVE  Overlooked'
  <2>1. Continues(p) /\ meta' = meta /\ underway' = underway
    BY <1>5, WorkContinues DEF Upload, Reconcile, CreateRefused, CheckStatus, metaVars
  <2>2. run'[p].at # "create"
    BY <1>5, UploadGoes, ReconcileGoes, CreateRefusedGoes, CheckStatusGoes DEF Goes
  <2> QED BY <2>1, <2>2, QuietOverlooks DEF Continues
<1>6. ASSUME NEW p \in Runs, Insert(p) \/ \E k \in Keys : Deliver(p, k) PROVE Overlooked'
  <2>1. run'[p].at = "upload" /\ \A q \in Runs \ {p} : run'[q] = run[q]
    <3>0. run[p] \in Local
      BY DEF TypeOK
    <3>1. CASE Insert(p)
      BY <3>0, <3>1 DEF Insert, TypeOK, Local
    <3>2. CASE \E k \in Keys : Deliver(p, k)
      BY <3>0, <3>2 DEF Deliver, TypeOK, Local
    <3> QED BY <1>6, <3>1, <3>2
  <2>2. excused \subseteq excused' /\ meta' = meta /\ underway' = underway
    BY <1>6 DEF Insert, Deliver, Overlap
  <2> QED BY <2>1, <2>2, QuietOverlooks
<1>7. ASSUME NEW p \in Runs,
             \/ \E k \in Keys : Check(p, k)
             \/ Reject(p) \/ InsertConflict(p) \/ Save(p) \/ Crash(p) \/ TaskError(p),
             underway' = underway
      PROVE  Overlooked'
  <2>1. Stops(p)
    BY <1>7, WorkStops
  <2> QED BY <1>7, <2>1, QuietOverlooks DEF Stops, Working
<1>8. ASSUME NEW p \in Runs, CreateLost(p) PROVE Overlooked'
  BY <1>3, <1>8, CreateLostGoes DEF CreateLost, Goes
<1>9. ASSUME NEW p \in Runs, Crash(p) \/ TaskError(p),
             run[p].at = "create", underway' = underway \cup {p}
      PROVE  Overlooked'
  BY <1>3, <1>9, EndHolds DEF Crash, TaskError
<1>10. CASE UNCHANGED <<run, meta, underway, excused>>
  BY <1>10 DEF Overlooked, Another, Tag
<1>11. ASSUME NEW p \in Runs, \/ \E k \in Keys : Check(p, k)
                              \/ Reject(p) \/ InsertConflict(p) \/ Save(p)
       PROVE  underway' = underway
  BY <1>11 DEF Check, Reject, InsertConflict, Save, metaVars
<1>12. ASSUME NEW p \in Runs, Crash(p) \/ TaskError(p) PROVE Overlooked'
  BY <1>7, <1>9, <1>12 DEF Crash, TaskError, Abandons
<1>13. ASSUME NEW p \in Runs,
              \/ \E k \in Keys : Check(p, k) \/ Deliver(p, k)
              \/ Step(p) \/ Crash(p) \/ TaskError(p) \/ Land(p)
       PROVE  Overlooked'
  BY <1>1, <1>2, <1>4, <1>5, <1>6, <1>7, <1>8, <1>11, <1>12, <1>13 DEF Step
<1> QED BY <1>10, <1>13 DEF Next, Activate, Pause, vars

LEMMA DuplicatesInductive == DuplicateInv /\ [Next]_vars => DuplicateInv'
<1> SUFFICES ASSUME DuplicateInv, [Next]_vars PROVE NoDuplicateWithoutCause'
  BY TypeInductive, OverlappingInductive, OverlookedInductive, LateInductive DEF DuplicateInv
<1> USE DEF DuplicateInv
<1>1. ASSUME NEW p \in Runs, NEW id, Makes(p, id), run[p].at = "create" \/ p \in underway,
             excused' = excused
      PROVE  NoDuplicateWithoutCause'
  <2>1. PICK o : /\ meta' = meta \cup {o}
                 /\ o.kind = run[p].kind /\ o.tag = Tag(p)
    <3> DEFINE o == [id |-> id, kind |-> run[p].kind, tag |-> Tag(p),
                     uses |-> UsedBy(run[p].kind, run[p].got)]
    <3>1. meta' = meta \cup {o} /\ o.kind = run[p].kind /\ o.tag = Tag(p)
      BY <1>1 DEF Makes
    <3> QED BY <3>1
  <2>2. \A a \in meta : a.kind = o.kind /\ a.tag = o.tag => a.tag \in excused
    BY <1>1, <2>1 DEF Overlooked, Another
  <2> QED BY <1>1, <2>1, <2>2 DEF NoDuplicateWithoutCause
<1>2. ASSUME NEW p \in Runs, Create(p) \/ Land(p) PROVE NoDuplicateWithoutCause'
  BY <1>1, <1>2 DEF Create, Land
<1>3. CASE meta' = meta /\ excused \subseteq excused'
  BY <1>3 DEF NoDuplicateWithoutCause
<1> QED BY <1>2, <1>3, WorkStops
        DEF Next, Step, Activate, Pause, vars, metaVars, Stops, Insert, Deliver, Overlap,
            Upload, Reconcile, FindNothing, CreateLost, CreateRefused, CheckStatus

\* For any number of requests and task deliveries over any keys, whatever is lost or
\* interrupted, however late Meta applies it: two resources of one kind under one tag imply
\* that a search missed the first, which existed or was underway, or that two executions
\* were at work at once (RealPublisher.publish).
THEOREM DuplicatesHaveACause == Spec => []NoDuplicateWithoutCause
<1>1. Init => DuplicateInv
  <2> SUFFICES ASSUME Init PROVE DuplicateInv
    OBVIOUS
  <2>1. \A p \in Runs : run[p].at = "idle"
    BY DEF Init
  <2> QED BY <2>1, TypeInitially
          DEF Init, DuplicateInv, Overlapping, Overlooked, Late, NoDuplicateWithoutCause, Working
<1>2. DuplicateInv => NoDuplicateWithoutCause
  BY DEF DuplicateInv
<1> QED BY <1>1, <1>2, DuplicatesInductive, PTL DEF Spec

-----------------------------------------------------------------------------
(* One handler per key.                                                     *)

\* A request at work has inserted its attempt, no other request with its key works,
\* and an execution about to save has an outcome, so that no save resets an attempt.
HandlerInv ==
  /\ TypeOK
  /\ \A p \in Runs : run[p].at \in Working /\ ~run[p].task => attempt[run[p].key] # "none"
  /\ \A p \in Runs : run[p].at = "save" => run[p].outcome # "none"
  /\ OneHandlerPerKey

\* An attempt that was inserted stays.
LEMMA AttemptsStay ==
  ASSUME HandlerInv, [Next]_vars, NEW k \in Keys, attempt[k] # "none"
  PROVE  attempt'[k] # "none"
<1> USE DEF HandlerInv
<1>1. ASSUME NEW p \in Runs, Save(p) PROVE attempt'[k] # "none"
  <2>1. run[p].outcome # "none"
    BY <1>1 DEF Save
  <2>2. ResultOf(run[p].outcome) # "none"
    BY <2>1 DEF ResultOf
  <2> QED BY <1>1, <2>2 DEF Save, Flush, TypeOK
<1>2. ASSUME NEW p \in Runs, Insert(p) \/ Reject(p) \/ TaskError(p) PROVE attempt'[k] # "none"
  BY <1>2 DEF Insert, Reject, TaskError, TypeOK
<1>3. CASE UNCHANGED attempt
  BY <1>3
<1> QED BY <1>1, <1>2, <1>3, WorkContinues
        DEF Next, Step, Continues, dbVars, Check, Deliver, InsertConflict, Crash,
            Land, Activate, Pause, vars

LEMMA HandlerInductive == HandlerInv /\ [Next]_vars => HandlerInv'
<1> SUFFICES ASSUME HandlerInv, [Next]_vars
             PROVE  /\ \A p \in Runs : run'[p].at \in Working /\ ~run'[p].task
                                         => attempt'[run'[p].key] # "none"
                    /\ \A p \in Runs : run'[p].at = "save" => run'[p].outcome # "none"
                    /\ OneHandlerPerKey'
  BY TypeInductive DEF HandlerInv
<1> DEFINE Goal == /\ \A p \in Runs : run'[p].at \in Working /\ ~run'[p].task
                                         => attempt'[run'[p].key] # "none"
                   /\ \A p \in Runs : run'[p].at = "save" => run'[p].outcome # "none"
                   /\ OneHandlerPerKey'
<1>key. \A p \in Runs : run[p].key \in Keys
  BY DEF HandlerInv, TypeOK, Local
<1>1. ASSUME NEW p \in Runs, Continues(p), run'[p].at = "save" => run'[p].outcome # "none"
      PROVE  Goal
  BY <1>1, <1>key, AttemptsStay DEF HandlerInv, Continues, OneHandlerPerKey
<1>2. ASSUME NEW p \in Runs, Stops(p) PROVE Goal
  BY <1>2, <1>key, AttemptsStay DEF HandlerInv, Stops, OneHandlerPerKey, Working
<1>3. ASSUME NEW p \in Runs, NEW k \in Keys, Deliver(p, k) PROVE Goal
  <2>1. run'[p].task /\ run'[p].at = "upload" /\ \A q \in Runs \ {p} : run'[q] = run[q]
    BY <1>3 DEF Deliver, HandlerInv, TypeOK, Local
  <2> QED BY <2>1, <1>key, AttemptsStay DEF HandlerInv, OneHandlerPerKey
<1>4. ASSUME NEW p \in Runs, Insert(p) PROVE Goal
  <2>1. /\ run'[p].key = run[p].key /\ run'[p].at = "upload"
        /\ \A q \in Runs \ {p} : run'[q] = run[q]
    BY <1>4 DEF Insert, HandlerInv, TypeOK, Local
  <2>2. attempt[run[p].key] = "none" /\ attempt'[run[p].key] # "none"
    BY <1>4, <1>key DEF Insert, HandlerInv, TypeOK
  <2> QED BY <2>1, <2>2, <1>key, AttemptsStay DEF HandlerInv, OneHandlerPerKey
<1>5. ASSUME UNCHANGED run PROVE Goal
  BY <1>5, <1>key, AttemptsStay DEF HandlerInv, OneHandlerPerKey
<1>6. ASSUME NEW p \in Runs,
             Upload(p) \/ Reconcile(p) \/ FindNothing(p) \/ Create(p) \/ CreateLost(p)
               \/ CreateRefused(p) \/ CheckStatus(p)
      PROVE  Goal
  <2>1. TypeOK
    BY DEF HandlerInv
  <2>2. run'[p].at = "save" => run'[p].outcome # "none"
    BY <1>6, <2>1, UploadGoes, ReconcileGoes, FindNothingGoes, CreateGoes, CreateLostGoes,
       CreateRefusedGoes, CheckStatusGoes DEF Goes
  <2>3. Continues(p)
    BY <1>6, <2>1, WorkContinues
  <2> QED BY <1>1, <2>2, <2>3
<1>7. ASSUME NEW p \in Runs,
             \/ \E k \in Keys : Check(p, k)
             \/ Reject(p) \/ InsertConflict(p) \/ Save(p) \/ Crash(p) \/ TaskError(p)
      PROVE  Goal
  <2>1. TypeOK
    BY DEF HandlerInv
  <2> QED BY <1>2, <1>7, <2>1, WorkStops
<1> HIDE DEF Goal
<1>8. Goal
  <2>1. CASE \E p \in Runs : \/ \E k \in Keys : Check(p, k) \/ Deliver(p, k)
                            \/ Step(p) \/ Crash(p) \/ TaskError(p) \/ Land(p)
    BY <1>3, <1>4, <1>5, <1>6, <1>7, <2>1 DEF Step, Land
  <2>2. CASE \E k \in Keys : Activate(k) \/ Pause(k)
    BY <1>5, <2>2 DEF Activate, Pause
  <2>3. CASE UNCHANGED vars
    BY <1>5, <2>3 DEF vars
  <2> QED BY <2>1, <2>2, <2>3 DEF Next
<1> QED BY <1>8 DEF Goal

\* For any number of requests over any keys, whatever the interleaving of lookups and
\* inserts: the unique constraint on the attempt leaves one of them to publish.
THEOREM OneHandler == Spec => []OneHandlerPerKey
<1>1. Init => HandlerInv
  <2> SUFFICES ASSUME Init PROVE HandlerInv
    OBVIOUS
  <2>1. \A p \in Runs : run[p].at = "idle"
    BY DEF Init
  <2> QED BY <2>1, TypeInitially DEF HandlerInv, OneHandlerPerKey, Working
<1>2. HandlerInv => OneHandlerPerKey
  BY DEF HandlerInv
<1> QED BY <1>1, <1>2, HandlerInductive, PTL DEF Spec

-----------------------------------------------------------------------------
(* No id that was learned is lost.                                          *)

\* The kinds whose ids an execution that works on the given kind does not have yet.
Remaining(kind) == CASE kind = "campaigns"   -> Kinds
                     [] kind = "adsets"      -> {"adsets", "adcreatives", "ads"}
                     [] kind = "adcreatives" -> {"adcreatives", "ads"}
                     [] kind = "ads"         -> {"ads"}

\* An execution has no id yet for what it is about to find or create.
Progress ==
  \A p \in Runs :
    /\ run[p].at \in {"idle", "insert", "upload"} => run[p].got = NoIds
    /\ run[p].at \in {"find", "create"} =>
         \A kind \in Remaining(run[p].kind) : run[p].got[kind] = NoId

\* Where the id of a resource is known.
Known(id) == \/ id \in unseen
             \/ \E k \in Keys : id \in steps[k]
             \/ \E p \in Runs : /\ run[p].at \in Working \cup {"dead"}
                                /\ id \in Learned(p)

MemoryInv == TypeOK /\ Progress /\ NothingForgotten

\* The kind an execution goes on with after a step that succeeded.
LEMMA AdvanceGoesOn ==
  ASSUME NEW r \in Local, NEW id \in Nat,
         \A kind \in Remaining(r.kind) : r.got[kind] = NoId,
         Advance(r, r.kind, id).at = "find"
  PROVE  \A kind \in Remaining(Advance(r, r.kind, id).kind) :
           Advance(r, r.kind, id).got[kind] = NoId
<1>1. r.kind \in Kinds /\ r.got \in [Kinds -> Nat]
  BY DEF Local
<1>2. Advance(r, r.kind, id).got = [r.got EXCEPT ![r.kind] = id]
  BY <1>1, AdvanceKeeps
<1>3. CASE r.kind = "campaigns"
  <2>1. Advance(r, r.kind, id).kind = "adsets"
    BY <1>3 DEF Advance, Local
  <2> QED BY <1>1, <1>2, <1>3, <2>1 DEF Remaining, Kinds
<1>4. CASE r.kind = "adsets"
  <2>1. Advance(r, r.kind, id).kind = "adcreatives"
    BY <1>4 DEF Advance, Local
  <2> QED BY <1>1, <1>2, <1>4, <2>1 DEF Remaining, Kinds
<1>5. CASE r.kind = "adcreatives"
  <2>1. Advance(r, r.kind, id).kind = "ads"
    BY <1>5 DEF Advance, Local
  <2> QED BY <1>1, <1>2, <1>5, <2>1 DEF Remaining, Kinds
<1>6. CASE r.kind = "ads"
  BY <1>6 DEF Advance, Local
<1> QED BY <1>1, <1>3, <1>4, <1>5, <1>6 DEF Kinds

\* The kind that an execution works on is among those that remain.
LEMMA OwnRemains == \A kind \in Kinds : kind \in Remaining(kind) /\ Remaining(kind) \subseteq Kinds
BY DEF Remaining, Kinds

LEMMA ProgressInductive == TypeOK /\ Progress /\ [Next]_vars => Progress'
<1> SUFFICES ASSUME TypeOK, Progress, [Next]_vars PROVE Progress'
  OBVIOUS
<1> DEFINE Ready(r) == /\ r.at \in {"idle", "insert", "upload"} => r.got = NoIds
                       /\ r.at \in {"find", "create"} =>
                            \A kind \in Remaining(r.kind) : r.got[kind] = NoId
<1>0. ASSUME NEW p \in Runs, \A q \in Runs \ {p} : run'[q] = run[q], Ready(run'[p])
      PROVE  Progress'
  BY <1>0 DEF Progress
<1>type. \A p \in Runs : run[p] \in Local
  BY DEF TypeOK
<1>1. ASSUME NEW p \in Runs, NEW k \in Keys, Check(p, k) PROVE Progress'
  <2>1. /\ run'[p].got = run[p].got /\ run'[p].at \in {"insert", "done"}
        /\ \A q \in Runs \ {p} : run'[q] = run[q]
    BY <1>1, <1>type DEF Check, TypeOK, Local
  <2>2. run[p].got = NoIds
    BY <1>1 DEF Check, Progress
  <2> QED BY <1>0, <2>1, <2>2
<1>2. ASSUME NEW p \in Runs, NEW k \in Keys, Deliver(p, k) PROVE Progress'
  <2>1. /\ run'[p].got = run[p].got /\ run'[p].at = "upload"
        /\ \A q \in Runs \ {p} : run'[q] = run[q]
    BY <1>2, <1>type DEF Deliver, TypeOK, Local
  <2>2. run[p].got = NoIds
    BY <1>2 DEF Deliver, Progress
  <2> QED BY <1>0, <2>1, <2>2
<1>3. ASSUME NEW p \in Runs, Insert(p) PROVE Progress'
  <2>1. /\ run'[p].got = run[p].got /\ run'[p].at = "upload"
        /\ \A q \in Runs \ {p} : run'[q] = run[q]
    BY <1>3, <1>type DEF Insert, TypeOK, Local
  <2>2. run[p].got = NoIds
    BY <1>3 DEF Insert, Progress
  <2> QED BY <1>0, <2>1, <2>2
<1>4. ASSUME NEW p \in Runs, Upload(p) PROVE Progress'
  <2>1. Goes(p, {"find", "save"}) /\ run'[p].got = run[p].got
    BY <1>4, UploadGoes
  <2>2. run[p].got = NoIds
    BY <1>4 DEF Upload, Progress
  <2>3. run'[p].kind \in Kinds
    BY <1>4, TypeInductive DEF TypeOK, Local
  <2>4. \A kind \in Remaining(run'[p].kind) : NoIds[kind] = NoId
    BY <2>3, OwnRemains DEF NoIds
  <2> QED BY <1>0, <2>1, <2>2, <2>4 DEF Goes
<1>5. ASSUME NEW p \in Runs, Reconcile(p) \/ Create(p) PROVE Progress'
  <2>1. run[p].at \in {"find", "create"}
    BY <1>5 DEF Reconcile, Create
  <2>2. \A kind \in Remaining(run[p].kind) : run[p].got[kind] = NoId
    BY <2>1 DEF Progress
  <2>3. \A q \in Runs \ {p} : run'[q] = run[q]
    BY <1>5, ReconcileGoes, CreateGoes DEF Goes
  <2>4. PICK id \in Nat : run'[p] = Advance(run[p], run[p].kind, id)
    BY <1>5, ReconcileGoes, CreateGoes
  <2>5. run'[p].at \in {"find", "status"}
    BY <1>5, ReconcileGoes, CreateGoes DEF Goes
  <2>6. run'[p].at = "find" => \A kind \in Remaining(run'[p].kind) : run'[p].got[kind] = NoId
    BY <2>4, <2>2, <1>type, AdvanceGoesOn
  <2> QED BY <1>0, <2>3, <2>5, <2>6
<1>6. ASSUME NEW p \in Runs, FindNothing(p) PROVE Progress'
  <2>1. /\ run'[p].got = run[p].got /\ run'[p].kind = run[p].kind /\ Goes(p, {"create"})
    BY <1>6, FindNothingGoes
  <2>2. \A kind \in Remaining(run[p].kind) : run[p].got[kind] = NoId
    BY <1>6 DEF FindNothing, Progress
  <2> QED BY <1>0, <2>1, <2>2 DEF Goes
<1>7. ASSUME NEW p \in Runs, CreateLost(p) \/ CreateRefused(p) \/ CheckStatus(p)
      PROVE  Progress'
  <2>1. Goes(p, {"save"})
    BY <1>7, CreateLostGoes, CreateRefusedGoes, CheckStatusGoes
  <2> QED BY <1>0, <2>1 DEF Goes
<1>8. ASSUME NEW p \in Runs, Reject(p) \/ InsertConflict(p) \/ Save(p) \/ Crash(p) \/ TaskError(p)
      PROVE  Progress'
  <2>1. PICK place \in {"done", "dead"} : run' = [run EXCEPT ![p] = [run[p] EXCEPT !.at = place]]
    BY <1>8 DEF Reject, InsertConflict, Save, Crash, TaskError
  <2>2. run'[p].at = place /\ \A q \in Runs \ {p} : run'[q] = run[q]
    BY <2>1, <1>type DEF TypeOK, Local
  <2> QED BY <1>0, <2>2
<1>9. ASSUME UNCHANGED run PROVE Progress'
  BY <1>9 DEF Progress
<1> QED
  <2>1. CASE \E p \in Runs : \/ \E k \in Keys : Check(p, k) \/ Deliver(p, k)
                            \/ Step(p) \/ Crash(p) \/ TaskError(p) \/ Land(p)
    BY <1>1, <1>2, <1>3, <1>4, <1>5, <1>6, <1>7, <1>8, <1>9, <2>1 DEF Step, Land
  <2>2. CASE \E k \in Keys : Activate(k) \/ Pause(k)
    BY <1>9, <2>2 DEF Activate, Pause
  <2>3. CASE UNCHANGED vars
    BY <1>9, <2>3 DEF vars
  <2> QED BY <2>1, <2>2, <2>3 DEF Next

\* What is known stays known, if no table and no execution forgets.
LEMMA KnownStays ==
  ASSUME NEW id, Known(id),
         unseen \subseteq unseen',
         \A k \in Keys : steps[k] \subseteq steps'[k],
         \A p \in Runs : /\ run[p].at \in Working \cup {"dead"}
                         /\ id \in Learned(p)
                         => \/ /\ run'[p].at \in Working \cup {"dead"}
                               /\ id \in Learned(p)'
                            \/ \E k \in Keys : id \in steps'[k]
  PROVE  Known(id)'
BY DEF Known

\* An execution that learns one more id keeps those it had.
LEMMA LearnedStays ==
  ASSUME TypeOK, NEW p \in Runs, NEW kind \in Kinds, NEW id \in Nat,
         run[p].got[kind] = NoId, run'[p].got = [run[p].got EXCEPT ![kind] = id]
  PROVE  /\ Learned(p) \subseteq Learned(p)'
         /\ id # NoId => id \in Learned(p)'
BY DEF Learned, TypeOK, Local

LEMMA MemoryInductive == MemoryInv /\ [Next]_vars => MemoryInv'
<1> SUFFICES ASSUME MemoryInv, [Next]_vars PROVE NothingForgotten'
  BY TypeInductive, ProgressInductive DEF MemoryInv
<1> DEFINE Goal == \A o \in meta' : Known(o.id)'
<1> HIDE DEF Goal
<1>type. /\ TypeOK /\ Progress /\ \A o \in meta : Known(o.id)
         /\ \A p \in Runs : run[p] \in Local
  BY DEF MemoryInv, NothingForgotten, Known, TypeOK
\* A step that makes nothing, and in which nobody forgets.
<1>0. ASSUME meta' = meta, unseen' = unseen, \A k \in Keys : steps[k] \subseteq steps'[k],
             \A p \in Runs : run[p].at \in Working \cup {"dead"}
               => \/ run'[p].at \in Working \cup {"dead"} /\ Learned(p) \subseteq Learned(p)'
                  \/ \E k \in Keys : Learned(p) \subseteq steps'[k]
      PROVE  Goal
  BY <1>0, <1>type, KnownStays DEF Goal
<1>1. ASSUME NEW p \in Runs, meta' = meta, unseen' = unseen, steps' = steps,
             \A q \in Runs \ {p} : run'[q] = run[q],
             \/ run[p].at \notin Working \cup {"dead"}
             \/ run'[p].at \in Working \cup {"dead"} /\ Learned(p) \subseteq Learned(p)'
      PROVE  Goal
  <2>1. \A q \in Runs \ {p} : Learned(q)' = Learned(q)
    BY <1>1 DEF Learned
  <2> QED BY <1>0, <1>1, <2>1
<1>2. ASSUME NEW p \in Runs,
             \/ \E k \in Keys : Check(p, k) \/ Deliver(p, k)
             \/ Insert(p) \/ Reject(p) \/ InsertConflict(p)
      PROVE  Goal
  <2>1. run[p].at \in {"idle", "insert"} /\ UNCHANGED <<meta, unseen, steps>>
    BY <1>2 DEF Check, Deliver, Insert, Reject, InsertConflict, dbVars, metaVars
  <2>2. \A q \in Runs \ {p} : run'[q] = run[q]
    BY <1>2, <1>type DEF Check, Deliver, Insert, Reject, InsertConflict, TypeOK
  <2> QED BY <1>1, <2>1, <2>2 DEF Working
<1>3. ASSUME NEW p \in Runs, \/ Upload(p) \/ FindNothing(p) \/ CreateLost(p)
                             \/ CreateRefused(p) \/ CheckStatus(p)
      PROVE  Goal
  <2>1. /\ run'[p].got = run[p].got
        /\ Goes(p, Working)
    BY <1>3, <1>type, UploadGoes, FindNothingGoes, CreateLostGoes, CreateRefusedGoes,
       CheckStatusGoes DEF Goes, Working
  <2>2. UNCHANGED <<meta, unseen, steps>>
    BY <1>3 DEF Upload, FindNothing, CreateLost, CreateRefused, CheckStatus, dbVars, metaVars
  <2>3. Learned(p)' = Learned(p)
    BY <2>1 DEF Learned
  <2> QED BY <1>1, <2>1, <2>2, <2>3 DEF Goes
<1>4. ASSUME NEW p \in Runs, Reconcile(p) PROVE Goal
  <2>1. Goes(p, {"find", "status"}) /\ UNCHANGED <<meta, unseen, steps>>
    BY <1>4, <1>type, ReconcileGoes DEF Reconcile, dbVars, metaVars
  <2>2. PICK id \in Nat : run'[p].got = [run[p].got EXCEPT ![run[p].kind] = id]
    BY <1>4, <1>type, ReconcileGoes
  <2>3. run[p].kind \in Kinds
    BY <1>type DEF Local
  <2>4. run[p].got[run[p].kind] = NoId
    BY <1>4, <1>type, <2>3, OwnRemains DEF Reconcile, Progress
  <2>5. Learned(p) \subseteq Learned(p)'
    BY <1>type, <2>2, <2>3, <2>4, LearnedStays
  <2> QED BY <1>1, <2>1, <2>5 DEF Goes, Working
<1>5. ASSUME NEW p \in Runs, Create(p) PROVE Goal
  <2>1. Goes(p, {"find", "status"}) /\ steps' = steps /\ unseen' = unseen
    BY <1>5, <1>type, CreateGoes DEF Create, dbVars
  <2>2. PICK id \in Nat : Makes(p, id) /\ run'[p] = Advance(run[p], run[p].kind, id)
    BY <1>5, <1>type, CreateGoes
  <2>3. run[p].kind \in Kinds
    BY <1>type DEF Local
  <2>4. run[p].got[run[p].kind] = NoId
    BY <1>5, <1>type, <2>3, OwnRemains DEF Create, Progress
  <2>5. Advance(run[p], run[p].kind, id).got = [run[p].got EXCEPT ![run[p].kind] = id]
    BY <1>type, <2>3, AdvanceKeeps
  <2>6. run'[p].got = [run[p].got EXCEPT ![run[p].kind] = id]
    BY <2>2, <2>5
  <2>7. Learned(p) \subseteq Learned(p)' /\ id \in Learned(p)'
    BY <1>type, <2>2, <2>3, <2>4, <2>6, LearnedStays DEF Makes, Fresh
  <2>8. \A q \in Runs \ {p} : Learned(q)' = Learned(q) /\ run'[q] = run[q]
    BY <2>1 DEF Learned, Goes
  <2>9. run'[p].at \in Working
    BY <2>1 DEF Goes, Working
  <2>10. \A o \in meta : Known(o.id)'
    BY <1>type, <2>1, <2>7, <2>8, <2>9, KnownStays
  <2>11. Known(id)'
    BY <2>7, <2>9 DEF Known
  <2>12. \A o \in meta' : o \in meta \/ o.id = id
    BY <2>2 DEF Makes
  <2> QED BY <2>10, <2>11, <2>12 DEF Goal
<1>5a. ASSUME NEW p \in Runs, Land(p) PROVE Goal
  <2>1. PICK id : Makes(p, id) /\ unseen' = unseen \cup {id}
    BY <1>5a DEF Land
  <2>2. UNCHANGED <<run, steps>>
    BY <1>5a DEF Land, dbVars
  <2>3. \A q \in Runs : Learned(q)' = Learned(q)
    BY <2>2 DEF Learned
  <2>4. \A o \in meta : Known(o.id)'
    BY <1>type, <2>1, <2>2, <2>3, KnownStays
  <2>5. Known(id)'
    BY <2>1 DEF Known
  <2>6. \A o \in meta' : o \in meta \/ o.id = id
    BY <2>1 DEF Makes
  <2> QED BY <2>4, <2>5, <2>6 DEF Goal
<1>6. ASSUME NEW p \in Runs, Save(p) PROVE Goal
  <2>1. run[p].key \in Keys
    BY <1>type DEF Local
  <2>2. /\ Learned(p) \subseteq steps'[run[p].key]
        /\ \A k \in Keys : steps[k] \subseteq steps'[k]
    BY <1>6, <1>type, <2>1 DEF Save, TypeOK
  <2>3. \A q \in Runs \ {p} : run'[q] = run[q]
    BY <1>6, <1>type DEF Save, TypeOK
  <2>4. \A q \in Runs \ {p} : Learned(q)' = Learned(q)
    BY <2>3 DEF Learned
  <2>5. UNCHANGED <<meta, unseen>>
    BY <1>6 DEF Save, metaVars
  <2> QED BY <1>0, <2>1, <2>2, <2>3, <2>4, <2>5
<1>7. ASSUME NEW p \in Runs, Crash(p) \/ TaskError(p) PROVE Goal
  <2>1. run' = [run EXCEPT ![p] = [run[p] EXCEPT !.at = "dead"]]
    BY <1>7 DEF Crash, TaskError
  <2>2. /\ run'[p].at = "dead" /\ run'[p].got = run[p].got
        /\ \A q \in Runs \ {p} : run'[q] = run[q]
    BY <2>1, <1>type DEF TypeOK, Local
  <2>3. Learned(p)' = Learned(p)
    BY <2>2 DEF Learned
  <2>4. UNCHANGED <<meta, unseen, steps>>
    BY <1>7 DEF Crash, TaskError, dbVars, metaVars
  <2> QED BY <1>1, <2>2, <2>3, <2>4
<1>8. ASSUME UNCHANGED <<meta, unseen, steps, run>> PROVE Goal
  BY <1>0, <1>8 DEF Learned
<1>9. Goal
  <2>1. CASE \E p \in Runs : \/ \E k \in Keys : Check(p, k) \/ Deliver(p, k)
                            \/ Step(p) \/ Crash(p) \/ TaskError(p) \/ Land(p)
    BY <1>2, <1>3, <1>4, <1>5, <1>5a, <1>6, <1>7, <2>1 DEF Step
  <2>2. CASE \E k \in Keys : Activate(k) \/ Pause(k)
    BY <1>8, <2>2 DEF Activate, Pause
  <2>3. CASE UNCHANGED vars
    BY <1>8, <2>3 DEF vars
  <2> QED BY <2>1, <2>2, <2>3 DEF Next
<1> QED BY <1>9 DEF Goal, NothingForgotten, Known

\* For any number of requests and deliveries: an id that Meta told the code is in a step
\* row, or held by an execution at work or dead (publish_real, the step records).
THEOREM NothingIsForgotten == Spec => []NothingForgotten
<1>1. Init => MemoryInv
  <2> SUFFICES ASSUME Init PROVE MemoryInv
    OBVIOUS
  <2>1. \A p \in Runs : run[p].at = "idle" /\ run[p].got = NoIds
    BY DEF Init
  <2> QED BY <2>1, TypeInitially DEF Init, MemoryInv, Progress, NothingForgotten
<1>2. MemoryInv => NothingForgotten
  BY DEF MemoryInv
<1> QED BY <1>1, <1>2, MemoryInductive, PTL DEF Spec
=============================================================================
