------------------------ MODULE RealPublishOnce_proofs ------------------------
(* Proofs about what RealPublish records and reports: the ids in the rows    *)
(* are those of the key's own resources, "published" is the truth, and, with *)
(* no task deliveries, a publication implements PublishOnce.                 *)
EXTENDS RealPublishOnce, RealPublish_proofs

-----------------------------------------------------------------------------
(* Ids come from searches and creates.                                      *)

\* Every known id is one of a resource that a search for the key's tag finds.
Has(resources, ids, k) ==
  \A kind \in Kinds : ids[kind] # NoId =>
    \E o \in resources : o.kind = kind /\ o.tag \in Matched[TagOf[k]] /\ o.id = ids[kind]

\* Meta never hands out an id twice.
UniqueIds == \A a, b \in meta : a.id = b.id => a = b

IdsInv ==
  /\ TypeOK
  /\ Progress
  /\ UniqueIds
  /\ \A p \in Runs : Has(meta, run[p].got, run[p].key)
  /\ \A k \in Keys : Has(meta, row[k].ids, k)


LEMMA HasStays ==
  ASSUME NEW A, NEW B, A \subseteq B, NEW ids, NEW k, Has(A, ids, k)
  PROVE  Has(B, ids, k)
BY DEF Has

\* One more id, of a resource that the search for the key's tag finds.
LEMMA HasMore ==
  ASSUME NEW A, NEW k, NEW ids \in [Kinds -> Nat], Has(A, ids, k), NEW o \in A,
         o.tag \in Matched[TagOf[k]]
  PROVE  Has(A, [ids EXCEPT ![o.kind] = o.id], k)
BY DEF Has

\* An execution at one of its steps at Meta makes p learn o.
Learns(p, o) ==
  /\ o.kind = run[p].kind /\ o.tag \in Matched[Tag(p)]
  /\ run'[p].key = run[p].key
  /\ run'[p].got = [run[p].got EXCEPT ![o.kind] = o.id]

\* Execution p keeps its ids, and changes its key only while it has none.
Keeps(p) == run'[p].got = run[p].got /\ (run'[p].key = run[p].key \/ run[p].got = NoIds)

LEMMA ReconcileLearns ==
  ASSUME TypeOK, NEW p \in Runs, Reconcile(p) PROVE \E o \in meta : Learns(p, o)
<1>1. PICK o \in Matches(run[p].kind, Tag(p)) :
             run' = [run EXCEPT ![p] = Advance(run[p], run[p].kind, o.id)]
  BY DEF Reconcile
<1>2. o \in meta /\ o.kind = run[p].kind /\ o.tag \in Matched[Tag(p)] /\ o.id \in Nat
  BY DEF Matches, TypeOK, Resource
<1>3. run[p] \in Local /\ run[p].kind \in Kinds
  BY DEF TypeOK, Local
<1>4. run'[p] = Advance(run[p], run[p].kind, o.id)
  BY <1>1, Update
<1>5. /\ Advance(run[p], run[p].kind, o.id).key = run[p].key
      /\ Advance(run[p], run[p].kind, o.id).got = [run[p].got EXCEPT ![run[p].kind] = o.id]
  BY <1>2, <1>3, AdvanceKeeps
<1> QED BY <1>2, <1>4, <1>5 DEF Learns

\* The resource that a create makes.
New(p, id) == [id |-> id, kind |-> run[p].kind, tag |-> Tag(p),
               uses |-> UsedBy(run[p].kind, run[p].got)]

\* The same with its fields.
LEMMA NewFields ==
  ASSUME NEW p \in Runs, NEW id
  PROVE  /\ New(p, id).id = id /\ New(p, id).kind = run[p].kind /\ New(p, id).tag = Tag(p)
         /\ New(p, id).uses = UsedBy(run[p].kind, run[p].got)
         /\ Makes(p, id) => meta' = meta \cup {New(p, id)}
BY DEF New, Makes

LEMMA CreateLearns ==
  ASSUME TypeOK, NEW p \in Runs, Create(p)
  PROVE  \E id \in Nat : /\ Makes(p, id) /\ Learns(p, New(p, id))
                         /\ run'[p] = Advance(run[p], run[p].kind, id)
<1>1. PICK id \in Nat : Makes(p, id) /\ run'[p] = Advance(run[p], run[p].kind, id)
  BY CreateGoes
<1>2. run[p] \in Local /\ run[p].kind \in Kinds /\ Tag(p) \in Matched[Tag(p)]
  BY RealPublishAssumption DEF TypeOK, Local, Tag
<1>3. /\ Advance(run[p], run[p].kind, id).key = run[p].key
      /\ Advance(run[p], run[p].kind, id).got = [run[p].got EXCEPT ![run[p].kind] = id]
  BY <1>2, AdvanceKeeps
<1>4. Learns(p, New(p, id))
  BY <1>1, <1>2, <1>3, NewFields DEF Learns
<1> QED BY <1>1, <1>4

\* The steps that move an execution and leave its ids alone.
LEMMA OthersKeep ==
  ASSUME TypeOK, Progress, NEW p \in Runs,
         \/ \E k \in Keys : Check(p, k) \/ Deliver(p, k)
         \/ Insert(p) \/ Reject(p) \/ InsertConflict(p)
         \/ Upload(p) \/ FindNothing(p) \/ CreateLost(p) \/ CreateRefused(p) \/ CheckStatus(p)
         \/ Save(p) \/ Crash(p) \/ TaskError(p)
  PROVE  Keeps(p) /\ \A q \in Runs \ {p} : run'[q] = run[q]
<1>1. run[p] \in Local
  BY DEF TypeOK
<1>2. CASE \E k \in Keys : Check(p, k) \/ Deliver(p, k)
  <2>1. run[p].got = NoIds
    BY <1>2 DEF Check, Deliver, Progress
  <2>2. ASSUME NEW k \in Keys, Check(p, k)
        PROVE  run'[p].got = run[p].got /\ \A q \in Runs \ {p} : run'[q] = run[q]
    <3>1. \A place : [run[p] EXCEPT !.key = k, !.at = place].got = run[p].got
      BY <1>1 DEF Local
    <3> QED BY <2>2, <3>1 DEF Check, TypeOK
  <2>3. ASSUME NEW k \in Keys, Deliver(p, k)
        PROVE  run'[p].got = run[p].got /\ \A q \in Runs \ {p} : run'[q] = run[q]
    BY <1>1, <2>3 DEF Deliver, TypeOK, Local
  <2> QED BY <1>2, <2>1, <2>2, <2>3 DEF Keeps
<1>3. CASE Insert(p)
  BY <1>1, <1>3 DEF Insert, TypeOK, Local, Keeps
<1>4. CASE Reject(p) \/ InsertConflict(p) \/ Save(p) \/ Crash(p) \/ TaskError(p)
  <2>1. PICK place \in {"done", "dead"} : run' = [run EXCEPT ![p] = [run[p] EXCEPT !.at = place]]
    BY <1>4 DEF Reject, InsertConflict, Save, Crash, TaskError
  <2> QED BY <1>1, <2>1 DEF TypeOK, Local, Keeps
<1>5. CASE Upload(p) \/ FindNothing(p) \/ CreateLost(p) \/ CreateRefused(p) \/ CheckStatus(p)
  BY <1>5, UploadGoes, FindNothingGoes, CreateLostGoes, CreateRefusedGoes, CheckStatusGoes
     DEF Goes, Keeps
<1> QED BY <1>2, <1>3, <1>4, <1>5

\* A row takes ids only from the execution that saves it.
LEMMA RowIds ==
  ASSUME TypeOK, [Next]_vars, NEW k \in Keys, NEW kind \in Kinds
  PROVE  \/ row'[k].ids[kind] \in {row[k].ids[kind], NoId}
         \/ \E p \in Runs : /\ Save(p) /\ run[p].key = k
                            /\ row'[k].ids[kind] = run[p].got[kind]
<1> DEFINE Goal == \/ row'[k].ids[kind] \in {row[k].ids[kind], NoId}
                   \/ \E p \in Runs : /\ Save(p) /\ run[p].key = k
                                      /\ row'[k].ids[kind] = run[p].got[kind]
<1>0. row[k] \in Row /\ DOMAIN row = Keys
  BY DEF TypeOK
<1>1. ASSUME NEW p \in Runs, Save(p) PROVE Goal
  <2>1. CASE run[p].key # k
    BY <1>0, <1>1, <2>1 DEF Save
  <2>2. CASE run[p].key = k
    <3>1. row'[k] = SavedRow(row[k], run[p])
      BY <1>0, <1>1, <2>2 DEF Save
    <3>2. SavedRow(row[k], run[p]).ids[kind] \in {row[k].ids[kind], NoId, run[p].got[kind]}
      BY DEF SavedRow, Flush, NoIds
    <3> QED BY <1>1, <2>2, <3>1, <3>2
  <2> QED BY <2>1, <2>2
<1>2. ASSUME NEW p \in Runs, Insert(p) PROVE Goal
  <2>1. row'[k] \in {row[k], [workflow |-> "validated", status |-> "PAUSED", ids |-> NoIds]}
    BY <1>0, <1>2 DEF Insert
  <2> QED BY <2>1 DEF NoIds
<1>3. ASSUME NEW l \in Keys, Activate(l) \/ Pause(l) PROVE Goal
  BY <1>0, <1>3 DEF Activate, Pause, Row
<1>4. CASE UNCHANGED row
  BY <1>4
<1> QED BY <1>1, <1>2, <1>3, <1>4, WorkContinues
        DEF Next, Step, Continues, dbVars, Check, Deliver, Reject, InsertConflict, Crash,
            TaskError, Land, vars

LEMMA IdsInductive == IdsInv /\ [Next]_vars => IdsInv'
<1> SUFFICES ASSUME IdsInv, [Next]_vars
             PROVE  /\ UniqueIds'
                    /\ \A p \in Runs : Has(meta', run'[p].got, run'[p].key)
                    /\ \A k \in Keys : Has(meta', row'[k].ids, k)
  BY TypeInductive, ProgressInductive DEF IdsInv
<1>type. TypeOK /\ Progress /\ \A p \in Runs : run[p].got \in [Kinds -> Nat]
  BY DEF IdsInv, TypeOK, Local
<1> DEFINE Goal == /\ UniqueIds' /\ meta \subseteq meta'
                   /\ \A p \in Runs : Has(meta', run'[p].got, run'[p].key)
<1>none. \A k : Has(meta', NoIds, k)
  BY DEF Has, NoIds
<1>1. ASSUME NEW p \in Runs, Keeps(p), \A q \in Runs \ {p} : run'[q] = run[q], meta' = meta
      PROVE  Goal
  <2>1. Has(meta', run'[p].got, run'[p].key)
    BY <1>1, <1>none DEF Keeps, IdsInv
  <2> QED BY <1>1, <2>1 DEF IdsInv, UniqueIds
<1>2. ASSUME NEW p \in Runs, Reconcile(p) PROVE Goal
  <2>1. PICK o \in meta : Learns(p, o)
    BY <1>2, <1>type, ReconcileLearns
  <2>2. meta' = meta /\ \A q \in Runs \ {p} : run'[q] = run[q]
    BY <1>2, <1>type, ReconcileGoes DEF Reconcile, metaVars, Goes
  <2>3. Has(meta, [run[p].got EXCEPT ![o.kind] = o.id], run[p].key)
    BY <1>type, <2>1, HasMore DEF Learns, IdsInv, Tag
  <2> QED BY <2>1, <2>2, <2>3 DEF Learns, IdsInv, UniqueIds
<1>make. ASSUME NEW p \in Runs, NEW id, Makes(p, id)
         PROVE  /\ UniqueIds' /\ meta \subseteq meta'
                /\ \A q \in Runs : Has(meta', run[q].got, run[q].key)
  <2>1. UniqueIds'
    BY <1>make, NewFields DEF UniqueIds, Makes, Fresh, IdsInv
  <2>2. \A q \in Runs : Has(meta', run[q].got, run[q].key)
    BY <1>make, NewFields, HasStays DEF IdsInv
  <2> QED BY <1>make, <2>1, <2>2, NewFields
<1>3. ASSUME NEW p \in Runs, Create(p) PROVE Goal
  <2>1. PICK id \in Nat : Makes(p, id) /\ Learns(p, New(p, id))
    BY <1>3, <1>type, CreateLearns
  <2>2. \A q \in Runs \ {p} : run'[q] = run[q]
    BY <1>3, <1>type, CreateGoes DEF Goes
  <2>3. New(p, id) \in meta' /\ New(p, id).tag \in Matched[TagOf[run[p].key]]
    BY <2>1, NewFields DEF Learns, Tag
  <2>4. Has(meta', [run[p].got EXCEPT ![New(p, id).kind] = New(p, id).id], run[p].key)
    BY <1>type, <1>make, <2>1, <2>3, HasMore
  <2>5. Has(meta', run'[p].got, run'[p].key)
    BY <2>1, <2>4 DEF Learns
  <2> QED BY <1>make, <2>1, <2>2, <2>5
<1>3a. ASSUME NEW p \in Runs, Land(p) PROVE Goal
  BY <1>3a, <1>make DEF Land
<1>4. ASSUME UNCHANGED <<meta, run>> PROVE Goal
  BY <1>4 DEF IdsInv, UniqueIds
<1>5. ASSUME NEW p \in Runs,
             \/ \E k \in Keys : Check(p, k) \/ Deliver(p, k)
             \/ Insert(p) \/ Reject(p) \/ InsertConflict(p)
             \/ Upload(p) \/ FindNothing(p) \/ CreateLost(p) \/ CreateRefused(p)
             \/ CheckStatus(p) \/ Save(p) \/ Crash(p) \/ TaskError(p)
      PROVE  Goal
  <2>1. meta' = meta
    BY <1>5 DEF Check, Deliver, Insert, Reject, InsertConflict, Upload, FindNothing, CreateLost,
                CreateRefused, CheckStatus, Save, Crash, TaskError, metaVars
  <2> QED BY <1>1, <1>5, <1>type, <2>1, OthersKeep
<1> HIDE DEF Goal
<1>6. Goal
  <2>1. CASE \E p \in Runs : \/ \E k \in Keys : Check(p, k) \/ Deliver(p, k)
                            \/ Step(p) \/ Crash(p) \/ TaskError(p) \/ Land(p)
    BY <1>2, <1>3, <1>3a, <1>5, <2>1 DEF Step
  <2>2. CASE \E k \in Keys : Activate(k) \/ Pause(k)
    BY <1>4, <2>2 DEF Activate, Pause
  <2>3. CASE UNCHANGED vars
    BY <1>4, <2>3 DEF vars
  <2> QED BY <2>1, <2>2, <2>3 DEF Next
<1>7. ASSUME NEW k \in Keys PROVE Has(meta', row'[k].ids, k)
  <2>1. Has(meta', row[k].ids, k) /\ \A p \in Runs : Has(meta', run[p].got, run[p].key)
    BY <1>6, HasStays DEF Goal, IdsInv
  <2> QED BY <1>type, <2>1, RowIds DEF Has
<1> QED BY <1>6, <1>7 DEF Goal

LEMMA IdsInitially == Init => IdsInv
<1> SUFFICES ASSUME Init PROVE IdsInv
  OBVIOUS
<1>1. /\ \A p \in Runs : run[p].at = "idle" /\ run[p].got = NoIds
      /\ \A k \in Keys : row[k].ids = NoIds
      /\ meta = {}
  BY DEF Init, NoRow
<1> QED BY <1>1, TypeInitially DEF IdsInv, Progress, UniqueIds, Has, NoIds

\* Two keys whose tags stay apart never share an ad, however requests and task deliveries
\* interleave and whatever a search overlooks (the tag in the names, the search by it).
THEOREM AdsAreDistinct == Spec => []DistinctAds
<1>1. IdsInv => DistinctAds
  <2> SUFFICES ASSUME KeysApart, IdsInv, NEW k \in Keys, NEW l \in Keys, k # l,
                      row[k].ids["ads"] = row[l].ids["ads"], row[k].ids["ads"] # NoId
               PROVE  FALSE
    BY DEF DistinctAds
  <2>1. "ads" \in Kinds
    BY DEF Kinds
  <2>2. PICK a \in meta : a.tag \in Matched[TagOf[k]] /\ a.id = row[k].ids["ads"]
    BY <2>1 DEF IdsInv, Has
  <2>3. PICK b \in meta : b.tag \in Matched[TagOf[l]] /\ b.id = row[l].ids["ads"]
    BY <2>1 DEF IdsInv, Has
  <2>4. a = b
    BY <2>2, <2>3 DEF IdsInv, UniqueIds
  <2> QED BY <2>2, <2>3, <2>4 DEF KeysApart
<1> QED BY <1>1, IdsInitially, IdsInductive, PTL DEF Spec

-----------------------------------------------------------------------------
(* Without task deliveries, one execution owns an attempt until it saves.   *)

Inserted == [workflow |-> "validated", status |-> "PAUSED", ids |-> NoIds]

\* The kinds whose ids an execution has when it is about to work on the given kind.
Before(kind) == Kinds \ Remaining(kind)

\* An execution has the ids of all steps it has left behind; the outcome "completed" has
\* all of them.
Gathered(r) ==
  /\ r.at \in {"find", "create"} => \A kind \in Before(r.kind) : r.got[kind] # NoId
  /\ r.at = "status" => \A kind \in Kinds : r.got[kind] # NoId
  /\ r.at = "save" =>
       /\ r.outcome \in {"completed", "failed", "requires_manual_review"}
       /\ r.outcome = "completed" => r.keepIds /\ \A kind \in Kinds : r.got[kind] # NoId

\* An execution at work finds its attempt and row as it inserted them.
Owner(p) ==
  /\ attempt[run[p].key] = "in_progress" /\ run[p].was = "in_progress"
  /\ row[run[p].key] = Inserted /\ run[p].loaded = Inserted
  /\ Gathered(run[p])

\* A published attempt has a completed row with all ids.
Complete(k) == attempt[k] = "published" =>
                 /\ row[k].workflow = "completed"
                 /\ \A kind \in Kinds : row[k].ids[kind] # NoId

OwnerInv ==
  /\ HandlerInv
  /\ \A o \in meta : o.id # NoId
  /\ \A p \in Runs : ~run[p].task
  /\ \A p \in Runs : run[p].at \in Working => Owner(p)
  /\ \A k \in Keys : Complete(k)


\* A step of an execution that has inserted and does not commit.
WorkStep(p) == \/ Upload(p) \/ Reconcile(p) \/ FindNothing(p)
               \/ Create(p) \/ CreateLost(p) \/ CreateRefused(p) \/ CheckStatus(p)

\* What Advance leaves alone.
LEMMA AdvanceLoaded ==
  ASSUME NEW r \in Local, NEW kind \in Kinds, NEW id \in Nat
  PROVE  Advance(r, kind, id).loaded = r.loaded /\ Advance(r, kind, id).was = r.was
BY DEF Advance, Local

LEMMA WorkKeeps ==
  ASSUME TypeOK, NEW p \in Runs, WorkStep(p)
  PROVE  run'[p].loaded = run[p].loaded /\ run'[p].was = run[p].was
<1>1. run[p] \in Local /\ run[p].kind \in Kinds
  BY DEF TypeOK, Local
<1>2. \A id \in Nat : /\ Advance(run[p], run[p].kind, id).loaded = run[p].loaded
                      /\ Advance(run[p], run[p].kind, id).was = run[p].was
  BY <1>1, AdvanceLoaded
<1>3. \A b : Failed(run[p], b).loaded = run[p].loaded /\ Failed(run[p], b).was = run[p].was
  BY <1>1 DEF Failed, Local
<1>4. CASE Upload(p)
  <2>1. PICK r : /\ run' = [run EXCEPT ![p] = r]
                 /\ \/ r = [run[p] EXCEPT !.at = "find", !.kind = "campaigns"]
                    \/ \E b \in BOOLEAN : r = Failed(run[p], b)
    BY <1>4 DEF Upload
  <2>2. run'[p] = r
    BY <2>1, Update
  <2> QED BY <1>1, <1>3, <2>1, <2>2 DEF Local
<1>5. CASE Reconcile(p)
  BY <1>2, <1>5, ReconcileGoes
<1>6. CASE FindNothing(p)
  <2>1. run'[p] = [run[p] EXCEPT !.at = "create"]
    BY <1>6, Update DEF FindNothing
  <2> QED BY <1>1, <2>1 DEF Local
<1>7. CASE Create(p)
  BY <1>2, <1>7, CreateGoes
<1>7a. CASE CreateLost(p)
  BY <1>3, <1>7a, CreateLostGoes
<1>8. CASE CreateRefused(p)
  <2>1. PICK b \in BOOLEAN : run' = [run EXCEPT ![p] = Failed(run[p], b)]
    BY <1>8 DEF CreateRefused
  <2> QED BY <1>3, <2>1, Update
<1>9. CASE CheckStatus(p)
  <2>1. PICK r : /\ run' = [run EXCEPT ![p] = r]
                 /\ \/ \E outcome : r = [run[p] EXCEPT !.at = "save", !.keepIds = TRUE,
                                                       !.outcome = outcome]
                    \/ r = Failed(run[p], TRUE)
    BY <1>9 DEF CheckStatus
  <2>2. run'[p] = r
    BY <2>1, Update
  <2> QED BY <1>1, <1>3, <2>1, <2>2 DEF Local
<1> QED BY <1>4, <1>5, <1>6, <1>7, <1>7a, <1>8, <1>9 DEF WorkStep

\* The steps behind an execution that goes on.
LEMMA AdvanceReaches ==
  ASSUME NEW r \in Local, NEW id \in Nat, id # NoId,
         \A kind \in Before(r.kind) : r.got[kind] # NoId
  PROVE  LET next == Advance(r, r.kind, id)
         IN  /\ next.at = "find" => \A kind \in Before(next.kind) : next.got[kind] # NoId
             /\ next.at = "status" => \A kind \in Kinds : next.got[kind] # NoId
<1>1. r.kind \in Kinds /\ r.got \in [Kinds -> Nat]
  BY DEF Local
<1>2. Advance(r, r.kind, id).got = [r.got EXCEPT ![r.kind] = id]
  BY <1>1, AdvanceKeeps
<1>3. CASE r.kind = "campaigns"
  <2>1. Advance(r, r.kind, id).kind = "adsets" /\ Advance(r, r.kind, id).at = "find"
    BY <1>3 DEF Advance, Local
  <2> QED BY <1>1, <1>2, <1>3, <2>1 DEF Before, Remaining, Kinds
<1>4. CASE r.kind = "adsets"
  <2>1. Advance(r, r.kind, id).kind = "adcreatives" /\ Advance(r, r.kind, id).at = "find"
    BY <1>4 DEF Advance, Local
  <2> QED BY <1>1, <1>2, <1>4, <2>1 DEF Before, Remaining, Kinds
<1>5. CASE r.kind = "adcreatives"
  <2>1. Advance(r, r.kind, id).kind = "ads" /\ Advance(r, r.kind, id).at = "find"
    BY <1>5 DEF Advance, Local
  <2> QED BY <1>1, <1>2, <1>5, <2>1 DEF Before, Remaining, Kinds
<1>6. CASE r.kind = "ads"
  <2>1. Advance(r, r.kind, id).at = "status"
    BY <1>6 DEF Advance, Local
  <2> QED BY <1>1, <1>2, <1>6, <2>1 DEF Before, Remaining, Kinds
<1> QED BY <1>1, <1>3, <1>4, <1>5, <1>6 DEF Kinds

LEMMA FailedGathers ==
  ASSUME NEW r \in Local, NEW recoverable \in BOOLEAN PROVE Gathered(Failed(r, recoverable))
<1>1. /\ Failed(r, recoverable).at = "save"
      /\ Failed(r, recoverable).outcome \in {"failed", "requires_manual_review"}
  BY FailedKeeps
<1> QED BY <1>1 DEF Gathered

LEMMA AdvanceGathers ==
  ASSUME NEW r \in Local, NEW id \in Nat, id # NoId, Gathered(r), r.at \in {"find", "create"}
  PROVE  Gathered(Advance(r, r.kind, id))
<1>1. r.kind \in Kinds
  BY DEF Local
<1>2. Advance(r, r.kind, id).at \in {"find", "status"}
  BY <1>1, AdvanceMoves
<1>3. \A kind \in Before(r.kind) : r.got[kind] # NoId
  BY DEF Gathered
<1> QED BY <1>2, <1>3, AdvanceReaches DEF Gathered

LEMMA WorkGathers ==
  ASSUME TypeOK, \A o \in meta : o.id # NoId, NEW p \in Runs, Gathered(run[p]), WorkStep(p)
  PROVE  Gathered(run'[p])
<1>1. run[p] \in Local /\ run[p].kind \in Kinds
  BY DEF TypeOK, Local
<1>2. ASSUME NEW b \in BOOLEAN, run' = [run EXCEPT ![p] = Failed(run[p], b)]
      PROVE  Gathered(run'[p])
  BY <1>1, <1>2, Update, FailedGathers
<1>3. CASE Upload(p)
  <2>1. CASE run' = [run EXCEPT ![p] = [run[p] EXCEPT !.at = "find", !.kind = "campaigns"]]
    <3>1. run'[p].at = "find" /\ run'[p].kind = "campaigns"
      <4>1. run'[p] = [run[p] EXCEPT !.at = "find", !.kind = "campaigns"]
        BY <2>1, Update
      <4> QED BY <1>1, <4>1 DEF Local
    <3> QED BY <3>1 DEF Gathered, Before, Remaining
  <2> QED BY <1>2, <1>3, <2>1 DEF Upload
<1>4. CASE Reconcile(p)
  <2>1. PICK o \in Matches(run[p].kind, Tag(p)) :
               run' = [run EXCEPT ![p] = Advance(run[p], run[p].kind, o.id)]
    BY <1>4 DEF Reconcile
  <2>2. o.id \in Nat /\ o.id # NoId
    BY DEF Matches, TypeOK, Resource
  <2>3. Gathered(Advance(run[p], run[p].kind, o.id))
    BY <1>1, <1>4, <2>2, AdvanceGathers DEF Reconcile
  <2> QED BY <2>1, <2>3, Update
<1>5. CASE FindNothing(p)
  <2>1. /\ run'[p].at = "create" /\ run'[p].kind = run[p].kind /\ run'[p].got = run[p].got
        /\ run[p].at = "find"
    BY <1>5, FindNothingGoes DEF Goes, FindNothing
  <2> QED BY <2>1 DEF Gathered
<1>6. CASE Create(p)
  <2>1. PICK id \in Nat : Makes(p, id) /\ run'[p] = Advance(run[p], run[p].kind, id)
    BY <1>6, CreateGoes
  <2>2. Gathered(Advance(run[p], run[p].kind, id))
    BY <1>1, <1>6, <2>1, AdvanceGathers DEF Create, Makes, Fresh
  <2> QED BY <2>1, <2>2
<1>7. CASE CreateLost(p) \/ CreateRefused(p)
  BY <1>2, <1>7 DEF CreateLost, CreateRefused
<1>8. CASE CheckStatus(p)
  <2>1. ASSUME NEW outcome \in {"requires_manual_review", "completed"},
               run' = [run EXCEPT ![p] = [run[p] EXCEPT !.at = "save", !.keepIds = TRUE,
                                                        !.outcome = outcome]]
        PROVE  Gathered(run'[p])
    <3>1. /\ run'[p].at = "save" /\ run'[p].keepIds /\ run'[p].outcome = outcome
          /\ run'[p].got = run[p].got
      <4>1. run'[p] = [run[p] EXCEPT !.at = "save", !.keepIds = TRUE, !.outcome = outcome]
        BY <2>1, Update
      <4> QED BY <1>1, <4>1 DEF Local
    <3>2. \A kind \in Kinds : run[p].got[kind] # NoId
      BY <1>8 DEF CheckStatus, Gathered
    <3> QED BY <3>1, <3>2 DEF Gathered
  <2>2. \/ run' = [run EXCEPT ![p] = Failed(run[p], TRUE)]
        \/ \E outcome \in {"requires_manual_review", "completed"} :
             run' = [run EXCEPT ![p] = [run[p] EXCEPT !.at = "save", !.keepIds = TRUE,
                                                      !.outcome = outcome]]
    BY <1>8 DEF CheckStatus
  <2> QED BY <1>2, <2>1, <2>2
<1> QED BY <1>3, <1>4, <1>5, <1>6, <1>7, <1>8 DEF WorkStep

LEMMA SavedComplete ==
  ASSUME NEW r \in Local, r.loaded = Inserted, r.outcome = "completed", r.keepIds
  PROVE  /\ SavedRow(Inserted, r).workflow = "completed"
         /\ SavedRow(Inserted, r).ids = r.got
<1>1. r.got \in [Kinds -> Nat]
  BY DEF Local
<1>2. \A kind \in Kinds : Flush(NoId, NoId, r.got[kind]) = r.got[kind]
  BY DEF Flush
<1>3. [kind \in Kinds |-> Flush(Inserted.ids[kind], r.loaded.ids[kind], r.got[kind])] = r.got
  BY <1>1, <1>2 DEF Inserted, NoIds
<1>4. Flush(Inserted.workflow, r.loaded.workflow, r.outcome) = "completed"
  BY DEF Flush, Inserted
<1> QED BY <1>3, <1>4 DEF SavedRow

\* What a save leaves in its attempt and row.
LEMMA SaveSettles ==
  ASSUME OwnerInv, NEW p \in Runs, Save(p), NEW k \in Keys, k = run[p].key
  PROVE  /\ attempt[k] = "in_progress" /\ attempt'[k] = ResultOf(run[p].outcome)
         /\ run[p].outcome \in {"completed", "failed", "requires_manual_review"}
         /\ run[p].outcome = "completed" =>
              /\ row'[k].workflow = "completed" /\ row'[k].ids = run[p].got
              /\ \A kind \in Kinds : run[p].got[kind] # NoId
         /\ \A l \in Keys \ {k} : attempt'[l] = attempt[l] /\ row'[l] = row[l]
<1>0. TypeOK /\ run[p] \in Local
  BY DEF OwnerInv, HandlerInv, TypeOK
<1>1. run[p].at \in Working /\ Owner(p) /\ run[p].at = "save"
  BY DEF OwnerInv, Save, Working
<1>2. /\ \A l \in Keys \ {k} : attempt'[l] = attempt[l] /\ row'[l] = row[l]
      /\ row'[k] = SavedRow(Inserted, run[p])
      /\ attempt'[k] = Flush(attempt[k], run[p].was, ResultOf(run[p].outcome))
  BY <1>0, <1>1 DEF Save, Owner, TypeOK
<1>3. run[p].outcome \in {"completed", "failed", "requires_manual_review"}
  BY <1>1 DEF Owner, Gathered
<1>4. attempt[k] = "in_progress" /\ attempt'[k] = ResultOf(run[p].outcome)
  BY <1>1, <1>2 DEF Flush, Owner
<1>5. ASSUME run[p].outcome = "completed"
      PROVE  /\ row'[k].workflow = "completed" /\ row'[k].ids = run[p].got
             /\ \A kind \in Kinds : run[p].got[kind] # NoId
  <2>1. run[p].keepIds /\ \A kind \in Kinds : run[p].got[kind] # NoId
    BY <1>1, <1>5 DEF Owner, Gathered
  <2>2. /\ SavedRow(Inserted, run[p]).workflow = "completed"
        /\ SavedRow(Inserted, run[p]).ids = run[p].got
    BY <1>0, <1>1, <1>5, <2>1, SavedComplete DEF Owner
  <2> QED BY <1>2, <2>1, <2>2
<1> QED BY <1>2, <1>3, <1>4, <1>5

LEMMA OwnerInductive == ~TasksDelivered /\ OwnerInv /\ [Next]_vars => OwnerInv'
<1> SUFFICES ASSUME ~TasksDelivered, OwnerInv, [Next]_vars
             PROVE  /\ \A o \in meta' : o.id # NoId
                    /\ \A p \in Runs : ~run'[p].task
                    /\ \A p \in Runs : run'[p].at \in Working => Owner(p)'
                    /\ \A k \in Keys : Complete(k)'
  BY HandlerInductive DEF OwnerInv
<1> DEFINE Goal == /\ \A o \in meta' : o.id # NoId
                   /\ \A p \in Runs : ~run'[p].task
                   /\ \A p \in Runs : run'[p].at \in Working => Owner(p)'
                   /\ \A k \in Keys : Complete(k)'
<1>inv. /\ TypeOK /\ \A o \in meta : o.id # NoId
        /\ \A p \in Runs : run[p] \in Local /\ run[p].key \in Keys /\ ~run[p].task
        /\ \A p \in Runs : run[p].at \in Working => Owner(p)
        /\ \A k \in Keys : Complete(k)
  BY DEF OwnerInv, HandlerInv, TypeOK, Local
<1>apart. \A p, q \in Runs : p # q /\ run[p].at \in Working /\ run[q].at \in Working
                               => run[p].key # run[q].key
  BY <1>inv DEF OwnerInv, HandlerInv, OneHandlerPerKey
\* A step of p that changes at most the attempt and row of p's key.
<1>0. ASSUME NEW p \in Runs, \A q \in Runs \ {p} : run'[q] = run[q],
             \A o \in meta' : o.id # NoId, ~run'[p].task,
             run'[p].at \in Working => Owner(p)',
             \/ attempt' = attempt /\ row' = row
             \/ /\ \A k \in Keys \ {run[p].key} : attempt'[k] = attempt[k] /\ row'[k] = row[k]
                /\ \A q \in Runs \ {p} : run[q].at \in Working => run[q].key # run[p].key
                /\ \A k \in Keys : k = run[p].key => Complete(k)'
      PROVE  Goal
  <2>1. ASSUME NEW q \in Runs \ {p}, run'[q].at \in Working PROVE Owner(q)'
    BY <1>0, <1>inv, <2>1 DEF Owner
  <2>2. ASSUME NEW k \in Keys PROVE Complete(k)'
    BY <1>0, <1>inv, <2>2 DEF Complete
  <2> QED BY <1>0, <1>inv, <2>1, <2>2
<1>make. ASSUME NEW p \in Runs, NEW id, Makes(p, id) PROVE \A o \in meta' : o.id # NoId
  BY <1>make, <1>inv, NewFields DEF Makes, Fresh
<1>1. ASSUME NEW p \in Runs, WorkStep(p) PROVE Goal
  <2>1. Continues(p)
    BY <1>1, <1>inv, WorkContinues DEF WorkStep
  <2>2. Owner(p)'
    <3>1. Owner(p)
      BY <2>1, <1>inv DEF Continues
    <3>2. Gathered(run'[p]) /\ run'[p].loaded = run[p].loaded /\ run'[p].was = run[p].was
      BY <1>1, <1>inv, <3>1, WorkKeeps, WorkGathers DEF Owner
    <3> QED BY <2>1, <3>1, <3>2 DEF Owner, Continues, dbVars
  <2>3. \A o \in meta' : o.id # NoId
    <3>1. CASE Create(p)
      BY <1>inv, <1>make, <3>1, CreateLearns
    <3>2. CASE meta' = meta
      BY <1>inv, <3>2
    <3> QED BY <1>1, <3>1, <3>2
            DEF WorkStep, Upload, Reconcile, FindNothing, CreateLost, CreateRefused, CheckStatus,
                metaVars
  <2> QED BY <1>0, <1>inv, <2>1, <2>2, <2>3 DEF Continues, dbVars
<1>2. ASSUME NEW p \in Runs, NEW k \in Keys, Check(p, k) PROVE Goal
  <2>1. \A place : [run[p] EXCEPT !.key = k, !.at = place].task = run[p].task
    BY <1>inv DEF Local
  <2>2. ~run'[p].task
    BY <1>2, <1>inv, <2>1 DEF Check, TypeOK
  <2>3. Stops(p)
    BY <1>2, <1>inv, WorkStops
  <2>4. UNCHANGED <<attempt, row>>
    BY <1>2 DEF Check, dbVars
  <2> QED BY <1>0, <1>inv, <2>2, <2>3, <2>4 DEF Stops
<1>3. ASSUME NEW p \in Runs, Reject(p) \/ InsertConflict(p) \/ Save(p) \/ Crash(p) PROVE Goal
  <2>1. ~run'[p].task
    <3>1. PICK place : run' = [run EXCEPT ![p] = [run[p] EXCEPT !.at = place]]
      BY <1>3 DEF Reject, InsertConflict, Save, Crash
    <3> QED BY <1>inv, <3>1 DEF TypeOK, Local
  <2>2. Stops(p)
    BY <1>3, <1>inv, WorkStops
  <2>3. CASE UNCHANGED <<attempt, row>>
    BY <1>0, <1>inv, <2>1, <2>2, <2>3 DEF Stops
  <2>4. CASE Reject(p)
    <3>1. attempt[run[p].key] = "none" /\ attempt'[run[p].key] = "rejected" /\ row' = row
      BY <1>inv, <2>4 DEF Reject, TypeOK
    <3>2. \A k \in Keys \ {run[p].key} : attempt'[k] = attempt[k]
      BY <1>inv, <2>4 DEF Reject, TypeOK
    <3>3. \A q \in Runs : run[q].at \in Working => run[q].key # run[p].key
      BY <1>inv, <3>1 DEF Owner
    <3> QED BY <1>0, <1>inv, <2>1, <2>2, <3>1, <3>2, <3>3 DEF Stops, Complete
  <2>5. CASE Save(p)
    <3> PICK k \in Keys : k = run[p].key
      BY <1>inv
    <3>1. /\ attempt'[k] = ResultOf(run[p].outcome)
          /\ run[p].outcome \in {"completed", "failed", "requires_manual_review"}
          /\ run[p].outcome = "completed" =>
               /\ row'[k].workflow = "completed" /\ row'[k].ids = run[p].got
               /\ \A kind \in Kinds : run[p].got[kind] # NoId
          /\ \A l \in Keys \ {k} : attempt'[l] = attempt[l] /\ row'[l] = row[l]
      BY <2>5, SaveSettles
    <3>2. Complete(k)'
      BY <3>1 DEF Complete, ResultOf
    <3>3. \A q \in Runs \ {p} : run[q].at \in Working => run[q].key # k
      BY <1>apart, <2>5 DEF Save, Working
    <3> QED BY <1>0, <1>inv, <2>1, <2>2, <3>1, <3>2, <3>3 DEF Stops
  <2> QED BY <1>3, <2>3, <2>4, <2>5 DEF InsertConflict, Crash, dbVars
<1>4. ASSUME NEW p \in Runs, Insert(p) PROVE Goal
  <2> PICK k \in Keys : k = run[p].key
    BY <1>inv
  <2>1. /\ attempt[k] = "none" /\ attempt'[k] = "in_progress" /\ row'[k] = Inserted
        /\ \A l \in Keys \ {k} : attempt'[l] = attempt[l] /\ row'[l] = row[l]
    BY <1>4, <1>inv DEF Insert, Inserted, TypeOK
  <2>2. run' = [run EXCEPT ![p] =
                  [run[p] EXCEPT !.at = "upload", !.loaded = Inserted, !.was = "in_progress"]]
    BY <1>4 DEF Insert, Inserted
  <2>3. /\ run'[p].at = "upload" /\ run'[p].loaded = Inserted /\ run'[p].was = "in_progress"
        /\ run'[p].key = run[p].key /\ run'[p].task = run[p].task
        /\ \A q \in Runs \ {p} : run'[q] = run[q]
    BY <1>inv, <2>2 DEF TypeOK, Local
  <2>4. Owner(p)'
    BY <2>1, <2>3 DEF Owner, Gathered
  <2>5. \A q \in Runs : run[q].at \in Working => run[q].key # k
    BY <1>inv, <2>1 DEF Owner
  <2>6. Complete(k)' /\ meta' = meta
    BY <1>4, <2>1 DEF Complete, Insert
  <2> QED BY <1>0, <1>inv, <2>1, <2>3, <2>4, <2>5, <2>6
<1>5. ASSUME NEW p \in Runs, TaskError(p) \/ \E k \in Keys : Deliver(p, k) PROVE Goal
  BY <1>5, <1>inv DEF TaskError, Deliver
<1>6. ASSUME NEW k \in Keys, Activate(k) \/ Pause(k) PROVE Goal
  <2>1. /\ UNCHANGED <<run, meta, attempt>>
        /\ \A l \in Keys \ {k} : row'[l] = row[l]
        /\ row'[k].workflow = row[k].workflow /\ row'[k].ids = row[k].ids
    BY <1>6, <1>inv DEF Activate, Pause, TypeOK, Row
  <2>2. row[k] # Inserted
    BY <1>6 DEF Activate, Pause, Inserted, NoIds, Kinds
  <2>3. ASSUME NEW q \in Runs, run[q].at \in Working PROVE Owner(q)'
    <3>1. Owner(q) /\ run[q].key # k
      BY <1>inv, <2>2, <2>3 DEF Owner
    <3> QED BY <1>inv, <2>1, <3>1 DEF Owner
  <2>4. ASSUME NEW l \in Keys PROVE Complete(l)'
    BY <1>inv, <2>1 DEF Complete
  <2> QED BY <1>inv, <2>1, <2>3, <2>4
<1>7. ASSUME UNCHANGED vars PROVE Goal
  BY <1>7, <1>inv DEF vars, Owner, Complete
<1>7a. ASSUME NEW p \in Runs, Land(p) PROVE Goal
  <2>1. UNCHANGED <<attempt, row, run>> /\ \E id : Makes(p, id)
    BY <1>7a DEF Land, dbVars
  <2> QED BY <1>inv, <1>make, <2>1 DEF Owner, Complete
<1> HIDE DEF Goal
<1>8. Goal
  <2>1. CASE \E p \in Runs : \/ \E k \in Keys : Check(p, k) \/ Deliver(p, k)
                            \/ Step(p) \/ Crash(p) \/ TaskError(p) \/ Land(p)
    BY <1>1, <1>2, <1>3, <1>4, <1>5, <1>7a, <2>1 DEF Step, WorkStep
  <2> QED BY <1>6, <1>7, <2>1 DEF Next
<1> QED BY <1>8 DEF Goal

LEMMA OwnerInitially == Init => OwnerInv
<1> SUFFICES ASSUME Init PROVE OwnerInv
  OBVIOUS
<1>1. /\ \A p \in Runs : run[p].at = "idle" /\ ~run[p].task
      /\ \A k \in Keys : attempt[k] = "none"
      /\ meta = {}
  BY DEF Init
<1> QED BY <1>1, TypeInitially DEF OwnerInv, HandlerInv, OneHandlerPerKey, Complete, Working

\* Without task deliveries, however requests with one key or with many interleave, are
\* refused, lose replies and die: what an attempt reports as published was completed, and
\* each of its ids is that of a resource at Meta (publish_real and the publisher).
THEOREM PublishedIsTrue == Spec => []PublishedIsReal
<1>1. CASE TasksDelivered
  <2>1. PublishedIsReal
    BY <1>1 DEF PublishedIsReal
  <2> QED BY <2>1, PTL
<1>2. CASE ~TasksDelivered
  <2>1. IdsInv /\ OwnerInv => PublishedIsReal
    BY DEF IdsInv, OwnerInv, Complete, Has, Exists, Matches, PublishedIsReal
  <2>2. OwnerInv /\ [Next]_vars => OwnerInv'
    BY <1>2, OwnerInductive
  <2> QED BY <2>1, <2>2, IdsInitially, IdsInductive, OwnerInitially, PTL DEF Spec
<1> QED BY <1>1, <1>2

-----------------------------------------------------------------------------
(* With tags that stay apart, what carries a key's tag was made for the key. *)

\* Nothing of a kind exists under a tag.
Unmade(resources, kind, tag) == \A o \in resources : ~(o.kind = kind /\ o.tag = tag)

\* An execution has not made yet what it is about to find or create.
Clear(resources, r) ==
  /\ r.at = "upload" => \A kind \in Kinds : Unmade(resources, kind, TagOf[r.key])
  /\ r.at \in {"find", "create"} =>
       \A kind \in Remaining(r.kind) : Unmade(resources, kind, TagOf[r.key])

\* Each of the resources refers to the ones recorded with it.
Chained(resources, ids) ==
  \A o \in resources : \A kind \in Kinds :
    ids[kind] # NoId /\ o.id = ids[kind] => o.uses = UsedBy(kind, ids)

\* A create underway is the first of its kind for its key, nobody works for the key any
\* more but to save the failure, and no other create for it is underway.
Alone(p) ==
  /\ run[p].at \in {"save", "done", "dead"}
  /\ run[p].at = "save" => run[p].outcome = "failed"
  /\ attempt[run[p].key] \in {"in_progress", "failed"}
  /\ Unmade(meta, run[p].kind, TagOf[run[p].key])
  /\ \A q \in Runs \ {p} : run[q].key = run[p].key => run[q].at \notin Working /\ q \notin underway

OnceInv ==
  /\ IdsInv
  /\ OwnerInv
  /\ \A p \in underway : Alone(p)
  /\ \A o \in meta : \E k \in Keys : o.tag = TagOf[k]
  /\ \A k \in Keys : attempt[k] = "none" => \A kind \in Kinds : Unmade(meta, kind, TagOf[k])
  /\ \A p \in Runs : Clear(meta, run[p])
  /\ \A p \in Runs : Chained(meta, run[p].got)
  /\ \A k \in Keys : attempt[k] = "published" => Chained(meta, row[k].ids)

\* A search for a key's tag finds no other key's resources.
LEMMA TagsApart ==
  ASSUME KeysApart, NEW k \in Keys, NEW l \in Keys, TagOf[l] \in Matched[TagOf[k]]
  PROVE  k = l
BY RealPublishAssumption DEF KeysApart

LEMMA TagsDiffer ==
  ASSUME KeysApart, NEW k \in Keys, NEW l \in Keys, TagOf[l] = TagOf[k] PROVE k = l
BY TagsApart, RealPublishAssumption

\* What a kind refers to does not depend on the ids learned after it.
LEMMA UsedByKeeps ==
  ASSUME NEW ids, NEW more, NEW kind \in Kinds, \A k \in Kinds \ {kind} : more[k] = ids[k],
         NEW other \in Kinds, other \notin Remaining(kind) \ {kind}
  PROVE  UsedBy(other, more) = UsedBy(other, ids)
BY DEF UsedBy, Remaining, Kinds

\* A new resource does not disturb a chain.
LEMMA ChainedStays ==
  ASSUME NEW A, NEW ids, NEW k, Chained(A, ids), Has(A, ids, k),
         NEW o, \A a \in A : a.id # o.id
  PROVE  Chained(A \cup {o}, ids)
BY DEF Chained, Has

LEMMA ChainedMore ==
  ASSUME NEW A, NEW ids \in [Kinds -> Nat], NEW k, Chained(A, ids), Has(A, ids, k),
         NEW o, o.kind \in Kinds, \A a \in A : a.id # o.id,
         o.uses = UsedBy(o.kind, ids), \A kind \in Remaining(o.kind) : ids[kind] = NoId
  PROVE  Chained(A \cup {o}, [ids EXCEPT ![o.kind] = o.id])
<1> DEFINE more == [ids EXCEPT ![o.kind] = o.id]
<1>0. \A j \in Kinds \ {o.kind} : more[j] = ids[j]
  OBVIOUS
<1>1. SUFFICES ASSUME NEW a \in A \cup {o}, NEW kind \in Kinds,
                      more[kind] # NoId, a.id = more[kind]
               PROVE  a.uses = UsedBy(kind, more)
  BY DEF Chained
<1>2. CASE kind = o.kind
  <2>1. more[kind] = o.id
    BY <1>2
  <2>2. a = o
    BY <1>1, <2>1
  <2> HIDE DEF more
  <2>3. UsedBy(o.kind, more) = UsedBy(o.kind, ids)
    BY <1>0, UsedByKeeps
  <2> QED BY <1>2, <2>2, <2>3
<1>3. CASE kind # o.kind
  <2>1. ids[kind] # NoId /\ a.id = ids[kind]
    BY <1>1, <1>3
  <2>2. a \in A
    BY <2>1 DEF Has
  <2>3. a.uses = UsedBy(kind, ids)
    BY <2>1, <2>2 DEF Chained
  <2>4. kind \notin Remaining(o.kind)
    BY <2>1
  <2> HIDE DEF more
  <2>5. UsedBy(kind, more) = UsedBy(kind, ids)
    BY <1>0, <2>4, UsedByKeeps
  <2> QED BY <2>3, <2>5
<1> QED BY <1>2, <1>3

\* With nothing there to be found, the search finds nothing.
LEMMA NothingToFind ==
  ASSUME KeysApart, OnceInv, NEW p \in Runs, Reconcile(p) PROVE FALSE
<1>1. PICK o \in meta : o.kind = run[p].kind /\ o.tag \in Matched[Tag(p)]
  BY DEF Reconcile, Matches
<1>2. run[p].key \in Keys /\ run[p].kind \in Kinds
  BY DEF OnceInv, IdsInv, TypeOK, Local
<1>3. PICK k \in Keys : o.tag = TagOf[k]
  BY DEF OnceInv
<1>4. o.tag = TagOf[run[p].key]
  BY <1>1, <1>2, <1>3, TagsApart DEF Tag
<1>5. \A kind \in Remaining(run[p].kind) : Unmade(meta, kind, TagOf[run[p].key])
  BY DEF OnceInv, Clear, Reconcile
<1> QED BY <1>1, <1>2, <1>4, <1>5, OwnRemains DEF Unmade

\* A create makes a resource of a kind that was not there.
LEMMA CreateIsFirst ==
  ASSUME OnceInv, NEW p \in Runs, Create(p)
  PROVE  /\ Unmade(meta, run[p].kind, Tag(p))
         /\ attempt[run[p].key] = "in_progress"
         /\ \A kind \in Remaining(run[p].kind) : run[p].got[kind] = NoId
<1>1. run[p].kind \in Kinds
  BY DEF OnceInv, IdsInv, TypeOK, Local
<1>2. run[p].at = "create" /\ run[p].at \in Working
  BY DEF Create, Working
<1>3. Owner(p)
  BY <1>2 DEF OnceInv, OwnerInv
<1> QED BY <1>1, <1>2, <1>3, OwnRemains DEF OnceInv, Clear, Owner, IdsInv, Progress, Tag

\* Nobody else's create makes what carries the execution's tag.
LEMMA ClearStays ==
  ASSUME NEW A, NEW r, Clear(A, r), NEW o, o.tag # TagOf[r.key]
  PROVE  Clear(A \cup {o}, r)
BY DEF Clear, Unmade

LEMMA AdvanceClears ==
  ASSUME NEW A, NEW r \in Local, Clear(A, r), r.at = "create", NEW id \in Nat,
         NEW o, o.kind = r.kind
  PROVE  Clear(A \cup {o}, Advance(r, r.kind, id))
<1> DEFINE next == Advance(r, r.kind, id)
<1>1. r.kind \in Kinds
  BY DEF Local
<1>2. next.key = r.key /\ next.at \in {"find", "status"}
  BY <1>1, AdvanceMoves
<1>3. next.at = "find" => Remaining(next.kind) \subseteq Remaining(r.kind) \ {r.kind}
  <2>1. CASE r.kind = "campaigns"
    BY <2>1 DEF Advance, Local, Remaining, Kinds
  <2>2. CASE r.kind = "adsets"
    BY <2>2 DEF Advance, Local, Remaining
  <2>3. CASE r.kind = "adcreatives"
    BY <2>3 DEF Advance, Local, Remaining
  <2>4. CASE r.kind = "ads"
    BY <2>4 DEF Advance, Local
  <2> QED BY <1>1, <2>1, <2>2, <2>3, <2>4 DEF Kinds
<1> HIDE DEF next
<1>4. Clear(A \cup {o}, next)
  BY <1>2, <1>3 DEF Clear, Unmade
<1> QED BY <1>4 DEF next

\* What is made for a key leaves everybody else's resources as they were.
LEMMA MakeKeepsOnce ==
  ASSUME KeysApart, OnceInv, NEW p \in Runs, NEW id, Makes(p, id),
         attempt[run[p].key] # "none",
         \A q \in Runs \ {p} : run[q].at \in Working => run[q].key # run[p].key
  PROVE  /\ \A o \in meta' : \E k \in Keys : o.tag = TagOf[k]
         /\ \A k \in Keys : attempt[k] = "none" => \A kind \in Kinds : Unmade(meta', kind, TagOf[k])
         /\ \A q \in Runs : /\ Chained(meta', run[q].got)
                            /\ q # p => Clear(meta', run[q])
         /\ \A k \in Keys : attempt[k] = "published" => Chained(meta', row[k].ids)
<1>0. \A q \in Runs : run[q].key \in Keys
  BY DEF OnceInv, IdsInv, TypeOK, Local
<1>1. PICK o : /\ meta' = meta \cup {o}
               /\ o.id = id /\ o.kind = run[p].kind /\ o.tag = TagOf[run[p].key]
  BY NewFields DEF Tag
<1>2. \A a \in meta : a.id # o.id
  BY <1>1 DEF Makes, Fresh
<1>3. \A a \in meta' : \E k \in Keys : a.tag = TagOf[k]
  BY <1>0, <1>1 DEF OnceInv
<1>4. ASSUME NEW k \in Keys, attempt[k] = "none", NEW kind \in Kinds
      PROVE  Unmade(meta', kind, TagOf[k])
  <2>1. o.tag # TagOf[k]
    BY <1>0, <1>1, <1>4, TagsDiffer
  <2> QED BY <1>1, <1>4, <2>1 DEF OnceInv, Unmade
<1>5. ASSUME NEW q \in Runs PROVE Chained(meta', run[q].got)
  BY <1>1, <1>2, ChainedStays DEF OnceInv, IdsInv
<1>6. ASSUME NEW q \in Runs \ {p} PROVE Clear(meta', run[q])
  <2>1. CASE run[q].at \in Working
    <3>1. o.tag # TagOf[run[q].key]
      BY <1>0, <1>1, <2>1, TagsDiffer
    <3> QED BY <1>1, <3>1, ClearStays DEF OnceInv
  <2>2. CASE run[q].at \notin Working
    BY <2>2 DEF Clear, Working
  <2> QED BY <2>1, <2>2
<1>7. ASSUME NEW k \in Keys, attempt[k] = "published" PROVE Chained(meta', row[k].ids)
  BY <1>1, <1>2, <1>7, ChainedStays DEF OnceInv, IdsInv
<1> QED BY <1>3, <1>4, <1>5, <1>6, <1>7

LEMMA CreateKeepsOnce ==
  ASSUME KeysApart, OnceInv, NEW p \in Runs, Create(p) \/ (Land(p) /\ p \in underway)
  PROVE  /\ \A o \in meta' : \E k \in Keys : o.tag = TagOf[k]
         /\ \A k \in Keys : attempt'[k] = "none" =>
              \A kind \in Kinds : Unmade(meta', kind, TagOf[k])
         /\ \A q \in Runs : Clear(meta', run'[q]) /\ Chained(meta', run'[q].got)
         /\ \A k \in Keys : attempt'[k] = "published" => Chained(meta', row'[k].ids)
<1>0. /\ TypeOK /\ run[p] \in Local /\ run[p].kind \in Kinds
      /\ run[p].got \in [Kinds -> Nat]
  BY DEF OnceInv, IdsInv, TypeOK, Local
<1>1. CASE Land(p) /\ p \in underway
  <2>1. PICK id : Makes(p, id)
    BY <1>1 DEF Land
  <2>2. UNCHANGED <<attempt, row, run>> /\ Alone(p)
    BY <1>1 DEF Land, dbVars, OnceInv
  <2>3. Clear(meta', run[p])
    BY <2>2 DEF Alone, Clear
  <2> QED BY <2>1, <2>2, <2>3, MakeKeepsOnce DEF Alone
<1>2. CASE Create(p)
  <2>1. PICK id \in Nat : /\ Makes(p, id) /\ Learns(p, New(p, id))
                          /\ run'[p] = Advance(run[p], run[p].kind, id)
    BY <1>0, <1>2, CreateLearns
  <2>2. UNCHANGED <<attempt, row>> /\ \A q \in Runs \ {p} : run'[q] = run[q]
    BY <1>0, <1>2, CreateGoes DEF Goes, Create, dbVars
  <2>3. /\ attempt[run[p].key] = "in_progress"
        /\ \A kind \in Remaining(run[p].kind) : run[p].got[kind] = NoId
    BY <1>2, CreateIsFirst
  <2>4. \A q \in Runs \ {p} : run[q].at \in Working => run[q].key # run[p].key
    BY <1>2 DEF OnceInv, OwnerInv, HandlerInv, OneHandlerPerKey, Create, Working
  <2>5. PICK o : /\ o = New(p, id) /\ meta' = meta \cup {o}
                 /\ o.id = id /\ o.kind = run[p].kind
                 /\ o.uses = UsedBy(run[p].kind, run[p].got)
    BY <2>1, NewFields
  <2>6. Clear(meta', run'[p])
    <3>1. Clear(meta \cup {o}, Advance(run[p], run[p].kind, id))
      BY <1>0, <1>2, <2>5, AdvanceClears DEF OnceInv, Create
    <3> QED BY <2>1, <2>5, <3>1
  <2>7. Chained(meta', run'[p].got)
    <3>1. Chained(meta, run[p].got) /\ Has(meta, run[p].got, run[p].key)
      BY DEF OnceInv, IdsInv
    <3>2. \A a \in meta : a.id # o.id
      BY <2>1, <2>5 DEF Makes, Fresh
    <3>3. Chained(meta \cup {o}, [run[p].got EXCEPT ![o.kind] = o.id])
      BY <1>0, <2>3, <2>5, <3>1, <3>2, ChainedMore
    <3> QED BY <2>1, <2>5, <3>3 DEF Learns
  <2> QED BY <2>1, <2>2, <2>3, <2>4, <2>6, <2>7, MakeKeepsOnce
<1> QED BY <1>1, <1>2

\* A step that makes nothing.
LEMMA OthersKeepOnce ==
  ASSUME ~TasksDelivered, KeysApart, OnceInv, [Next]_vars,
         ~\E p \in Runs : Create(p) \/ Land(p)
  PROVE  /\ meta' = meta
         /\ \A p \in Runs : Clear(meta, run'[p]) /\ Chained(meta, run'[p].got)
         /\ \A k \in Keys : attempt'[k] = "published" => Chained(meta, row'[k].ids)
<1>inv. /\ TypeOK /\ Progress /\ OwnerInv
        /\ \A p \in Runs : /\ run[p] \in Local /\ run[p].key \in Keys /\ ~run[p].task
                           /\ Clear(meta, run[p]) /\ Chained(meta, run[p].got)
        /\ \A k \in Keys : attempt[k] = "published" => Chained(meta, row[k].ids)
  BY DEF OnceInv, IdsInv, OwnerInv, TypeOK, Local
<1> DEFINE Goal == /\ meta' = meta
                   /\ \A p \in Runs : Clear(meta, run'[p]) /\ Chained(meta, run'[p].got)
                   /\ \A k \in Keys : attempt'[k] = "published" => Chained(meta, row'[k].ids)
<1>none. Chained(meta, NoIds)
  BY DEF Chained, NoIds
<1>0. ASSUME NEW p \in Runs, meta' = meta, Keeps(p), \A q \in Runs \ {p} : run'[q] = run[q],
             Clear(meta, run'[p]),
             \A k \in Keys : attempt'[k] = "published" => Chained(meta, row'[k].ids)
      PROVE  Goal
  BY <1>0, <1>inv, <1>none DEF Keeps
<1>1. ASSUME NEW p \in Runs,
             \/ \E k \in Keys : Check(p, k)
             \/ Reject(p) \/ InsertConflict(p) \/ Save(p) \/ Crash(p)
      PROVE  Goal
  <2>1. Stops(p) /\ Keeps(p)
    BY <1>1, <1>inv, WorkStops, OthersKeep
  <2>2. Clear(meta, run'[p])
    BY <2>1 DEF Stops, Clear, Working
  <2>3. ASSUME NEW k \in Keys, attempt'[k] = "published" PROVE Chained(meta, row'[k].ids)
    <3>1. CASE Save(p)
      BY <1>inv, <2>3, <3>1, SaveSettles DEF ResultOf
    <3>2. CASE ~Save(p)
      BY <1>1, <1>inv, <2>3, <3>2
         DEF Check, Reject, InsertConflict, Crash, dbVars, TypeOK
    <3> QED BY <3>1, <3>2
  <2> QED BY <1>0, <2>1, <2>2, <2>3 DEF Stops
<1>2. ASSUME NEW p \in Runs, Insert(p) PROVE Goal
  <2>1. /\ run'[p].key = run[p].key /\ run'[p].at = "upload"
        /\ \A q \in Runs \ {p} : run'[q] = run[q]
    BY <1>2, <1>inv DEF Insert, TypeOK, Local
  <2>2. attempt[run[p].key] = "none"
    BY <1>2 DEF Insert
  <2>3. Clear(meta, run'[p])
    BY <1>inv, <2>1, <2>2 DEF OnceInv, Clear
  <2>4. ASSUME NEW k \in Keys, attempt'[k] = "published" PROVE Chained(meta, row'[k].ids)
    BY <1>2, <1>inv, <2>4 DEF Insert, TypeOK
  <2>5. meta' = meta
    BY <1>2 DEF Insert
  <2> QED BY <1>0, <1>2, <1>inv, <2>1, <2>3, <2>4, <2>5, OthersKeep
<1>3. ASSUME NEW p \in Runs, \/ Upload(p) \/ FindNothing(p) \/ CreateLost(p)
                             \/ CreateRefused(p) \/ CheckStatus(p)
      PROVE  Goal
  <2>1. Continues(p) /\ Keeps(p)
    BY <1>3, <1>inv, WorkContinues, OthersKeep
  <2>2. meta' = meta
    BY <1>3 DEF Upload, FindNothing, CreateLost, CreateRefused, CheckStatus, metaVars
  <2>3. Clear(meta, run'[p])
    <3>1. CASE Upload(p)
      <4>1. run'[p].at \in {"find", "save"} /\ run'[p].key = run[p].key /\ run[p].at = "upload"
        BY <1>inv, <3>1, UploadGoes DEF Goes, Upload
      <4>2. run'[p].kind \in Kinds
        BY <1>3, TypeInductive, <1>inv DEF TypeOK, Local
      <4> QED BY <1>inv, <4>1, <4>2, OwnRemains DEF Clear
    <3>2. CASE FindNothing(p)
      <4>1. /\ run'[p].at = "create" /\ run'[p].key = run[p].key
            /\ run'[p].kind = run[p].kind /\ run[p].at = "find"
        BY <1>inv, <3>2, FindNothingGoes DEF Goes, FindNothing
      <4> QED BY <1>inv, <4>1 DEF Clear
    <3>3. CASE CreateLost(p) \/ CreateRefused(p) \/ CheckStatus(p)
      <4>1. run'[p].at = "save"
        BY <1>inv, <3>3, CreateLostGoes, CreateRefusedGoes, CheckStatusGoes DEF Goes
      <4> QED BY <4>1 DEF Clear
    <3> QED BY <1>3, <3>1, <3>2, <3>3
  <2> QED BY <1>0, <1>inv, <2>1, <2>2, <2>3 DEF Continues, dbVars
<1>4. ASSUME NEW p \in Runs, Reconcile(p) PROVE Goal
  BY <1>4, NothingToFind
<1>5. ASSUME NEW p \in Runs, TaskError(p) \/ \E k \in Keys : Deliver(p, k) PROVE Goal
  BY <1>5, <1>inv DEF TaskError, Deliver
<1>6. ASSUME NEW l \in Keys, Activate(l) \/ Pause(l) PROVE Goal
  <2>1. \A k \in Keys : row'[k].ids = row[k].ids
    <3>1. PICK status : row' = [row EXCEPT ![l] = [row[l] EXCEPT !.status = status]]
      BY <1>6 DEF Activate, Pause
    <3>2. [row[l] EXCEPT !.status = status].ids = row[l].ids
      BY <1>inv DEF TypeOK, Row
    <3> QED BY <1>inv, <3>1, <3>2 DEF TypeOK
  <2> QED BY <1>6, <1>inv, <2>1 DEF Activate, Pause
<1>7. ASSUME UNCHANGED vars PROVE Goal
  BY <1>7, <1>inv DEF vars
<1> HIDE DEF Goal
<1>8. Goal
  <2>1. CASE \E p \in Runs : \/ \E k \in Keys : Check(p, k) \/ Deliver(p, k)
                            \/ Step(p) \/ Crash(p) \/ TaskError(p) \/ Land(p)
    BY <1>1, <1>2, <1>3, <1>4, <1>5, <2>1 DEF Step
  <2> QED BY <1>6, <1>7, <2>1 DEF Next
<1> QED BY <1>8 DEF Goal

\* Without task deliveries, only an insert makes an execution work.
LEMMA WorkersNext ==
  ASSUME ~TasksDelivered, TypeOK, [Next]_vars, NEW q \in Runs, run'[q].at \in Working
  PROVE  /\ run'[q].key = run[q].key
         /\ run[q].at \in Working \/ attempt[run[q].key] = "none"
<1>1. ASSUME NEW p \in Runs, Continues(p)
      PROVE  run'[q].key = run[q].key /\ run[q].at \in Working
  BY <1>1 DEF Continues
<1>2. ASSUME NEW p \in Runs, Stops(p) PROVE run'[q].key = run[q].key /\ run[q].at \in Working
  BY <1>2 DEF Stops
<1>3. ASSUME NEW p \in Runs, Insert(p)
      PROVE  /\ run'[q].key = run[q].key
             /\ run[q].at \in Working \/ attempt[run[q].key] = "none"
  BY <1>3 DEF Insert, TypeOK, Local
<1>4. CASE UNCHANGED run
  BY <1>4
<1>5. ASSUME NEW p \in Runs,
             \/ \E k \in Keys : Check(p, k) \/ Deliver(p, k)
             \/ Step(p) \/ Crash(p) \/ TaskError(p) \/ Land(p)
      PROVE  /\ run'[q].key = run[q].key
             /\ run[q].at \in Working \/ attempt[run[q].key] = "none"
  BY <1>1, <1>2, <1>3, <1>4, <1>5, WorkContinues, WorkStops DEF Step, Deliver, Land
<1> QED BY <1>4, <1>5 DEF Next, Activate, Pause, vars

\* Without task deliveries, an attempt changes by an insert and by the save of its owner.
LEMMA AttemptsNext ==
  ASSUME ~TasksDelivered, OwnerInv, [Next]_vars, NEW k \in Keys
  PROVE  \/ attempt'[k] = attempt[k]
         \/ attempt[k] = "none"
         \/ \E p \in Runs : /\ Save(p) /\ run[p].key = k
                            /\ attempt'[k] = ResultOf(run[p].outcome)
<1> DEFINE Goal == \/ attempt'[k] = attempt[k]
                   \/ attempt[k] = "none"
                   \/ \E p \in Runs : /\ Save(p) /\ run[p].key = k
                                      /\ attempt'[k] = ResultOf(run[p].outcome)
<1>0. /\ TypeOK /\ \A p \in Runs : ~run[p].task /\ run[p].key \in Keys
  BY DEF OwnerInv, HandlerInv, TypeOK, Local
<1>1. ASSUME NEW p \in Runs, Save(p) PROVE Goal
  <2> PICK l \in Keys : l = run[p].key
    BY <1>0
  <2>1. attempt'[l] = ResultOf(run[p].outcome) /\ \A j \in Keys \ {l} : attempt'[j] = attempt[j]
    BY <1>1, SaveSettles
  <2> QED BY <1>1, <2>1
<1>2. ASSUME NEW p \in Runs, Insert(p) \/ Reject(p) PROVE Goal
  BY <1>0, <1>2 DEF Insert, Reject, TypeOK
<1>3. CASE UNCHANGED attempt
  BY <1>3
<1>4. ASSUME NEW p \in Runs,
             \/ \E l \in Keys : Check(p, l) \/ Deliver(p, l)
             \/ InsertConflict(p) \/ WorkStep(p) \/ Crash(p) \/ TaskError(p) \/ Land(p)
      PROVE  UNCHANGED attempt
  BY <1>0, <1>4, WorkContinues
     DEF Check, Deliver, InsertConflict, WorkStep, Continues, Crash, TaskError, Land, dbVars
<1> QED BY <1>1, <1>2, <1>3, <1>4 DEF Next, Step, WorkStep, Activate, Pause, vars

\* What a step makes at Meta it makes for an execution about to create, or underway.
LEMMA MetaNext ==
  ASSUME OwnerInv, [Next]_vars
  PROVE  \/ meta' = meta
         \/ \E p \in Runs : /\ \E id : Makes(p, id)
                            /\ \/ run[p].at = "create"
                               \/ p \in underway /\ underway' = underway \ {p}
<1>1. ASSUME NEW p \in Runs, Create(p) \/ Land(p)
      PROVE  /\ \E id : Makes(p, id)
             /\ \/ run[p].at = "create"
                \/ p \in underway /\ underway' = underway \ {p}
  BY <1>1 DEF Create, Land
<1>2. ASSUME NEW p \in Runs,
             \/ \E k \in Keys : Check(p, k) \/ Deliver(p, k)
             \/ Insert(p) \/ Reject(p) \/ InsertConflict(p)
             \/ Upload(p) \/ Reconcile(p) \/ FindNothing(p)
             \/ CreateLost(p) \/ CreateRefused(p) \/ CheckStatus(p)
             \/ Save(p) \/ Crash(p) \/ TaskError(p)
      PROVE  meta' = meta
  BY <1>2 DEF Check, Deliver, Insert, Reject, InsertConflict, Upload, Reconcile, FindNothing,
              CreateLost, CreateRefused, CheckStatus, Save, Crash, TaskError, metaVars
<1> QED BY <1>1, <1>2 DEF Next, Step, Activate, Pause, vars

LEMMA AloneInductive ==
  ASSUME ~TasksDelivered, KeysApart, OnceInv, [Next]_vars, NEW p \in underway'
  PROVE  Alone(p)'
<1>inv. /\ TypeOK /\ OwnerInv /\ p \in Runs
        /\ \A q \in Runs : run[q] \in Local /\ run[q].key \in Keys /\ ~run[q].task
        /\ \A q \in underway : q \in Runs /\ Alone(q)
  <2>1. TypeOK'
    BY TypeInductive DEF OnceInv, IdsInv
  <2> QED BY <2>1 DEF OnceInv, IdsInv, OwnerInv, TypeOK, Local
\* Nobody starts to work for the key of an execution whose attempt was inserted.
<1>others. ASSUME attempt[run[p].key] # "none", run'[p].key = run[p].key,
                  \A q \in Runs \ {p} : run[q].key = run[p].key
                    => run[q].at \notin Working /\ q \notin underway
           PROVE  \A q \in Runs \ {p} : run'[q].key = run'[p].key
                    => run'[q].at \notin Working /\ q \notin underway'
  <2> SUFFICES ASSUME NEW q \in Runs \ {p}, run'[q].key = run'[p].key
               PROVE  run'[q].at \notin Working /\ q \notin underway'
    OBVIOUS
  <2>1. run'[q].at \notin Working
    BY <1>others, <1>inv, WorkersNext
  <2>2. CASE q \in underway
    <3>1. run[q].at \in {"save", "done", "dead"}
      BY <1>inv, <2>2 DEF Alone
    <3>2. run'[q].key = run[q].key
      BY <1>inv, <3>1, EndedHolds DEF Holds
    <3> QED BY <1>others, <2>2, <3>2
  <2>3. CASE q \notin underway /\ q \in underway'
    <3>1. run[q].at = "create" /\ (CreateLost(q) \/ Crash(q) \/ TaskError(q))
      BY <2>3, UnderwayNext
    <3>2. run'[q].key = run[q].key
      BY <1>inv, <3>1, CreateLostGoes, EndHolds DEF Holds
    <3> QED BY <1>others, <3>1, <3>2 DEF Working
  <2> QED BY <2>1, <2>2, <2>3
<1>1. CASE p \in underway
  <2>1. Alone(p)
    BY <1>1, <1>inv
  <2>2. /\ run'[p].key = run[p].key /\ run'[p].kind = run[p].kind
        /\ run'[p] = run[p] \/ run'[p].at \in {"done", "dead"}
    BY <1>inv, <2>1, EndedHolds DEF Alone, Holds
  <2> PICK k \in Keys : k = run[p].key
    BY <1>inv
  <2>3. attempt'[k] \in {"in_progress", "failed"}
    <3>1. ASSUME NEW q \in Runs, Save(q), run[q].key = k, attempt'[k] = ResultOf(run[q].outcome)
          PROVE  attempt'[k] = "failed"
      <4>1. q = p /\ run[p].at = "save"
        BY <2>1, <3>1 DEF Alone, Save, Working
      <4> QED BY <2>1, <3>1, <4>1 DEF Alone, ResultOf
    <3> QED BY <1>inv, <2>1, <3>1, AttemptsNext DEF Alone
  <2>4. Unmade(meta', run[p].kind, TagOf[k])
    <3>1. ASSUME NEW q \in Runs, NEW id, Makes(q, id),
                 run[q].at = "create" \/ (q \in underway /\ underway' = underway \ {q})
          PROVE  Unmade(meta', run[p].kind, TagOf[k])
      <4>1. q # p
        BY <2>1, <3>1 DEF Alone
      <4>2. run[q].key # k
        BY <2>1, <3>1, <4>1 DEF Alone, Working
      <4>3. TagOf[run[q].key] # TagOf[k]
        BY <1>inv, <4>2, TagsDiffer
      <4>4. \A o \in meta' : o \in meta \/ o.tag = TagOf[run[q].key]
        BY <3>1, NewFields DEF Tag
      <4> QED BY <2>1, <4>3, <4>4 DEF Alone, Unmade
    <3> QED BY <1>inv, <2>1, <3>1, MetaNext DEF Alone
  <2>5. \A q \in Runs \ {p} : run'[q].key = run'[p].key
          => run'[q].at \notin Working /\ q \notin underway'
    BY <1>others, <2>1, <2>2 DEF Alone
  <2> QED BY <2>1, <2>2, <2>3, <2>4, <2>5 DEF Alone
<1>2. CASE p \notin underway
  <2>1. run[p].at = "create" /\ (CreateLost(p) \/ Crash(p))
    BY <1>2, <1>inv, UnderwayNext DEF TaskError
  <2>2. /\ run'[p].key = run[p].key /\ run'[p].kind = run[p].kind
        /\ run'[p].at \in {"save", "done", "dead"}
        /\ run'[p].at = "save" => run'[p].outcome = "failed"
    <3>1. CASE CreateLost(p)
      <4>1. Failed(run[p], TRUE).outcome = "failed"
        BY <1>inv DEF Failed, Local
      <4> QED BY <1>inv, <3>1, <4>1, CreateLostGoes DEF Goes, Holds
    <3>2. CASE Crash(p)
      BY <1>inv, <3>2, EndHolds DEF Holds
    <3> QED BY <2>1, <3>1, <3>2
  <2>3. UNCHANGED <<attempt, meta>>
    BY <2>1 DEF CreateLost, Crash, dbVars
  <2>4. attempt[run[p].key] = "in_progress"
    BY <1>inv, <2>1 DEF OnceInv, OwnerInv, Owner, Working
  <2>5. Unmade(meta, run[p].kind, TagOf[run[p].key])
    <3>1. run[p].kind \in Kinds
      BY <1>inv DEF Local
    <3> QED BY <1>inv, <2>1, <3>1, OwnRemains DEF OnceInv, Clear
  <2>6. ASSUME NEW q \in Runs \ {p}, run[q].key = run[p].key
        PROVE  run[q].at \notin Working /\ q \notin underway
    <3>1. run[q].at \notin Working
      BY <1>inv, <2>1, <2>6 DEF OwnerInv, HandlerInv, OneHandlerPerKey, Working
    <3>2. q \notin underway
      BY <1>inv, <2>1, <2>6 DEF Alone, Working
    <3> QED BY <3>1, <3>2
  <2>7. \A q \in Runs \ {p} : run'[q].key = run'[p].key
          => run'[q].at \notin Working /\ q \notin underway'
    BY <1>others, <2>2, <2>4, <2>6
  <2> QED BY <2>2, <2>3, <2>4, <2>5, <2>7 DEF Alone
<1> QED BY <1>1, <1>2

LEMMA OnceInductive == ~TasksDelivered /\ KeysApart /\ OnceInv /\ [Next]_vars => OnceInv'
<1> SUFFICES ASSUME ~TasksDelivered, KeysApart, OnceInv, [Next]_vars PROVE OnceInv'
  OBVIOUS
<1>1. IdsInv' /\ OwnerInv'
  BY IdsInductive, OwnerInductive DEF OnceInv
<1>alone. \A p \in underway' : Alone(p)'
  BY AloneInductive
<1>2. CASE \E p \in Runs : Create(p) \/ Land(p)
  <2>1. PICK p \in Runs : Create(p) \/ (Land(p) /\ p \in underway)
    BY <1>2 DEF Land
  <2> QED BY <1>1, <1>alone, <2>1, CreateKeepsOnce DEF OnceInv
<1>3. CASE ~\E p \in Runs : Create(p) \/ Land(p)
  <2>1. /\ meta' = meta
        /\ \A p \in Runs : Clear(meta, run'[p]) /\ Chained(meta, run'[p].got)
        /\ \A k \in Keys : attempt'[k] = "published" => Chained(meta, row'[k].ids)
    BY <1>3, OthersKeepOnce
  <2>2. \A k \in Keys : attempt'[k] = "none" => attempt[k] = "none"
    BY AttemptsStay DEF OnceInv, OwnerInv
  <2> QED BY <1>1, <1>alone, <2>1, <2>2 DEF OnceInv
<1> QED BY <1>2, <1>3

LEMMA OnceInitially == Init => OnceInv
<1> SUFFICES ASSUME Init PROVE OnceInv
  OBVIOUS
<1>1. /\ \A p \in Runs : run[p].at = "idle" /\ run[p].got = NoIds
      /\ \A k \in Keys : attempt[k] = "none"
      /\ meta = {} /\ underway = {}
  BY DEF Init
<1> QED BY <1>1, IdsInitially, OwnerInitially DEF OnceInv, Unmade, Clear, Chained

\* Without task deliveries and with tags that stay apart: the ids recorded for a published
\* attempt are one chain, the ad of the recorded ad set and creative, the ad set of the
\* recorded campaign (publish_real, RealPublisher.publish).
THEOREM RecordIsChained == Spec => []RecordedChain
<1>1. CASE TasksDelivered \/ ~KeysApart
  <2>1. RecordedChain
    BY <1>1 DEF RecordedChain
  <2> QED BY <2>1, PTL
<1>2. CASE ~TasksDelivered /\ KeysApart
  <2>1. OnceInv => RecordedChain
    BY DEF OnceInv, OwnerInv, Complete, Chained, RecordedChain
  <2>2. OnceInv /\ [Next]_vars => OnceInv'
    BY <1>2, OnceInductive
  <2> QED BY <2>1, <2>2, OnceInitially, PTL DEF Spec
<1> QED BY <1>1, <1>2

-----------------------------------------------------------------------------
(* RealPublish implements PublishOnce.                                      *)

LEMMA KeyOfTag ==
  ASSUME KeysApart, NEW k \in Keys PROVE KeyOf(TagOf[k]) = k
<1>1. KeyOf(TagOf[k]) \in Keys /\ TagOf[KeyOf(TagOf[k])] = TagOf[k]
  BY DEF KeyOf
<1> QED BY <1>1, TagsDiffer

\* What was made for a key are the resources that carry its tag.
LEMMA MadeForKey ==
  ASSUME KeysApart, OnceInv, NEW k \in Keys, NEW kind
  PROVE  kind \in Once!MadeFor(k) <=> (\E o \in meta : o.kind = kind /\ o.tag = TagOf[k])
<1>1. \A o \in meta : AsMade(o).kind = o.kind /\ (AsMade(o).key = k <=> o.tag = TagOf[k])
  <2> SUFFICES ASSUME NEW o \in meta
               PROVE  AsMade(o).kind = o.kind /\ (AsMade(o).key = k <=> o.tag = TagOf[k])
    OBVIOUS
  <2>1. PICK l \in Keys : o.tag = TagOf[l]
    BY DEF OnceInv
  <2>2. KeyOf(o.tag) = l
    BY <2>1, KeyOfTag
  <2> QED BY <2>1, <2>2, TagsDiffer DEF AsMade
<1>2. kind \in Once!MadeFor(k) <=> (\E o \in meta : AsMade(o).key = k /\ AsMade(o).kind = kind)
  BY DEF Once!MadeFor
<1> QED BY <1>1, <1>2

\* The keys with a create underway.
Pending == {run[p].key : p \in underway}

\* A create underway is for one key, whoever makes a step.
LEMMA PendingNext ==
  ASSUME OnceInv, [Next]_vars
  PROVE  /\ underway' = underway => Pending' = Pending
         /\ \A p \in Runs : /\ CreateLost(p) \/ Crash(p) \/ TaskError(p)
                           /\ underway' = underway \cup {p} /\ p \notin underway
                           => Pending' = Pending \cup {run[p].key}
         /\ \A p \in underway : underway' = underway \ {p} => Pending' = Pending \ {run[p].key}
<1>0. TypeOK /\ \A p \in underway : p \in Runs /\ Alone(p)
  BY DEF OnceInv, IdsInv, TypeOK
<1>1. \A p \in underway : run'[p].key = run[p].key
  BY <1>0, EndedHolds DEF Alone, Holds
<1>2. ASSUME underway' = underway PROVE Pending' = Pending
  BY <1>1, <1>2 DEF Pending
<1>3. ASSUME NEW p \in Runs, CreateLost(p) \/ Crash(p) \/ TaskError(p),
             underway' = underway \cup {p}
      PROVE  Pending' = Pending \cup {run[p].key}
  <2>1. run'[p].key = run[p].key
    BY <1>0, <1>3, CreateLostGoes, EndHolds DEF Holds
  <2> QED BY <1>1, <1>3, <2>1 DEF Pending
<1>4. ASSUME NEW p \in underway, underway' = underway \ {p}
      PROVE  Pending' = Pending \ {run[p].key}
  <2>1. \A q \in underway \ {p} : run[q].key # run[p].key
    BY <1>0 DEF Alone
  <2>2. Pending' = {run[q].key : q \in underway \ {p}}
    BY <1>1, <1>4 DEF Pending
  <2> QED BY <2>1, <2>2 DEF Pending
<1> QED BY <1>2, <1>3, <1>4

\* While an execution works for a key, no create for the key is underway but its own.
LEMMA WorkingIsNotPending ==
  ASSUME OnceInv, NEW p \in Runs, run[p].at \in Working, p \notin underway
  PROVE  run[p].key \notin Pending
<1>1. ASSUME NEW q \in underway, run[q].key = run[p].key PROVE FALSE
  BY <1>1 DEF OnceInv, Alone
<1> QED BY <1>1 DEF Pending

LEMMA OnceStep ==
  ASSUME ~TasksDelivered, KeysApart, OnceInv, [Next]_vars PROVE [Once!Next]_Once!vars
<1>inv. /\ TypeOK /\ OwnerInv
        /\ \A p \in Runs : run[p] \in Local /\ run[p].key \in Keys /\ ~run[p].task
  BY DEF OnceInv, IdsInv, OwnerInv, TypeOK, Local
<1> DEFINE phase == [k \in Keys |-> Phase(attempt[k])]
\* The phase of one key changes, and nothing is made.
<1>0. ASSUME NEW k \in Keys, \A l \in Keys \ {k} : attempt'[l] = attempt[l], meta' = meta,
             underway' = underway
      PROVE  /\ phase[k] = Phase(attempt[k])
             /\ phase' = [phase EXCEPT ![k] = Phase(attempt'[k])]
             /\ UNCHANGED {AsMade(o) : o \in meta}
             /\ UNCHANGED {run[p].key : p \in underway}
  <2>1. UNCHANGED {run[p].key : p \in underway}
    BY <1>0, PendingNext DEF Pending
  <2> QED BY <1>0, <1>inv, <2>1 DEF TypeOK
<1> HIDE DEF phase
<1>1. ASSUME NEW p \in Runs, Insert(p) PROVE Once!Next
  <2> PICK k \in Keys : k = run[p].key
    BY <1>inv
  <2>1. /\ attempt[k] = "none" /\ attempt'[k] = "in_progress"
        /\ meta' = meta /\ underway' = underway
        /\ \A l \in Keys \ {k} : attempt'[l] = attempt[l]
    BY <1>1, <1>inv DEF Insert, TypeOK
  <2>2. Phase("none") = "new" /\ Phase("in_progress") = "working"
    BY DEF Phase
  <2>3. /\ phase[k] = "new" /\ phase' = [phase EXCEPT ![k] = "working"]
        /\ UNCHANGED {AsMade(o) : o \in meta}
        /\ UNCHANGED {run[q].key : q \in underway}
    BY <1>0, <2>1, <2>2
  <2>4. Once!Begin(k)
    BY <2>3 DEF Once!Begin, phase
  <2> QED BY <2>4 DEF Once!Next
<1>2. ASSUME NEW p \in Runs, Reject(p) PROVE Once!Next
  <2> PICK k \in Keys : k = run[p].key
    BY <1>inv
  <2>1. /\ attempt[k] = "none" /\ attempt'[k] = "rejected"
        /\ meta' = meta /\ underway' = underway
        /\ \A l \in Keys \ {k} : attempt'[l] = attempt[l]
    BY <1>2, <1>inv DEF Reject, metaVars, TypeOK
  <2>2. Phase("none") = "new" /\ Phase("rejected") = "rejected"
    BY DEF Phase
  <2>3. /\ phase[k] = "new" /\ phase' = [phase EXCEPT ![k] = "rejected"]
        /\ UNCHANGED {AsMade(o) : o \in meta}
        /\ UNCHANGED {run[q].key : q \in underway}
    BY <1>0, <2>1, <2>2
  <2>4. Once!Refuse(k)
    BY <2>3 DEF Once!Refuse, phase
  <2> QED BY <2>4 DEF Once!Next
\* What an execution makes for its key is the first of its kind.
<1>make. ASSUME NEW p \in Runs, NEW id, Makes(p, id), NEW k \in Keys, k = run[p].key,
                Unmade(meta, run[p].kind, TagOf[k])
         PROVE  Once!Adds(k)
  <2> DEFINE made == {AsMade(o) : o \in meta}
  <2>1. PICK o : /\ o = New(p, id) /\ meta' = meta \cup {o}
                 /\ o.id = id /\ o.kind = run[p].kind /\ o.tag = TagOf[k]
    BY <1>make, NewFields DEF Tag
  <2>2. AsMade(o).kind = run[p].kind /\ AsMade(o).key = k /\ AsMade(o).id = id
    BY <2>1, KeyOfTag DEF AsMade
  <2>3. {AsMade(a) : a \in meta'} = made \cup {AsMade(o)}
    BY <2>1
  <2>4. AsMade(o) \notin made
    <3>1. \A a \in meta : AsMade(a).id = a.id
      BY DEF AsMade
    <3> QED BY <1>make, <2>2, <3>1 DEF Makes, Fresh
  <2>5. run[p].kind \in Kinds \ Once!MadeFor(k)
    <3>1. run[p].kind \in Kinds
      BY <1>inv DEF Local
    <3> QED BY <1>make, <3>1, MadeForKey DEF Unmade
  <2> QED BY <2>2, <2>3, <2>4, <2>5 DEF Once!Adds
<1>phase. ASSUME attempt' = attempt PROVE UNCHANGED phase
  BY <1>phase DEF phase
<1>3. ASSUME NEW p \in Runs, Create(p) PROVE Once!Next
  <2> PICK k \in Keys : k = run[p].key
    BY <1>inv
  <2>1. PICK id : Makes(p, id)
    BY <1>3 DEF Create
  <2>2. Once!Adds(k)
    BY <1>3, <1>make, <2>1, CreateIsFirst DEF Tag
  <2>3. k \notin {run[q].key : q \in underway}
    <3>1. run[p].at \in Working /\ p \notin underway
      BY <1>3 DEF Create, Working, OnceInv, Alone
    <3> QED BY <3>1, WorkingIsNotPending DEF Pending
  <2>4. UNCHANGED {run[q].key : q \in underway}
    <3>1. underway' = underway
      BY <1>3 DEF Create
    <3> QED BY <3>1, PendingNext DEF Pending
  <2>5. UNCHANGED phase /\ phase[k] = "working"
    <3>1. attempt[k] = "in_progress" /\ attempt' = attempt
      BY <1>3, CreateIsFirst DEF Create, dbVars
    <3> QED BY <3>1, <1>phase DEF phase, Phase
  <2>6. Once!Make(k)
    BY <2>2, <2>3, <2>4, <2>5 DEF Once!Make, phase
  <2> QED BY <2>6 DEF Once!Next
<1>3a. ASSUME NEW p \in Runs, CreateLost(p) \/ Crash(p),
              run[p].at = "create", underway' = underway \cup {p}
       PROVE  Once!Next
  <2> PICK k \in Keys : k = run[p].key
    BY <1>inv
  <2>1. run[p].at \in Working /\ p \notin underway
    BY <1>3a DEF Working, OnceInv, Alone
  <2>2. k \notin {run[q].key : q \in underway}
    BY <2>1, WorkingIsNotPending DEF Pending
  <2>3. {run[q].key : q \in underway}' = {run[q].key : q \in underway} \cup {k}
    BY <1>3a, <2>1, PendingNext DEF Pending
  <2>4. attempt[k] = "in_progress" /\ attempt' = attempt /\ meta' = meta
    BY <1>3a, <2>1 DEF CreateLost, Crash, dbVars, OnceInv, OwnerInv, Owner
  <2>5. UNCHANGED phase /\ phase[k] = "working"
    BY <2>4, <1>phase DEF phase, Phase
  <2>6. UNCHANGED {AsMade(o) : o \in meta}
    BY <2>4
  <2>7. Once!Lose(k)
    BY <2>2, <2>3, <2>5, <2>6 DEF Once!Lose, phase
  <2> QED BY <2>7 DEF Once!Next
<1>3b. ASSUME NEW p \in Runs, Land(p) PROVE Once!Next
  <2> PICK k \in Keys : k = run[p].key
    BY <1>inv
  <2>1. PICK id : Makes(p, id)
    BY <1>3b DEF Land
  <2>2. p \in underway /\ Alone(p) /\ attempt' = attempt /\ underway' = underway \ {p}
    BY <1>3b DEF Land, dbVars, OnceInv
  <2>3. Once!Adds(k)
    BY <1>make, <2>1, <2>2 DEF Alone
  <2>4. k \in {run[q].key : q \in underway}
    BY <2>2
  <2>5. {run[q].key : q \in underway}' = {run[q].key : q \in underway} \ {k}
    BY <2>2, PendingNext DEF Pending
  <2>6. UNCHANGED phase /\ phase[k] \in {"working", "failed"}
    BY <2>2, <1>phase DEF phase, Phase, Alone
  <2>7. Once!Arrive(k)
    BY <2>3, <2>4, <2>5, <2>6 DEF Once!Arrive, phase
  <2> QED BY <2>7 DEF Once!Next
<1>4. ASSUME NEW p \in Runs, Save(p) PROVE Once!Next
  <2> PICK k \in Keys : k = run[p].key
    BY <1>inv
  <2> DEFINE result == ResultOf(run[p].outcome)
  <2>1. /\ attempt[k] = "in_progress" /\ attempt'[k] = result
        /\ run[p].outcome \in {"completed", "failed", "requires_manual_review"}
        /\ run[p].outcome = "completed" => \A kind \in Kinds : run[p].got[kind] # NoId
        /\ \A l \in Keys \ {k} : attempt'[l] = attempt[l]
    BY <1>4, <1>inv, SaveSettles
  <2>2. meta' = meta /\ underway' = underway
    BY <1>4 DEF Save, metaVars
  <2>3. /\ result \in {"published", "failed", "requires_manual_review"}
        /\ result = "published" => run[p].outcome = "completed"
    BY <2>1 DEF ResultOf
  <2>4. Phase(attempt[k]) = "working" /\ Phase(result) = result
    BY <2>1, <2>3 DEF Phase
  <2>5. ASSUME result = "published" PROVE Once!MadeFor(k) = Kinds
    <3>1. ASSUME NEW kind \in Kinds PROVE \E o \in meta : o.kind = kind /\ o.tag = TagOf[k]
      <4>1. run[p].got[kind] # NoId /\ Has(meta, run[p].got, k)
        BY <2>1, <2>3, <2>5 DEF OnceInv, IdsInv
      <4>2. PICK o \in meta : o.kind = kind /\ o.tag \in Matched[TagOf[k]]
        BY <4>1 DEF Has
      <4>3. PICK l \in Keys : o.tag = TagOf[l]
        BY DEF OnceInv
      <4> QED BY <4>2, <4>3, TagsApart
    <3>2. \A o \in meta : o.kind \in Kinds
      BY <1>inv DEF TypeOK, Resource
    <3>3. \A kind : kind \in Once!MadeFor(k) <=> kind \in Kinds
      BY <3>1, <3>2, MadeForKey
    <3> QED BY <3>3
  <2>5a. ASSUME k \in {run[q].key : q \in underway} PROVE result = "failed"
    <3>1. p \in underway
      BY <1>4, <2>5a, WorkingIsNotPending DEF Pending, Save, Working
    <3> QED BY <1>4, <3>1 DEF OnceInv, Alone, Save, ResultOf
  <2> HIDE DEF result
  <2>6. /\ phase[k] = "working" /\ phase' = [phase EXCEPT ![k] = result]
        /\ UNCHANGED {AsMade(o) : o \in meta}
        /\ UNCHANGED {run[q].key : q \in underway}
    BY <1>0, <2>1, <2>2, <2>4
  <2>7. Once!Answer(k, result)
    BY <2>5, <2>5a, <2>6 DEF Once!Answer, phase
  <2>8. result \in Once!Answers \ {"rejected"}
    BY <2>3 DEF Once!Answers
  <2> QED BY <2>7, <2>8 DEF Once!Next
<1>5. ASSUME UNCHANGED <<attempt, meta, underway>> PROVE UNCHANGED Once!vars
  <2>1. UNCHANGED {run[q].key : q \in underway}
    BY <1>5, PendingNext DEF Pending
  <2> QED BY <1>5, <2>1 DEF Once!vars
<1>6. ASSUME NEW p \in Runs, CreateLost(p) \/ Crash(p)
      PROVE  Once!Next \/ UNCHANGED <<attempt, meta, underway>>
  BY <1>3a, <1>6 DEF CreateLost, Crash, Abandons, dbVars
<1>7. ASSUME NEW p \in Runs,
             \/ \E k \in Keys : Check(p, k) \/ Deliver(p, k)
             \/ Step(p) \/ Crash(p) \/ TaskError(p) \/ Land(p)
      PROVE  Once!Next \/ UNCHANGED <<attempt, meta, underway>>
  BY <1>1, <1>2, <1>3, <1>3b, <1>4, <1>6, <1>7, <1>inv
     DEF Check, Deliver, Step, InsertConflict, Upload, Reconcile, FindNothing, CreateRefused,
         CheckStatus, TaskError, dbVars, metaVars
<1> QED BY <1>5, <1>7 DEF Next, Activate, Pause, vars

\* Without task deliveries and with tags that stay apart, for any number of requests and
\* keys: each key is handled once, nothing is made for it twice, however late a create is
\* applied, "published" means that all was made and nothing is to come, and an answer is
\* final (publish_real implements PublishOnce).
THEOREM Implementation == ~TasksDelivered /\ KeysApart => (Spec => ImplementsPublishOnce)
<1> SUFFICES ASSUME ~TasksDelivered, KeysApart PROVE Spec => ImplementsPublishOnce
  OBVIOUS
<1>1. Init => Once!Init
  BY DEF Init, Once!Init, Phase
<1>2. OnceInv /\ [Next]_vars => [Once!Next]_Once!vars
  BY OnceStep
<1>3. OnceInv /\ [Next]_vars => OnceInv'
  BY OnceInductive
<1> QED BY <1>1, <1>2, <1>3, OnceInitially, PTL DEF Spec, ImplementsPublishOnce, Once!Spec
=============================================================================
