------------------------------ MODULE RealPublish ------------------------------
(***************************************************************************)
(* The real publication of an ad: POST /publish/meta runs                  *)
(* PublicationService.publish_real, which writes an attempt and a          *)
(* PublishedAd row, commits, drives RealPublisher through the Meta API     *)
(* (image, campaign, ad set, creative, ad, status check) and commits the   *)
(* outcome.  The Celery task tasks.publish_real runs the same publisher    *)
(* for an attempt that already exists.                                     *)
(*                                                                         *)
(* Every network call is a step of its own, so that runs interleave        *)
(* between any two of them; a create may be refused, its reply may be      *)
(* lost, it may be applied long after the transport gave up waiting for    *)
(* it, and a run may die at every step.                                    *)
(***************************************************************************)
EXTENDS Naturals, FiniteSets

CONSTANTS
  Runs,            \* executions of the publisher: HTTP requests, task deliveries
  Keys,            \* idempotency keys chosen by the callers
  Tags,            \* what is written into the names of Meta resources
  TagOf,           \* TagOf[k]: the first 16 characters of key k
  Matched,         \* Matched[t]: the tags that contain t, so that a search for t hits them
  TasksDelivered   \* whether tasks.publish_real is ever delivered

ASSUME RealPublishAssumption ==
  /\ Keys # {}
  /\ TagOf \in [Keys -> Tags]
  /\ Matched \in [Tags -> SUBSET Tags]
  /\ \A t \in Tags : t \in Matched[t]
  /\ TasksDelivered \in BOOLEAN

VARIABLES
  attempt,   \* attempt[k]: PublicationAttempt.result of key k, "none" before the insert
  row,       \* row[k]: the PublishedAd row of key k
  steps,     \* steps[k]: the meta_node_ids in the PublicationStep rows of key k
  run,       \* run[p]: the local state of an execution
  meta,      \* the resources that exist in the ad account
  live,      \* the ads whose configured status at Meta is ACTIVE
  underway,  \* the executions whose create was sent and got no answer, as long as
             \* Meta has not applied it
  unseen,    \* history: resources whose create was applied and never answered
  excused    \* history: tags for which a search missed a resource that existed or was
             \* underway, or for which two executions were at work at once

dbVars   == <<attempt, row, steps>>
metaVars == <<meta, live, underway, unseen, excused>>
vars     == <<attempt, row, steps, run, meta, live, underway, unseen, excused>>

-----------------------------------------------------------------------------
(* Data.                                                                    *)

Kinds   == {"campaigns", "adsets", "adcreatives", "ads"}
Results == {"none", "rejected", "in_progress",
            "published", "failed", "requires_manual_review"}
States  == {"none", "validated", "completed", "failed", "requires_manual_review"}
Statuses == {"none", "PAUSED", "ACTIVE", "failed", "requires_manual_review"}
Places  == {"idle", "insert", "upload", "find", "create", "status", "save",
            "done", "dead"}
Working == {"upload", "find", "create", "status", "save"}

NoId  == 0
NoIds == [kind \in Kinds |-> NoId]
Row   == [workflow : States, status : Statuses, ids : [Kinds -> Nat]]
NoRow == [workflow |-> "none", status |-> "none", ids |-> NoIds]
Resource == [id : Nat, kind : Kinds, tag : Tags, uses : SUBSET Nat]

Local == [at : Places, key : Keys, task : BOOLEAN, kind : Kinds,
          got : [Kinds -> Nat], loaded : Row, was : Results,
          outcome : States \ {"validated"}, keepIds : BOOLEAN]

Tag(p) == TagOf[run[p].key]

\* Mutant: the search forgets to compare the names.
MatchesAnyName(kind, tag) == {o \in meta : o.kind = kind}

\* The resources of a kind whose name contains a tag.
Matches(kind, tag) == {o \in meta : o.kind = kind /\ o.tag \in Matched[tag]}

\* The creates that a search for the tag would hit if they were applied by now.
Coming(kind, tag) == {q \in underway : run[q].kind = kind /\ Tag(q) \in Matched[tag]}

\* What a new resource refers to: an ad set its campaign, an ad its ad set and creative.
UsedBy(kind, got) ==
  CASE kind = "adsets" -> {got["campaigns"]}
    [] kind = "ads"    -> {got["adsets"], got["adcreatives"]}
    [] OTHER           -> {}

\* The ids an execution has learned so far.
Learned(p) == {run[p].got[kind] : kind \in Kinds} \ {NoId}

\* History: execution p of key k starts while another one with its tag is at work.
Overlap(p, k) ==
  excused' = IF \E q \in Runs \ {p} : run[q].at \in Working /\ Tag(q) = TagOf[k]
             THEN excused \cup {TagOf[k]} ELSE excused

\* Ids are handed out by Meta; all that matters is that they are new.
Fresh(id) == /\ id # NoId
             /\ \A o \in meta : o.id # id
             /\ id = Cardinality(meta) + 1

-----------------------------------------------------------------------------
(* publish_real: the request before the first commit.                       *)

\* The context builder looks the key up; an existing attempt is a safe retry,
\* whose stored result is returned whatever it is, unless it is older than the TTL:
\* then the lookup does not see it.
Check(p, k) ==
  /\ run[p].at = "idle"
  /\ \E place \in {"insert", "done"} :
       /\ attempt[k] = "none" => place = "insert"
       /\ run' = [run EXCEPT ![p] = [@ EXCEPT !.key = k, !.at = place]]
  /\ UNCHANGED <<dbVars, metaVars>>

\* Mutant: no unique constraint on the key.
InsertAnyway(p) ==
  LET k == run[p].key
      new == [workflow |-> "validated", status |-> "PAUSED", ids |-> NoIds]
  IN  /\ run[p].at = "insert"
      /\ attempt' = [attempt EXCEPT ![k] = "in_progress"]
      /\ row' = [row EXCEPT ![k] = new]
      /\ run' = [run EXCEPT ![p] =
           [@ EXCEPT !.at = "upload", !.loaded = new, !.was = "in_progress"]]
      /\ UNCHANGED <<steps, metaVars>>

\* Both rows are inserted and committed; the unique constraints on the key admit
\* one insert, so a request that lost the race rolls back with an IntegrityError.
Insert(p) ==
  LET k == run[p].key
      new == [workflow |-> "validated", status |-> "PAUSED", ids |-> NoIds]
  IN  /\ run[p].at = "insert"
      /\ attempt[k] = "none"
      /\ attempt' = [attempt EXCEPT ![k] = "in_progress"]
      /\ row' = [row EXCEPT ![k] = new]
      /\ run' = [run EXCEPT ![p] =
           [@ EXCEPT !.at = "upload", !.loaded = new, !.was = "in_progress"]]
      /\ Overlap(p, k)
      /\ UNCHANGED <<steps, meta, live, underway, unseen>>

\* A guard blocks the request: a rejected attempt is inserted and the key is used up.
Reject(p) ==
  /\ run[p].at = "insert"
  /\ attempt[run[p].key] = "none"
  /\ attempt' = [attempt EXCEPT ![run[p].key] = "rejected"]
  /\ run' = [run EXCEPT ![p].at = "done"]
  /\ UNCHANGED <<row, steps, metaVars>>

InsertConflict(p) ==
  /\ run[p].at = "insert"
  /\ attempt[run[p].key] # "none"
  /\ run' = [run EXCEPT ![p].at = "done"]
  /\ UNCHANGED <<dbVars, metaVars>>

\* tasks.publish_real loads the attempt and its row and runs the publisher again,
\* without looking at the attempt's result.
Deliver(p, k) ==
  /\ TasksDelivered
  /\ run[p].at = "idle"
  /\ attempt[k] \notin {"none", "rejected"}
  /\ run' = [run EXCEPT ![p] =
       [@ EXCEPT !.at = "upload", !.key = k, !.task = TRUE,
                 !.loaded = row[k], !.was = attempt[k]]]
  /\ Overlap(p, k)
  /\ UNCHANGED <<dbVars, meta, live, underway, unseen>>

-----------------------------------------------------------------------------
(* RealPublisher.publish.                                                   *)

\* Mutant: only the campaign is looked up before it is created.
AdvanceBlindly(r, kind, id) ==
  LET has == [r EXCEPT !.got[kind] = id]
  IN  CASE kind = "campaigns"   -> [has EXCEPT !.at = "create", !.kind = "adsets"]
        [] kind = "adsets"      -> [has EXCEPT !.at = "create", !.kind = "adcreatives"]
        [] kind = "adcreatives" -> [has EXCEPT !.at = "create", !.kind = "ads"]
        [] OTHER                -> [has EXCEPT !.at = "status"]

\* Where an execution goes with the id of a step that succeeded.
Advance(r, kind, id) ==
  LET has == [r EXCEPT !.got[kind] = id]
  IN  CASE kind = "campaigns"   -> [has EXCEPT !.at = "find", !.kind = "adsets"]
        [] kind = "adsets"      -> [has EXCEPT !.at = "find", !.kind = "adcreatives"]
        [] kind = "adcreatives" -> [has EXCEPT !.at = "find", !.kind = "ads"]
        [] OTHER                -> [has EXCEPT !.at = "status"]

\* Mutant: a failure gets a state that is none of the workflow's.
FailedOddly(r, recoverable) ==
  [r EXCEPT !.at = "save", !.keepIds = FALSE,
            !.outcome = IF recoverable THEN "error" ELSE "requires_manual_review"]

\* _fail: the result carries no Meta ids, whichever steps had succeeded.
Failed(r, recoverable) ==
  [r EXCEPT !.at = "save", !.keepIds = FALSE,
            !.outcome = IF recoverable THEN "failed" ELSE "requires_manual_review"]

Upload(p) ==
  /\ run[p].at = "upload"
  /\ \/ run' = [run EXCEPT ![p] = [@ EXCEPT !.at = "find", !.kind = "campaigns"]]
     \/ \E recoverable \in BOOLEAN : run' = [run EXCEPT ![p] = Failed(@, recoverable)]
  /\ UNCHANGED <<dbVars, metaVars>>

\* find_by_idempotency_tag returns the first match of the page it reads.
Reconcile(p) ==
  /\ run[p].at = "find"
  /\ \E o \in Matches(run[p].kind, Tag(p)) :
       run' = [run EXCEPT ![p] = Advance(@, run[p].kind, o.id)]
  /\ UNCHANGED <<dbVars, metaVars>>

\* It returns None when nothing matches, and also when the request fails (the
\* exception is swallowed) or the match is not among the 50 items it reads.  What
\* Meta has not applied yet it cannot see.
FindNothing(p) ==
  /\ run[p].at = "find"
  /\ run' = [run EXCEPT ![p].at = "create"]
  /\ excused' = IF Matches(run[p].kind, Tag(p)) \cup Coming(run[p].kind, Tag(p)) = {}
                THEN excused ELSE excused \cup {Tag(p)}
  /\ UNCHANGED <<dbVars, meta, live, underway, unseen>>

\* What the create of execution p makes at Meta.
Makes(p, id) ==
  /\ Fresh(id)
  /\ meta' = meta \cup {[id |-> id, kind |-> run[p].kind, tag |-> Tag(p),
                         uses |-> UsedBy(run[p].kind, run[p].got)]}

\* The create is applied and answered.
Create(p) ==
  /\ run[p].at = "create"
  /\ \E id \in 1..(Cardinality(meta) + 1) :
       /\ Makes(p, id)
       /\ run' = [run EXCEPT ![p] = Advance(@, run[p].kind, id)]
  /\ UNCHANGED <<dbVars, live, underway, unseen, excused>>

\* No answer to the create that says what became of it (a timeout, a 5xx, a body
\* without id): the step fails as recoverable, and Meta applies the create or not.
CreateLost(p) ==
  /\ run[p].at = "create"
  /\ run' = [run EXCEPT ![p] = Failed(@, TRUE)]
  /\ underway' = underway \cup {p}
  /\ UNCHANGED <<dbVars, meta, live, unseen, excused>>

\* Meta applies a create that nobody waits for any more, however late.
Land(p) ==
  /\ p \in underway
  /\ \E id \in 1..(Cardinality(meta) + 1) : Makes(p, id) /\ unseen' = unseen \cup {id}
  /\ underway' = underway \ {p}
  /\ UNCHANGED <<dbVars, run, live, excused>>

\* The create is not applied: a connection that fails is recoverable; an expired
\* token, a missing permission and a policy rejection are not.
CreateRefused(p) ==
  /\ run[p].at = "create"
  /\ \E recoverable \in BOOLEAN : run' = [run EXCEPT ![p] = Failed(@, recoverable)]
  /\ UNCHANGED <<dbVars, metaVars>>

\* The last step reads the ad's status: an ad found ACTIVE needs a manual review
\* and keeps its ids; a read that fails drops them.
CheckStatus(p) ==
  /\ run[p].at = "status"
  /\ \/ run' = [run EXCEPT ![p] =
          [@ EXCEPT !.at = "save", !.keepIds = TRUE,
                    !.outcome = IF run[p].got["ads"] \in live
                                THEN "requires_manual_review" ELSE "completed"]]
     \/ run' = [run EXCEPT ![p] = Failed(@, TRUE)]
  /\ UNCHANGED <<dbVars, metaVars>>

-----------------------------------------------------------------------------
(* The second commit.  The ORM writes a column only when its new value      *)
(* differs from the one the session loaded.                                 *)

Flush(stored, loaded, new) == IF new # loaded THEN new ELSE stored

\* Mutant: everything that did not fail counts as published.
ResultUnlessFailed(state) == IF state = "failed" THEN state ELSE "published"

ResultOf(state) == IF state = "completed" THEN "published" ELSE state

\* Mutant: the ids are not copied from the result to the row.
SavedRowWithoutIds(stored, r) ==
  [workflow |-> r.outcome,
   status   |-> IF r.outcome = "completed" THEN "PAUSED" ELSE r.outcome,
   ids      |-> stored.ids]

SavedRow(stored, r) ==
  LET ids    == IF r.keepIds THEN r.got ELSE NoIds
      status == IF r.outcome = "completed" THEN "PAUSED" ELSE r.outcome
  IN  [workflow |-> Flush(stored.workflow, r.loaded.workflow, r.outcome),
       status   |-> Flush(stored.status, r.loaded.status, status),
       ids      |-> [kind \in Kinds |->
                       Flush(stored.ids[kind], r.loaded.ids[kind], ids[kind])]]

\* Mutant: the step rows are written only for a publication that succeeded.
SaveStepsOfSuccess(p) ==
  LET k == run[p].key
  IN  /\ run[p].at = "save"
      /\ attempt' = [attempt EXCEPT ![k] = ResultOf(run[p].outcome)]
      /\ row' = [row EXCEPT ![k] = SavedRow(@, run[p])]
      /\ steps' = IF run[p].keepIds THEN [steps EXCEPT ![k] = @ \cup Learned(p)] ELSE steps
      /\ run' = [run EXCEPT ![p].at = "done"]
      /\ UNCHANGED metaVars

\* Mutant: the result of a failure is not written to the attempt.
SaveSuccessOnly(p) ==
  LET k == run[p].key
  IN  /\ run[p].at = "save"
      /\ attempt' = [attempt EXCEPT ![k] = IF run[p].outcome = "completed"
                                          THEN "published" ELSE @]
      /\ row' = [row EXCEPT ![k] = SavedRow(@, run[p])]
      /\ steps' = [steps EXCEPT ![k] = @ \cup Learned(p)]
      /\ run' = [run EXCEPT ![p].at = "done"]
      /\ UNCHANGED metaVars

Save(p) ==
  LET k == run[p].key
  IN  /\ run[p].at = "save"
      /\ attempt' = [attempt EXCEPT
           ![k] = Flush(@, run[p].was, ResultOf(run[p].outcome))]
      /\ row' = [row EXCEPT ![k] = SavedRow(@, run[p])]
      /\ steps' = [steps EXCEPT ![k] = @ \cup Learned(p)]
      /\ run' = [run EXCEPT ![p].at = "done"]
      /\ UNCHANGED metaVars

\* An execution that dies while it waits for the answer to a create has sent it, or not.
Abandons(p) == \/ UNCHANGED underway
               \/ run[p].at = "create" /\ underway' = underway \cup {p}

\* The process dies, or the request fails outside the publisher: what was not
\* committed is gone.
Crash(p) ==
  /\ run[p].at \in Working \cup {"insert"}
  /\ run' = [run EXCEPT ![p].at = "dead"]
  /\ Abandons(p)
  /\ UNCHANGED <<dbVars, meta, live, unseen, excused>>

\* An exception inside the task marks the attempt failed and nothing else.
TaskError(p) ==
  /\ run[p].at \in Working
  /\ run[p].task
  /\ attempt' = [attempt EXCEPT ![run[p].key] = "failed"]
  /\ run' = [run EXCEPT ![p].at = "dead"]
  /\ Abandons(p)
  /\ UNCHANGED <<row, steps, meta, live, unseen, excused>>

-----------------------------------------------------------------------------
(* The owner, in one step each; AdLifecycle has the detail.                 *)

Activate(k) ==
  /\ row[k].workflow = "completed"
  /\ row[k].ids["ads"] # NoId
  /\ live' = live \cup {row[k].ids["ads"]}
  /\ row' = [row EXCEPT ![k].status = "ACTIVE"]
  /\ UNCHANGED <<attempt, steps, run, meta, underway, unseen, excused>>

Pause(k) ==
  /\ row[k].ids["ads"] # NoId
  /\ live' = live \ {row[k].ids["ads"]}
  /\ row' = [row EXCEPT ![k].status = "PAUSED"]
  /\ UNCHANGED <<attempt, steps, run, meta, underway, unseen, excused>>

-----------------------------------------------------------------------------

Init ==
  /\ attempt = [k \in Keys |-> "none"]
  /\ row = [k \in Keys |-> NoRow]
  /\ steps = [k \in Keys |-> {}]
  /\ run = [p \in Runs |->
              [at |-> "idle", key |-> CHOOSE k \in Keys : TRUE, task |-> FALSE,
               kind |-> "campaigns", got |-> NoIds, loaded |-> NoRow, was |-> "none",
               outcome |-> "none", keepIds |-> FALSE]]
  /\ meta = {}
  /\ live = {}
  /\ underway = {}
  /\ unseen = {}
  /\ excused = {}

\* What an execution does by itself once it was started.
Step(p) == \/ Insert(p) \/ Reject(p) \/ InsertConflict(p)
           \/ Upload(p) \/ Reconcile(p) \/ FindNothing(p)
           \/ Create(p) \/ CreateLost(p) \/ CreateRefused(p)
           \/ CheckStatus(p) \/ Save(p)

Next == \/ \E p \in Runs : \/ \E k \in Keys : Check(p, k) \/ Deliver(p, k)
                           \/ Step(p)
                           \/ Crash(p)
                           \/ TaskError(p)
                           \/ Land(p)
        \/ \E k \in Keys : Activate(k) \/ Pause(k)

\* Every call has a timeout, so a run that is alive takes its next step; callers,
\* deliveries, crashes, late creates and owners are free.
Fairness == \A p \in Runs : WF_vars(Step(p))

Spec == Init /\ [][Next]_vars /\ Fairness

-----------------------------------------------------------------------------
(* Properties.                                                              *)

\* Every variable has its type.
TypeOK ==
  /\ attempt \in [Keys -> Results]
  /\ row \in [Keys -> Row]
  /\ steps \in [Keys -> SUBSET Nat]
  /\ run \in [Runs -> Local]
  /\ meta \subseteq Resource
  /\ live \subseteq Nat
  /\ underway \subseteq Runs
  /\ unseen \subseteq Nat
  /\ excused \subseteq Tags

\* However requests with one key interleave between the lookup and the insert, at
\* most one of them ever drives the publisher (publish_real, the unique constraint).
OneHandlerPerKey ==
  \A p, q \in Runs :
    /\ p # q
    /\ run[p].at \in Working /\ ~run[p].task
    /\ run[q].at \in Working /\ ~run[q].task
    => run[p].key # run[q].key

\* id is a resource of the kind that a search for the tag may return.
Exists(id, kind, tag) == \E o \in Matches(kind, tag) : o.id = id

\* Without task deliveries, an attempt reported as published has a completed row
\* with five ids, all of resources that exist at Meta under a matching tag.
PublishedIsReal ==
  ~TasksDelivered =>
    \A k \in Keys : attempt[k] = "published" =>
      /\ row[k].workflow = "completed"
      /\ \A kind \in Kinds : Exists(row[k].ids[kind], kind, TagOf[k])

\* No search for one key's tag can return a resource made for another key.
KeysApart ==
  \A k, l \in Keys : k # l => Matched[TagOf[k]] \cap Matched[TagOf[l]] = {}

\* Keys whose tags stay apart never share an ad: what one publish reports as its own was
\* not made for another creative (the tag written into the names, the search by substring).
DistinctAds ==
  KeysApart =>
    \A k, l \in Keys : k # l /\ row[k].ids["ads"] = row[l].ids["ads"]
                          => row[k].ids["ads"] = NoId

\* Without task deliveries, the ids recorded for a published attempt form one chain: the
\* ad belongs to the recorded ad set and creative, the ad set to the recorded campaign.
RecordedChain ==
  ~TasksDelivered /\ KeysApart =>
    \A k \in Keys : attempt[k] = "published" =>
      \A o \in meta : \A kind \in Kinds :
        o.id = row[k].ids[kind] => o.uses = UsedBy(kind, row[k].ids)

\* A second resource of one kind under one tag has a cause outside the control of the
\* reconciliation: a search that overlooked the first, a search made while the create
\* of the first was still underway, or two executions at once.  Replies lost and
\* executions that died before such a search never duplicate.
NoDuplicateWithoutCause ==
  \A a, b \in meta : a # b /\ a.kind = b.kind /\ a.tag = b.tag => a.tag \in excused

\* Re-executing a publication never duplicates a campaign, ad set, creative or ad
\* (docs/PHASE6_PLAN.md:167-170).
ReexecutionNeverDuplicates ==
  \A a, b \in meta : a # b /\ a.kind = b.kind => a.tag # b.tag

\* No resource whose id the code was told is forgotten: it is in a step row, or in
\* the hands of an execution that is at work or has died.
NothingForgotten ==
  \A o \in meta : \/ o.id \in unseen
                  \/ \E k \in Keys : o.id \in steps[k]
                  \/ \E p \in Runs : /\ run[p].at \in Working \cup {"dead"}
                                     /\ o.id \in Learned(p)

\* An attempt in progress gets its final result, unless the process that owned it
\* died: then nothing in the code ever settles it.
AttemptsSettle ==
  \A k \in Keys :
    attempt[k] = "in_progress"
      ~> (attempt[k] # "in_progress" \/ \E p \in Runs : run[p].key = k /\ run[p].at = "dead")

=============================================================================
