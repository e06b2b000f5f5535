# Verification of Creative Loop

Creative Loop generates ad creatives, has them approved, publishes them to Meta through
the Marketing API, compares them in experiments, and starts the next round from what it
learned.  It is a FastAPI service on an SQL database (SQLAlchemy, one session per request,
no explicit locks), with Celery tasks and a Next.js front end.  This directory holds TLA+
modules that model its core, the TLC configurations that check them, and proofs that TLAPS
checks.  Paths below are relative to the repository; `app/` stands for `apps/api/app/`.

Run from this directory:

    tlc -workers 2 -config MCRealPublish_requests.cfg MCRealPublish     # and the other cfgs
    tlapm AdLifecycle_proofs.tla
    tlapm RealPublish_proofs.tla                                        # and the other _proofs

`PROJECT.json` lists the runs, the lines of code each definition stands for (`map`), the
hazards, the findings, the theorems and the mutants.

## 1. Inventory

Part | State | Operations | Talks to
---- | ----- | ---------- | --------
Publication gate and dry run (`app/services/publication_service.py`, `publication_guards.py`) | `PublicationAttempt` (unique per organisation and key), `PublishedAd` (key unique over all organisations), drafts | `dry_run`, the first part of `publish_real`, drafts | creatives, approvals and checks (read), the real publisher
Real publisher (`packages/meta_client/publish/`, `write_transport.py`, `app/worker/tasks/publish_task.py`) | `PublicationAttempt.result`, `PublishedAd`, `PublicationStep`; campaigns, ad sets, creatives and ads at Meta | upload, resolve campaign and ad set, create creative and ad, check status; task `tasks.publish_real` | Meta
Ad lifecycle (`publication_service.py`: activate, pause, refresh_status) | status columns of `PublishedAd`, `AuditLog`; the ad at Meta | activate, pause, emergency pause, refresh | Meta
Creative review (`app/routers/creatives.py`) | `GeneratedCreative.status`, `Approval`, `QualityCheck`, `PolicyCheck` | run checks, approve with override, reject | gate (which reads them)
Creative generation (`creative_service.py`, `dedup.py`, `derivative_service.py`) | creatives, files, audit | generate, dedupe, derive formats | image API, storage
Experiments (`experiment_service.py`, `packages/experiment_engine/guards.py`) | `Experiment.status` | create, start, stop, complete | evaluation
Evaluation (`evaluation_service.py`, `decision_service.py`, `packages/experiment_engine/evaluator.py`) | `ExperimentEvaluation`, `Experiment.status` and `evaluation_state` | evaluate | snapshots, learnings
Learnings and next round (`learning_service.py`, `next_round_service.py`) | `Learning.status`, `ExperimentSuggestion`, prompt versions | confirm, reject, suggest, approve | prompts, experiments
Metric collection (`metric_collection_service.py`, `worker/tasks/experiment_tasks.py`) | metric snapshots and their maturation | collect, mature | Meta, evaluation
Meta import (`meta_import.py`, `worker/tasks/meta_tasks.py`, `routers/sync.py`) | `MetaSyncRun`, imported campaigns, ad sets, ads, insights | sync, fail | Meta
Prompts and analysis (`prompt_service.py`, `analysis_service.py`, `retrieval_service.py`) | prompt versions, analyses | draft, analyse | language model
Quality and policy engines (`packages/quality_engine`, `packages/policy_engine`) | none | pure predicates | creative review
Reports, storage, API clients, web front end | none of their own that others depend on | | everything

What is hard in it, in all parts: a request reads rows, awaits a network call, and commits
values computed from what it read; nothing is locked; unique constraints are the only
arbiter; most processes commit in two or more transactions with calls to Meta between
them, and die in between; a call to Meta can be applied and its reply lost, or be applied
long after the transport gave up on it.

What makes the parts correct:

* **Gate**: a key is used once per organisation, and answers only for the payload it was
  used with; a key is never published by two organisations; attempts are final; the daily
  limit bounds the simulations of a day.
* **Real publisher**: one execution per key from requests; "published" only when every
  resource exists and they belong together; a second resource for one tag only where the
  reconciliation could not see the first; ids that were learned are not lost; attempts
  settle.
* **Ad lifecycle**: the row says ACTIVE exactly when Meta does, unless something from
  outside disturbed the two; nothing is ACTIVE without an audit; a flag for review stays.
* **Creative review and generation**: what passes the gate was approved and has no open
  check; the status is that of the last decision; a row that says its image is stored has
  the file; an image is not stored twice.
* **Experiments, evaluation, metric collection**: a stopped experiment stays stopped; the
  state shown is that of the latest evaluation; a winner has evidence behind it; a window
  has one snapshot per variant; an experiment whose window is over leaves "running".
* **Learnings, next round, prompts, analyses**: one review per learning and suggestion, one
  pending suggestion per experiment, one prompt version per number, one unforced analysis
  per input.
* **Meta import**: every row is accounted for by the sync that created it; success means
  complete; data does not go backwards; a sync ends.

Where concurrent handlers break one of these, the property checked says exactly by how much
or under which circumstances, and nothing more is allowed.

The hazards, with the line where each bites and the properties that watch it, are in
`PROJECT.json`.

## 2. Modules

Module | Models
------ | ------
`PublishOnce` | abstract: what a real publication promises per idempotency key
`RealPublish` | `publish_real` after its guards, `RealPublisher`, the task, Meta
`RealPublishOnce` | the refinement mapping from `RealPublish` to `PublishOnce`
`MCRealPublish` | instances for TLC
`RealPublish_proofs` | theorems about `RealPublish`
`RealPublishOnce_proofs` | theorems about the ids of `RealPublish`, and its refinement of `PublishOnce`
`AdLifecycle` | `activate`, `pause`, `refresh_status`, Meta's review, the Ads Manager
`MCAdLifecycle` | instances for TLC
`AdLifecycle_proofs` | theorems about `AdLifecycle`
`PublishGate` | lookup, guards, inserts, unique constraints, TTL, daily limit
`MCPublishGate` | instances for TLC
`PublishGate_proofs` | theorems about `PublishGate`
`CreativeReview` | generation pipeline, checks, approval, override, rejection, what the gate reads
`MCCreativeReview` | instances for TLC
`CreativeReview_proofs` | theorems about `CreativeReview`
`Evaluator` | the experiment guards and the decision rules, as operators
`ExperimentLifecycle` | status, evaluation, daily task, metric collection of one experiment
`MCExperimentLifecycle` | instances for TLC
`ExperimentLifecycle_proofs` | theorems about `ExperimentLifecycle`
`NextRound` | learnings, suggestions, prompt versions, analyses
`MCNextRound` | instances for TLC
`NextRound_proofs` | theorems about `NextRound`
`MetaImport` | concurrent syncs of one ad account into the database
`MCMetaImport` | instances for TLC
`MetaImport_proofs` | theorems about `MetaImport`

### RealPublish

`attempt[k]`, `row[k]` and `steps[k]` are the three tables, by key; `meta` is the set of
resources at Meta, each with the tag in its name and the resources it refers to; `run[p]`
is an execution of the publisher: an HTTP request or a delivery of the Celery task.  Every
network call is one action, as is each of the two commits.

Code | Action
---- | ------
lookup of the key, safe retry | `Check` (a key past the TTL is not seen)
gate failure | `Reject`
two inserts and first commit; `IntegrityError` | `Insert`, `InsertConflict`
`tasks.publish_real`, its failure path | `Deliver`, `TaskError`
`_upload_image` | `Upload`
`find_by_idempotency_tag` that finds; that does not, or fails | `Reconcile`, `FindNothing`
create answered; not applied; given up on | `Create`, `CreateRefused`, `CreateLost`
(Meta applies a create that was given up on) | `Land`
`_check_status` | `CheckStatus`
second commit, with the ORM writing changed columns only | `Save`
process death | `Crash`

Abstractions: the payload of a key is the same in every run (`PublishGate` has
payloads); the image hash is left out, images having no identity at Meta; a rejection by
a guard is a free choice; the TTL makes a lookup blind to an attempt at any time; a tag
is a model value, and `Matched` says which tags contain it as a substring.  `unseen` and
`excused` are history variables: they record which replies were lost and which tags had
a search that missed something or two executions at once.

The transport gives up on a create after a timeout (`write_transport.py:254`), and a
process may die while it waits for an answer.  Such a create is in `underway`: `Land`
applies it, at once, after the outcome was committed, next to a re-execution, or never.
In `PublishOnce` it is `pending`: its key can only be answered "failed", or not at all, and
its resource is the one thing that may still be added (`Lose`, `Arrive`).

### AdLifecycle

`row` is the `PublishedAd`, `meta` the ad at Meta, `underway` the statuses of calls that
timed out and may still arrive, `run[p]` a handler that serves one request after another.
`Load` is the router's select and the service's checks, `Call` the call for a change and
`Read` the one for a refresh, `Commit` the commit with both audit rows; `Flush` writes the
columns that differ from those loaded, as SQLAlchemy does.  `Land`, `SwitchAd`,
`SwitchParents` and `Review` are Meta and the people in the Ads Manager.  The values of
`effective_status` are collapsed to the three the code tells apart, so that a column
which changes from one inactive value to another counts as unchanged; `underway` is a set,
since only the presence of a late call matters; `audited` stands for the existence of a
successful `activate_result` row.  `disturbed` is a history variable.

### PublishGate

`attempt[o][k]` and `ad[k]` are the tables with their different unique constraints, `now`
is the clock, `run[p]` a handler.  `LookUp` is the lookup of the key, `Guard` the count and
the guards, and every outcome of `dry_run` and of the start of `publish_real` is an action.
The statements between the lookup and the inserts are separate steps.  The guards on
budget, approval, landing URL and configuration are one free verdict; the published,
failed and reviewed results are one, `"settled"`, because `RealPublish` has them.

This is the service as written.  At this commit `POST /publish/meta` reads
`creative.image_data` (`app/routers/publish.py:325`), an attribute `GeneratedCreative` does
not have, before it calls `publish_real`, and nothing dispatches `tasks.publish_real`:
`PublishGate` and `RealPublish` say what the two do once they are reached.

### CreativeReview

`creative`, `checks` and `decision` are the tables, `files` the object store, which is not
part of any transaction.  `run[p]` is a handler; `Load...` is what it reads first.

Code | Action
---- | ------
`CreativeService.generate`: the provider's images | `LoadGenerate`
`find_duplicate_hash` | `LookUp`
put of the original in the store | `Store`
engines, row, checks, commit of an image | `Insert`
`run_quality`, `run_policy` requests | `Recheck`
`approve`: load, blocked checks, override and commit | `LoadDecision`, `ReadBlocked`, `Approve`
`reject`; with a variation | `Reject`, `RequestVariation`
what the gate reads, then the insert of the attempt | `LoadPublish`, `Gate`, `Publish`
refusal, error, process death | `Abort`

Kept from the code: approve and reject ask nothing of the status, so that a queued
variation without an image can be approved; a rejection leaves the earlier approval in
the table, which is all the gate's approval check looks for; a status equal to the
loaded one is not written; a second check adds open rows and leaves the status alone.
Passed checks have no effect on anything and are left out; so are formats derived from
the original, whose failure is logged and ignored.  Not in the model because they end
the request with nothing changed: a refusal by the provider (the row made for it has no
`creative_id`, which the database refuses, `creative_service.py:473`), and the audit row
of a successful generation (flushed after the last commit and lost,
`creative_service.py:502`).  `attempt` remembers what the last publication had read,
`overlapped` which creatives two decisions overlapped on.

### Evaluator and ExperimentLifecycle

`Evaluator` has no variables.  A difference is counted in halves of `min_difference`; a
confidence by the threshold it reaches.  `Design` and `Blocked` are the guards of
`guards.py`, `Conclusion` and `EvaluationState` the rules of `evaluate_experiment`.
`Results` are the numbers the statistics may deliver.  They are left open further than one
would expect: the quadrature of `packages/analytics_engine/stats.py:87` has 300 points over
the unit interval, too few for a large sample, and then the confidence does not follow the
rates at all.  What it computes is real arithmetic, out of TLC's reach; so the model lets
the confidence of a rate or a count be any.

`ExperimentLifecycle` has one experiment, created with any design the guards admit.  `exp`
is its row, `evaluation` the `ExperimentEvaluation` with the greatest `evaluated_at`,
`snap` counts the fresh and the matured snapshots by variant and day.  Each handler is a
`Load...` and a commit: `Start`, `Stop`, `Complete`, `Expire` (the daily task),
`Evaluate`; `Collect` is the hourly collection, with `SelectSnapshot` for each variant
before its commit, and `CollectFails` for an error of the client.  At this commit the real
client fails every time: it does not take an argument it is given
(`metric_collection_service.py:217`); the mock one collects.  A variant without a
published ad at Meta is passed over, and which ones are is left open.  The rows that
mature are selected in the step of the commit.

An evaluation loads the experiment (`LoadEvaluate`), reads the snapshots, concludes and
takes its `evaluated_at` (`Assess`), and commits (`Evaluate`); the verdict is any that
`Evaluator` allows for the variants' matured rows.  The rows are read in the order of
`evaluated_at` (`evaluation_service.py:149`, `next_round_service.py:83`), which need not be
the order of the commits: `order` says which of the evaluations at work took its time
first, and `behind` which of them will commit a row that is not the latest.  The handlers
are taken to have one clock.  `stale` is a history variable.

### NextRound

The four tables of what is reviewed between two rounds, as functions or sequences in the
order of the commits, and handlers that read, decide and commit.

Code | Action
---- | ------
`LearningService.create` | `CreateLearning`
`confirm`, `reject` of a learning | `LoadLearning`, `ReviewLearning`
`approve`, `reject` of a suggestion | `LoadSuggestion`, `ReviewSuggestion`
`NextRoundService.suggest`: guard; retrieval; draft; commit | `LoadSuggest`, `Retrieve`, `DraftVersion`, `Suggest`
`PromptService.generate`, `revise` | `Generate`; `LoadRevise`, `NumberRevision`, `Revise`
`AnalysisService.analyze` | `LoadAnalyze`, `NumberAnalysis`, `Analyze`

Nothing in the schema makes a pending suggestion, a version's number within its template,
or an analysis of one input unique.  What the language model writes is left out.

### MetaImport

`row[k]` is one object of each kind the import handles, with the version of its data, the
sync that stamped it and whether its foreign keys are set; `meta` is the version at Meta.
`run[r]` is an execution of `MetaImportService.run`, which is one transaction after the
commit of its `MetaSyncRun` row (`CreateRun`): it reads a kind (`ReadAccount`,
`ReadPage`), selects (`Select`), writes (`FlushRow`) and goes on to the next kind, and
commits (`CompleteRun`).  A flushed row is locked until its transaction ends (`Holds`, and
not when no column changed, as with an image), which is the only thing that orders syncs;
it works when the account is on the one page that is listed (`listed`), since every sync
then updates the account first.  `FlushConflict` is a unique violation: the session cannot
be used any more, the commit of the failure fails too, and the row stays "running".
`FailRun` commits what was imported before the error, without a rollback.  `Overlook` is a
listing cut short by `max_pages` or a repeated cursor.  One earlier sync is over when the
behaviour begins: it imported everything, or it died.

The table of the ads has no unique constraint on the id at Meta (`models/source_ad.py:16`).
The ad that a sync inserts is a row of its own, and so is the first snapshot of that ad,
whose key is the row: `own` holds both, `FlushOwn` writes them without waiting for anyone,
and the commit makes them the row of the ad or, if there is one already, its twin
(`twins`).  From then on a lookup of the ad finds two rows and raises (`FindsTwins`).
Ads are modelled without a creative: that table has a constraint, which would only make
syncs wait for each other more.

Every definition marked `Mutant:` is a version of the definition below it with a bug that
the code could plausibly have; no action uses one.  They record that each property fails
when that bug is made.

## 3. Runs

Run | Instance | Shows
--- | -------- | -----
`requests` | 3 requests, 2 keys, tags apart, no task, creates that are lost or late | each key is handled once (`OneHandlerPerKey`), published means real (`PublishedIsReal`, `RecordedChain`), ads are not shared (`DistinctAds`), and `RealPublish` implements `PublishOnce`
`redelivery` | 2 executions of one key, task delivered, creates that are lost or late | duplicates have a cause (`NoDuplicateWithoutCause`), ids are kept (`NothingForgotten`), attempts settle (`AttemptsSettle`)
`reexecution` | the same | finding: re-execution can duplicate
`lifecycle` | 2 handlers that never stop | `AgreeUnlessDisturbed`, `ActiveHasAudit`, `FlagSticks`
`flag` | the same | finding: a known activation is flagged
`gate_keys` | 2 handlers, 2 organisations, 3 keys of which one is shared, 2 payloads, limit 1, over midnight | `AnswerIsForPayload`, `AdMatchesAttempt`, `AttemptsAreFinal`, `OvershootIsBounded`
`review` | 2 handlers, 3 creatives, 1 image, 2 images a generation, 2 blocked checks | `PublishedIsApproved`, `StatusIsLastDecision`, `PublishedHasImage`, `RowHasFile`, `DuplicatesBounded`
`experiments` | 2 handlers, a control and a test, 2 days | `RevivedOnlyByOverlap`, `StateIsLatest`, `DuplicatesBounded`, `WinnerNeedsEvidence`, `WindowEnds`
`winner` | 1 handler, a control and two tests | finding: a winner candidate may have no winner
`snapshots` | as `experiments`, without its constraint | finding: a window can have two snapshots of a variant
`rounds` | 2 handlers, 1 learning, 3 suggestions, 4 versions, 3 analyses | `ReviewsBounded`, `PendingBounded`, `VersionsWellFormed`, `UnforcedBounded`
`import` | 2 syncs after an earlier one, 2 versions at Meta, 2 omissions | `RowsAccounted`, `SuccessIsComplete`, `NeverBackwards`, `RunsSettle`

What the properties of the newer runs say:

* `AnswerIsForPayload`, `OvershootIsBounded`: a key answers for its payload; the daily
  limit is exceeded by at most one simulation for every further handler at work at the
  same time.
* `PublishedIsApproved`: a publication needs an approval and no open check; that the
  last decision was no rejection follows only because a rejection sets the status, and
  fails only when two decisions overlapped.
* `RevivedOnlyByOverlap`: a stopped or completed experiment runs again only because of a
  start, an evaluation or the daily task that had loaded it before.
* `NoDuplicateWithoutCause`: two resources of one kind under one tag mean that a search
  missed the first, because the search failed or the create was still underway, or that
  two executions were at work at once.
* `StateIsLatest`: the state shown is that of the evaluation with the greatest
  `evaluated_at`, unless the last evaluation to commit overlapped another: it had loaded
  a state that is gone, or had taken its time before that of a row already there.
* `WinnerNeedsEvidence`: a winner has a controlled design and matured data of every
  variant. It does not have more: `min_conversions` and `min_days` are never looked at,
  although `ARCHITECTURE.md:80` lists `min_days` among the criteria, the guards admit two
  controls, and the 30-day windows of successive days are summed though they overlap.
* `DuplicatesBounded` (twice), `ReviewsBounded`, `PendingBounded`, `UnforcedBounded`:
  what is looked up and then inserted can be there once for each handler, and no more
  often however long the system runs.
* `VersionsWellFormed`: the versions of a template form a history without gaps; the same
  number can be there twice.
* `RowsAccounted`: a partial import belongs to a sync that says so; a sync that stays
  "running" wrote nothing; an ad has a second row only if the account is not listed.
* `SuccessIsComplete`, `NeverBackwards`: with the account listed, success means that
  what Meta had at the beginning is there with its links, and no commit puts older data
  back.

Why the bounds are enough.  Three requests over two keys have two that race for one key
next to one of another; keys interact only through Meta's search and through the unique
constraint on their own row, so a third key adds nothing two do not show.  In this run the
reconciliation has nothing to find, since a key has one handler and no resources before
it, and `CheckStatus` meets no ad that is ACTIVE; `redelivery` is about the
reconciliation.  Each execution makes at most four resources, so the ids are bounded
without a constraint.  For one key two executions interleave in every way; a third could
only repeat what the second does to the first.  The handlers of the other modules are
reusable, so that a run has any number of requests, two at a time; the conflicts in the
code are between pairs.

`gate_keys` has a TTL of 0, so that an attempt expires at the next tick, and three keys,
because with two handlers a limit of one can be exceeded by one, and only a third key
shows it is not exceeded by two.  Its constraint `OneKeyIsShared` lets organisations,
payloads and modes meet under one of the keys; the other two are only simulated, by one
organisation with one payload, which is all the limit needs: keys meet nowhere else.  In
`review` the constraint `OneReviewed` follows decisions and checks of one creative with an
image at a time, and none while there are three; creatives do not interact after their
generation.  A generation of two images of the same content next to another shows the
duplicates that two handlers make; the third creative is the one that would exceed them.
In `rounds` the constraint `Apart` explores analyses, which share no row with the rest, on
their own, histories of three versions without learnings, and those of four with one
suggestion at most.  Three suggestions and analyses show that two handlers do not make a
third duplicate; of versions it takes four, since number 2 has a parent with number 1.  In
`experiments` the window ends on day 0 and a snapshot matures after a day, so that both
happen within two days; its primary metric is the click rate, because the kind of metric
matters only for `Conclusion`.  Its constraint `Bounds` keeps two rows of a variant, which
are the two that overlapping collections make on one day or those of two days; the control
is not passed over before it has one, and a design without a test is controlled, which
loses nothing, since nothing is concluded from it either way.  `winner` has two tests,
since the difference and the confidence of its verdict come from different ones.  `import`
has two syncs at work, which is what the hourly task next to an administrator gives, after
one that imported everything or died.  It takes two omissions, of the campaign and of the
ad set, to let a sync come to an insert of the ad without waiting for another one; so
`Bounds` admits these two together, and any one alone.  The other half of such a pair is
where `InFlight` begins: the earlier sync has inserted the ad and is about to commit.

Symmetry is over handlers, creatives, or interchangeable keys, and is not used in a run
that checks a liveness property.  `CHECK_DEADLOCK FALSE`: executions of `RealPublish`
and `MetaImport` end, and everything else is started by callers who may stop.

Fairness.  `RealPublish`: `WF_vars(Step(p))` for each execution; the transport has a
timeout for every call and a bounded number of retries, so an execution that is alive
takes its next step.  `MetaImport`: `WF_vars(Work(r))` for the same reason, and because
a lock is freed when the transaction that holds it ends.  `ExperimentLifecycle`:
`WF_vars(Work(p))`, and strong fairness of the daily task, as a whole and not for a
handler: the beat sends it every day, so that it finds a free worker again and again,
and not every one of its executions dies.  Callers, deliveries of tasks, crashes,
owners, Meta's review and late calls and creates have none.

## 4. Proofs

`AdLifecycle_proofs` proves for any set of handlers

* `TypeCorrect`: `Spec => []TypeOK`;
* `Agreement`: `Spec => []AgreeUnlessDisturbed`;
* `ActivationsAudited`: `Spec => []ActiveHasAudit`;
* `FlagsSurvive`: `Spec => FlagSticks`.

`AgreeUnlessDisturbed` is not inductive: a commit makes row and Meta agree only because of
what its request did before.  The inductive invariant `IInv` adds two parts to the types.
`Alone`: a change that nobody interfered with is the only change at work, it loaded the
status that is stored, and, once it was answered, Meta has the status it will commit.
`Calm`: while nothing is disturbed, no late call is underway, every change at work is
alone, and the row agrees with Meta unless an answered change has yet to commit.  Each
action disturbs few of these conjuncts, and the proof has one step per action.
`FlagSticks` needs only the types and that `Flush` writes changed columns: no request
assigns `"completed"`, so a request that loaded the row before the flag does not write the
column at all.

The theorems use no assumption about the constant `Runs`.

`RealPublish_proofs` proves, for any executions, keys, tags and relation between tags that
satisfies `RealPublishAssumption` (there is a key, every key has a tag, and a tag matches
itself), with and without task deliveries,

* `TypeCorrect`: `Spec => []TypeOK`;
* `DuplicatesHaveACause`: `Spec => []NoDuplicateWithoutCause`;
* `OneHandler`: `Spec => []OneHandlerPerKey`;
* `NothingIsForgotten`: `Spec => []NothingForgotten`.

Each has its own strengthening.  *Duplicates* (`DuplicateInv`): two executions at work
with one tag have excused it (`Overlapping`), and an execution about to create a kind that
exists under its tag, or may still arrive, has missed it (`Overlooked`); so a create under
a tag without excuse is the first, whether it is answered or lands late.  *Handlers*
(`HandlerInv`): a request at work has an attempt, and no save resets an attempt, so that
nobody else passes the insert.  *Memory* (`MemoryInv`): an execution holds no id yet of
the kinds that remain (`Progress`), so that learning an id overwrites none.  Lemmas named
`...Goes` say once what each step does to its execution.

`RealPublishOnce_proofs` proves, from the same assumption,

* `AdsAreDistinct`: `Spec => []DistinctAds`;
* `PublishedIsTrue`: `Spec => []PublishedIsReal`;
* `RecordIsChained`: `Spec => []RecordedChain`;
* `Implementation`: `~TasksDelivered /\ KeysApart => (Spec => ImplementsPublishOnce)`.

`KeysApart` (no tag is a substring of another key's) and `~TasksDelivered` are hypotheses
about constants, of the properties or of the theorem, and both are meant.  A tag is made
of the first characters of a key, so that tags may meet, and then two keys do share
resources; and nothing dispatches the task at this commit, while `redelivery` and the
finding `reexecution` show what it does once it is delivered.  *Ids* (`IdsInv`): Meta
never gives an id twice, and every id that an execution or a row holds is that of a
resource its search could return.  Tags that are told apart then give `DistinctAds`.
*Owners* (`OwnerInv`): without tasks, an execution at work owns an attempt in progress and
holds an id for every kind it is through with, so that a completed row has five.  *Once*
(`OnceInv`): a key without an attempt has no resources, an execution has not made yet what
it is about to find or create (`Clear`), and each resource refers to the ones held with it
(`Chained`); this is why a create adds a kind that the key does not have, which is the
step `Make` of `PublishOnce`, or `Arrive` if it lands late: without tasks nothing else is
created for a key with a create underway.  Every other step of `RealPublish` maps to
`Begin`, `Refuse`, `Lose`, `Answer` or a stutter.

`PublishGate_proofs` proves, under `PublishGateAssumption` (finitely many handlers, at
least one organisation, key and payload, a limit and a day of at least one),

* `TypeCorrect`: `Spec => []TypeOK`;
* `AttemptsFinal`: `Spec => AttemptsAreFinal`;
* `AnswersAreForPayload`: `Spec => []AnswerIsForPayload`;
* `OneAdPerKey`: `Spec => []AdMatchesAttempt`;
* `DailyLimit`: `Spec => []OvershootIsBounded`.

*Publications* (`PublishInv`): whoever publishes has the attempt in progress to itself.
*Answers* (`AnswerInv`): a handler that was told that its key has an attempt with its
payload is still right when it answers, because attempts are final.  *The limit*
(`LimitInv`): a handler between count and insert occupies a place of its own: the
simulations of the day and the handlers that have passed the count are fewer than the
limit plus the number of handlers, since a handler passes only while the simulations are
below the limit, and its insert swaps one for the other.

`CreativeReview_proofs` proves, for any handlers, creatives, images and bounds that satisfy
`CreativeReviewAssumption` (among them that the handlers are finitely many),

* `TypeCorrect`: `Spec => []TypeOK`;
* `RowsHaveFiles`: `Spec => []RowHasFile`;
* `StatusFollows`: `Spec => []StatusIsLastDecision`;
* `GateIsRespected`: `Spec => []PublishedIsApproved`;
* `ImageOrOverride`: `Spec => []PublishedHasImage`;
* `ImagesAreShared`: `Spec => []DuplicatesBounded`.

*Types* (`TypeInv`): the checks of a creative stay within their bound, a generation has
images left, and every other request is about a creative that exists.
*Files* (`FileInv`): a generation about to insert a row for a new image has put the file
into the store, which nothing takes out.  *Status* (`StatusInv`): two generations are
never about to insert the same creative, so an insert resets no status.  *Gate*
(`GateInv`): what a publication has read of approvals and checks stays true until it
commits, since checks are only added or overridden (`Keeps`) and approvals stay in the
table.  *Images* (`ImageInv`): a row that has an image has it stored or got a check
with it, and a publication past the gate had none of its checks open.  *Duplicates*
(`DuplicateInv`): the rows that store an image and the handlers that are about to insert
one, having found none, are together no more than the handlers.

`ExperimentLifecycle_proofs` proves, under `ExperimentAssumption` (among others: finitely
many handlers) and `EvaluatorAssumption`,

* `TypeCorrect`: `Spec => []TypeOK`;
* `OnlyOverlapRevives`: `Spec => RevivedOnlyByOverlap`;
* `StateFollows`: `Spec => []StateIsLatest`;
* `RowsAreBounded`: `Spec => []DuplicatesBounded`;
* `WinnersHaveEvidence`: `Spec => []WinnerNeedsEvidence`;
* `TwoVariantsWinnerIsStrong`: `TwoVariants => (Spec => []WinnerIsStrong)`.

The strengthening (`TypeInv`): a handler holds an experiment it loaded in a status its
checks admit (`Admitted`), and before the creation nothing is known (`Unknown`).  From
`Admitted`, a commit that writes a live status had loaded one.  The rows of a window are
counted as the rows of an image above (`DuplicateInv`).  `WinnerInv`: a row is marked as
matured when its window is; a controlled design is pure; and what an evaluation under way
has concluded rests on rows that stay.  From a design and its results to the verdict the
lemmas are about `Conclusion`: it names a winner only if the design is controlled and
no variant misses a criterion, that is, if the set of pairs of a variant and a criterion
it misses, whose size is `Total`, is empty.

`TwoVariantsWinnerIsStrong` is the other side of the finding `winner`: with at most two
variants there is one test, and what the docs say of a winner candidate is true.  Its
lemma `OneTestIsStrong` also shows that the sign which is turned twice for metrics of
which less is better names no wrong winner, because those have no confidence.

`NextRound_proofs` proves, under `NextRoundAssumption` (among others: finitely many
handlers, and at least one),

* `TypeCorrect`: `Spec => []TypeOK`;
* `ReviewsAreBounded`: `Spec => []ReviewsBounded`;
* `PendingIsBounded`: `Spec => []PendingBounded`;
* `UnforcedIsBounded`: `Spec => []UnforcedBounded`;
* `VersionsCorrect`: `Spec => []VersionsWellFormed`.

The bounds have one argument.  `Fits(n, holders)` says that the rows there are and the
handlers that have looked, found none and may add one are together no more than the
handlers; a handler enters `holders` only while there are no rows (or no review), and
leaves it with its commit.  `ReviewInv`, `PendingInv` and `UnforcedInv` are this for each
of the tables.  `VersionInv` is this for each number of a template, with two more facts
about a version that a revision is about to insert: its parent is in the table with a
smaller number (`Grounded`), and so are all the numbers below its own (`NoGap`).

`MetaImport_proofs` proves, for any number of syncs and versions under
`MetaImportAssumption`,

* `TypeCorrect`: `Spec => []TypeOK`;
* `OneWriter`: `Spec => []OneHolder`;
* `RowsAreAccounted`: `Spec => []RowsAccounted`;
* `OneAtATime`: `Spec => []OneLeader`;
* `NothingGoesBack`: `Spec => NeverBackwards`;
* `ImportIsComplete`: `Spec => []SuccessIsComplete`.

`TypeInv` adds to the types that a row a sync has loaded is still there (`ReadInv`),
`HeldInv`: whoever has an uncommitted change of a row that a constraint or a lock guards is
the only one, has read a version from Meta, and either inserts a row that is not there or
updates one that is; and `OwnInv`: what it has inserted of an ad of its own.  With
`CountInv` (a sync counts exactly the rows it inserts, its own ad included), `TwinsInv`
(a twin is counted by its own sync only) and `SettledInv` (only a sync that is over has a
final status or counters) `RowsAccounted` is inductive: a commit makes the rows that only
it has counted.  That there is no twin while the account is listed rests on `SyncInv`.

`SyncInv` adds what a sync knows.  `ClockOf`: nothing it has read is older than its
beginning or newer than Meta.  `OrderOf`: it has handled the kinds one after another, so
that a sync past the account (`Leads`) holds the account's row if the account is listed;
by `HeldInv` there is one such sync (lemma `OneLeads`).  `WriteOf`: only a sync past the
account has written anything else.  `HolderOf`: what that sync has read is as new as every
committed row, and what it has loaded is what is committed, because nobody else commits a
row while it leads.  So its commit replaces rows by newer ones, and all columns that
differ are in the update, the links among them.  If the account is not listed there is no
lock, none of this holds, and the theorems promise only that a row stays.

The inductive invariants are not properties of the runs; each held on the instance of its
run when TLC was asked, before it was proved.

Every safety invariant and action property of the passing runs is a theorem.  Liveness
(`AttemptsSettle`, `WindowEnds`, `RunsSettle`) stays with TLC, which is the only one of
the two tools that handles fairness, and so do the counterexamples of section 5.

## 5. Findings

Four are counterexamples of TLC:

1. **Re-execution can duplicate** (`reexecution`).  `docs/PHASE6_PLAN.md:168` says that
   a re-execution never duplicates, because a resource is created only when the
   reconciliation confirms it does not exist.  `find_by_idempotency_tag` returns `None`
   on an error and reads one page of 50, it cannot see a create that Meta has yet to
   apply, and the task does not look at whether the attempt is being executed.
   `NoDuplicateWithoutCause` shows that there is no other cause in the model.
2. **A known activation is flagged** (`flag`).  `refresh_status` compares Meta's answer
   with the status loaded before the call; an activation that commits in between is
   flagged as unexpected, and nothing removes the flag.
3. **A winner candidate without a winner** (`winner`).  The largest difference and the
   largest confidence are taken over all test variants, each on its own, so that an
   experiment can have a winner candidate though no variant reaches both thresholds.
4. **A window with two snapshots** (`snapshots`).  `docs/EXPERIMENTATION.md:23`,
   `ARCHITECTURE.md:112` and others say that a window is never duplicated.  The unique
   constraint has two columns that are NULL, so that two collections which overlap add
   one row each, and the evaluation adds both up.

Six were met while a property was stated, and the property names the circumstance:

5. **A conflict is a server error** (`gate_keys`).  A real publication under a key
   that has another payload should be answered 409 (`docs/META_SETUP.md:182`, and the
   router has that answer ready), but `publish_real` inserts a rejected attempt under
   the key that is taken (`publication_service.py:733`): the insert fails, and so does the
   request, with its audit row (`IntegrityError`).  At this commit the route fails before
   it comes to that (see `PublishGate` above).
6. **A restart loses progress** (`redelivery`, `NothingForgotten`).
   `docs/PHASE6_PLAN.md:200-205` says that each transition is recorded and that a
   restart of the worker loses nothing.  The step rows are written in the second commit
   only, and nothing passes `resume_from`: what an execution that dies had learned is gone.
7. **One input, two analyses** (`rounds`, `UnforcedBounded`).  `ARCHITECTURE.md:348` and
   `IMPLEMENTATION_PLAN.md:131` say that the same inputs return the existing row without
   another charge.  Two handlers can both call the provider, and once there are two rows
   with one hash, which a forced analysis makes as well, the lookup raises
   (`analysis_service.py:241`).
8. **Tags are not unique** (`requests`, `DistinctAds`).  The tag is "short unique"
   (`real_publisher.py:121`), but cut from the key (`publication_service.py:668`) and
   searched as a substring: two keys with a common beginning share resources.
9. **Approval without an image** (`review`, `PublishedHasImage`).  `ARCHITECTURE.md:326`
   lets a creative be approved from two statuses; `approve_creative` asks for none, so
   that a queued variation without image and checks can be approved and published.
10. **An ad with two rows** (`import`, `RowsAccounted`).  "All upserts are keyed on
   (organization_id, external_id)" (`meta_import.py:8`), but `source_ads` has no such
   constraint: when the account is not listed and listings are cut short, two syncs can
   insert one ad, and every later sync fails at it.

## 6. Not modelled

* Drafts of publications (rows only the user reads), budgets and URLs in the guards
  (pure predicates of the request and the settings), authentication.
* `OptimizationDecision` rows (`decision_service.py`): recorded by a user, and read only to
  be listed.
* The anomaly, readiness and report tasks of `experiment_tasks.py`: they write audit rows
  at most.  The daily and weekly reports import a module that does not exist
  (`app.models.organization`), and the queries for anomalous spend and for missing
  conversions ask for windows that no collector writes.
* The checks of the quality and policy engines themselves: `CreativeReview` has what
  they may say.  The confidence computed in `stats.py`: real arithmetic.
* Prompt building, retrieval scores, image and text generation, formats, storage
  clients, reports, seeds, migrations, the front end: no state that others depend on, or
  pure I/O.

## 7. Plan

1. *(done)* The modules of section 2, the runs of section 3, and a proof of each safety
   invariant, action property and refinement that a passing run checks.
2. The inductive invariants that say more than the properties as theorems of their own,
   as `OneWriter` and `OneAtATime` do: the reconciliation's (`DuplicateInv` of
   `RealPublish`) and no work without an attempt (`OwnerInv`).
3. Lemmas about the operators of `Evaluator`: what a better result may change in
   `Conclusion`, for each kind of metric.
