-------------------------- MODULE ExperimentLifecycle --------------------------
(***************************************************************************)
(* One experiment: its status, its evaluations, and the snapshots of its   *)
(* variants' metrics.  Requests of users and the tasks of the beat load    *)
(* the experiment, work, and commit; nothing locks it in between, and only *)
(* columns that differ from the loaded ones are in the UPDATE.             *)
(***************************************************************************)
EXTENDS Evaluator

CONSTANTS
  Runs,         \* handlers: requests and tasks at work at the same time
  Metrics,      \* the kinds of primary metric of the experiments considered
  WindowEnd,    \* the day of window_end
  Maturation,   \* maturation_window_days
  MaxDay        \* bound of the clock

ASSUME ExperimentAssumption ==
  /\ Metrics \subseteq MetricKinds
  /\ WindowEnd \in Nat /\ Maturation \in Nat /\ MaxDay \in Nat /\ IsFiniteSet(Runs)

VARIABLES
  today,       \* the day
  design,      \* the design of the experiment, fixed when it is created
  exp,         \* its row: status and evaluation_state
  evaluation,  \* the ExperimentEvaluation row with the greatest evaluated_at
  order,       \* <<p, q>>: of two evaluations at work, that of p has the earlier evaluated_at
  behind,      \* handlers whose evaluated_at is before that of the latest committed row
  snap,        \* snap[v][d]: the snapshot rows of v whose window ends on day d
  run,         \* the local state of a handler
  stale        \* whether the last commit of an evaluation had loaded another
               \* evaluation_state, or had an evaluated_at before that of the latest row

evalVars == <<evaluation, order, behind, stale>>
vars     == <<today, design, exp, snap, run, evalVars>>

-----------------------------------------------------------------------------

Days     == 0..MaxDay
Statuses == {"none", "draft", "running", "evaluating", "stopped", "completed"}
Over     == {"stopped", "completed"}
Exp      == [status : Statuses, state : EvaluationStates \cup {"none"}]
NoExp    == [status |-> "none", state |-> "none"]

\* per_variant_result is kept as whether some variant reaches both thresholds.
Evaluation   == [state : EvaluationStates \cup {"none"}, strong : BOOLEAN]
NoEvaluation == [state |-> "none", strong |-> FALSE]

Ops   == {"start", "stop", "complete", "evaluate", "expire", "collect"}
Local == [op : Ops \cup {"none"}, loaded : Exp, verdict : Evaluation,
          day : Days, asked : SUBSET Variants, found : SUBSET Variants]
Idle  == [op |-> "none", loaded |-> NoExp, verdict |-> NoEvaluation,
          day |-> 0, asked |-> {}, found |-> {}]

NoDesign == [mode |-> "CONTROLLED", metric |-> "ctr", variants |-> {}, controls |-> {},
             pure |-> TRUE, affordable |-> TRUE]

RowsOn(v, d) == snap[v][d].fresh + snap[v][d].matured

\* Mutant: matured_only is FALSE.
RowsOf(v) == Cardinality({d \in Days : RowsOn(v, d) > 0})

MaturedOf(v) == Cardinality({d \in Days : snap[v][d].matured > 0})

\* A handler that changes the status; it assigns no evaluation_state.
Begin(p, op) ==
  /\ run[p].op = "none"
  /\ run' = [run EXCEPT ![p] = [Idle EXCEPT !.op = op, !.loaded.status = exp.status]]
  /\ UNCHANGED <<today, design, exp, snap, evalVars>>

\* The UPDATE at a commit.
Written(p, new) ==
  [f \in DOMAIN exp |-> IF new[f] = run[p].loaded[f] THEN exp[f] ELSE new[f]]

Ends(p) ==
  /\ run' = [run EXCEPT ![p] = Idle]
  /\ order' = {x \in order : x[1] # p /\ x[2] # p}

Save(p, new) ==
  /\ exp' = Written(p, new)
  /\ Ends(p)
  /\ UNCHANGED <<today, design, snap>>

\* A handler that changes the status saves it.
SaveStatus(p, status) ==
  /\ Save(p, [run[p].loaded EXCEPT !.status = status])
  /\ UNCHANGED <<evaluation, behind, stale>>

-----------------------------------------------------------------------------
(* ExperimentService.                                                       *)

\* The first control is called Control; the order of the variants is theirs.
Create ==
  /\ exp.status = "none"
  /\ \E d \in Design :
       /\ ~Blocked(d)
       /\ d.metric \in Metrics
       /\ d.controls \in {{}, {Control}, Variants} /\ d.controls \subseteq d.variants
       /\ d.mode = "EXPLORATORY" \/ d.variants = {} => d.pure
       /\ design' = d
  /\ exp' = [NoExp EXCEPT !.status = "draft"]
  /\ UNCHANGED <<today, snap, run, evalVars>>

LoadStart(p)    == exp.status = "draft" /\ ~Blocked(design) /\ Begin(p, "start")
LoadStop(p)     == exp.status \notin Over \cup {"none"} /\ Begin(p, "stop")
LoadComplete(p) == exp.status # "none" /\ Begin(p, "complete")

Start(p) ==
  /\ run[p].op = "start"
  /\ SaveStatus(p, "running")

Stop(p) ==
  /\ run[p].op = "stop"
  /\ SaveStatus(p, "stopped")

\* Nothing is asked of the status.
Complete(p) ==
  /\ run[p].op = "complete"
  /\ SaveStatus(p, "completed")

\* Mutant: the comparison with today is the wrong way round.
OverdueBefore == exp.status = "running" /\ today < WindowEnd

\* The daily task moves an experiment on whose window is over.
Overdue == exp.status = "running" /\ WindowEnd < today

LoadExpire(p) == Overdue /\ Begin(p, "expire")

Expire(p) ==
  /\ run[p].op = "expire"
  /\ SaveStatus(p, "evaluating")

-----------------------------------------------------------------------------
(* EvaluationService.evaluate.                                              *)

\* How many criteria the compared variants miss, all together.
Total(missing) == Cardinality({x \in (DOMAIN missing) \X (1..Criteria) : x[2] <= missing[x[1]]})

\* The outcome of an evaluation.
Verdict(missing, results) ==
  [state  |-> EvaluationState(design, Total(missing), results),
   strong |-> Total(missing) = 0 /\ Strong(results) # {}]

\* What the control and the tests may miss, given their matured snapshots.
Misses ==
  LET compared == Tests(design) \cup (IF design.controls = {} THEN {} ELSE {Control})
  IN  {m \in [compared -> 0..Criteria] : \A v \in compared : m[v] \in Lacking(MaturedOf(v))}

\* What the evaluator may say.
Verdicts == {Verdict(x[1], x[2]) : x \in Misses \X [Tests(design) -> Results(design.metric)]}

\* Asked for by a user or by the task that runs every six hours.
LoadEvaluate(p) ==
  /\ run[p].op = "none"
  /\ exp.status \in {"running", "evaluating", "completed"}
  /\ run' = [run EXCEPT ![p] = [Idle EXCEPT !.op = "evaluate", !.loaded = exp]]
  /\ UNCHANGED <<today, design, exp, snap, evalVars>>

\* The handlers that hold a verdict, and with it their evaluated_at.
Assessed == {p \in Runs : run[p].verdict # NoEvaluation}

\* The snapshots are read and judged, and evaluated_at is taken before the commit.
Assess(p) ==
  /\ run[p].op = "evaluate" /\ p \notin Assessed
  /\ \E verdict \in Verdicts : run' = [run EXCEPT ![p].verdict = verdict]
  /\ order' = order \cup (Assessed \X {p})
  /\ UNCHANGED <<today, design, exp, snap, evaluation, behind, stale>>

\* Mutant: the experiment becomes evaluating whatever its status is.
EvaluatedAlways(p) ==
  [run[p].loaded EXCEPT !.state = run[p].verdict.state, !.status = "evaluating"]

\* Mutant: the experiment is only touched while it is running.
EvaluatedRunning(p) ==
  IF run[p].loaded.status = "running"
  THEN [run[p].loaded EXCEPT !.state = run[p].verdict.state, !.status = "evaluating"]
  ELSE run[p].loaded

\* Mutant: the evaluation state goes to the wrong column.
EvaluatedStatus(p) == [run[p].loaded EXCEPT !.status = run[p].verdict.state]

\* What evaluate assigns to the experiment.
Evaluated(p) ==
  [run[p].loaded EXCEPT
     !.state  = run[p].verdict.state,
     !.status = IF @ = "running" THEN "evaluating" ELSE @]

\* The row is appended; it is the latest one unless a later one is already there.
Evaluate(p) ==
  /\ run[p].op = "evaluate" /\ p \in Assessed
  /\ evaluation' = IF p \in behind THEN evaluation ELSE run[p].verdict
  /\ behind' = (IF p \in behind THEN behind
                ELSE behind \cup {q \in Runs : <<q, p>> \in order}) \ {p}
  /\ stale' = (run[p].loaded.state # exp.state \/ p \in behind)
  /\ Save(p, Evaluated(p))

-----------------------------------------------------------------------------
(* MetricCollectionService.collect_for_experiment, every hour.              *)

\* A variant without a published ad that has a Meta id is passed over.
LoadCollect(p) ==
  /\ run[p].op = "none"
  /\ exp.status \in {"running", "evaluating"} /\ design.variants # {}
  /\ \E skipped \in SUBSET design.variants :
       run' = [run EXCEPT ![p] = [Idle EXCEPT !.op = "collect", !.day = today,
                                              !.asked = skipped, !.found = skipped]]
  /\ UNCHANGED <<today, design, exp, snap, evalVars>>

\* Mutant: the lookup compares NULL columns with the empty string.
HasRowNever(v, d) == FALSE

\* The lookup of a variant's row for the window that ends today.
HasRow(v, d) == RowsOn(v, d) > 0

SelectSnapshot(p) ==
  /\ run[p].op = "collect"
  /\ \E v \in design.variants \ run[p].asked :
       run' = [run EXCEPT ![p].asked = @ \cup {v},
                          ![p].found = IF HasRow(v, run[p].day) THEN @ \cup {v} ELSE @]
  /\ UNCHANGED <<today, design, exp, snap, evalVars>>

\* A row is added for every variant that was asked about and had none; the unique constraint lets a
\* second one in because two of its columns are NULL.
Added(p, v, d) == IF d = run[p].day /\ v \in run[p].asked \ run[p].found THEN 1 ELSE 0

\* _update_maturation.
Matures(d) == d + Maturation <= today

\* One commit for all variants.
Collect(p) ==
  /\ run[p].op = "collect" /\ run[p].asked = design.variants
  /\ snap' = [v \in Variants |-> [d \in Days |->
       LET fresh == snap[v][d].fresh + Added(p, v, d)
       IN  IF Matures(d)
           THEN [fresh |-> 0, matured |-> snap[v][d].matured + fresh]
           ELSE [snap[v][d] EXCEPT !.fresh = fresh]]]
  /\ Ends(p)
  /\ UNCHANGED <<today, design, exp, evaluation, behind, stale>>

\* The client raises at a variant that is not passed over.  With the real one that is
\* every time: the call has an argument that its iter_insights does not take.
CollectFails(p) ==
  /\ run[p].op = "collect" /\ run[p].asked # design.variants
  /\ Ends(p)
  /\ UNCHANGED <<today, design, exp, snap, evaluation, behind, stale>>

-----------------------------------------------------------------------------

\* The handler dies and its session is rolled back.
Crash(p) ==
  /\ run[p].op # "none"
  /\ behind' = behind \ {p}
  /\ Ends(p)
  /\ UNCHANGED <<today, design, exp, snap, evaluation, stale>>

NextDay ==
  /\ today < MaxDay
  /\ today' = today + 1
  /\ UNCHANGED <<design, exp, snap, run, evalVars>>

Init ==
  /\ today = 0
  /\ design = NoDesign
  /\ exp = NoExp
  /\ evaluation = NoEvaluation /\ order = {} /\ behind = {}
  /\ snap = [v \in Variants |-> [d \in Days |-> [fresh |-> 0, matured |-> 0]]]
  /\ run = [p \in Runs |-> Idle]
  /\ stale = FALSE

Work(p) ==
  \/ Start(p) \/ Stop(p) \/ Complete(p) \/ Expire(p) \/ Assess(p) \/ Evaluate(p)
  \/ SelectSnapshot(p) \/ Collect(p) \/ CollectFails(p)

Next ==
  \/ Create
  \/ \E p \in Runs :
       \/ LoadStart(p) \/ LoadStop(p) \/ LoadComplete(p) \/ LoadExpire(p)
       \/ LoadEvaluate(p) \/ LoadCollect(p)
       \/ Work(p) \/ Crash(p)
  \/ NextDay

Spec == Init /\ [][Next]_vars

\* A handler that has begun goes on unless it dies, and the beat sends the task that
\* updates the status every day, so it gets its turn among the handlers again and again.
FairSpec ==
  /\ Spec
  /\ \A p \in Runs : WF_vars(Work(p))
  /\ SF_vars(\E p \in Runs : LoadExpire(p))
  /\ SF_vars(\E p \in Runs : Expire(p))

-----------------------------------------------------------------------------
(* Properties.                                                              *)

\* Every variable has its type.
TypeOK ==
  /\ today \in Days
  /\ design \in Design
  /\ exp \in Exp
  /\ evaluation \in Evaluation /\ order \subseteq Runs \X Runs /\ behind \subseteq Runs
  /\ snap \in [Variants -> [Days -> [fresh : Nat, matured : Nat]]]
  /\ run \in [Runs -> Local]
  /\ stale \in BOOLEAN

\* An experiment that was stopped or completed comes back to life only by a handler that
\* had loaded it before: an evaluation, the daily task or a start that were at work while
\* the user stopped it.
RevivedOnlyByOverlap ==
  [][exp.status \in Over /\ exp'.status \notin Over =>
       \E p \in Runs : /\ run[p].op \in {"start", "evaluate", "expire"}
                       /\ run[p].loaded.status \in {"draft", "running"}
                       /\ run'[p] = Idle]_vars

\* The state shown with an experiment is that of its evaluation with the greatest
\* evaluated_at, unless the last commit overlapped another evaluation: it had loaded a
\* state that is no longer there, so that a verdict equal to it was not written, or it had
\* taken its evaluated_at before that of a row already committed.
StateIsLatest == exp.state # evaluation.state => stale

\* However many collectors overlap, a variant's window has at most one row for each of
\* them: whoever looks after one has committed finds it.
DuplicatesBounded ==
  \A v \in Variants, d \in Days : RowsOn(v, d) <= Cardinality(Runs)

\* No winner without evidence: a winner candidate has a controlled design with a control,
\* and every variant has a snapshot that is older than the maturation window.
WinnerNeedsEvidence ==
  evaluation.state = "winner_candidate" =>
    /\ design.mode = "CONTROLLED" /\ design.pure /\ design.controls # {}
    /\ \A v \in {Control} \cup Tests(design) :
         \E d \in Days : snap[v][d].matured > 0 /\ d + Maturation <= today

\* A running experiment whose window is over does not stay running.
WindowEnds == exp.status = "running" /\ WindowEnd < today ~> exp.status # "running"

\* What the docs say of snapshots: a variant's window is updated, never duplicated.
OneSnapshot == \A v \in Variants, d \in Days : RowsOn(v, d) <= 1

\* What the docs say of a winner: one variant reaches the difference and the confidence.
WinnerIsStrong == evaluation.state = "winner_candidate" => evaluation.strong
=============================================================================
