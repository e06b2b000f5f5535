----------------------- MODULE ExperimentLifecycle_proofs ----------------------
(* Proofs about ExperimentLifecycle: its types, what revives an experiment  *)
(* that is over, and that the state shown is the latest evaluation's.       *)
EXTENDS ExperimentLifecycle, FiniteSetTheorems, TLAPS

LEMMA ConclusionType ==
  ASSUME NEW d, NEW res PROVE Conclusion(d, res) \in EvaluationStates
<1> DEFINE diffs == {res[v].diff : v \in {u \in DOMAIN res : res[u].known}}
           conf  == Greatest({res[v].conf : v \in DOMAIN res} \cup {0})
           best  == BestDiff(d.metric, diffs)
           strong == best >= 2 /\ conf >= 3
           weak   == best >= 1 /\ conf >= 2
<1>1. CASE diffs = {}
  BY <1>1 DEF Conclusion, EvaluationStates
<1>2. CASE diffs # {} /\ strong
  BY <1>2 DEF Conclusion, EvaluationStates
<1>3. CASE diffs # {} /\ weak /\ ~strong
  BY <1>3 DEF Conclusion, EvaluationStates
<1>4. CASE diffs # {} /\ ~weak /\ ~strong
  BY <1>4 DEF Conclusion, EvaluationStates
<1> QED BY <1>1, <1>2, <1>3, <1>4

LEMMA VerdictType == Verdicts \subseteq Evaluation
<1>1. \A d, missing, results : EvaluationState(d, missing, results) \in EvaluationStates
  BY ConclusionType DEF EvaluationState, EvaluationStates
<1>2. \A missing, results : Verdict(missing, results) \in Evaluation
  BY <1>1 DEF Verdict, Evaluation
<1> QED BY <1>2 DEF Verdicts

LEMMA IdleType ==
  /\ Idle \in Local /\ NoExp \in Exp /\ NoEvaluation \in Evaluation
  /\ \A op \in Ops, status \in Statuses :
       [Idle EXCEPT !.op = op, !.loaded.status = status] \in Local
<1>1. NoExp \in Exp /\ NoEvaluation \in Evaluation /\ 0 \in Days
  BY ExperimentAssumption DEF NoExp, Exp, NoEvaluation, Evaluation, Statuses, Days
<1>2. Idle \in Local
  BY <1>1 DEF Idle, Local
<1>3. ASSUME NEW op \in Ops, NEW status \in Statuses
      PROVE  [Idle EXCEPT !.op = op, !.loaded.status = status] \in Local
  <2>1. [NoExp EXCEPT !.status = status] \in Exp
    BY <1>1 DEF Exp
  <2> QED BY <1>1, <2>1 DEF Idle, Local
<1> QED BY <1>1, <1>2, <1>3

\* A handler that changes the status, and the two other ends of its work.
Saving(p) == Start(p) \/ Stop(p) \/ Complete(p) \/ Expire(p) \/ Evaluate(p)

\* The statuses with which each handler may have loaded the experiment.
LoadedBy(op) ==
  CASE op = "start"    -> {"draft"}
    [] op = "stop"     -> {"draft", "running", "evaluating"}
    [] op = "complete" -> Statuses \ {"none"}
    [] op = "evaluate" -> {"running", "evaluating", "completed"}
    [] op = "expire"   -> {"running"}
    [] OTHER           -> Statuses

\* Handlers work on an experiment that exists, and have loaded it with a status that
\* admits what they do.
Admitted ==
  \A p \in Runs : run[p].op # "none" => /\ exp.status # "none"
                                        /\ run[p].loaded.status \in LoadedBy(run[p].op)

\* What a handler assigns to the experiment.
Assigned(p) ==
  CASE run[p].op = "start"    -> [run[p].loaded EXCEPT !.status = "running"]
    [] run[p].op = "stop"     -> [run[p].loaded EXCEPT !.status = "stopped"]
    [] run[p].op = "complete" -> [run[p].loaded EXCEPT !.status = "completed"]
    [] run[p].op = "expire"   -> [run[p].loaded EXCEPT !.status = "evaluating"]
    [] run[p].op = "evaluate" -> Evaluated(p)

LEMMA SavingGoes ==
  ASSUME TypeOK, Admitted, NEW p \in Runs, Saving(p)
  PROVE  /\ run[p].op \in {"start", "stop", "complete", "expire", "evaluate"}
         /\ Assigned(p) \in Exp /\ Assigned(p).status # "none"
         /\ run[p].op # "evaluate" => Assigned(p).state = run[p].loaded.state
         /\ exp' \in Exp
         /\ exp'.status = IF Assigned(p).status = run[p].loaded.status THEN exp.status
                          ELSE Assigned(p).status
         /\ exp'.state = IF Assigned(p).state = run[p].loaded.state THEN exp.state
                         ELSE Assigned(p).state
         /\ run' = [run EXCEPT ![p] = Idle]
         /\ UNCHANGED <<today, design, snap>>
         /\ exp.status # "none"
         /\ run[p].op # "evaluate" => UNCHANGED <<evaluation, behind, stale>>
         /\ order' \subseteq order
<1> USE DEF TypeOK
<1>1. run[p] \in Local /\ run[p].loaded \in Exp /\ exp \in Exp /\ run[p].verdict \in Evaluation
  BY DEF Local
<1>2. run[p].op \in {"start", "stop", "complete", "expire", "evaluate"}
  BY DEF Saving, Start, Stop, Complete, Expire, Evaluate
<1>3. Save(p, Assigned(p))
  BY DEF Saving, Start, Stop, Complete, Expire, Evaluate, SaveStatus, Assigned
<1>4. exp.status # "none" /\ run[p].loaded.status \in LoadedBy(run[p].op)
  BY <1>2 DEF Admitted
<1>5. run[p].loaded.status # "none"
  BY <1>2, <1>4 DEF LoadedBy
<1>6. Assigned(p) \in Exp /\ Assigned(p).status # "none"
  BY <1>1, <1>2, <1>5 DEF Assigned, Evaluated, Exp, Statuses, Evaluation
<1>7. run[p].op # "evaluate" => Assigned(p).state = run[p].loaded.state
  BY <1>1, <1>2 DEF Assigned, Exp
<1>8. exp' = Written(p, Assigned(p)) /\ run' = [run EXCEPT ![p] = Idle]
      /\ UNCHANGED <<today, design, snap>> /\ order' \subseteq order
  BY <1>3 DEF Save, Ends
<1>9. DOMAIN exp = {"status", "state"}
  BY <1>1 DEF Exp
<1>10. /\ exp'.status = IF Assigned(p).status = run[p].loaded.status THEN exp.status
                        ELSE Assigned(p).status
       /\ exp'.state = IF Assigned(p).state = run[p].loaded.state THEN exp.state
                       ELSE Assigned(p).state
  BY <1>8, <1>9 DEF Written
<1>11. exp' \in Exp
  BY <1>1, <1>6, <1>8, <1>9 DEF Written, Exp
<1>12. run[p].op # "evaluate" => UNCHANGED <<evaluation, behind, stale>>
  BY DEF Saving, Start, Stop, Complete, Expire, Evaluate, SaveStatus
<1> QED BY <1>2, <1>4, <1>6, <1>7, <1>8, <1>10, <1>11, <1>12

\* The steps of a handler that leave the experiment alone.
Reading(p) == \/ LoadStart(p) \/ LoadStop(p) \/ LoadComplete(p) \/ LoadExpire(p)
              \/ LoadEvaluate(p) \/ Assess(p) \/ LoadCollect(p) \/ SelectSnapshot(p)
              \/ CollectFails(p) \/ Crash(p)

LEMMA StepCases ==
  ASSUME [Next]_vars
  PROVE  \/ \E p \in Runs : Reading(p) \/ Saving(p) \/ Collect(p)
         \/ Create \/ NextDay \/ UNCHANGED vars
BY DEF Next, Work, Reading, Saving

LEMMA BeginGoes ==
  ASSUME TypeOK, NEW p \in Runs, NEW op \in Ops, Begin(p, op), exp.status \in LoadedBy(op),
         exp.status # "none"
  PROVE  \E l \in Local : /\ run' = [run EXCEPT ![p] = l]
                          /\ l.op # "none" => exp.status # "none" /\ l.loaded.status \in LoadedBy(l.op)
<1> DEFINE l == [Idle EXCEPT !.op = op, !.loaded.status = exp.status]
<1>1. exp.status \in Statuses
  BY DEF TypeOK, Exp
<1>2. l \in Local
  BY <1>1, IdleType
<1>3. l.op = op /\ l.loaded.status = exp.status
  BY DEF Idle, NoExp
<1>4. run' = [run EXCEPT ![p] = l]
  BY DEF Begin
<1> HIDE DEF l
<1> QED BY <1>2, <1>3, <1>4

LEMMA ReadingGoes ==
  ASSUME TypeOK, Admitted, NEW p \in Runs, Reading(p)
  PROVE  /\ UNCHANGED <<today, design, exp, evaluation, snap, stale>>
         /\ order' \subseteq Runs \X Runs /\ behind' \subseteq behind
         /\ \E l \in Local :
              /\ run' = [run EXCEPT ![p] = l]
              /\ l.op # "none" => exp.status # "none" /\ l.loaded.status \in LoadedBy(l.op)
<1>1. /\ UNCHANGED <<today, design, exp, evaluation, snap, stale>>
      /\ order' \subseteq Runs \X Runs /\ behind' \subseteq behind
  <2>1. CASE Assess(p)
    <3>1. Assessed \subseteq Runs
      BY DEF Assessed
    <3> QED BY <2>1, <3>1 DEF Assess, TypeOK
  <2>2. CASE CollectFails(p) \/ Crash(p)
    BY <2>2 DEF CollectFails, Crash, Ends, TypeOK
  <2>3. CASE ~Assess(p) /\ ~CollectFails(p) /\ ~Crash(p)
    BY <2>3 DEF Reading, LoadStart, LoadStop, LoadComplete, LoadExpire, LoadEvaluate,
                LoadCollect, SelectSnapshot, Begin, evalVars, TypeOK
  <2> QED BY <2>1, <2>2, <2>3
<1>2. exp.status \in Statuses /\ exp \in Exp /\ today \in Days /\ run[p] \in Local
  BY DEF TypeOK, Exp
<1>3. CASE LoadStart(p)
  <2>1. "start" \in Ops /\ exp.status \in LoadedBy("start")
    BY <1>3 DEF LoadStart, Ops, LoadedBy
  <2> QED BY <1>1, <1>3, <2>1, BeginGoes DEF LoadStart
<1>4. CASE LoadStop(p)
  <2>1. "stop" \in Ops /\ exp.status \in LoadedBy("stop") /\ exp.status # "none"
    BY <1>2, <1>4 DEF LoadStop, Ops, LoadedBy, Over, Statuses
  <2> QED BY <1>1, <1>4, <2>1, BeginGoes DEF LoadStop
<1>5. CASE LoadComplete(p)
  <2>1. "complete" \in Ops /\ exp.status \in LoadedBy("complete")
    BY <1>2, <1>5 DEF LoadComplete, Ops, LoadedBy
  <2> QED BY <1>1, <1>5, <2>1, BeginGoes DEF LoadComplete
<1>6. CASE LoadExpire(p)
  <2>1. "expire" \in Ops /\ exp.status \in LoadedBy("expire") /\ exp.status # "none"
    BY <1>6 DEF LoadExpire, Overdue, Ops, LoadedBy
  <2> QED BY <1>1, <1>6, <2>1, BeginGoes DEF LoadExpire
<1>7. CASE LoadEvaluate(p)
  <2> DEFINE l == [Idle EXCEPT !.op = "evaluate", !.loaded = exp]
  <2>1. run' = [run EXCEPT ![p] = l] /\ "evaluate" \in Ops
    BY <1>7 DEF LoadEvaluate, Ops
  <2>2. l \in Local
    BY <1>2, <2>1, IdleType DEF Local
  <2>3. l.op = "evaluate" /\ l.loaded = exp
    BY DEF Idle
  <2>4. exp.status # "none" /\ exp.status \in LoadedBy("evaluate")
    BY <1>7 DEF LoadEvaluate, LoadedBy
  <2> HIDE DEF l
  <2> QED BY <1>1, <2>1, <2>2, <2>3, <2>4
<1>11. CASE Assess(p)
  <2>1. PICK verdict \in Verdicts : run' = [run EXCEPT ![p].verdict = verdict]
    BY <1>11 DEF Assess
  <2> DEFINE l == [run[p] EXCEPT !.verdict = verdict]
  <2>2. l \in Local
    BY <1>2, VerdictType DEF Local
  <2>3. l.op = run[p].op /\ l.loaded = run[p].loaded
    BY <1>2 DEF Local
  <2>4. run' = [run EXCEPT ![p] = l]
    BY <2>1 DEF TypeOK
  <2>5. run[p].op # "none" => exp.status # "none" /\ run[p].loaded.status \in LoadedBy(run[p].op)
    BY DEF Admitted
  <2> HIDE DEF l
  <2> QED BY <1>1, <2>2, <2>3, <2>4, <2>5
<1>8. CASE LoadCollect(p)
  <2>1. PICK skipped \in SUBSET design.variants :
          run' = [run EXCEPT ![p] = [Idle EXCEPT !.op = "collect", !.day = today,
                                                 !.asked = skipped, !.found = skipped]]
    BY <1>8 DEF LoadCollect
  <2> DEFINE l == [Idle EXCEPT !.op = "collect", !.day = today,
                               !.asked = skipped, !.found = skipped]
  <2>2. skipped \subseteq Variants /\ "collect" \in Ops
    BY DEF TypeOK, Design, Ops
  <2>3. l \in Local
    BY <1>2, <2>2, IdleType DEF Local
  <2>4. l.op = "collect" /\ l.loaded.status = "none" /\ "none" \in LoadedBy("collect")
    BY DEF Idle, NoExp, LoadedBy, Statuses
  <2>5. run' = [run EXCEPT ![p] = l] /\ exp.status # "none"
    BY <1>8, <2>1 DEF LoadCollect
  <2> HIDE DEF l
  <2> QED BY <1>1, <2>3, <2>4, <2>5
<1>9. CASE SelectSnapshot(p)
  <2>1. PICK v \in design.variants \ run[p].asked :
          run' = [run EXCEPT ![p].asked = @ \cup {v},
                             ![p].found = IF HasRow(v, run[p].day) THEN @ \cup {v} ELSE @]
    BY <1>9 DEF SelectSnapshot
  <2> DEFINE found == IF HasRow(v, run[p].day) THEN run[p].found \cup {v} ELSE run[p].found
             l == [run[p] EXCEPT !.asked = run[p].asked \cup {v}, !.found = found]
  <2>2. v \in Variants
    BY DEF TypeOK, Design
  <2>3. l \in Local
    BY <1>2, <2>2 DEF Local
  <2>4. l.op = run[p].op /\ l.loaded = run[p].loaded
    BY <1>2 DEF Local
  <2>5. run[p].op # "none" => exp.status # "none" /\ run[p].loaded.status \in LoadedBy(run[p].op)
    BY DEF Admitted
  <2>6. run' = [run EXCEPT ![p] = l]
    BY <1>2, <2>1 DEF TypeOK, Local
  <2> HIDE DEF l
  <2> QED BY <1>1, <2>3, <2>4, <2>5, <2>6
<1>10. CASE CollectFails(p) \/ Crash(p)
  <2>1. run' = [run EXCEPT ![p] = Idle] /\ Idle.op = "none"
    BY <1>10 DEF CollectFails, Crash, Ends, Idle
  <2> QED BY <1>1, <2>1, IdleType
<1> QED BY <1>3, <1>4, <1>5, <1>6, <1>7, <1>8, <1>9, <1>10, <1>11 DEF Reading

\* Before it is created, nothing is known of the experiment.
Unknown == exp.status = "none" => exp.state = "none" /\ evaluation.state = "none"

TypeInv == TypeOK /\ Admitted /\ Unknown

\* Every variable keeps its type.
LEMMA TypeInductive == TypeInv /\ [Next]_vars => TypeInv'
<1> SUFFICES ASSUME TypeInv, [Next]_vars PROVE TypeInv'
  OBVIOUS
<1> USE DEF TypeInv
<1>1. ASSUME NEW p \in Runs, NEW l \in Local, run' = [run EXCEPT ![p] = l],
             l.op # "none" => exp.status # "none" /\ l.loaded.status \in LoadedBy(l.op),
             exp.status # "none" => exp'.status # "none"
      PROVE  run' \in [Runs -> Local] /\ Admitted'
  BY <1>1 DEF TypeOK, Admitted
<1>2. ASSUME NEW p \in Runs, Reading(p) PROVE TypeInv'
  <2>1. /\ UNCHANGED <<today, design, exp, evaluation, snap, stale>>
        /\ order' \subseteq Runs \X Runs /\ behind' \subseteq behind
    BY <1>2, ReadingGoes
  <2>2. run' \in [Runs -> Local] /\ Admitted'
    BY <1>1, <1>2, <2>1, ReadingGoes
  <2> QED BY <2>1, <2>2 DEF TypeOK, Unknown
<1>3. ASSUME NEW p \in Runs, Saving(p) PROVE TypeInv'
  <2>1. /\ exp' \in Exp /\ UNCHANGED <<today, design, snap>>
        /\ run' = [run EXCEPT ![p] = Idle] /\ exp.status # "none"
        /\ run[p].op # "evaluate" => UNCHANGED <<evaluation, behind, stale>>
        /\ order' \subseteq order
    BY <1>3, SavingGoes
  <2>2. exp'.status # "none"
    BY <1>3, SavingGoes
  <2>3. run' \in [Runs -> Local] /\ Admitted'
    BY <1>1, <2>1, <2>2, IdleType DEF Idle
  <2>4. evaluation' \in Evaluation /\ stale' \in BOOLEAN /\ behind' \subseteq Runs
    <3>1. CASE run[p].op # "evaluate"
      BY <2>1, <3>1 DEF TypeOK
    <3>2. CASE run[p].op = "evaluate"
      <4>1. Evaluate(p) /\ run[p] \in Local
        BY <1>3, <3>2 DEF Saving, Start, Stop, Complete, Expire, TypeOK
      <4> QED BY <4>1 DEF Evaluate, TypeOK, Local
    <3> QED BY <3>1, <3>2
  <2> QED BY <2>1, <2>2, <2>3, <2>4 DEF TypeOK, Unknown
<1>4. ASSUME NEW p \in Runs, Collect(p) PROVE TypeInv'
  <2>1. /\ UNCHANGED <<today, design, exp, evaluation, behind, stale>>
        /\ run' = [run EXCEPT ![p] = Idle] /\ order' \subseteq order
    BY <1>4 DEF Collect, Ends
  <2>2. run' \in [Runs -> Local] /\ Admitted'
    BY <1>1, <2>1, IdleType DEF Idle
  <2>3. \A v \in Variants, d \in Days : Added(p, v, d) \in Nat
    BY DEF Added
  <2>4. snap' \in [Variants -> [Days -> [fresh : Nat, matured : Nat]]]
    <3> DEFINE fresh(v, d) == snap[v][d].fresh + Added(p, v, d)
               rows(v, d)  == IF Matures(d)
                              THEN [fresh |-> 0, matured |-> snap[v][d].matured + fresh(v, d)]
                              ELSE [snap[v][d] EXCEPT !.fresh = fresh(v, d)]
    <3>1. snap' = [v \in Variants |-> [d \in Days |-> rows(v, d)]]
      BY <1>4 DEF Collect
    <3>2. ASSUME NEW v \in Variants, NEW d \in Days
          PROVE  rows(v, d) \in [fresh : Nat, matured : Nat]
      <4>1. snap[v][d] \in [fresh : Nat, matured : Nat]
        BY DEF TypeOK
      <4>2. fresh(v, d) \in Nat /\ snap[v][d].matured + fresh(v, d) \in Nat
        BY <2>3, <4>1
      <4> HIDE DEF fresh
      <4> QED BY <4>1, <4>2
    <3> HIDE DEF rows
    <3> QED BY <3>1, <3>2
  <2> QED BY <2>1, <2>2, <2>4 DEF TypeOK, Unknown
<1>5. CASE Create
  <2>1. design' \in Design /\ exp' = [NoExp EXCEPT !.status = "draft"] /\ exp.status = "none"
        /\ UNCHANGED <<today, snap, run, evaluation, order, behind, stale>>
    BY <1>5 DEF Create, evalVars
  <2>2. exp' \in Exp /\ exp'.status = "draft"
    BY <2>1, IdleType DEF Exp, Statuses
  <2>3. Admitted'
    BY <2>1, <2>2 DEF Admitted
  <2> QED BY <2>1, <2>2, <2>3 DEF TypeOK, Unknown
<1>6. CASE NextDay
  <2>1. today' \in Days
    BY <1>6, ExperimentAssumption DEF NextDay, TypeOK, Days
  <2> QED BY <1>6, <2>1 DEF NextDay, evalVars, TypeOK, Unknown, Admitted
<1>7. CASE UNCHANGED vars
  BY <1>7 DEF vars, evalVars, TypeOK, Unknown, Admitted
<1> QED BY <1>2, <1>3, <1>4, <1>5, <1>6, <1>7, StepCases

LEMMA InitTypes == Init => TypeInv
<1> SUFFICES ASSUME Init PROVE TypeInv
  OBVIOUS
<1>1. NoDesign \in Design /\ 0 \in Days
  BY ExperimentAssumption DEF NoDesign, Design, MetricKinds, Days
<1>2. TypeOK
  BY <1>1, IdleType DEF Init, TypeOK
<1> QED BY <1>2 DEF Init, TypeInv, Admitted, Unknown, Idle, NoExp, NoEvaluation

\* Every variable of the experiment has its type.
THEOREM TypeCorrect == Spec => []TypeOK
<1>1. TypeInv => TypeOK
  BY DEF TypeInv
<1> QED BY <1>1, InitTypes, TypeInductive, PTL DEF Spec

-----------------------------------------------------------------------------

\* A handler that stops or completes leaves the experiment over, and one that had loaded
\* it when it was over writes no status.
LEMMA Revives ==
  TypeInv /\ [Next]_vars =>
    (exp.status \in Over /\ exp'.status \notin Over =>
       \E p \in Runs : /\ run[p].op \in {"start", "evaluate", "expire"}
                       /\ run[p].loaded.status \in {"draft", "running"}
                       /\ run'[p] = Idle)
<1> SUFFICES ASSUME TypeInv, [Next]_vars, exp.status \in Over, exp'.status \notin Over
             PROVE  \E p \in Runs : /\ run[p].op \in {"start", "evaluate", "expire"}
                                    /\ run[p].loaded.status \in {"draft", "running"}
                                    /\ run'[p] = Idle
  OBVIOUS
<1>1. ASSUME NEW p \in Runs, Reading(p) \/ Collect(p) PROVE UNCHANGED exp
  BY <1>1, ReadingGoes DEF TypeInv, Collect
<1>2. ~Create
  BY DEF Create, Over
<1>3. PICK p \in Runs : Saving(p)
  BY <1>1, <1>2, StepCases DEF NextDay, vars
<1>4. Assigned(p).status # run[p].loaded.status /\ Assigned(p).status \notin Over
      /\ run' = [run EXCEPT ![p] = Idle]
      /\ run[p].op \in {"start", "stop", "complete", "expire", "evaluate"}
  BY <1>3, SavingGoes DEF TypeInv
<1>5. run[p].loaded.status \in LoadedBy(run[p].op) /\ run[p].loaded \in Exp /\ run[p] \in Local
  BY <1>4 DEF TypeInv, Admitted, TypeOK, Local
<1>6. run[p].op \notin {"stop", "complete"}
  BY <1>4, <1>5 DEF Assigned, Over, Exp
<1>7. run[p].op = "evaluate" => run[p].loaded.status = "running"
  BY <1>4, <1>5 DEF Assigned, Evaluated, Exp
<1>8. run[p].op \in {"start", "expire"} => run[p].loaded.status \in {"draft", "running"}
  BY <1>5 DEF LoadedBy
<1>9. run'[p] = Idle
  BY <1>4 DEF TypeInv, TypeOK
<1> QED BY <1>4, <1>6, <1>7, <1>8, <1>9

\* An experiment that is over comes back to life only by a start, an evaluation or the
\* daily task that had loaded it before (ExperimentService, EvaluationService.evaluate).
THEOREM OnlyOverlapRevives == Spec => RevivedOnlyByOverlap
<1>1. TypeInv /\ [Next]_vars =>
        [exp.status \in Over /\ exp'.status \notin Over =>
           \E p \in Runs : /\ run[p].op \in {"start", "evaluate", "expire"}
                           /\ run[p].loaded.status \in {"draft", "running"}
                           /\ run'[p] = Idle]_vars
  BY Revives
<1> QED BY <1>1, InitTypes, TypeInductive, PTL DEF Spec, RevivedOnlyByOverlap

LEMMA LatestInductive == TypeInv /\ StateIsLatest /\ [Next]_vars => StateIsLatest'
<1> SUFFICES ASSUME TypeInv, StateIsLatest, [Next]_vars PROVE StateIsLatest'
  OBVIOUS
<1>1. ASSUME UNCHANGED <<exp, evaluation, stale>> PROVE StateIsLatest'
  BY <1>1 DEF StateIsLatest
<1>2. ASSUME NEW p \in Runs, Reading(p) \/ Collect(p) PROVE UNCHANGED <<exp, evaluation, stale>>
  BY <1>2, ReadingGoes DEF TypeInv, Collect
<1>3. ASSUME NEW p \in Runs, Saving(p) PROVE StateIsLatest'
  <2>1. exp'.state = IF Assigned(p).state = run[p].loaded.state THEN exp.state
                     ELSE Assigned(p).state
    BY <1>3, SavingGoes DEF TypeInv
  <2>2. CASE run[p].op # "evaluate"
    <3>1. UNCHANGED <<evaluation, stale>> /\ Assigned(p).state = run[p].loaded.state
      BY <1>3, <2>2, SavingGoes DEF TypeInv
    <3> QED BY <2>1, <3>1 DEF StateIsLatest
  <2>3. CASE run[p].op = "evaluate"
    <3>1. /\ evaluation' = IF p \in behind THEN evaluation ELSE run[p].verdict
          /\ stale' = (run[p].loaded.state # exp.state \/ p \in behind)
      BY <1>3, <2>3 DEF Saving, Start, Stop, Complete, Expire, Evaluate
    <3>2. Assigned(p).state = run[p].verdict.state
      <4>1. run[p].loaded \in Exp
        BY DEF TypeInv, TypeOK, Local
      <4> QED BY <2>3, <4>1 DEF Assigned, Evaluated, Exp
    <3> QED BY <2>1, <3>1, <3>2 DEF StateIsLatest
  <2> QED BY <2>2, <2>3
<1>4. CASE Create
  <2>1. exp'.state = "none" /\ evaluation.state = "none" /\ UNCHANGED <<evaluation, stale>>
    BY <1>4 DEF Create, evalVars, TypeInv, Unknown, NoExp
  <2> QED BY <2>1 DEF StateIsLatest
<1> QED BY <1>1, <1>2, <1>3, <1>4, StepCases DEF NextDay, vars, evalVars

\* The state shown with an experiment is that of the evaluation with the greatest
\* evaluated_at, unless the last commit overlapped another evaluation
\* (EvaluationService.evaluate and list_evaluations).
THEOREM StateFollows == Spec => []StateIsLatest
<1>1. Init => StateIsLatest
  BY DEF Init, StateIsLatest, NoExp, NoEvaluation
<1> QED BY <1>1, InitTypes, TypeInductive, LatestInductive, PTL DEF Spec

-----------------------------------------------------------------------------
(* How many rows a window has.                                              *)

\* The handlers that are about to add a row for the window of v that ends on day d: all
\* of them looked for one when there was none.
Adding(v, d) == {p \in Runs : /\ run[p].op = "collect" /\ run[p].day = d
                              /\ v \in run[p].asked \ run[p].found}

\* As many rows as handlers, less those that have still to add theirs.
Fits(n, T) == n \in Nat /\ T \subseteq Runs /\ n + Cardinality(T) <= Cardinality(Runs)

DuplicateInv == \A v \in Variants, d \in Days : Fits(RowsOn(v, d), Adding(v, d))

LEMMA Smaller ==
  ASSUME NEW S, NEW T, IsFiniteSet(S), T \subseteq S
  PROVE  /\ IsFiniteSet(T) /\ Cardinality(T) \in Nat /\ Cardinality(S) \in Nat
         /\ Cardinality(T) <= Cardinality(S)
BY FS_Subset, FS_CardinalityType

LEMMA RunsFinite ==
  ASSUME NEW T, T \subseteq Runs
  PROVE  /\ IsFiniteSet(T) /\ Cardinality(T) \in Nat /\ Cardinality(Runs) \in Nat
         /\ Cardinality(T) <= Cardinality(Runs)
BY ExperimentAssumption, Smaller

LEMMA FitsNothing == ASSUME NEW T, T \subseteq Runs PROVE Fits(0, T)
BY RunsFinite DEF Fits

LEMMA FitsLess ==
  ASSUME NEW n, NEW T, NEW U, Fits(n, T), U \subseteq T
  PROVE  Fits(n, U)
<1>1. IsFiniteSet(T) /\ Cardinality(T) \in Nat /\ Cardinality(Runs) \in Nat
  BY RunsFinite DEF Fits
<1>2. Cardinality(U) \in Nat /\ Cardinality(U) <= Cardinality(T)
  BY <1>1, Smaller
<1> QED BY <1>1, <1>2 DEF Fits

\* A handler adds the row that it was about to add.
LEMMA FitsMove ==
  ASSUME NEW n, NEW T, NEW U, NEW p \in T, Fits(n, T), U \subseteq T \ {p}
  PROVE  Fits(n + 1, U)
<1>1. IsFiniteSet(T) /\ Cardinality(T) \in Nat /\ Cardinality(Runs) \in Nat
  BY RunsFinite DEF Fits
<1>2. IsFiniteSet(T \ {p}) /\ Cardinality(T \ {p}) = Cardinality(T) - 1
  BY <1>1, FS_RemoveElement
<1>3. Cardinality(U) \in Nat /\ Cardinality(U) <= Cardinality(T \ {p})
  BY <1>2, Smaller
<1> QED BY <1>1, <1>2, <1>3 DEF Fits

\* What a handler that loads, ends or dies keeps for itself.
LEMMA ReadingIs ==
  ASSUME TypeOK, NEW p \in Runs, Reading(p), ~SelectSnapshot(p)
  PROVE  /\ run'[p].op = "collect" => run'[p].asked \ run'[p].found = {}
         /\ \A q \in Runs \ {p} : run'[q] = run[q]
         /\ run'[p].verdict.state = "winner_candidate" => run'[p].verdict \in Verdicts
<1>1. CASE \E op \in {"start", "stop", "complete", "expire"} : Begin(p, op)
  BY <1>1 DEF Begin, Idle, NoEvaluation, TypeOK
<1>2. CASE LoadEvaluate(p)
  BY <1>2 DEF LoadEvaluate, Idle, NoEvaluation, TypeOK
<1>3. CASE LoadCollect(p)
  <2>1. PICK skipped \in SUBSET design.variants :
          run' = [run EXCEPT ![p] = [Idle EXCEPT !.op = "collect", !.day = today,
                                                 !.asked = skipped, !.found = skipped]]
    BY <1>3 DEF LoadCollect
  <2> DEFINE l == [Idle EXCEPT !.op = "collect", !.day = today,
                               !.asked = skipped, !.found = skipped]
  <2>2. l.asked \ l.found = {} /\ l.verdict = NoEvaluation
    BY DEF Idle
  <2> HIDE DEF l
  <2>3. run'[p] = l /\ \A q \in Runs \ {p} : run'[q] = run[q]
    BY <2>1 DEF TypeOK, l
  <2> QED BY <2>2, <2>3 DEF NoEvaluation
<1>4. CASE CollectFails(p) \/ Crash(p)
  BY <1>4 DEF CollectFails, Crash, Ends, Idle, NoEvaluation, TypeOK
<1>5. CASE Assess(p)
  <2>1. PICK verdict \in Verdicts : run' = [run EXCEPT ![p].verdict = verdict]
    BY <1>5 DEF Assess
  <2>2. run[p] \in Local /\ run[p].op = "evaluate"
    BY <1>5 DEF Assess, TypeOK
  <2> DEFINE l == [run[p] EXCEPT !.verdict = verdict]
  <2>3. l.op = "evaluate" /\ l.verdict = verdict
    BY <2>2 DEF Local
  <2> HIDE DEF l
  <2>4. run'[p] = l /\ \A q \in Runs \ {p} : run'[q] = run[q]
    BY <2>1 DEF TypeOK, l
  <2> QED BY <2>3, <2>4
<1> QED BY <1>1, <1>2, <1>3, <1>4, <1>5
        DEF Reading, LoadStart, LoadStop, LoadComplete, LoadExpire

LEMMA SelectIs ==
  ASSUME TypeOK, NEW p \in Runs, SelectSnapshot(p)
  PROVE  /\ run[p].op = "collect" /\ run'[p].op = "collect" /\ run'[p].day = run[p].day
         /\ \A q \in Runs \ {p} : run'[q] = run[q]
         /\ UNCHANGED <<today, design, exp, evaluation, snap, stale>>
         /\ \E v \in Variants : /\ run'[p].asked = run[p].asked \cup {v}
                                /\ run'[p].found = IF HasRow(v, run[p].day)
                                                   THEN run[p].found \cup {v} ELSE run[p].found
<1>1. PICK v \in design.variants \ run[p].asked :
        run' = [run EXCEPT ![p].asked = @ \cup {v},
                           ![p].found = IF HasRow(v, run[p].day) THEN @ \cup {v} ELSE @]
  BY DEF SelectSnapshot
<1> DEFINE found == IF HasRow(v, run[p].day) THEN run[p].found \cup {v} ELSE run[p].found
           l == [run[p] EXCEPT !.asked = run[p].asked \cup {v}, !.found = found]
<1>2. v \in Variants /\ run[p] \in Local
  BY DEF TypeOK, Design
<1>3. run' = [run EXCEPT ![p] = l]
  BY <1>1, <1>2 DEF TypeOK, Local
<1>4. /\ l.op = run[p].op /\ l.day = run[p].day
      /\ l.asked = run[p].asked \cup {v} /\ l.found = found
  BY <1>2 DEF Local
<1> HIDE DEF l
<1>5. run'[p] = l /\ \A q \in Runs \ {p} : run'[q] = run[q]
  BY <1>3 DEF TypeOK
<1> QED BY <1>2, <1>4, <1>5 DEF SelectSnapshot, evalVars

\* What a collection does to the rows of a window.
LEMMA CollectIs ==
  ASSUME TypeOK, NEW p \in Runs, Collect(p), NEW v \in Variants, NEW d \in Days
  PROVE  /\ RowsOn(v, d) \in Nat /\ RowsOn(v, d)' = RowsOn(v, d) + Added(p, v, d)
         /\ Added(p, v, d) \in {0, 1}
         /\ snap'[v][d].matured >= snap[v][d].matured
         /\ snap'[v][d].matured # snap[v][d].matured => d + Maturation <= today
<1>1. snap[v][d].fresh \in Nat /\ snap[v][d].matured \in Nat
  <2>1. snap[v][d] \in [fresh : Nat, matured : Nat]
    BY DEF TypeOK
  <2> QED BY <2>1
<1>2. Added(p, v, d) \in {0, 1}
  BY DEF Added
<1> DEFINE fresh == snap[v][d].fresh + Added(p, v, d)
<1>3. snap'[v][d] = IF Matures(d) THEN [fresh |-> 0, matured |-> snap[v][d].matured + fresh]
                    ELSE [snap[v][d] EXCEPT !.fresh = fresh]
  BY DEF Collect
<1>4. snap[v][d] \in [fresh : Nat, matured : Nat]
  BY DEF TypeOK
<1>5. fresh \in Nat
  BY <1>1, <1>2
<1>6. snap'[v][d].fresh + snap'[v][d].matured = fresh + snap[v][d].matured
  <2> HIDE DEF fresh
  <2> QED BY <1>1, <1>3, <1>4, <1>5
<1>7. /\ snap'[v][d].matured >= snap[v][d].matured
      /\ snap'[v][d].matured # snap[v][d].matured => Matures(d)
  <2> HIDE DEF fresh
  <2> QED BY <1>1, <1>3, <1>4, <1>5
<1> QED BY <1>1, <1>2, <1>6, <1>7 DEF RowsOn, Matures

LEMMA DuplicateInductive == TypeInv /\ DuplicateInv /\ [Next]_vars => DuplicateInv'
<1> SUFFICES ASSUME TypeInv, DuplicateInv, [Next]_vars, NEW v \in Variants, NEW d \in Days
             PROVE  Fits(RowsOn(v, d)', Adding(v, d)')
  BY DEF DuplicateInv
<1>0. TypeOK /\ Fits(RowsOn(v, d), Adding(v, d))
  BY DEF TypeInv, DuplicateInv
<1>1. ASSUME UNCHANGED snap, Adding(v, d)' \subseteq Adding(v, d)
      PROVE  Fits(RowsOn(v, d)', Adding(v, d)')
  BY <1>0, <1>1, FitsLess DEF RowsOn
<1>2. ASSUME NEW p \in Runs, \A q \in Runs \ {p} : run'[q] = run[q],
             run'[p].op = "collect" => run'[p].asked \ run'[p].found = {}
      PROVE  Adding(v, d)' \subseteq Adding(v, d) \ {p}
  BY <1>2 DEF Adding
<1>3. ASSUME NEW p \in Runs, Reading(p), ~SelectSnapshot(p)
      PROVE  Fits(RowsOn(v, d)', Adding(v, d)')
  BY <1>0, <1>1, <1>2, <1>3, ReadingIs, ReadingGoes DEF TypeInv
<1>4. ASSUME NEW p \in Runs, SelectSnapshot(p) PROVE Fits(RowsOn(v, d)', Adding(v, d)')
  <2>1. PICK u \in Variants : /\ run'[p].asked = run[p].asked \cup {u}
                              /\ run'[p].found = IF HasRow(u, run[p].day)
                                                 THEN run[p].found \cup {u} ELSE run[p].found
    BY <1>0, <1>4, SelectIs
  <2>2. /\ run[p].op = "collect" /\ run'[p].op = "collect" /\ run'[p].day = run[p].day
        /\ \A q \in Runs \ {p} : run'[q] = run[q]
        /\ UNCHANGED snap
    BY <1>0, <1>4, SelectIs
  <2>3. CASE u = v /\ run[p].day = d /\ ~HasRow(v, d)
    <3>1. RowsOn(v, d)' = 0
      BY <1>0, <2>2, <2>3 DEF HasRow, RowsOn, Fits
    <3>2. Adding(v, d)' \subseteq Runs
      BY DEF Adding
    <3> QED BY <3>1, <3>2, FitsNothing
  <2>4. CASE u # v \/ run[p].day # d \/ HasRow(v, d)
    <3>1. Adding(v, d)' \subseteq Adding(v, d)
      BY <2>1, <2>2, <2>4 DEF Adding
    <3> QED BY <1>1, <2>2, <3>1
  <2> QED BY <2>3, <2>4
<1>5. ASSUME NEW p \in Runs, Saving(p) PROVE Fits(RowsOn(v, d)', Adding(v, d)')
  <2>1. run' = [run EXCEPT ![p] = Idle] /\ UNCHANGED snap
    BY <1>5, SavingGoes DEF TypeInv
  <2>2. run'[p].asked = {} /\ \A q \in Runs \ {p} : run'[q] = run[q]
    BY <1>0, <2>1 DEF Idle, TypeOK
  <2> QED BY <1>1, <1>2, <2>1, <2>2
<1>6. ASSUME NEW p \in Runs, Collect(p) PROVE Fits(RowsOn(v, d)', Adding(v, d)')
  <2>1. /\ RowsOn(v, d)' = RowsOn(v, d) + Added(p, v, d) /\ RowsOn(v, d) \in Nat
        /\ run[p].op = "collect"
    BY <1>0, <1>6, CollectIs DEF Collect
  <2>2. run'[p].asked = {} /\ \A q \in Runs \ {p} : run'[q] = run[q]
    BY <1>0, <1>6 DEF Collect, Ends, Idle, TypeOK
  <2>3. Adding(v, d)' \subseteq Adding(v, d) \ {p}
    BY <1>2, <2>2
  <2>4. CASE p \in Adding(v, d)
    <3>1. Added(p, v, d) = 1
      BY <2>4 DEF Added, Adding
    <3> QED BY <1>0, <2>1, <2>3, <2>4, <3>1, FitsMove
  <2>5. CASE p \notin Adding(v, d)
    <3>1. Added(p, v, d) = 0
      BY <2>1, <2>5 DEF Added, Adding
    <3>2. RowsOn(v, d)' = RowsOn(v, d)
      BY <2>1, <3>1
    <3> QED BY <1>0, <2>3, <3>2, FitsLess
  <2> QED BY <2>4, <2>5
<1>7. ASSUME UNCHANGED <<snap, run>> PROVE Fits(RowsOn(v, d)', Adding(v, d)')
  BY <1>1, <1>7 DEF Adding
<1> QED BY <1>3, <1>4, <1>5, <1>6, <1>7, StepCases DEF Create, NextDay, vars

\* For any number of collectors, a variant's window has at most one row for each of them:
\* whoever looks after one has committed finds it (the lookup of _upsert_mock_snapshot against
\* the commit of collect_for_experiment).
THEOREM RowsAreBounded == Spec => []DuplicatesBounded
<1>1. Init => DuplicateInv
  <2> SUFFICES ASSUME Init, NEW v \in Variants, NEW d \in Days
               PROVE  Fits(RowsOn(v, d), Adding(v, d))
    BY DEF DuplicateInv
  <2>1. RowsOn(v, d) = 0 /\ Adding(v, d) \subseteq Runs
    BY DEF Init, RowsOn, Adding
  <2> QED BY <2>1, FitsNothing
<1>2. DuplicateInv => DuplicatesBounded
  <2> SUFFICES ASSUME DuplicateInv, NEW v \in Variants, NEW d \in Days
               PROVE  RowsOn(v, d) <= Cardinality(Runs)
    BY DEF DuplicatesBounded
  <2>1. Fits(RowsOn(v, d), Adding(v, d))
    BY DEF DuplicateInv
  <2> QED BY <2>1, RunsFinite DEF Fits
<1> QED BY <1>1, <1>2, InitTypes, TypeInductive, DuplicateInductive, PTL DEF Spec

-----------------------------------------------------------------------------
(* What a winner rests on.                                                  *)

Aged(v) == \E d \in Days : snap[v][d].matured > 0 /\ d + Maturation <= today

Evidence == /\ design.mode = "CONTROLLED" /\ design.pure /\ design.controls # {}
            /\ \A v \in {Control} \cup Tests(design) : Aged(v)

\* A row is marked as matured when its window is, and an evaluation that is under way has
\* read the rows it needs.
WinnerInv ==
  /\ design.mode = "CONTROLLED" => design.pure
  /\ \A v \in Variants, d \in Days : snap[v][d].matured > 0 => d + Maturation <= today
  /\ \A p \in Runs :
       run[p].op = "evaluate" /\ run[p].verdict.state = "winner_candidate" => Evidence
  /\ evaluation.state = "winner_candidate" => Evidence

\* Only a controlled design has a winner.
LEMMA ConclusionIsControlled ==
  ASSUME NEW d, NEW res, Conclusion(d, res) = "winner_candidate"
  PROVE  d.mode = "CONTROLLED"
<1> DEFINE diffs == {res[v].diff : v \in {u \in DOMAIN res : res[u].known}}
           conf  == Greatest({res[v].conf : v \in DOMAIN res} \cup {0})
           best  == BestDiff(d.metric, diffs)
           strong == best >= 2 /\ conf >= 3
           weak   == best >= 1 /\ conf >= 2
<1>1. CASE diffs = {}
  BY <1>1 DEF Conclusion
<1>2. CASE diffs # {} /\ strong
  BY <1>2 DEF Conclusion
<1>3. CASE diffs # {} /\ weak /\ ~strong
  BY <1>3 DEF Conclusion
<1>4. CASE diffs # {} /\ ~weak /\ ~strong
  BY <1>4 DEF Conclusion
<1> QED BY <1>1, <1>2, <1>3, <1>4

\* Nothing is missing altogether only if no variant misses anything.
LEMMA TotalIsZero ==
  ASSUME NEW C, IsFiniteSet(C), NEW missing \in [C -> 0..Criteria], Total(missing) = 0
  PROVE  \A v \in C : missing[v] = 0
<1> DEFINE missed == {x \in C \X (1..Criteria) : x[2] <= missing[x[1]]}
<1>1. IsFiniteSet(1..Criteria)
  BY EvaluatorAssumption, FS_Interval
<1>2. IsFiniteSet(C \X (1..Criteria))
  BY <1>1, FS_Product
<1>3. IsFiniteSet(missed)
  BY <1>2, Smaller
<1>4. Cardinality(missed) = 0
  BY DEF Total
<1>5. missed = {}
  <2> HIDE DEF missed
  <2> QED BY <1>3, <1>4, FS_EmptySet
<1>6. ASSUME NEW v \in C, missing[v] # 0 PROVE FALSE
  <2>1. 1 \in 1..Criteria /\ 1 <= missing[v]
    BY <1>6, EvaluatorAssumption
  <2>2. <<v, 1>> \in missed
    BY <2>1
  <2> QED BY <1>5, <2>2
<1> QED BY <1>6

\* What the compared variants miss can be counted.
LEMMA MissesTotal == ASSUME TypeOK, NEW missing \in Misses PROVE Total(missing) \in Nat
<1> DEFINE compared == Tests(design) \cup (IF design.controls = {} THEN {} ELSE {Control})
           missed == {x \in compared \X (1..Criteria) : x[2] <= missing[x[1]]}
<1>1. compared \subseteq Variants
  BY EvaluatorAssumption DEF TypeOK, Design, Tests
<1>2. missing \in [compared -> 0..Criteria]
  BY DEF Misses
<1> HIDE DEF compared
<1>3. IsFiniteSet(compared)
  BY <1>1, EvaluatorAssumption, FS_Subset
<1>4. IsFiniteSet(1..Criteria)
  BY EvaluatorAssumption, FS_Interval
<1>5. IsFiniteSet(compared \X (1..Criteria))
  BY <1>3, <1>4, FS_Product
<1>6. Cardinality(missed) \in Nat
  BY <1>5, Smaller
<1> QED BY <1>2, <1>6 DEF Total

\* A verdict that names a winner has the evidence.
LEMMA WinnerHasEvidence ==
  ASSUME TypeOK, WinnerInv, NEW verdict \in Verdicts, verdict.state = "winner_candidate"
  PROVE  Evidence
<1> DEFINE compared == Tests(design) \cup (IF design.controls = {} THEN {} ELSE {Control})
<1>1. PICK missing \in Misses, results \in [Tests(design) -> Results(design.metric)] :
        verdict = Verdict(missing, results)
  BY DEF Verdicts
<1>2. EvaluationState(design, Total(missing), results) = "winner_candidate"
  BY <1>1 DEF Verdict
<1>3. missing \in [compared -> 0..Criteria] /\ \A v \in compared : missing[v] \in Lacking(MaturedOf(v))
  BY DEF Misses
<1>4. compared \subseteq Variants /\ IsFiniteSet(compared)
  <2>1. compared \subseteq Variants
    BY EvaluatorAssumption DEF TypeOK, Design, Tests
  <2> HIDE DEF compared
  <2> QED BY <2>1, EvaluatorAssumption, FS_Subset
<1>5. Total(missing) \in Nat
  BY MissesTotal
<1>6. /\ design.controls # {} /\ Total(missing) = 0
      /\ Conclusion(design, results) = "winner_candidate"
  BY <1>2, <1>5 DEF EvaluationState
<1>7. design.mode = "CONTROLLED" /\ design.pure
  BY <1>6, ConclusionIsControlled DEF WinnerInv
<1>8. \A v \in compared : missing[v] = 0
  <2> HIDE DEF compared
  <2> QED BY <1>3, <1>4, <1>6, TotalIsZero
<1>9. ASSUME NEW v \in compared PROVE Aged(v)
  <2>1. MaturedOf(v) # 0
    BY <1>3, <1>8, EvaluatorAssumption DEF Lacking
  <2>2. PICK d \in Days : snap[v][d].matured > 0
    BY <2>1, FS_EmptySet DEF MaturedOf
  <2>3. v \in Variants
    BY <1>4
  <2> QED BY <2>2, <2>3 DEF Aged, WinnerInv
<1> QED BY <1>6, <1>7, <1>9 DEF Evidence

LEMMA WinnerInductive == TypeInv /\ WinnerInv /\ [Next]_vars => WinnerInv'
<1> SUFFICES ASSUME TypeInv, WinnerInv, [Next]_vars PROVE WinnerInv'
  OBVIOUS
<1>0. TypeOK /\ design.variants \subseteq Variants /\ today \in Nat
  BY ExperimentAssumption DEF TypeInv, TypeOK, Design, Days
\* Evidence is never lost.
<1> DEFINE Rows == \A v \in Variants, d \in Days :
             /\ snap[v][d].matured \in Nat
             /\ snap'[v][d].matured \in Nat /\ snap'[v][d].matured >= snap[v][d].matured
             /\ snap'[v][d].matured # snap[v][d].matured => d + Maturation <= today
           Kept == UNCHANGED design /\ today' \in Nat /\ today' >= today /\ Rows
<1>1. UNCHANGED snap => Rows
  <2>1. \A v \in Variants, d \in Days : snap[v][d] \in [fresh : Nat, matured : Nat]
    BY <1>0 DEF TypeOK
  <2> QED BY <2>1
<1>2. ASSUME Kept
      PROVE  /\ Evidence => Evidence'
             /\ design'.mode = "CONTROLLED" => design'.pure
             /\ \A v \in Variants, d \in Days :
                  snap'[v][d].matured > 0 => d + Maturation <= today'
  <2>1. ASSUME NEW v \in Variants, Aged(v) PROVE Aged(v)'
    <3>1. PICK d \in Days : snap[v][d].matured > 0 /\ d + Maturation <= today
      BY <2>1 DEF Aged
    <3>2. snap'[v][d].matured > 0 /\ d + Maturation <= today'
      BY <1>0, <1>2, <3>1, ExperimentAssumption DEF Days
    <3> QED BY <3>2 DEF Aged
  <2>2. {Control} \cup Tests(design) \subseteq Variants
    BY <1>0, EvaluatorAssumption DEF Tests
  <2>3. Evidence => Evidence'
    BY <1>2, <2>1, <2>2 DEF Evidence
  <2>4. ASSUME NEW v \in Variants, NEW d \in Days, snap'[v][d].matured > 0
        PROVE  d + Maturation <= today'
    <3>1. d + Maturation <= today
      BY <1>2, <2>4 DEF WinnerInv
    <3> QED BY <1>0, <1>2, <3>1, ExperimentAssumption DEF Days
  <2> QED BY <1>2, <2>3, <2>4 DEF WinnerInv
<1> HIDE DEF Rows
<1>3. ASSUME NEW p \in Runs, \A q \in Runs \ {p} : run'[q] = run[q],
             run'[p].op = "evaluate" /\ run'[p].verdict.state = "winner_candidate" => Evidence,
             evaluation'.state = "winner_candidate" => Evidence, Kept
      PROVE  WinnerInv'
  BY <1>2, <1>3 DEF WinnerInv
<1>4. ASSUME NEW p \in Runs, Reading(p), ~SelectSnapshot(p) PROVE WinnerInv'
  <2>1. /\ \A q \in Runs \ {p} : run'[q] = run[q]
        /\ run'[p].verdict.state = "winner_candidate" => run'[p].verdict \in Verdicts
    BY <1>0, <1>4, ReadingIs
  <2>2. UNCHANGED <<today, design, evaluation, snap>>
    BY <1>4, ReadingGoes DEF TypeInv
  <2>3. run'[p].op = "evaluate" /\ run'[p].verdict.state = "winner_candidate" => Evidence
    BY <1>0, <2>1, WinnerHasEvidence
  <2> QED BY <1>0, <1>1, <1>3, <2>1, <2>2, <2>3 DEF WinnerInv
<1>5. ASSUME NEW p \in Runs, SelectSnapshot(p) PROVE WinnerInv'
  <2>1. /\ run'[p].op = "collect" /\ \A q \in Runs \ {p} : run'[q] = run[q]
        /\ UNCHANGED <<today, design, evaluation, snap>>
    BY <1>0, <1>5, SelectIs
  <2> QED BY <1>0, <1>1, <1>3, <2>1 DEF WinnerInv
<1>6. ASSUME NEW p \in Runs, Saving(p) PROVE WinnerInv'
  <2>1. run' = [run EXCEPT ![p] = Idle] /\ UNCHANGED <<today, design, snap>>
        /\ (run[p].op # "evaluate" => UNCHANGED evaluation)
    BY <1>6, SavingGoes DEF TypeInv
  <2>2. run'[p].op = "none" /\ \A q \in Runs \ {p} : run'[q] = run[q]
    BY <1>0, <2>1 DEF Idle, TypeOK
  <2>3. run[p].op = "evaluate" => evaluation' = run[p].verdict \/ evaluation' = evaluation
    BY <1>6 DEF Saving, Start, Stop, Complete, Expire, Evaluate
  <2>4. evaluation'.state = "winner_candidate" => Evidence
    BY <2>1, <2>3 DEF WinnerInv
  <2> QED BY <1>0, <1>1, <1>3, <2>1, <2>2, <2>4
<1>7. ASSUME NEW p \in Runs, Collect(p) PROVE WinnerInv'
  <2>1. UNCHANGED <<today, design, evaluation>> /\ run' = [run EXCEPT ![p] = Idle]
    BY <1>7 DEF Collect, Ends
  <2>2. run'[p].op = "none" /\ \A q \in Runs \ {p} : run'[q] = run[q]
    BY <1>0, <2>1 DEF Idle, TypeOK
  <2>3. Rows
    <3>1. TypeOK'
      BY TypeInductive DEF TypeInv
    <3>2. ASSUME NEW v \in Variants, NEW d \in Days
          PROVE  snap[v][d].matured \in Nat /\ snap'[v][d].matured \in Nat
      <4>1. /\ snap[v][d] \in [fresh : Nat, matured : Nat]
            /\ snap'[v][d] \in [fresh : Nat, matured : Nat]
        BY <1>0, <3>1 DEF TypeOK
      <4> QED BY <4>1
    <3> QED BY <1>0, <1>7, <3>2, CollectIs DEF Rows
  <2> QED BY <1>0, <1>3, <2>1, <2>2, <2>3 DEF WinnerInv
<1>8. CASE Create
  <2>1. PICK d \in Design : /\ ~Blocked(d) /\ design' = d
                            /\ d.mode = "EXPLORATORY" \/ d.variants = {} => d.pure
    BY <1>8 DEF Create
  <2>2. d.mode = "CONTROLLED" => d.pure
    BY <2>1 DEF Blocked, MixesVariables
  <2>3. \A p \in Runs : run[p].op = "none"
    BY <1>8 DEF Create, TypeInv, Admitted
  <2>4. evaluation.state = "none"
    BY <1>8 DEF Create, TypeInv, Unknown
  <2> QED BY <1>8, <2>1, <2>2, <2>3, <2>4 DEF Create, evalVars, WinnerInv
<1>9. CASE NextDay
  <2>1. Kept /\ UNCHANGED <<run, evaluation>>
    BY <1>0, <1>1, <1>9 DEF NextDay, evalVars
  <2> QED BY <1>2, <2>1 DEF WinnerInv
<1>10. CASE UNCHANGED vars
  <2>1. Kept /\ UNCHANGED <<run, evaluation>>
    BY <1>0, <1>1, <1>10 DEF vars, evalVars
  <2> QED BY <1>2, <2>1 DEF WinnerInv
<1> QED BY <1>4, <1>5, <1>6, <1>7, <1>8, <1>9, <1>10, StepCases

\* For every design and any number of variants: a winner candidate has a controlled design
\* with a control, and every compared variant has a snapshot older than the maturation
\* window (the sufficiency checks of evaluate_experiment against the task that matures).
THEOREM WinnersHaveEvidence == Spec => []WinnerNeedsEvidence
<1>1. Init => WinnerInv
  BY DEF Init, WinnerInv, NoDesign, Idle, NoEvaluation
<1>2. WinnerInv => WinnerNeedsEvidence
  BY DEF WinnerInv, WinnerNeedsEvidence, Evidence, Aged
<1> QED BY <1>1, <1>2, InitTypes, TypeInductive, WinnerInductive, PTL DEF Spec

-----------------------------------------------------------------------------
(* What the docs say of a winner is true of two variants.                   *)

\* The greatest of a confidence and none.
LEMMA GreatestOfTwo == ASSUME NEW x \in Nat PROVE Greatest({x} \cup {0}) = x
<1>1. x \in {x} \cup {0} /\ \A y \in {x} \cup {0} : y <= x
  OBVIOUS
<1>2. \A g \in {x} \cup {0} : (\A y \in {x} \cup {0} : y <= g) => g = x
  OBVIOUS
<1> QED BY <1>1, <1>2 DEF Greatest

LEMMA GreatestOfOne == ASSUME NEW x PROVE Greatest({x}) \in {x} \/ ~(x <= x)
BY DEF Greatest

\* A winner over one test variant is that variant, and it reaches both thresholds: the
\* sign that is turned twice for metrics of which less is better does no harm, because
\* these have no confidence.
LEMMA OneTestIsStrong ==
  ASSUME NEW d \in Design, NEW t, NEW res \in [{t} -> Results(d.metric)],
         Conclusion(d, res) = "winner_candidate"
  PROVE  t \in Strong(res)
<1> DEFINE diffs == {res[v].diff : v \in {u \in DOMAIN res : res[u].known}}
           conf  == Greatest({res[v].conf : v \in DOMAIN res} \cup {0})
           best  == BestDiff(d.metric, diffs)
           strong == best >= 2 /\ conf >= 3
           weak   == best >= 1 /\ conf >= 2
<1>1. res[t] \in Results(d.metric) /\ DOMAIN res = {t}
  OBVIOUS
<1>2. /\ res[t].known \in BOOLEAN /\ res[t].diff \in Int /\ res[t].conf \in Nat
      /\ d.metric = "lower" => res[t].conf = 0
  <2>1. Differences \subseteq Int /\ Confidences \subseteq Nat
    BY EvaluatorAssumption DEF Differences, Confidences
  <2> QED BY <1>1, <2>1 DEF Results, Result
<1>3. conf = res[t].conf
  <2>1. {res[v].conf : v \in DOMAIN res} = {res[t].conf}
    BY <1>1
  <2> QED BY <1>2, <2>1, GreatestOfTwo
<1>4. diffs # {} => res[t].known /\ diffs = {res[t].diff}
  BY <1>1
<1>5. diffs # {} /\ strong
  <2>1. CASE diffs = {}
    BY <2>1 DEF Conclusion
  <2>2. CASE diffs # {} /\ weak /\ ~strong
    BY <2>2 DEF Conclusion
  <2>3. CASE diffs # {} /\ ~weak /\ ~strong
    BY <2>3 DEF Conclusion
  <2> QED BY <2>1, <2>2, <2>3
<1>6. d.metric # "lower"
  BY <1>2, <1>3, <1>5
<1>7. best = res[t].diff
  <2>1. best = Greatest({res[t].diff})
    BY <1>4, <1>5, <1>6 DEF BestDiff
  <2>2. res[t].diff <= res[t].diff
    BY <1>2
  <2> QED BY <2>1, <2>2, GreatestOfOne
<1> HIDE DEF best, conf, diffs
<1> QED BY <1>1, <1>3, <1>4, <1>5, <1>7 DEF Strong

TwoVariants == Cardinality(Variants) <= 2

\* With a control, two variants leave one test at most.
LEMMA OneTest ==
  ASSUME TwoVariants, TypeOK, design.controls # {}, NEW t \in Tests(design)
  PROVE  Tests(design) = {t}
<1> SUFFICES ASSUME NEW u \in Tests(design), u # t PROVE FALSE
  OBVIOUS
<1>1. PICK c \in design.controls : TRUE
  OBVIOUS
<1>2. c \in Variants /\ t \in Variants /\ u \in Variants /\ c # t /\ c # u
  BY <1>1 DEF TypeOK, Design, Tests
<1>3. IsFiniteSet({c}) /\ Cardinality({c}) = 1
  BY FS_Singleton
<1>4. IsFiniteSet({c} \cup {t}) /\ Cardinality({c} \cup {t}) = 2
  BY <1>2, <1>3, FS_AddElement, SMTT(30)
<1>5. IsFiniteSet({c} \cup {t} \cup {u}) /\ Cardinality({c} \cup {t} \cup {u}) = 3
  BY <1>2, <1>4, FS_AddElement
<1>6. Cardinality({c} \cup {t} \cup {u}) <= Cardinality(Variants) /\ Cardinality(Variants) \in Nat
  BY <1>2, EvaluatorAssumption, Smaller
<1> QED BY <1>5, <1>6 DEF TwoVariants

StrongInv ==
  /\ \A p \in Runs : run[p].op = "evaluate" /\ run[p].verdict.state = "winner_candidate"
       => run[p].verdict.strong
  /\ WinnerIsStrong

LEMMA VerdictIsStrong ==
  ASSUME TwoVariants, TypeOK, NEW verdict \in Verdicts, verdict.state = "winner_candidate"
  PROVE  verdict.strong
<1>1. PICK missing \in Misses, results \in [Tests(design) -> Results(design.metric)] :
        verdict = Verdict(missing, results)
  BY DEF Verdicts
<1>2. EvaluationState(design, Total(missing), results) = "winner_candidate"
  BY <1>1 DEF Verdict
<1>3. /\ design.controls # {} /\ Total(missing) = 0
      /\ Conclusion(design, results) = "winner_candidate"
  BY <1>2, MissesTotal DEF EvaluationState
<1>4. PICK t \in Tests(design) : TRUE
  <2> SUFFICES ASSUME Tests(design) = {} PROVE FALSE
    OBVIOUS
  <2>1. {results[v].diff : v \in {u \in DOMAIN results : results[u].known}} = {}
    OBVIOUS
  <2> QED BY <1>3, <2>1 DEF Conclusion
<1>5. Tests(design) = {t} /\ design \in Design
  BY <1>3, OneTest DEF TypeOK
<1>6. t \in Strong(results)
  BY <1>3, <1>5, OneTestIsStrong
<1> QED BY <1>1, <1>3, <1>6 DEF Verdict

\* In an experiment of two variants, a winner candidate reaches the difference and the
\* confidence, as docs/EXPERIMENTATION.md says: it takes two tests to put a winner together
\* from the difference of one and the confidence of the other.
THEOREM TwoVariantsWinnerIsStrong == TwoVariants => (Spec => []WinnerIsStrong)
<1> SUFFICES ASSUME TwoVariants PROVE Spec => []WinnerIsStrong
  OBVIOUS
<1>1. Init => StrongInv
  BY DEF Init, StrongInv, WinnerIsStrong, Idle, NoEvaluation
<1>2. TypeInv /\ StrongInv /\ [Next]_vars => StrongInv'
  <2> SUFFICES ASSUME TypeInv, StrongInv, [Next]_vars PROVE StrongInv'
    OBVIOUS
  <2>0. TypeOK
    BY DEF TypeInv
  <2>1. ASSUME NEW p \in Runs, \A q \in Runs \ {p} : run'[q] = run[q],
               run'[p].op = "evaluate" /\ run'[p].verdict.state = "winner_candidate"
                 => run'[p].verdict.strong,
               evaluation' = evaluation
                 \/ (run[p].op = "evaluate" /\ evaluation' = run[p].verdict)
        PROVE  StrongInv'
    BY <2>1 DEF StrongInv, WinnerIsStrong
  <2>2. ASSUME NEW p \in Runs, Reading(p), ~SelectSnapshot(p) PROVE StrongInv'
    <3>1. /\ \A q \in Runs \ {p} : run'[q] = run[q]
          /\ run'[p].verdict.state = "winner_candidate" => run'[p].verdict \in Verdicts
      BY <2>0, <2>2, ReadingIs
    <3>2. UNCHANGED evaluation
      BY <2>2, ReadingGoes DEF TypeInv
    <3>3. run'[p].op = "evaluate" /\ run'[p].verdict.state = "winner_candidate"
            => run'[p].verdict.strong
      BY <2>0, <3>1, VerdictIsStrong
    <3> QED BY <2>1, <3>1, <3>2, <3>3
  <2>3. ASSUME NEW p \in Runs, SelectSnapshot(p) PROVE StrongInv'
    <3>1. /\ run'[p].op = "collect" /\ \A q \in Runs \ {p} : run'[q] = run[q]
          /\ UNCHANGED <<today, design, evaluation, snap>>
      BY <2>0, <2>3, SelectIs
    <3> QED BY <2>1, <3>1
  <2>4. ASSUME NEW p \in Runs, Saving(p) \/ Collect(p) PROVE StrongInv'
    <3>1. run' = [run EXCEPT ![p] = Idle]
      BY <2>4, SavingGoes DEF TypeInv, Collect, Ends
    <3>2. run'[p].op = "none" /\ \A q \in Runs \ {p} : run'[q] = run[q]
      BY <2>0, <3>1 DEF Idle, TypeOK
    <3>3. evaluation' = evaluation \/ (run[p].op = "evaluate" /\ evaluation' = run[p].verdict)
      BY <2>4 DEF Saving, Start, Stop, Complete, Expire, SaveStatus, Evaluate, Collect
    <3> QED BY <2>1, <3>2, <3>3
  <2>5. CASE Create \/ NextDay \/ UNCHANGED vars
    <3>1. UNCHANGED <<run, evaluation>>
      BY <2>5 DEF Create, NextDay, vars, evalVars
    <3> QED BY <3>1 DEF StrongInv, WinnerIsStrong
  <2> QED BY <2>2, <2>3, <2>4, <2>5, StepCases
<1>3. StrongInv => WinnerIsStrong
  BY DEF StrongInv
<1> QED BY <1>1, <1>2, <1>3, InitTypes, TypeInductive, PTL DEF Spec
=============================================================================
