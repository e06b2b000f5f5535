-------------------------- MODULE PublishGate_proofs --------------------------
(* Proofs about PublishGate: its types, that attempts are written once, that *)
(* an answer is about the caller's own payload, that a key has at most one   *)
(* ad, and how far the daily limit may be exceeded.                          *)
EXTENDS PublishGate, FiniteSetTheorems, TLAPS

LEMMA TimeType == 0 \in 0..MaxTime
BY PublishGateAssumption

LEMMA NoAttemptType == NoAttempt \in Attempt
<1>1. (CHOOSE h \in Payloads : TRUE) \in Payloads
  BY PublishGateAssumption
<1> QED BY <1>1, TimeType DEF NoAttempt, Attempt, Results

LEMMA IdleType == Idle \in Local
<1>1. (CHOOSE o \in Orgs : TRUE) \in Orgs /\ (CHOOSE k \in Keys : TRUE) \in Keys
  BY PublishGateAssumption
<1>2. NoAttempt.payload \in Payloads
  BY NoAttemptType DEF Attempt
<1>3. "idle" \in Places /\ "DRY_RUN" \in Modes /\ "none" \in Prev /\ "none" \in Answers
  BY DEF Places, Modes, Prev, Answers, Results
<1> QED BY <1>1, <1>2, <1>3, TimeType DEF Idle, Local

LEMMA TypeInitially == Init => TypeOK
BY TimeType, NoAttemptType, IdleType DEF Init, TypeOK

\* A handler that moves stays a handler.
LEMMA MoveType ==
  ASSUME NEW r \in Local, NEW place \in Places PROVE [r EXCEPT !.at = place] \in Local
BY DEF Local

LEMMA ReplyType ==
  ASSUME NEW r \in Local, NEW answer \in Answers
  PROVE  [r EXCEPT !.at = "idle", !.mode = Idle.mode, !.began = Idle.began,
                   !.answer = answer] \in Local
<1>1. "idle" \in Places /\ Idle.mode \in Modes /\ Idle.began \in 0..MaxTime
  BY IdleType DEF Local, Places
<1> QED BY <1>1 DEF Local

LEMMA NewAttemptType ==
  ASSUME TypeOK, NEW p \in Runs, NEW result \in Results
  PROVE  NewAttempt(p, result) \in [Orgs -> [Keys -> Attempt]]
<1>1. run[p] \in Local
  BY DEF TypeOK
<1>2. [result |-> result, payload |-> run[p].payload, created |-> run[p].began] \in Attempt
  BY <1>1 DEF Attempt, Local
<1>3. run[p].org \in Orgs /\ run[p].key \in Keys
  BY <1>1 DEF Local
<1> QED BY <1>2, <1>3 DEF NewAttempt, TypeOK

LEMMA TypeInductive == TypeOK /\ [Next]_vars => TypeOK'
<1> SUFFICES ASSUME TypeOK, [Next]_vars PROVE TypeOK'
  OBVIOUS
<1> USE DEF TypeOK
<1>type. \A p \in Runs : run[p] \in Local /\ run[p].org \in Orgs /\ run[p].key \in Keys
  BY DEF Local
<1>reply. ASSUME NEW p \in Runs, NEW answer \in Answers, Reply(p, answer)
          PROVE  run' \in [Runs -> Local]
  <2>1. [run[p] EXCEPT !.at = "idle", !.mode = Idle.mode, !.began = Idle.began,
                       !.answer = answer] \in Local
    BY <1>type, ReplyType
  <2> QED BY <1>reply, <2>1 DEF Reply
<1>ad. ASSUME NEW p \in Runs, ad' = [ad EXCEPT ![run[p].key] = @ \cup {run[p].org}]
       PROVE  ad' \in [Keys -> SUBSET Orgs]
  BY <1>ad, <1>type
<1>answers. Results \subseteq Answers /\ "conflict" \in Answers /\ "error" \in Answers
  BY DEF Answers
<1>results. /\ "rejected" \in Results /\ "simulated" \in Results
            /\ "in_progress" \in Results /\ "settled" \in Results
  BY DEF Results
<1>1. ASSUME NEW p \in Runs, NEW o \in Orgs, NEW k \in Keys, NEW h \in Payloads,
             NEW mode \in Modes, LookUp(p, o, k, h, mode)
      PROVE  TypeOK'
  <2>1. PICK prev \in Prev :
          run' = [run EXCEPT ![p] =
                    [at |-> "count", org |-> o, key |-> k, payload |-> h, mode |-> mode,
                     began |-> now, prev |-> prev, answer |-> "none"]]
    BY <1>1 DEF LookUp, Prev
  <2>2. "count" \in Places /\ "none" \in Answers
    BY DEF Places, Answers, Results
  <2>3. [at |-> "count", org |-> o, key |-> k, payload |-> h, mode |-> mode,
         began |-> now, prev |-> prev, answer |-> "none"] \in Local
    BY <2>2 DEF Local
  <2> QED BY <1>1, <2>1, <2>3 DEF LookUp
<1>2. ASSUME NEW p \in Runs, Guard(p) PROVE TypeOK'
  <2>1. PICK place \in Places : run' = [run EXCEPT ![p] = [run[p] EXCEPT !.at = place]]
    BY <1>2 DEF Guard, Places
  <2> QED BY <1>2, <1>type, <2>1, MoveType DEF Guard
<1>3. ASSUME NEW p \in Runs, SafeRetry(p) PROVE TypeOK'
  <2>1. Own(p).result \in Answers
    BY <1>type, <1>answers DEF Own, Attempt
  <2> QED BY <1>3, <1>reply, <2>1 DEF SafeRetry
<1>4. ASSUME NEW p \in Runs, Conflict(p) \/ IntegrityError(p) PROVE TypeOK'
  BY <1>4, <1>reply, <1>answers DEF Conflict, IntegrityError
<1>5. ASSUME NEW p \in Runs, Reject(p) PROVE TypeOK'
  BY <1>5, <1>reply, <1>answers, <1>results, NewAttemptType DEF Reject
<1>6. ASSUME NEW p \in Runs, Simulate(p) PROVE TypeOK'
  BY <1>6, <1>reply, <1>ad, <1>answers, <1>results, NewAttemptType DEF Simulate
<1>7. ASSUME NEW p \in Runs, StartReal(p) PROVE TypeOK'
  <2>1. run' \in [Runs -> Local]
    BY <1>7, <1>type, MoveType DEF StartReal, Places
  <2> QED BY <1>7, <2>1, <1>ad, <1>results, NewAttemptType DEF StartReal
<1>8. ASSUME NEW p \in Runs, Settle(p) PROVE TypeOK'
  <2>1. [Own(p) EXCEPT !.result = "settled"] \in Attempt
    <3>1. Own(p) \in Attempt
      BY <1>type DEF Own
    <3> QED BY <3>1, <1>results DEF Attempt
  <2>2. attempt' \in [Orgs -> [Keys -> Attempt]]
    BY <1>8, <1>type, <2>1 DEF Settle, Own
  <2> QED BY <1>8, <1>reply, <1>answers, <1>results, <2>2 DEF Settle
<1>9. ASSUME NEW p \in Runs, Crash(p) PROVE TypeOK'
  BY <1>9, IdleType DEF Crash
<1>10. CASE Tick
  BY <1>10, PublishGateAssumption DEF Tick
<1>11. CASE UNCHANGED vars
  BY <1>11 DEF vars
<1> QED BY <1>1, <1>2, <1>3, <1>4, <1>5, <1>6, <1>7, <1>8, <1>9, <1>10, <1>11 DEF Next

\* However requests interleave, expire and die, the rows and the handlers are well-formed.
THEOREM TypeCorrect == Spec => []TypeOK
BY TypeInitially, TypeInductive, PTL DEF Spec

-----------------------------------------------------------------------------
(* Attempts are written once.                                               *)

\* A request that publishes has its attempt in progress to itself.
PublishInv ==
  /\ TypeOK
  /\ \A p \in Runs : run[p].at = "publishing" =>
       Own(p).result = "in_progress" /\ Own(p).payload = run[p].payload
  /\ \A p, q \in Runs : p # q /\ run[p].at = "publishing" /\ run[q].at = "publishing"
       => run[p].org # run[q].org \/ run[p].key # run[q].key

\* Handler p inserts the attempt of key k in organisation o.
Inserts(p, o, k, result) ==
  /\ run[p].org = o /\ run[p].key = k
  /\ attempt[o][k].result = "none"
  /\ attempt'[o][k] = [result |-> result, payload |-> run[p].payload, created |-> run[p].began]

LEMMA InsertIs ==
  ASSUME TypeOK, NEW p \in Runs, NEW result, AttemptIsFree(p), attempt' = NewAttempt(p, result),
         NEW o \in Orgs, NEW k \in Keys
  PROVE  \/ Inserts(p, o, k, result)
         \/ attempt'[o][k] = attempt[o][k] /\ (o # run[p].org \/ k # run[p].key)
<1>1. run[p].org \in Orgs /\ run[p].key \in Keys
  BY DEF TypeOK, Local
<1>2. CASE o = run[p].org /\ k = run[p].key
  BY <1>1, <1>2 DEF Inserts, NewAttempt, AttemptIsFree, Own, TypeOK
<1>3. CASE o # run[p].org \/ k # run[p].key
  BY <1>1, <1>3 DEF NewAttempt, TypeOK
<1> QED BY <1>2, <1>3

LEMMA InsertLeaves ==
  ASSUME TypeOK, NEW p \in Runs, NEW result, AttemptIsFree(p), attempt' = NewAttempt(p, result),
         NEW o \in Orgs, NEW k \in Keys, run[p].org # o \/ run[p].key # k
  PROVE  attempt'[o][k] = attempt[o][k]
<1>1. ~Inserts(p, o, k, result)
  BY DEF Inserts
<1> QED BY <1>1, InsertIs

\* What a step does to the attempt of a key.
LEMMA AttemptStep ==
  ASSUME PublishInv, [Next]_vars, NEW o \in Orgs, NEW k \in Keys
  PROVE  \/ attempt'[o][k] = attempt[o][k]
         \/ \E p \in Runs : \/ Reject(p) /\ Inserts(p, o, k, "rejected")
                            \/ Simulate(p) /\ Inserts(p, o, k, "simulated")
                            \/ StartReal(p) /\ Inserts(p, o, k, "in_progress")
         \/ \E p \in Runs : /\ Settle(p) /\ run[p].org = o /\ run[p].key = k
                            /\ attempt[o][k].result = "in_progress"
                            /\ attempt'[o][k] = [attempt[o][k] EXCEPT !.result = "settled"]
<1> DEFINE Goal ==
         \/ attempt'[o][k] = attempt[o][k]
         \/ \E p \in Runs : \/ Reject(p) /\ Inserts(p, o, k, "rejected")
                            \/ Simulate(p) /\ Inserts(p, o, k, "simulated")
                            \/ StartReal(p) /\ Inserts(p, o, k, "in_progress")
         \/ \E p \in Runs : /\ Settle(p) /\ run[p].org = o /\ run[p].key = k
                            /\ attempt[o][k].result = "in_progress"
                            /\ attempt'[o][k] = [attempt[o][k] EXCEPT !.result = "settled"]
<1>0. TypeOK
  BY DEF PublishInv
<1>1. ASSUME NEW p \in Runs, Reject(p) PROVE Goal
  <2>1. Inserts(p, o, k, "rejected") \/ attempt'[o][k] = attempt[o][k]
    BY <1>0, <1>1, InsertIs DEF Reject
  <2> QED BY <1>1, <2>1
<1>2. ASSUME NEW p \in Runs, Simulate(p) PROVE Goal
  <2>1. Inserts(p, o, k, "simulated") \/ attempt'[o][k] = attempt[o][k]
    BY <1>0, <1>2, InsertIs DEF Simulate
  <2> QED BY <1>2, <2>1
<1>3. ASSUME NEW p \in Runs, StartReal(p) PROVE Goal
  <2>1. Inserts(p, o, k, "in_progress") \/ attempt'[o][k] = attempt[o][k]
    BY <1>0, <1>3, InsertIs DEF StartReal
  <2> QED BY <1>3, <2>1
<1>4. ASSUME NEW p \in Runs, Settle(p) PROVE Goal
  <2>1. run[p].org \in Orgs /\ run[p].key \in Keys /\ Own(p).result = "in_progress"
    BY <1>0, <1>4 DEF TypeOK, Local, PublishInv, Settle
  <2>2. CASE o = run[p].org /\ k = run[p].key
    BY <1>0, <1>4, <2>1, <2>2 DEF Settle, Own, TypeOK
  <2>3. CASE o # run[p].org \/ k # run[p].key
    BY <1>0, <1>4, <2>1, <2>3 DEF Settle, TypeOK
  <2> QED BY <2>2, <2>3
<1>5. ASSUME UNCHANGED attempt PROVE Goal
  BY <1>5
<1> HIDE DEF Goal
<1>6. Goal
  BY <1>1, <1>2, <1>3, <1>4, <1>5
     DEF Next, LookUp, Guard, SafeRetry, Conflict, IntegrityError, Crash, Tick, vars
<1> QED BY <1>6 DEF Goal

\* An attempt that exists keeps its payload, and its result unless it is in progress.
LEMMA AttemptStays ==
  ASSUME PublishInv, [Next]_vars, NEW o \in Orgs, NEW k \in Keys, attempt[o][k].result # "none"
  PROVE  /\ attempt'[o][k].payload = attempt[o][k].payload
         /\ \/ attempt'[o][k].result = attempt[o][k].result
            \/ attempt[o][k].result = "in_progress" /\ attempt'[o][k].result = "settled"
<1>1. attempt[o][k] \in Attempt
  BY DEF PublishInv, TypeOK
<1>2. /\ [attempt[o][k] EXCEPT !.result = "settled"].payload = attempt[o][k].payload
      /\ [attempt[o][k] EXCEPT !.result = "settled"].result = "settled"
  BY <1>1 DEF Attempt
<1> QED BY <1>2, AttemptStep DEF Inserts

\* The steps that move one handler.
RunStep(p) == \/ \E o \in Orgs, k \in Keys, h \in Payloads, mode \in Modes : LookUp(p, o, k, h, mode)
              \/ Guard(p) \/ SafeRetry(p) \/ Conflict(p) \/ Reject(p)
              \/ Simulate(p) \/ StartReal(p) \/ Settle(p) \/ IntegrityError(p)
              \/ Crash(p)

LEMMA OthersStay ==
  ASSUME TypeOK, NEW p \in Runs, RunStep(p), NEW q \in Runs \ {p} PROVE run'[q] = run[q]
BY DEF RunStep, LookUp, Guard, SafeRetry, Conflict, Reject, Simulate, StartReal, Settle,
       IntegrityError, Crash, Reply, TypeOK

LEMMA ReplyIs ==
  ASSUME TypeOK, NEW p \in Runs, NEW answer, Reply(p, answer)
  PROVE  /\ run'[p].at = "idle" /\ run'[p].answer = answer
         /\ run'[p].org = run[p].org /\ run'[p].key = run[p].key
         /\ run'[p].payload = run[p].payload /\ run'[p].prev = run[p].prev
<1>1. run[p] \in Local
  BY DEF TypeOK
<1>2. run'[p] = [run[p] EXCEPT !.at = "idle", !.mode = Idle.mode, !.began = Idle.began,
                              !.answer = answer]
  BY DEF Reply, TypeOK
<1> QED BY <1>1, <1>2 DEF Local

LEMMA StartIs ==
  ASSUME TypeOK, NEW p \in Runs, StartReal(p)
  PROVE  /\ run'[p].at = "publishing" /\ run'[p].org = run[p].org /\ run'[p].key = run[p].key
         /\ run'[p].payload = run[p].payload
BY DEF StartReal, TypeOK, Local

LEMMA LookUpIs ==
  ASSUME TypeOK, NEW p \in Runs, NEW o, NEW k, NEW h, NEW mode, LookUp(p, o, k, h, mode)
  PROVE  /\ run'[p].at = "count" /\ run'[p].org = o /\ run'[p].key = k
         /\ run'[p].payload = h
         /\ run'[p].prev = "same" => attempt[o][k].result # "none" /\ attempt[o][k].payload = h
BY DEF LookUp, TypeOK, Exists

LEMMA GuardIs ==
  ASSUME TypeOK, NEW p \in Runs, Guard(p)
  PROVE  /\ run'[p].at \in {"retry", "conflict", "blocked", "admitted"}
         /\ run'[p].at = "retry" => run[p].prev = "same"
         /\ run'[p].at = "admitted" =>
              Cardinality(SimulatedToday(run[p].org)) < MaxDailyNewAds
         /\ run'[p].org = run[p].org /\ run'[p].key = run[p].key
         /\ run'[p].payload = run[p].payload /\ run'[p].mode = run[p].mode
         /\ run'[p].began = run[p].began
<1>1. run[p] \in Local
  BY DEF TypeOK
<1>2. PICK verdict \in {"retry", "conflict", "blocked", "admitted"} :
        /\ verdict = "retry" <=> run[p].prev = "same"
        /\ verdict = "admitted" => Cardinality(SimulatedToday(run[p].org)) < MaxDailyNewAds
        /\ run' = [run EXCEPT ![p] = [run[p] EXCEPT !.at = verdict]]
  BY DEF Guard
<1>3. run'[p] = [run[p] EXCEPT !.at = verdict]
  BY <1>2 DEF TypeOK
<1> QED BY <1>1, <1>2, <1>3 DEF Local

LEMMA CrashIs ==
  ASSUME TypeOK, NEW p \in Runs, Crash(p)
  PROVE  run'[p].at = "idle" /\ run'[p].answer = "none"
BY DEF Crash, TypeOK, Idle

\* Only StartReal leads to publishing.
LEMMA PublishingStarts ==
  ASSUME TypeOK, NEW p \in Runs, RunStep(p), run'[p].at = "publishing" PROVE StartReal(p)
<1>1. \A answer : Reply(p, answer) => run'[p].at = "idle"
  BY ReplyIs
<1>2. \A o, k, h, mode : LookUp(p, o, k, h, mode) => run'[p].at = "count"
  BY LookUpIs
<1> QED BY <1>1, <1>2, GuardIs, CrashIs
        DEF RunStep, SafeRetry, Conflict, Reject, Simulate, Settle, IntegrityError

LEMMA PublishInductive == PublishInv /\ [Next]_vars => PublishInv'
<1> SUFFICES ASSUME PublishInv, [Next]_vars PROVE PublishInv'
  OBVIOUS
<1>type. /\ TypeOK /\ TypeOK'
         /\ \A p \in Runs : run[p].org \in Orgs /\ run[p].key \in Keys
  BY TypeInductive DEF PublishInv, TypeOK, Local
<1>1. ASSUME NEW p \in Runs, RunStep(p) PROVE PublishInv'
  <2>1. \A q \in Runs \ {p} : run'[q] = run[q]
    BY <1>1, <1>type, OthersStay
  <2>2. ASSUME NEW q \in Runs \ {p}, run[q].at = "publishing"
        PROVE  attempt'[run[q].org][run[q].key] = attempt[run[q].org][run[q].key]
    <3>1. Own(q).result = "in_progress"
      BY <2>2 DEF PublishInv
    <3>2. CASE Settle(p)
      <4>1. <<run[p].org, run[p].key>> # <<run[q].org, run[q].key>>
        BY <2>2, <3>2 DEF PublishInv, Settle
      <4> QED BY <1>type, <3>2, <4>1 DEF Settle, TypeOK
    <3>3. CASE Reject(p) \/ Simulate(p) \/ StartReal(p)
      <4>1. \E result : AttemptIsFree(p) /\ attempt' = NewAttempt(p, result)
        BY <3>3 DEF Reject, Simulate, StartReal
      <4>2. run[p].org # run[q].org \/ run[p].key # run[q].key
        BY <3>1, <4>1 DEF AttemptIsFree, Own
      <4> QED BY <1>type, <4>1, <4>2, InsertLeaves
    <3>4. CASE UNCHANGED attempt
      BY <3>4
    <3> QED BY <1>1, <3>2, <3>3, <3>4
            DEF RunStep, LookUp, Guard, SafeRetry, Conflict, IntegrityError, Crash
  <2>3. ASSUME run'[p].at = "publishing"
        PROVE  /\ Own(p)'.result = "in_progress" /\ Own(p)'.payload = run'[p].payload
               /\ \A q \in Runs \ {p} : run[q].at = "publishing" =>
                    run'[p].org # run[q].org \/ run'[p].key # run[q].key
    <3>1. StartReal(p)
      BY <1>1, <1>type, <2>3, PublishingStarts
    <3>2. Inserts(p, run[p].org, run[p].key, "in_progress")
      BY <1>type, <3>1, InsertIs DEF StartReal
    <3>3. /\ run'[p].org = run[p].org /\ run'[p].key = run[p].key
          /\ run'[p].payload = run[p].payload
      BY <1>type, <3>1, StartIs
    <3>4. \A q \in Runs : run[q].at = "publishing" =>
            run[p].org # run[q].org \/ run[p].key # run[q].key
      BY <3>2 DEF Inserts, PublishInv, Own
    <3> QED BY <3>2, <3>3, <3>4 DEF Inserts, Own
  <2> QED BY <1>type, <2>1, <2>2, <2>3 DEF PublishInv, Own
<1>2. CASE UNCHANGED <<attempt, run>>
  BY <1>2, <1>type DEF PublishInv, Own
<1> QED BY <1>1, <1>2 DEF Next, RunStep, Tick, vars

LEMMA PublishInitially == Init => PublishInv
<1> SUFFICES ASSUME Init PROVE PublishInv
  OBVIOUS
<1>1. \A p \in Runs : run[p].at = "idle"
  BY DEF Init, Idle
<1> QED BY <1>1, TypeInitially DEF PublishInv

\* For any number of handlers, organisations and keys: whatever expires, races or dies, an
\* attempt that was inserted keeps its result, payload and time, but for the settling of a
\* real publication in progress (the unique constraint, dry_run, publish_real).
THEOREM AttemptsFinal == Spec => AttemptsAreFinal
<1> DEFINE Final == \A o \in Orgs, k \in Keys :
                     Exists(o, k) =>
                       \/ attempt'[o][k] = attempt[o][k]
                       \/ /\ attempt[o][k].result = "in_progress"
                          /\ attempt'[o][k] = [attempt[o][k] EXCEPT !.result = "settled"]
<1>1. PublishInv /\ [Next]_vars => Final
  <2> SUFFICES ASSUME PublishInv, [Next]_vars, NEW o \in Orgs, NEW k \in Keys,
                      attempt[o][k].result # "none"
               PROVE  \/ attempt'[o][k] = attempt[o][k]
                      \/ /\ attempt[o][k].result = "in_progress"
                         /\ attempt'[o][k] = [attempt[o][k] EXCEPT !.result = "settled"]
    BY DEF Exists
  <2>1. \A p \in Runs : \A result : ~Inserts(p, o, k, result)
    BY DEF Inserts
  <2> QED BY <2>1, AttemptStep
<1> QED BY <1>1, PublishInitially, PublishInductive, PTL DEF Spec, AttemptsAreFinal

-----------------------------------------------------------------------------
(* An answer is about the caller's own payload.                             *)

\* Handler p was told that its key has an attempt with its payload.
SameFound(p) == (run[p].at = "count" /\ run[p].prev = "same") \/ run[p].at = "retry"

AnswerInv ==
  /\ PublishInv
  /\ \A p \in Runs : SameFound(p) => Own(p).result # "none" /\ Own(p).payload = run[p].payload
  /\ AnswerIsForPayload

\* What the conjuncts of AnswerInv ask of one handler.
Told(p) ==
  /\ SameFound(p) => Own(p).result # "none" /\ Own(p).payload = run[p].payload
  /\ run[p].at = "idle" /\ run[p].answer \in Results \ {"none"} =>
       /\ Own(p).payload = run[p].payload
       /\ \/ Own(p).result = run[p].answer
          \/ Own(p).result = "settled" /\ run[p].answer = "in_progress"

\* What a handler was told stays true, whoever else moves.
LEMMA ToldStays ==
  ASSUME PublishInv, [Next]_vars, NEW q \in Runs, Told(q), run'[q] = run[q] PROVE Told(q)'
<1>1. run[q].org \in Orgs /\ run[q].key \in Keys
  BY DEF PublishInv, TypeOK, Local
<1>2. Own(q)' = attempt'[run[q].org][run[q].key]
  BY DEF Own
<1>3. CASE Own(q).result = "none"
  BY <1>3 DEF Told, SameFound, Results
<1>4. CASE Own(q).result # "none"
  <2>1. /\ Own(q)'.payload = Own(q).payload
        /\ \/ Own(q)'.result = Own(q).result
           \/ Own(q).result = "in_progress" /\ Own(q)'.result = "settled"
    BY <1>1, <1>2, <1>4, AttemptStays DEF Own
  <2> QED BY <1>4, <2>1 DEF Told, SameFound
<1> QED BY <1>3, <1>4

\* An answer after the handler's own insert.
LEMMA InsertIsTold ==
  ASSUME PublishInv, NEW p \in Runs, NEW result \in Results, Reply(p, result),
         AttemptIsFree(p), attempt' = NewAttempt(p, result)
  PROVE  Told(p)'
<1>1. TypeOK /\ run[p].org \in Orgs /\ run[p].key \in Keys
  BY DEF PublishInv, TypeOK, Local
<1>2. /\ run'[p].at = "idle" /\ run'[p].answer = result
      /\ run'[p].org = run[p].org /\ run'[p].key = run[p].key
      /\ run'[p].payload = run[p].payload
  BY <1>1, ReplyIs
<1>3. Inserts(p, run[p].org, run[p].key, result)
  BY <1>1, InsertIs
<1>4. Own(p)'.result = result /\ Own(p)'.payload = run[p].payload
  BY <1>2, <1>3 DEF Inserts, Own
<1> QED BY <1>2, <1>4 DEF Told, SameFound

LEMMA ToldByStep ==
  ASSUME PublishInv, [Next]_vars, NEW p \in Runs, Told(p), RunStep(p) PROVE Told(p)'
<1>0. TypeOK /\ run[p].org \in Orgs /\ run[p].key \in Keys
  BY DEF PublishInv, TypeOK, Local
<1>other. ASSUME NEW answer \in {"conflict", "error"}, Reply(p, answer) PROVE Told(p)'
  BY <1>0, <1>other, ReplyIs DEF Told, SameFound, Results
<1>1. ASSUME NEW o \in Orgs, NEW k \in Keys, NEW h \in Payloads, NEW mode \in Modes,
             LookUp(p, o, k, h, mode)
      PROVE  Told(p)'
  <2>1. attempt' = attempt
    BY <1>1 DEF LookUp
  <2> QED BY <1>0, <1>1, <2>1, LookUpIs DEF Told, SameFound, Own
<1>2. CASE Guard(p)
  <2>1. attempt' = attempt /\ run[p].at = "count"
    BY <1>2 DEF Guard
  <2> QED BY <1>0, <1>2, <2>1, GuardIs DEF Told, SameFound, Own
<1>3. CASE SafeRetry(p)
  <2>1. attempt' = attempt /\ run[p].at = "retry" /\ Reply(p, Own(p).result)
    BY <1>3 DEF SafeRetry
  <2> QED BY <1>0, <2>1, ReplyIs DEF Told, SameFound, Own
<1>4. CASE Conflict(p) \/ IntegrityError(p)
  BY <1>4, <1>other DEF Conflict, IntegrityError
<1>5. CASE Reject(p)
  <2>1. CASE run[p].at = "blocked"
    BY <1>5, <2>1, InsertIsTold DEF Reject, Results
  <2>2. CASE run[p].at # "blocked"
    BY <1>5, <2>2, <1>other DEF Reject
  <2> QED BY <2>1, <2>2
<1>6. CASE Simulate(p)
  BY <1>6, InsertIsTold DEF Simulate, Results
<1>7. CASE StartReal(p)
  BY <1>0, <1>7, StartIs DEF Told, SameFound
<1>8. CASE Settle(p)
  <2>1. Own(p).result = "in_progress" /\ Own(p).payload = run[p].payload
    BY <1>8 DEF PublishInv, Settle
  <2>2. /\ run'[p].at = "idle" /\ run'[p].answer = "settled" /\ run'[p].org = run[p].org
        /\ run'[p].key = run[p].key /\ run'[p].payload = run[p].payload
    BY <1>0, <1>8, ReplyIs DEF Settle
  <2>3. attempt[run[p].org][run[p].key] \in Attempt
    BY <1>0 DEF TypeOK
  <2>4. attempt'[run[p].org][run[p].key]
          = [attempt[run[p].org][run[p].key] EXCEPT !.result = "settled"]
    BY <1>0, <1>8 DEF Settle, TypeOK
  <2>5. Own(p)'.result = "settled" /\ Own(p)'.payload = run[p].payload
    BY <2>1, <2>2, <2>3, <2>4 DEF Own, Attempt
  <2> QED BY <2>2, <2>5 DEF Told, SameFound
<1>9. CASE Crash(p)
  BY <1>0, <1>9, CrashIs DEF Told, SameFound
<1> QED BY <1>1, <1>2, <1>3, <1>4, <1>5, <1>6, <1>7, <1>8, <1>9 DEF RunStep

LEMMA AnswerInductive == AnswerInv /\ [Next]_vars => AnswerInv'
<1> SUFFICES ASSUME AnswerInv, [Next]_vars PROVE \A q \in Runs : Told(q)'
  BY PublishInductive DEF AnswerInv, Told, AnswerIsForPayload
<1>1. PublishInv /\ TypeOK /\ \A q \in Runs : Told(q)
  BY DEF AnswerInv, PublishInv, Told, AnswerIsForPayload
<1>2. ASSUME NEW p \in Runs, RunStep(p) PROVE \A q \in Runs : Told(q)'
  BY <1>1, <1>2, ToldStays, ToldByStep, OthersStay
<1>3. CASE UNCHANGED run
  BY <1>1, <1>3, ToldStays
<1> QED BY <1>2, <1>3 DEF Next, RunStep, Tick, vars

\* For any number of handlers, organisations, keys and payloads, through expiry, races and
\* crashes: a caller who is answered with a result gets that of its own payload
\* (the safe retry, the lookup of the key, the inserts).
THEOREM AnswersAreForPayload == Spec => []AnswerIsForPayload
<1>1. Init => AnswerInv
  <2> SUFFICES ASSUME Init PROVE AnswerInv
    OBVIOUS
  <2>1. \A p \in Runs : run[p].at = "idle" /\ run[p].answer = "none"
    BY DEF Init, Idle
  <2> QED BY <2>1, PublishInitially DEF AnswerInv, SameFound, AnswerIsForPayload
<1>2. AnswerInv => AnswerIsForPayload
  BY DEF AnswerInv
<1> QED BY <1>1, <1>2, AnswerInductive, PTL DEF Spec

-----------------------------------------------------------------------------
(* One ad for a key.                                                        *)

\* The organisations that were admitted under a key.
Admitted(k) == {o \in Orgs : attempt[o][k].result \in {"simulated", "in_progress", "settled"}}

AdInv ==
  /\ PublishInv
  /\ \A k \in Keys : /\ ad[k] = Admitted(k)
                     /\ \A o, u \in ad[k] : o = u

\* The insert of a key that is free for everybody.
LEMMA AdStep ==
  ASSUME AdInv, NEW p \in Runs, NEW result \in {"simulated", "in_progress"},
         AttemptIsFree(p), AdIsFree(p), attempt' = NewAttempt(p, result),
         ad' = [ad EXCEPT ![run[p].key] = @ \cup {run[p].org}], NEW k \in Keys
  PROVE  ad'[k] = Admitted(k)' /\ \A o, u \in ad'[k] : o = u
<1>0. TypeOK /\ run[p].org \in Orgs /\ run[p].key \in Keys
  BY DEF AdInv, PublishInv, TypeOK, Local
<1>1. CASE k = run[p].key
  <2>1. ad[k] = {} /\ ad'[k] = {run[p].org}
    BY <1>0, <1>1 DEF AdIsFree, TypeOK
  <2>2. \A o \in Orgs \ {run[p].org} : attempt'[o][k] = attempt[o][k]
    BY <1>0, InsertLeaves
  <2>3. attempt'[run[p].org][k].result = result
    <3>1. Inserts(p, run[p].org, k, result)
      BY <1>0, <1>1, InsertIs
    <3> QED BY <3>1 DEF Inserts
  <2>4. Admitted(k)' = {run[p].org}
    BY <1>0, <2>1, <2>2, <2>3 DEF AdInv, Admitted
  <2> QED BY <2>1, <2>4
<1>2. CASE k # run[p].key
  <2>1. ad'[k] = ad[k]
    BY <1>0, <1>2 DEF TypeOK
  <2>2. \A o \in Orgs : attempt'[o][k] = attempt[o][k]
    BY <1>0, <1>2, InsertIs DEF Inserts
  <2> QED BY <2>1, <2>2 DEF AdInv, Admitted
<1> QED BY <1>1, <1>2

LEMMA AdInductive == AdInv /\ [Next]_vars => AdInv'
<1> SUFFICES ASSUME AdInv, [Next]_vars, NEW k \in Keys
             PROVE  ad'[k] = Admitted(k)' /\ \A o, u \in ad'[k] : o = u
  BY PublishInductive DEF AdInv
<1>0. PublishInv
  BY DEF AdInv
<1>1. ASSUME NEW p \in Runs, Simulate(p) \/ StartReal(p)
      PROVE  ad'[k] = Admitted(k)' /\ \A o, u \in ad'[k] : o = u
  <2>1. PICK result \in {"simulated", "in_progress"} : attempt' = NewAttempt(p, result)
    BY <1>1 DEF Simulate, StartReal
  <2> QED BY <1>1, <2>1, AdStep DEF Simulate, StartReal
<1>2. CASE /\ ad' = ad
           /\ \A o \in Orgs : \/ attempt'[o][k].result = attempt[o][k].result
                              \/ /\ attempt[o][k].result = "none"
                                 /\ attempt'[o][k].result = "rejected"
                              \/ /\ attempt[o][k].result = "in_progress"
                                 /\ attempt'[o][k].result = "settled"
  BY <1>2 DEF AdInv, Admitted
<1>3. ASSUME NEW p \in Runs, Reject(p) \/ Settle(p)
      PROVE  \A o \in Orgs : \/ attempt'[o][k].result = attempt[o][k].result
                             \/ /\ attempt[o][k].result = "none"
                                /\ attempt'[o][k].result = "rejected"
                             \/ /\ attempt[o][k].result = "in_progress"
                                /\ attempt'[o][k].result = "settled"
  <2> SUFFICES ASSUME NEW o \in Orgs, attempt[o][k].result = "none" \/ attempt'[o][k] # attempt[o][k]
               PROVE  \/ attempt'[o][k].result = attempt[o][k].result
                      \/ /\ attempt[o][k].result = "none"
                         /\ attempt'[o][k].result = "rejected"
                      \/ /\ attempt[o][k].result = "in_progress"
                         /\ attempt'[o][k].result = "settled"
    OBVIOUS
  <2>1. CASE Reject(p)
    <3>1. Inserts(p, o, k, "rejected") \/ attempt'[o][k] = attempt[o][k]
      BY <1>0, <2>1, InsertIs DEF Reject, PublishInv
    <3> QED BY <3>1 DEF Inserts
  <2>2. CASE Settle(p)
    <3>1. run[p].org \in Orgs /\ run[p].key \in Keys /\ Own(p).result = "in_progress"
      BY <1>0, <2>2 DEF TypeOK, Local, PublishInv, Settle
    <3>2. attempt'[o][k] = attempt[o][k] \/ (o = run[p].org /\ k = run[p].key)
      BY <1>0, <2>2, <3>1 DEF Settle, PublishInv, TypeOK
    <3>3. attempt[o][k] \in Attempt
      BY <1>0 DEF PublishInv, TypeOK
    <3>4. o = run[p].org /\ k = run[p].key =>
            attempt'[o][k] = [attempt[o][k] EXCEPT !.result = "settled"]
      BY <1>0, <2>2, <3>1 DEF Settle, PublishInv, TypeOK
    <3> QED BY <3>1, <3>2, <3>3, <3>4 DEF Attempt, Own
  <2> QED BY <1>3, <2>1, <2>2
<1> QED BY <1>1, <1>2, <1>3
        DEF Next, LookUp, Guard, SafeRetry, Conflict, Reject, Settle, IntegrityError, Crash,
            Tick, vars

\* For any number of organisations and handlers: the PublishedAd of a key belongs to the one
\* organisation with an admitted attempt under it, although only the key of the ad is unique
\* and that of the attempt is per organisation (dry_run, publish_real).
THEOREM OneAdPerKey == Spec => []AdMatchesAttempt
<1>1. Init => AdInv
  BY PublishInitially DEF Init, AdInv, Admitted, NoAttempt
<1>2. AdInv => AdMatchesAttempt
  <2> SUFFICES ASSUME AdInv, NEW k \in Keys PROVE Cardinality(ad[k]) <= 1
    BY DEF AdMatchesAttempt, AdInv, Admitted
  <2>1. CASE ad[k] = {}
    BY <2>1, FS_EmptySet
  <2>2. CASE ad[k] # {}
    <3>1. PICK o : ad[k] = {o}
      BY <2>2 DEF AdInv
    <3>2. Cardinality({o}) = 1
      BY FS_Singleton
    <3> QED BY <3>1, <3>2
  <2> QED BY <2>1, <2>2
<1> QED BY <1>1, <1>2, AdInductive, PTL DEF Spec

-----------------------------------------------------------------------------
(* The daily limit.                                                         *)

\* The handlers that have passed the count of an organisation's simulations.
Passed(o) == {p \in Runs : run[p].at = "admitted" /\ run[p].mode = "DRY_RUN" /\ run[p].org = o}

LimitInv ==
  /\ PublishInv
  /\ \A o \in Orgs, k \in Keys : attempt[o][k].created <= now
  /\ \A p \in Runs : run[p].began <= now
  /\ \A o \in Orgs : /\ IsFiniteSet(SimulatedToday(o))
                     /\ Cardinality(SimulatedToday(o)) + Cardinality(Passed(o)) + 1
                          <= MaxDailyNewAds + Cardinality(Runs)

\* The days follow each other.
LEMMA DaysGrow ==
  ASSUME NEW s \in Nat, NEW t \in Nat, s <= t PROVE Day(s) \in Int /\ Day(s) <= Day(t)
BY PublishGateAssumption DEF Day

\* A set that is not larger.
LEMMA Smaller ==
  ASSUME NEW S, NEW T, IsFiniteSet(S), T \subseteq S
  PROVE  /\ IsFiniteSet(T) /\ Cardinality(T) \in Nat /\ Cardinality(S) \in Nat
         /\ Cardinality(T) <= Cardinality(S)
BY FS_Subset, FS_CardinalityType

\* A set with at most one element more.
LEMMA OneMore ==
  ASSUME NEW S, NEW T, NEW x, IsFiniteSet(S), T \subseteq S \cup {x}
  PROVE  /\ IsFiniteSet(T) /\ Cardinality(T) \in Nat /\ Cardinality(S) \in Nat
         /\ Cardinality(T) <= Cardinality(S) + 1
<1>1. IsFiniteSet(S \cup {x}) /\ Cardinality(S \cup {x}) <= Cardinality(S) + 1
  <2>1. x \in S => S \cup {x} = S
    OBVIOUS
  <2>2. Cardinality(S) \in Nat
    BY FS_CardinalityType
  <2>3. x \notin S => IsFiniteSet(S \cup {x}) /\ Cardinality(S \cup {x}) = Cardinality(S) + 1
    BY FS_AddElement
  <2> QED BY <2>1, <2>2, <2>3
<1>2. IsFiniteSet(T) /\ Cardinality(T) <= Cardinality(S \cup {x})
  BY <1>1, FS_Subset
<1>3. Cardinality(T) \in Nat /\ Cardinality(S) \in Nat /\ Cardinality(S \cup {x}) \in Nat
  BY <1>1, <1>2, FS_CardinalityType
<1> QED BY <1>1, <1>2, <1>3

\* A set that lost an element.
LEMMA OneLess ==
  ASSUME NEW S, NEW T, NEW x \in S, IsFiniteSet(S), T \subseteq S \ {x}
  PROVE  /\ IsFiniteSet(T) /\ Cardinality(T) \in Nat /\ Cardinality(S) \in Nat
         /\ Cardinality(T) + 1 <= Cardinality(S)
<1>1. IsFiniteSet(S \ {x}) /\ Cardinality(S \ {x}) = Cardinality(S) - 1
  BY FS_RemoveElement
<1>2. IsFiniteSet(T) /\ Cardinality(T) <= Cardinality(S \ {x})
  BY <1>1, FS_Subset
<1>3. Cardinality(T) \in Nat /\ Cardinality(S) \in Nat
  BY <1>2, FS_CardinalityType
<1> QED BY <1>1, <1>2, <1>3

\* What the invariant says of the counts of one organisation.
Limited(o) ==
  /\ IsFiniteSet(SimulatedToday(o))
  /\ Cardinality(SimulatedToday(o)) + Cardinality(Passed(o)) + 1
       <= MaxDailyNewAds + Cardinality(Runs)

LEMMA PassedFinite ==
  ASSUME NEW o
  PROVE  /\ IsFiniteSet(Passed(o)) /\ Cardinality(Passed(o)) \in Nat /\ Cardinality(Runs) \in Nat
         /\ Cardinality(Passed(o)) <= Cardinality(Runs)
BY PublishGateAssumption, Smaller DEF Passed

\* The clock: yesterday's simulations no longer count, and today's stay.
LEMMA TickLimit ==
  ASSUME LimitInv, Tick, NEW o \in Orgs PROVE Limited(o)'
<1>1. now \in Nat /\ now' \in Nat /\ now <= now'
  BY DEF LimitInv, PublishInv, TypeOK, Tick
<1>2. Passed(o)' = Passed(o)
  BY DEF Tick, Passed
<1>3. CASE Day(now') = Day(now)
  <2>1. SimulatedToday(o)' = SimulatedToday(o)
    BY <1>3 DEF Tick, SimulatedToday
  <2> QED BY <1>2, <2>1 DEF LimitInv, Limited
<1>4. CASE Day(now') # Day(now)
  <2>1. \A k \in Keys : attempt[o][k].created \in Nat /\ attempt[o][k].created <= now
    BY DEF LimitInv, PublishInv, TypeOK, Attempt
  <2>2. \A k \in Keys : Day(attempt[o][k].created) # Day(now')
    BY <1>1, <1>4, <2>1, DaysGrow
  <2>3. SimulatedToday(o)' = {}
    BY <2>2 DEF Tick, SimulatedToday
  <2> QED BY <1>2, <2>3, FS_EmptySet, PassedFinite, PublishGateAssumption DEF Limited
<1> QED BY <1>3, <1>4

\* A step that adds nothing to today's simulations and lets nobody pass.
LEMMA QuietLimit ==
  ASSUME LimitInv, NEW o \in Orgs, SimulatedToday(o)' \subseteq SimulatedToday(o),
         Passed(o)' \subseteq Passed(o)
  PROVE  Limited(o)'
<1>1. Limited(o)
  BY DEF LimitInv, Limited
<1>2. /\ IsFiniteSet(SimulatedToday(o)') /\ Cardinality(SimulatedToday(o)') \in Nat
      /\ Cardinality(SimulatedToday(o)) \in Nat
      /\ Cardinality(SimulatedToday(o)') <= Cardinality(SimulatedToday(o))
  BY <1>1, Smaller DEF Limited
<1>3. /\ Cardinality(Passed(o)') \in Nat /\ Cardinality(Passed(o)) \in Nat
      /\ Cardinality(Passed(o)') <= Cardinality(Passed(o)) /\ Cardinality(Runs) \in Nat
  BY PassedFinite, Smaller
<1> QED BY <1>1, <1>2, <1>3, PublishGateAssumption DEF Limited

\* The guard lets a handler pass only below the limit, which all of them may do at once.
LEMMA GuardLimit ==
  ASSUME LimitInv, NEW p \in Runs, Guard(p), NEW o \in Orgs PROVE Limited(o)'
<1>1. TypeOK /\ Limited(o)
  BY DEF LimitInv, PublishInv, Limited
<1>2. SimulatedToday(o)' = SimulatedToday(o)
  BY DEF Guard, SimulatedToday
<1>3. \A q \in Runs \ {p} : run'[q] = run[q]
  BY <1>1, OthersStay DEF RunStep
<1>4. CASE run'[p].at = "admitted" /\ run[p].org = o
  <2>1. Cardinality(SimulatedToday(o)) < MaxDailyNewAds
    BY <1>1, <1>4, GuardIs
  <2>2. /\ Cardinality(Passed(o)') \in Nat /\ Cardinality(Runs) \in Nat
        /\ Cardinality(Passed(o)') <= Cardinality(Runs)
    BY PublishGateAssumption, Smaller DEF Passed
  <2>3. Cardinality(SimulatedToday(o)) \in Nat
    BY <1>1, FS_CardinalityType DEF Limited
  <2> QED BY <1>1, <1>2, <2>1, <2>2, <2>3, PublishGateAssumption DEF Limited
<1>5. CASE ~(run'[p].at = "admitted" /\ run[p].org = o)
  <2>1. run'[p].org = run[p].org
    BY <1>1, GuardIs
  <2>2. Passed(o)' \subseteq Passed(o)
    BY <1>3, <1>5, <2>1 DEF Passed
  <2> QED BY <1>2, <2>2, QuietLimit
<1> QED BY <1>4, <1>5

\* A handler that adds a simulation no longer counts as one that passed.
LEMMA SimulateLimit ==
  ASSUME LimitInv, NEW p \in Runs, Simulate(p), NEW o \in Orgs PROVE Limited(o)'
<1>1. /\ TypeOK /\ Limited(o) /\ run[p].key \in Keys /\ now' = now
      /\ AttemptIsFree(p) /\ attempt' = NewAttempt(p, "simulated")
  BY DEF LimitInv, PublishInv, Limited, TypeOK, Local, Simulate
<1>2. \A k \in Keys : run[p].org # o \/ k # run[p].key => attempt'[o][k] = attempt[o][k]
  BY <1>1, InsertLeaves
<1>3. run'[p].at = "idle" /\ \A q \in Runs \ {p} : run'[q] = run[q]
  BY <1>1, ReplyIs, OthersStay DEF RunStep, Simulate
<1>4. CASE run[p].org = o
  <2>1. SimulatedToday(o)' \subseteq SimulatedToday(o) \cup {run[p].key}
    BY <1>1, <1>2 DEF SimulatedToday
  <2>2. p \in Passed(o) /\ Passed(o)' \subseteq Passed(o) \ {p}
    BY <1>3, <1>4 DEF Passed, Simulate
  <2>3. /\ IsFiniteSet(SimulatedToday(o)') /\ Cardinality(SimulatedToday(o)') \in Nat
        /\ Cardinality(SimulatedToday(o)) \in Nat
        /\ Cardinality(SimulatedToday(o)') <= Cardinality(SimulatedToday(o)) + 1
    BY <1>1, <2>1, OneMore DEF Limited
  <2>4. /\ Cardinality(Passed(o)') \in Nat /\ Cardinality(Passed(o)) \in Nat
        /\ Cardinality(Passed(o)') + 1 <= Cardinality(Passed(o))
    BY <2>2, PassedFinite, OneLess
  <2> QED BY <1>1, <2>3, <2>4, PassedFinite, PublishGateAssumption DEF Limited
<1>5. CASE run[p].org # o
  <2>1. SimulatedToday(o)' \subseteq SimulatedToday(o)
    BY <1>1, <1>2, <1>5 DEF SimulatedToday
  <2>2. Passed(o)' \subseteq Passed(o)
    BY <1>3 DEF Passed
  <2> QED BY <2>1, <2>2, QuietLimit
<1> QED BY <1>4, <1>5

\* What the other steps of a handler add.
LEMMA OtherLimit ==
  ASSUME LimitInv, NEW p \in Runs, RunStep(p), ~Guard(p), ~Simulate(p), NEW o \in Orgs
  PROVE  Limited(o)'
<1>1. /\ TypeOK /\ PublishInv /\ [Next]_vars
      /\ now' = now
      /\ \A q \in Runs \ {p} : run'[q] = run[q]
  <2>1. TypeOK /\ PublishInv
    BY DEF LimitInv, PublishInv
  <2>2. now' = now
    BY DEF RunStep, LookUp, SafeRetry, Conflict, Reject, StartReal, Settle, IntegrityError, Crash
  <2>3. Next
    BY DEF RunStep, Next
  <2> QED BY <2>1, <2>2, <2>3, OthersStay
<1>2. run'[p].at # "admitted"
  <2>1. \A answer : Reply(p, answer) => run'[p].at = "idle"
    BY <1>1, ReplyIs
  <2>2. \A u, k, h, mode : LookUp(p, u, k, h, mode) => run'[p].at = "count"
    BY <1>1, LookUpIs
  <2> QED BY <1>1, <2>1, <2>2, StartIs, CrashIs
          DEF RunStep, SafeRetry, Conflict, Reject, Settle, IntegrityError
<1>3. Passed(o)' \subseteq Passed(o)
  BY <1>1, <1>2 DEF Passed
<1>4. ASSUME NEW k \in Keys, attempt'[o][k].result = "simulated"
      PROVE  attempt'[o][k] = attempt[o][k]
  <2>1. CASE Reject(p)
    <3>1. Inserts(p, o, k, "rejected") \/ attempt'[o][k] = attempt[o][k]
      BY <1>1, <2>1, InsertIs DEF Reject
    <3> QED BY <1>4, <3>1 DEF Inserts
  <2>2. CASE StartReal(p)
    <3>1. Inserts(p, o, k, "in_progress") \/ attempt'[o][k] = attempt[o][k]
      BY <1>1, <2>2, InsertIs DEF StartReal
    <3> QED BY <1>4, <3>1 DEF Inserts
  <2>3. CASE Settle(p)
    <3>1. run[p].org \in Orgs /\ run[p].key \in Keys
      BY <1>1 DEF TypeOK, Local
    <3>2. attempt'[run[p].org][run[p].key].result = "settled"
      BY <1>1, <2>3, <3>1 DEF Settle, TypeOK, Attempt
    <3> QED BY <1>1, <1>4, <2>3, <3>1, <3>2 DEF Settle, TypeOK
  <2>4. CASE attempt' = attempt
    BY <2>4
  <2> QED BY <2>1, <2>2, <2>3, <2>4
          DEF RunStep, LookUp, SafeRetry, Conflict, IntegrityError, Crash
<1>5. SimulatedToday(o)' \subseteq SimulatedToday(o)
  BY <1>1, <1>4 DEF SimulatedToday
<1> QED BY <1>3, <1>5, QuietLimit

\* Transactions began in the past, and so were their rows.
LEMMA PastStays ==
  ASSUME LimitInv, [Next]_vars
  PROVE  /\ \A o \in Orgs, k \in Keys : attempt'[o][k].created <= now'
         /\ \A p \in Runs : run'[p].began <= now'
<1>1. /\ TypeOK /\ PublishInv /\ now \in Nat /\ now' \in Nat /\ now <= now'
      /\ Idle.began = 0
  <2>1. TypeOK /\ PublishInv /\ now \in Nat /\ Idle.began = 0
    BY DEF LimitInv, PublishInv, TypeOK, Idle
  <2>2. \A p \in Runs : RunStep(p) => now' = now
    BY DEF RunStep, LookUp, Guard, SafeRetry, Conflict, Reject, Simulate, StartReal, Settle,
           IntegrityError, Crash
  <2>3. now' = now \/ now' = now + 1
    BY <2>2 DEF Next, RunStep, Tick, vars
  <2> QED BY <2>1, <2>3
<1>2. \A o \in Orgs, k \in Keys : /\ attempt[o][k].created \in Nat /\ attempt[o][k].created <= now
                                  /\ attempt[o][k] \in Attempt
  BY <1>1 DEF LimitInv, TypeOK, Attempt
<1>3. \A p \in Runs : /\ run[p].began \in Nat /\ run[p].began <= now /\ run[p] \in Local
  BY <1>1 DEF LimitInv, TypeOK, Local
<1>4. ASSUME NEW o \in Orgs, NEW k \in Keys PROVE attempt'[o][k].created <= now'
  <2>1. \/ attempt'[o][k].created = attempt[o][k].created
        \/ \E p \in Runs : attempt'[o][k].created = run[p].began
    <3>1. [attempt[o][k] EXCEPT !.result = "settled"].created = attempt[o][k].created
      BY <1>2 DEF Attempt
    <3>2. ASSUME NEW p \in Runs, NEW result, Inserts(p, o, k, result)
          PROVE  attempt'[o][k].created = run[p].began
      BY <3>2 DEF Inserts
    <3>3. \/ attempt'[o][k] = attempt[o][k]
          \/ \E p \in Runs, result \in Results : Inserts(p, o, k, result)
          \/ attempt'[o][k] = [attempt[o][k] EXCEPT !.result = "settled"]
      BY <1>1, AttemptStep DEF Results
    <3>4. CASE attempt'[o][k] = attempt[o][k]
      BY <3>4
    <3>5. CASE \E p \in Runs, result \in Results : Inserts(p, o, k, result)
      BY <3>2, <3>5
    <3>6. CASE attempt'[o][k] = [attempt[o][k] EXCEPT !.result = "settled"]
      BY <3>1, <3>6
    <3> QED BY <3>3, <3>4, <3>5, <3>6
  <2> QED BY <1>1, <1>2, <1>3, <2>1
<1>5. ASSUME NEW p \in Runs PROVE run'[p].began <= now'
  <2>1. run'[p].began = run[p].began \/ run'[p].began = 0 \/ run'[p].began = now
    <3>1. CASE RunStep(p)
      <4>1. \A answer : Reply(p, answer) => run'[p].began = 0
        BY <1>1, <1>3 DEF Reply, TypeOK, Local
      <4>2. \A u, k, h, mode : LookUp(p, u, k, h, mode) => run'[p].began = now
        BY <1>1 DEF LookUp, TypeOK
      <4>3. StartReal(p) => run'[p].began = run[p].began
        BY <1>1, <1>3 DEF StartReal, TypeOK, Local
      <4>4. Crash(p) => run'[p].began = 0
        BY <1>1 DEF Crash, TypeOK
      <4> QED BY <1>1, <3>1, <4>1, <4>2, <4>3, <4>4, GuardIs
              DEF RunStep, SafeRetry, Conflict, Reject, Simulate, Settle, IntegrityError
    <3>2. ASSUME NEW q \in Runs \ {p}, RunStep(q) PROVE run'[p] = run[p]
      BY <1>1, <3>2, OthersStay
    <3>3. CASE UNCHANGED run
      BY <3>3
    <3> QED BY <3>1, <3>2, <3>3 DEF Next, RunStep, Tick, vars
  <2> QED BY <1>1, <1>3, <2>1
<1> QED BY <1>4, <1>5

LEMMA LimitInductive == LimitInv /\ [Next]_vars => LimitInv'
<1> SUFFICES ASSUME LimitInv, [Next]_vars PROVE \A o \in Orgs : Limited(o)'
  BY PublishInductive, PastStays DEF LimitInv, Limited
<1>1. ASSUME NEW p \in Runs, RunStep(p) PROVE \A o \in Orgs : Limited(o)'
  BY <1>1, GuardLimit, SimulateLimit, OtherLimit
<1>2. CASE Tick
  BY <1>2, TickLimit
<1>3. CASE UNCHANGED vars
  <2>1. \A o \in Orgs : SimulatedToday(o)' = SimulatedToday(o) /\ Passed(o)' = Passed(o)
    BY <1>3 DEF vars, SimulatedToday, Passed
  <2> QED BY <2>1, QuietLimit
<1> QED BY <1>1, <1>2, <1>3 DEF Next, RunStep

LEMMA LimitInitially == Init => LimitInv
<1> SUFFICES ASSUME Init PROVE LimitInv
  OBVIOUS
<1>1. \A p \in Runs : run[p].began <= now
  BY DEF Init, Idle
<1>2. \A o \in Orgs, k \in Keys : attempt[o][k].created <= now
  BY DEF Init, NoAttempt
<1>3. \A o \in Orgs : SimulatedToday(o) = {}
  BY DEF Init, NoAttempt, SimulatedToday
<1>4. \A o \in Orgs : Passed(o) = {}
  BY DEF Init, Idle, Passed
<1>5. IsFiniteSet({}) /\ Cardinality({}) = 0 /\ Cardinality(Runs) \in Nat
  BY FS_EmptySet, FS_CardinalityType, PublishGateAssumption
<1>6. MaxDailyNewAds \in Nat /\ 0 + 0 + 1 <= MaxDailyNewAds + Cardinality(Runs)
  BY <1>5, PublishGateAssumption
<1>7. ASSUME NEW o \in Orgs PROVE Limited(o)
  BY <1>3, <1>4, <1>5, <1>6 DEF Limited
<1> QED BY <1>1, <1>2, <1>7, PublishInitially DEF LimitInv, Limited

\* For any limit, clock, number of handlers and organisations: the count is read before the
\* insert, yet each handler that passed it takes part of what the day may exceed, so a day
\* sees at most one simulation too many for each other handler
\* (_build_guard_context, evaluate_guards, dry_run).
THEOREM DailyLimit == Spec => []OvershootIsBounded
<1>1. LimitInv => OvershootIsBounded
  <2> SUFFICES ASSUME LimitInv, NEW o \in Orgs
               PROVE  Cardinality(SimulatedToday(o)) <= MaxDailyNewAds + Cardinality(Runs) - 1
    BY DEF OvershootIsBounded
  <2>1. Cardinality(SimulatedToday(o)) \in Nat
    BY FS_CardinalityType DEF LimitInv
  <2> QED BY <2>1, PassedFinite, PublishGateAssumption DEF LimitInv
<1> QED BY <1>1, LimitInitially, LimitInductive, PTL DEF Spec
=============================================================================
