------------------------------ MODULE PublishGate ------------------------------
(***************************************************************************)
(* The gate in front of a publication: how PublicationService.dry_run and  *)
(* publish_real look an idempotency key up, count today's simulations, run *)
(* the guards, and write the PublicationAttempt and the PublishedAd.       *)
(*                                                                         *)
(* A request reads and writes in separate statements of one transaction,   *)
(* so other requests commit between its checks and its inserts; only the   *)
(* unique constraints are checked at the insert.  Real publications in     *)
(* progress are settled by RealPublish.                                    *)
(***************************************************************************)
EXTENDS Naturals, FiniteSets

CONSTANTS
  Runs,            \* request handlers; each serves one request after another
  Orgs,            \* organisations
  Keys,            \* idempotency keys
  Payloads,        \* canonical payload hashes
  MaxDailyNewAds,  \* settings.max_daily_new_ads
  TicksPerDay,     \* the resolution of the clock
  Ttl,             \* settings.publication_idempotency_ttl_hours, in ticks
  MaxTime          \* bound of the clock

ASSUME PublishGateAssumption ==
  /\ IsFiniteSet(Runs)
  /\ Orgs # {} /\ Keys # {} /\ Payloads # {}
  /\ MaxDailyNewAds \in Nat \ {0}
  /\ TicksPerDay \in Nat \ {0}
  /\ Ttl \in Nat
  /\ MaxTime \in Nat

VARIABLES
  now,       \* the time
  attempt,   \* attempt[o][k]: the PublicationAttempt row of a key in an organisation
  ad,        \* ad[k]: the organisations with a PublishedAd row under key k
  run        \* the local state of a handler

vars == <<now, attempt, ad, run>>

-----------------------------------------------------------------------------

\* "settled" stands for published, failed and requires_manual_review.
Results == {"none", "simulated", "rejected", "in_progress", "settled"}
Modes   == {"DRY_RUN", "REAL"}
\* "conflict": 409; "error": an IntegrityError, answered with 500.
Answers == Results \cup {"conflict", "error"}
Attempt == [result : Results, payload : Payloads, created : 0..MaxTime]
Prev    == {"none", "same", "other"}
Places  == {"idle", "count", "retry", "conflict", "blocked", "admitted", "publishing"}

Local == [at : Places, org : Orgs, key : Keys, payload : Payloads, mode : Modes,
          began : 0..MaxTime, prev : Prev, answer : Answers]

NoAttempt == [result |-> "none", payload |-> CHOOSE h \in Payloads : TRUE, created |-> 0]
Idle == [at |-> "idle", org |-> CHOOSE o \in Orgs : TRUE, key |-> CHOOSE k \in Keys : TRUE,
         payload |-> NoAttempt.payload, mode |-> "DRY_RUN", began |-> 0, prev |-> "none",
         answer |-> "none"]

Day(t) == t \div TicksPerDay

Exists(o, k) == attempt[o][k].result # "none"

\* The attempts of an organisation that count for its daily limit.
SimulatedToday(o) ==
  {k \in Keys : /\ attempt[o][k].result = "simulated"
                /\ Day(attempt[o][k].created) = Day(now)}

Own(p) == attempt[run[p].org][run[p].key]

\* What the answer does not depend on is forgotten with the request.
Reply(p, answer) ==
  run' = [run EXCEPT ![p] = [@ EXCEPT !.at = "idle", !.mode = Idle.mode, !.began = Idle.began,
                                      !.answer = answer]]

-----------------------------------------------------------------------------
(* _build_guard_context.                                                    *)

\* Mutant: the payloads are not compared.
LookUpKeyOnly(p, o, k, payload, mode) ==
  /\ run[p].at = "idle"
  /\ run' = [run EXCEPT ![p] =
       [at |-> "count", org |-> o, key |-> k, payload |-> payload, mode |-> mode,
        began |-> now, prev |-> IF Exists(o, k) THEN "same" ELSE "none",
        answer |-> "none"]]
  /\ UNCHANGED <<now, attempt, ad>>

\* The lookup sees only attempts that are younger than the TTL.
LookUp(p, o, k, payload, mode) ==
  /\ run[p].at = "idle"
  /\ LET a    == attempt[o][k]
         prev == IF ~Exists(o, k) \/ a.created + Ttl < now THEN "none"
                 ELSE IF a.payload = payload THEN "same" ELSE "other"
     IN  run' = [run EXCEPT ![p] =
           [at |-> "count", org |-> o, key |-> k, payload |-> payload, mode |-> mode,
            began |-> now, prev |-> prev, answer |-> "none"]]
  /\ UNCHANGED <<now, attempt, ad>>

\* Mutant: off by one.
GuardAtMost(p) ==
  /\ run[p].at = "count"
  /\ run[p].prev = "none"
  /\ Cardinality(SimulatedToday(run[p].org)) <= MaxDailyNewAds
  /\ run' = [run EXCEPT ![p].at = "admitted"]
  /\ UNCHANGED <<now, attempt, ad>>

\* The guards decide on what was read.  A safe retry takes precedence over a guard
\* that blocks; the guards that are not modelled may block at any time.
Guard(p) ==
  /\ run[p].at = "count"
  /\ \E verdict \in {"retry", "conflict", "blocked", "admitted"} :
       /\ verdict = "retry" <=> run[p].prev = "same"
       /\ verdict = "conflict" <=> run[p].prev = "other"
       /\ verdict = "admitted"
            => Cardinality(SimulatedToday(run[p].org)) < MaxDailyNewAds
       /\ run' = [run EXCEPT ![p].at = verdict]
  /\ UNCHANGED <<now, attempt, ad>>

-----------------------------------------------------------------------------
(* dry_run and publish_real.                                                *)

\* The row an insert adds; its created_at is the start of the transaction.
NewAttempt(p, result) ==
  [attempt EXCEPT ![run[p].org][run[p].key] =
     [result |-> result, payload |-> run[p].payload, created |-> run[p].began]]

\* Mutant: an expired attempt gives its key back.
AttemptIsFreeAgain(p) == Own(p).result = "none" \/ Own(p).created + Ttl < now

\* Mutant: the key of a PublishedAd is unique per organisation only.
AdIsFreeInOrg(p) == run[p].org \notin ad[run[p].key]

\* uq_attempt_org_idem_key is per organisation, the key of a PublishedAd is not.
AttemptIsFree(p) == Own(p).result = "none"
AdIsFree(p)      == ad[run[p].key] = {}

\* A safe retry reads the stored result again, without the TTL, and returns it.
SafeRetry(p) ==
  /\ run[p].at = "retry"
  /\ Reply(p, Own(p).result)
  /\ UNCHANGED <<now, attempt, ad>>

\* A conflict found by dry_run is answered without an insert.
Conflict(p) ==
  /\ run[p].at = "conflict" /\ run[p].mode = "DRY_RUN"
  /\ Reply(p, "conflict")
  /\ UNCHANGED <<now, attempt, ad>>

\* Mutant: the verdict is stored instead of the result.
RejectWithVerdict(p) ==
  /\ run[p].at = "blocked" \/ (run[p].at = "conflict" /\ run[p].mode = "REAL")
  /\ AttemptIsFree(p)
  /\ attempt' = NewAttempt(p, run[p].at)
  /\ Reply(p, "rejected")
  /\ UNCHANGED <<now, ad>>

\* Everything else that is blocked is inserted as a rejected attempt, and publish_real
\* tries to do so with a conflict too, for which the router has the answer 409.
Reject(p) ==
  /\ \/ run[p].at = "blocked"
     \/ run[p].at = "conflict" /\ run[p].mode = "REAL"
  /\ AttemptIsFree(p)
  /\ attempt' = NewAttempt(p, "rejected")
  /\ Reply(p, IF run[p].at = "blocked" THEN "rejected" ELSE "conflict")
  /\ UNCHANGED <<now, ad>>

Simulate(p) ==
  /\ run[p].at = "admitted" /\ run[p].mode = "DRY_RUN"
  /\ AttemptIsFree(p) /\ AdIsFree(p)
  /\ attempt' = NewAttempt(p, "simulated")
  /\ ad' = [ad EXCEPT ![run[p].key] = @ \cup {run[p].org}]
  /\ Reply(p, "simulated")
  /\ UNCHANGED now

StartReal(p) ==
  /\ run[p].at = "admitted" /\ run[p].mode = "REAL"
  /\ AttemptIsFree(p) /\ AdIsFree(p)
  /\ attempt' = NewAttempt(p, "in_progress")
  /\ ad' = [ad EXCEPT ![run[p].key] = @ \cup {run[p].org}]
  /\ run' = [run EXCEPT ![p].at = "publishing"]
  /\ UNCHANGED now

Settle(p) ==
  /\ run[p].at = "publishing"
  /\ attempt' = [attempt EXCEPT ![run[p].org][run[p].key].result = "settled"]
  /\ Reply(p, "settled")
  /\ UNCHANGED <<now, ad>>

\* An insert that meets a unique constraint rolls the transaction back.
IntegrityError(p) ==
  /\ \/ run[p].at = "admitted" /\ ~(AttemptIsFree(p) /\ AdIsFree(p))
     \/ run[p].at = "blocked" /\ ~AttemptIsFree(p)
     \/ run[p].at = "conflict" /\ run[p].mode = "REAL" /\ ~AttemptIsFree(p)
  /\ Reply(p, "error")
  /\ UNCHANGED <<now, attempt, ad>>

\* The handler dies; an attempt in progress stays as it is.
Crash(p) ==
  /\ run[p].at # "idle"
  /\ run' = [run EXCEPT ![p] = Idle]
  /\ UNCHANGED <<now, attempt, ad>>

Tick == /\ now < MaxTime
        /\ now' = now + 1
        /\ UNCHANGED <<attempt, ad, run>>

-----------------------------------------------------------------------------

Init ==
  /\ now = 0
  /\ attempt = [o \in Orgs |-> [k \in Keys |-> NoAttempt]]
  /\ ad = [k \in Keys |-> {}]
  /\ run = [p \in Runs |-> Idle]

Next == \/ \E p \in Runs :
             \/ \E o \in Orgs, k \in Keys, h \in Payloads, mode \in Modes :
                  LookUp(p, o, k, h, mode)
             \/ Guard(p) \/ SafeRetry(p) \/ Conflict(p) \/ Reject(p)
             \/ Simulate(p) \/ StartReal(p) \/ Settle(p) \/ IntegrityError(p)
             \/ Crash(p)
        \/ Tick

Spec == Init /\ [][Next]_vars

-----------------------------------------------------------------------------
(* Properties.                                                              *)

\* Every variable has its type.
TypeOK ==
  /\ now \in 0..MaxTime
  /\ attempt \in [Orgs -> [Keys -> Attempt]]
  /\ ad \in [Keys -> SUBSET Orgs]
  /\ run \in [Runs -> Local]

\* A caller is never told the result of a publication of something else: whatever is
\* answered but a conflict or an error is the stored result of the caller's own
\* payload, or was when it was answered.
AnswerIsForPayload ==
  \A p \in Runs :
    run[p].at = "idle" /\ run[p].answer \in Results \ {"none"}
      => /\ Own(p).payload = run[p].payload
         /\ \/ Own(p).result = run[p].answer
            \/ Own(p).result = "settled" /\ run[p].answer = "in_progress"

\* Attempts are written once: a key that got a result in an organisation keeps it, with
\* its payload and time, through retries, races, expiry and crashes; only a real
\* publication in progress is settled.
AttemptsAreFinal ==
  [][\A o \in Orgs, k \in Keys :
       Exists(o, k) =>
         \/ attempt'[o][k] = attempt[o][k]
         \/ /\ attempt[o][k].result = "in_progress"
            /\ attempt'[o][k] = [attempt[o][k] EXCEPT !.result = "settled"]]_vars

\* A key has a PublishedAd exactly if some organisation has an attempt that was
\* admitted under it, and at most one has: two organisations never publish under one
\* key, although attempts are unique per organisation only.
AdMatchesAttempt ==
  \A k \in Keys :
    /\ Cardinality(ad[k]) <= 1
    /\ ad[k] = {o \in Orgs : attempt[o][k].result \in {"simulated", "in_progress", "settled"}}

\* The count is not atomic with the insert, but it is off by no more than the other
\* requests at work: with n handlers a day sees at most n - 1 simulations too many.
OvershootIsBounded ==
  \A o \in Orgs :
    Cardinality(SimulatedToday(o)) <= MaxDailyNewAds + Cardinality(Runs) - 1

=============================================================================
