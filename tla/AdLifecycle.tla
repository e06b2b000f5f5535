------------------------------ MODULE AdLifecycle ------------------------------
(***************************************************************************)
(* One published ad after its creation: the owner activates it, editors    *)
(* pause it, anybody pauses it in an emergency, and a refresh copies its   *)
(* status from Meta (PublicationService.activate, pause, refresh_status).  *)
(*                                                                         *)
(* A request loads the row, checks it, calls Meta, and commits.  There is  *)
(* no lock: other requests, Meta's review and people in the Ads Manager    *)
(* act between these steps, and what a request commits is computed from    *)
(* the row it loaded.                                                      *)
(***************************************************************************)
EXTENDS FiniteSets

CONSTANT Runs   \* the request handlers; each serves one request after another

VARIABLES
  row,        \* the PublishedAd row
  meta,       \* the ad at Meta
  underway,   \* statuses sent by calls that timed out and may still be applied
  audited,    \* whether the audit log holds the success of an activation
  run,        \* the local state of a request
  disturbed   \* history: the row and Meta may disagree for a reason outside a single
              \* request: a lost reply, a crash, two requests at once, the Ads Manager

vars == <<row, meta, underway, audited, run, disturbed>>

-----------------------------------------------------------------------------

Switch    == {"PAUSED", "ACTIVE"}
\* effective_status, as far as the code tells its values apart; "DISAPPROVED" stands
\* for the three values that forbid an activation, "inactive" for all others and NULL.
Effective == {"inactive", "ACTIVE", "DISAPPROVED"}
Row       == [status : Switch, effective : Effective,
              workflow : {"completed", "requires_manual_review"}]
Ops       == {"activate", "pause", "emergency_pause", "refresh"}
Changes   == Ops \ {"refresh"}
Roles     == {"owner", "admin", "editor"}

\* ok: the call was answered; seen: the effective_status a refresh read.
Local == [at : {"idle", "ready", "called", "dead"}, op : Ops, loaded : Row,
          ok : BOOLEAN, seen : Effective, alone : BOOLEAN]

\* Meta's effective_status of the ad; its campaign and ad set are created PAUSED and
\* the code never activates them.
EffectiveStatus == CASE meta.review = "disapproved" -> "DISAPPROVED"
                     [] meta = [configured |-> "ACTIVE", parents |-> "ACTIVE", review |-> "ok"]
                               -> "ACTIVE"
                     [] OTHER  -> "inactive"

Idle == [at |-> "idle", op |-> "refresh",
         loaded |-> [status |-> "PAUSED", effective |-> "inactive", workflow |-> "completed"],
         ok |-> FALSE, seen |-> "inactive", alone |-> TRUE]

\* Mutant: a pause sends another status.
TargetArchived(op) == IF op = "activate" THEN "ACTIVE" ELSE "ARCHIVED"

Target(op) == IF op = "activate" THEN "ACTIVE" ELSE "PAUSED"

Busy     == {p \in Runs : run[p].at \in {"ready", "called"} /\ run[p].op \in Changes}

-----------------------------------------------------------------------------
(* A request.                                                               *)

\* What the router and the service check, on the row as it is now.
Admitted(op, role) ==
  /\ op = "activate" => /\ role = "owner"
                        /\ row.effective # "DISAPPROVED"
                        /\ row.workflow = "completed"
  /\ op = "pause" => role \in {"owner", "admin"}

Load(p, op, role) ==
  /\ run[p].at = "idle"
  /\ Admitted(op, role)
  /\ LET rivals == IF op \in Changes THEN Busy ELSE {}
     IN  /\ run' = [q \in Runs |->
              IF q = p THEN [run[p] EXCEPT !.at = "ready", !.op = op, !.loaded = row,
                                           !.alone = rivals = {}]
              ELSE IF q \in rivals THEN [run[q] EXCEPT !.alone = FALSE] ELSE run[q]]
         /\ disturbed' = (disturbed \/ rivals # {})
  /\ UNCHANGED <<row, meta, underway, audited>>

\* update_ad_status: the change is applied or not, and answered or not; a call that
\* timed out may still be underway.  An activation is sent once; a pause is retried,
\* so that one of its calls may be underway although another one was answered.
CallAs(p, applied, answered, late) ==
  /\ answered => applied
  /\ run[p].op = "activate" /\ late => ~applied
  /\ meta' = IF applied THEN [meta EXCEPT !.configured = Target(run[p].op)] ELSE meta
  /\ underway' = IF late THEN underway \cup {Target(run[p].op)} ELSE underway
  /\ run' = [run EXCEPT ![p] = [@ EXCEPT !.at = "called", !.ok = answered]]
  /\ disturbed' = (disturbed \/ late \/ (applied /\ ~answered))

Call(p) ==
  /\ run[p].at = "ready" /\ run[p].op \in Changes
  /\ \E applied, answered, late \in BOOLEAN : CallAs(p, applied, answered, late)
  /\ UNCHANGED <<row, audited>>

\* get_status of a refresh; if it fails, the request ends without a commit.
Read(p) ==
  /\ run[p].at = "ready" /\ run[p].op = "refresh"
  /\ \/ run' = [run EXCEPT ![p] =
                  [@ EXCEPT !.at = "called", !.ok = TRUE, !.seen = EffectiveStatus]]
     \/ run' = [run EXCEPT ![p] = Idle]
  /\ UNCHANGED <<row, meta, underway, audited, disturbed>>

\* Mutant: a refresh copies the status as well.
RefreshedStatus(r) ==
  [r.loaded EXCEPT !.effective = r.seen,
                   !.status = IF r.seen = "ACTIVE" THEN "ACTIVE" ELSE @]

\* What a request assigns to the row object it loaded: a refresh the status it read,
\* flagging an ad that is ACTIVE unexpectedly; a change that was answered its target.
Refreshed(r) ==
  [r.loaded EXCEPT !.effective = r.seen,
                   !.workflow  = IF r.seen = "ACTIVE" /\ r.loaded.status # "ACTIVE"
                                 THEN "requires_manual_review" ELSE @]
Changed(r) ==
  [r.loaded EXCEPT !.status    = Target(r.op),
                   !.effective = IF r.op = "activate" THEN "ACTIVE" ELSE "inactive"]

\* Mutant: an error of the call is not noticed.
AssignedAnyway(r) == IF r.op = "refresh" THEN Refreshed(r) ELSE Changed(r)

Assigned(r) == IF r.op = "refresh" THEN Refreshed(r)
               ELSE IF r.ok THEN Changed(r) ELSE r.loaded

\* Mutant: the whole object is written.
FlushAll(stored, r) == Assigned(r)

\* The ORM writes the columns that differ from what was loaded, and only those.
Flush(stored, r) ==
  LET Written(column) == IF Assigned(r)[column] # r.loaded[column]
                         THEN Assigned(r)[column] ELSE stored[column]
  IN  [status |-> Written("status"), effective |-> Written("effective"),
       workflow |-> Written("workflow")]

\* The row, and the intent and the result in the audit log, are committed together.
Commit(p) ==
  /\ run[p].at = "called"
  /\ row' = Flush(row, run[p])
  /\ audited' = (audited \/ (run[p].op = "activate" /\ run[p].ok))
  /\ run' = [run EXCEPT ![p] = Idle]
  /\ disturbed' = IF p \in Busy /\ run[p].ok /\ run[p].alone /\ underway = {}
                  THEN FALSE ELSE disturbed
  /\ UNCHANGED <<meta, underway>>

\* The process dies: what was not committed, the intent included, is gone.
Crash(p) ==
  /\ run[p].at \in {"ready", "called"}
  /\ run' = [run EXCEPT ![p] = [Idle EXCEPT !.at = "dead"]]
  /\ disturbed' = (disturbed \/ (run[p].at = "called" /\ p \in Busy /\ run[p].ok))
  /\ UNCHANGED <<row, meta, underway, audited>>

-----------------------------------------------------------------------------
(* Meta, and people in the Ads Manager (external).                          *)

\* Nobody is alone with an ad that others change.
Interfere == run' = [p \in Runs |-> [run[p] EXCEPT !.alone = FALSE]]

Land(status) ==
  /\ status \in underway
  /\ underway' = underway \ {status}
  /\ \/ meta' = [meta EXCEPT !.configured = status]
     \/ UNCHANGED meta
  /\ Interfere
  /\ UNCHANGED <<row, audited, disturbed>>

SwitchAd ==
  /\ \E status \in Switch : meta' = [meta EXCEPT !.configured = status]
  /\ disturbed' = TRUE
  /\ Interfere
  /\ UNCHANGED <<row, underway, audited>>

SwitchParents ==
  /\ \E status \in Switch : meta' = [meta EXCEPT !.parents = status]
  /\ UNCHANGED <<row, underway, audited, run, disturbed>>

Review ==
  /\ \E verdict \in {"ok", "disapproved"} : meta' = [meta EXCEPT !.review = verdict]
  /\ UNCHANGED <<row, underway, audited, run, disturbed>>

-----------------------------------------------------------------------------

\* publish_real has just committed the ad as completed.
Init ==
  /\ row = [status |-> "PAUSED", effective |-> "inactive", workflow |-> "completed"]
  /\ meta = [configured |-> "PAUSED", parents |-> "PAUSED", review |-> "ok"]
  /\ underway = {}
  /\ audited = FALSE
  /\ run = [p \in Runs |-> Idle]
  /\ disturbed = FALSE

Step(p) == Call(p) \/ Read(p) \/ Commit(p)

Next == \/ \E p \in Runs : \/ \E op \in Ops, role \in Roles : Load(p, op, role)
                           \/ Step(p)
                           \/ Crash(p)
        \/ \E status \in Switch : Land(status)
        \/ SwitchAd \/ SwitchParents \/ Review

\* Calls have timeouts: a request that was admitted takes its steps.
Spec == Init /\ [][Next]_vars /\ \A p \in Runs : WF_vars(Step(p))

-----------------------------------------------------------------------------
(* Properties.                                                              *)

\* Every variable has its type.
TypeOK ==
  /\ row \in Row
  /\ meta \in [configured : Switch, parents : Switch, review : {"ok", "disapproved"}]
  /\ underway \subseteq Switch
  /\ audited \in BOOLEAN
  /\ run \in [Runs -> Local]
  /\ disturbed \in BOOLEAN

\* Between requests, the row says PAUSED or ACTIVE exactly as Meta does, unless a reply
\* was lost, a process died, requests overlapped or someone used the Ads Manager; and a
\* change that runs alone and is answered repairs whatever had gone apart.
AgreeUnlessDisturbed ==
  ~disturbed /\ (\A p \in Busy : run[p].at # "called") => row.status = meta.configured

\* A row is ACTIVE only if the audit log holds the success of an activation
\* (docs/PHASE6_PLAN.md:277), whatever overlaps and crashes.
ActiveHasAudit == row.status = "ACTIVE" => audited

\* Once an ad is flagged for manual review, no request takes the flag away, even
\* one that loaded the row before it was flagged.
FlagSticks ==
  [][row.workflow = "requires_manual_review"
       => row'.workflow = "requires_manual_review"]_vars

\* refresh_status flags an ad that Meta returned as ACTIVE unexpectedly: one that the
\* row knows to be ACTIVE is not flagged.
OnlyUnexpectedIsFlagged ==
  [][row.workflow = "completed" /\ row'.workflow = "requires_manual_review"
       => row.status # "ACTIVE"]_vars

=============================================================================
