-------------------------- MODULE AdLifecycle_proofs --------------------------
(* Proofs about AdLifecycle: its types, and that the row and Meta agree     *)
(* unless something disturbed them.                                         *)
EXTENDS AdLifecycle, TLAPS

\* A change that Meta applied and answered, and that is not committed yet.
Answered(p) == p \in Busy /\ run[p].at = "called" /\ run[p].ok

\* A handler that is alone has no rival, its view of the status is the stored one, and
\* what Meta answered it is what Meta has.
Alone ==
  \A p \in Busy : run[p].alone =>
    /\ \A q \in Busy : q = p
    /\ run[p].loaded.status = row.status
    /\ Answered(p) => meta.configured = Target(run[p].op)

\* Without a disturbance nothing is underway, whoever is at work is alone, and only an
\* answered change not yet committed keeps the row and Meta apart.
Calm ==
  ~disturbed => /\ underway = {}
                /\ \A p \in Busy : run[p].alone
                /\ (\A p \in Runs : ~Answered(p)) => row.status = meta.configured

IInv == TypeOK /\ Alone /\ Calm

LEMMA AssignedType ==
  ASSUME NEW r \in Local PROVE Assigned(r) \in Row
<1>1. r.loaded \in Row /\ r.seen \in Effective /\ r.op \in Ops
  BY DEF Local
<1>2. Refreshed(r) \in Row
  BY <1>1 DEF Refreshed, Row, Effective
<1>3. Changed(r) \in Row
  BY <1>1 DEF Changed, Row, Effective, Target, Switch
<1> QED BY <1>1, <1>2, <1>3 DEF Assigned

LEMMA FlushType ==
  ASSUME NEW stored \in Row, NEW r \in Local PROVE Flush(stored, r) \in Row
BY AssignedType DEF Flush, Row, Local

LEMMA IdleType == Idle \in Local /\ [Idle EXCEPT !.at = "dead"] \in Local
BY DEF Idle, Local, Row, Ops, Switch, Effective

LEMMA InterfereType ==
  ASSUME run \in [Runs -> Local], Interfere PROVE run' \in [Runs -> Local]
<1>1. \A p \in Runs : [run[p] EXCEPT !.alone = FALSE] \in Local
  BY DEF Local
<1> QED BY <1>1 DEF Interfere

\* Every variable keeps its type.
LEMMA TypeInductive == TypeOK /\ [Next]_vars => TypeOK'
<1> SUFFICES ASSUME TypeOK, [Next]_vars PROVE TypeOK'
  OBVIOUS
<1> USE DEF TypeOK
<1>1. ASSUME NEW p \in Runs, NEW op \in Ops, NEW role \in Roles, Load(p, op, role)
      PROVE  TypeOK'
  <2>1. run' \in [Runs -> Local]
    <3> DEFINE started == [run[p] EXCEPT !.at = "ready", !.op = op, !.loaded = row,
                                         !.alone = (IF op \in Changes THEN Busy ELSE {}) = {}]
    <3>1. started \in Local
      <4>1. run[p] \in Local /\ row \in Row
        OBVIOUS
      <4> QED BY <4>1 DEF Local
    <3>2. \A q \in Runs : [run[q] EXCEPT !.alone = FALSE] \in Local
      BY DEF Local
    <3> QED BY <1>1, <3>1, <3>2 DEF Load
  <2>2. disturbed' \in BOOLEAN
    BY <1>1 DEF Load
  <2> QED BY <1>1, <2>1, <2>2 DEF Load
<1>2. ASSUME NEW p \in Runs, Call(p) PROVE TypeOK'
  <2>1. PICK applied \in BOOLEAN, answered \in BOOLEAN, late \in BOOLEAN :
               CallAs(p, applied, answered, late)
    BY <1>2 DEF Call
  <2>2. Target(run[p].op) \in Switch
    BY DEF Target, Switch
  <2>3. [run[p] EXCEPT !.at = "called", !.ok = answered] \in Local
    BY DEF Local
  <2>4. run' \in [Runs -> Local]
    BY <2>1, <2>3 DEF CallAs
  <2>5. meta' \in [configured : Switch, parents : Switch, review : {"ok", "disapproved"}]
    BY <2>1, <2>2 DEF CallAs
  <2>6. disturbed' \in BOOLEAN
    BY <2>1 DEF CallAs
  <2> QED BY <1>2, <2>1, <2>2, <2>4, <2>5, <2>6 DEF Call, CallAs
<1>3. ASSUME NEW p \in Runs, Read(p) PROVE TypeOK'
  <2>1. EffectiveStatus \in Effective
    BY DEF EffectiveStatus, Effective, Switch
  <2>2. [run[p] EXCEPT !.at = "called", !.ok = TRUE, !.seen = EffectiveStatus] \in Local
    BY <2>1 DEF Local
  <2>3. run' \in [Runs -> Local]
    BY <1>3, <2>2, IdleType DEF Read
  <2> QED BY <1>3, <2>3 DEF Read
<1>4. ASSUME NEW p \in Runs, Commit(p) PROVE TypeOK'
  <2>1. Flush(row, run[p]) \in Row
    BY FlushType
  <2> QED BY <1>4, <2>1, IdleType DEF Commit
<1>5. ASSUME NEW p \in Runs, Crash(p) PROVE TypeOK'
  BY <1>5, IdleType DEF Crash
<1>6. ASSUME NEW status \in Switch, Land(status) PROVE TypeOK'
  BY <1>6, InterfereType DEF Land
<1>7. CASE SwitchAd
  <2>1. run' \in [Runs -> Local]
    BY <1>7, InterfereType DEF SwitchAd
  <2>2. disturbed' \in BOOLEAN
    BY <1>7 DEF SwitchAd
  <2> QED BY <1>7, <2>1, <2>2 DEF SwitchAd
<1>8. CASE SwitchParents
  BY <1>8 DEF SwitchParents
<1>9. CASE Review
  BY <1>9 DEF Review
<1>10. CASE UNCHANGED vars
  BY <1>10 DEF vars
<1> QED BY <1>1, <1>2, <1>3, <1>4, <1>5, <1>6, <1>7, <1>8, <1>9, <1>10 DEF Next, Step

LEMMA TypeInitially == Init => TypeOK
<1> SUFFICES ASSUME Init PROVE TypeOK
  OBVIOUS
<1>1. row \in Row
  BY DEF Init, Row, Switch, Effective
<1>2. run \in [Runs -> Local]
  BY IdleType DEF Init
<1>3. audited \in BOOLEAN /\ disturbed \in BOOLEAN
  BY DEF Init
<1> QED BY <1>1, <1>2, <1>3 DEF Init, TypeOK, Switch

\* The state of every request, of the row and of the ad is always well-formed.
THEOREM TypeCorrect == Spec => []TypeOK
BY TypeInitially, TypeInductive, PTL DEF Spec

-----------------------------------------------------------------------------
(* The row and Meta.                                                        *)

\* A commit that writes no status leaves it, one that writes it writes the target.
LEMMA FlushStatus ==
  ASSUME NEW stored \in Row, NEW r \in Local
  PROVE  Flush(stored, r).status =
           IF r.op # "refresh" /\ r.ok /\ Target(r.op) # r.loaded.status
           THEN Target(r.op) ELSE stored.status
BY DEF Flush, Assigned, Refreshed, Changed, Row, Local

LEMMA AgreementInductive == IInv /\ [Next]_vars => IInv'
<1> SUFFICES ASSUME IInv, [Next]_vars PROVE Alone' /\ Calm'
  BY TypeInductive DEF IInv
<1> USE DEF IInv
<1>0. Busy \subseteq Runs /\ Busy' \subseteq Runs
  BY DEF Busy
<1>1. ASSUME NEW p \in Runs, NEW op \in Ops, NEW role \in Roles, Load(p, op, role)
      PROVE  Alone' /\ Calm'
  <2>1. p \notin Busy
    BY <1>1 DEF Load, Busy
  <2>2. CASE op \notin Changes
    <3>1. \A q \in Runs \ {p} : run'[q] = run[q]
      BY <1>1, <2>2 DEF Load
    <3>2. run'[p].op = op
      BY <1>1 DEF Load, TypeOK, Local
    <3>3. Busy' = Busy
      BY <2>1, <2>2, <3>1, <3>2 DEF Busy
    <3>4. \A q \in Runs : Answered(q)' <=> Answered(q)
      BY <2>1, <3>1, <3>3 DEF Answered
    <3>5. UNCHANGED <<row, meta, underway>> /\ (disturbed' <=> disturbed)
      BY <1>1, <2>2 DEF Load
    <3> QED BY <1>0, <2>1, <3>1, <3>3, <3>4, <3>5 DEF Alone, Calm
  <2>3. CASE op \in Changes
    <3>1. /\ run'[p].at = "ready" /\ run'[p].op = op
          /\ run'[p].loaded = row /\ run'[p].alone = (Busy = {})
      BY <1>1, <2>3 DEF Load, TypeOK, Local
    <3>2. \A q \in Runs \ {p} : /\ run'[q].at = run[q].at /\ run'[q].op = run[q].op
                                 /\ run'[q].ok = run[q].ok
      BY <1>1 DEF Load, TypeOK, Local
    <3>3. \A q \in Busy : run'[q].alone = FALSE
      BY <1>1, <2>1, <2>3 DEF Load, TypeOK, Local, Busy
    <3>4. Busy' = Busy \cup {p}
      BY <2>3, <3>1, <3>2 DEF Busy
    <3>5. \A q \in Runs : Answered(q)' <=> Answered(q)
      BY <2>1, <3>1, <3>2, <3>4 DEF Answered
    <3>6. Alone'
      BY <1>1, <3>1, <3>3, <3>4, <3>5 DEF Load, Alone, Answered
    <3>7. Calm'
      BY <1>1, <2>3, <3>1, <3>4, <3>5 DEF Load, Calm
    <3> QED BY <3>6, <3>7
  <2> QED BY <2>2, <2>3
<1>2. ASSUME NEW p \in Runs, Call(p) PROVE Alone' /\ Calm'
  <2>1. PICK applied \in BOOLEAN, answered \in BOOLEAN, late \in BOOLEAN :
               CallAs(p, applied, answered, late)
    BY <1>2 DEF Call
  <2>2. /\ p \in Busy /\ ~Answered(p)
        /\ row' = row
    BY <1>2 DEF Call, Busy, Answered
  <2>3. /\ run'[p].at = "called" /\ run'[p].ok = answered
        /\ run'[p].op = run[p].op /\ run'[p].alone = run[p].alone
        /\ run'[p].loaded = run[p].loaded
    BY <2>1 DEF CallAs, TypeOK, Local
  <2>4. \A q \in Runs \ {p} : run'[q] = run[q]
    BY <2>1 DEF CallAs, TypeOK
  <2>5. Busy' = Busy
    BY <2>2, <2>3, <2>4 DEF Busy
  <2>6. Answered(p)' <=> answered
    BY <2>2, <2>3, <2>5 DEF Answered
  <2>7. answered => meta'.configured = Target(run[p].op)
    BY <2>1 DEF CallAs, TypeOK
  <2>8. Alone'
    <3>1. ASSUME NEW q \in Busy, run[q].alone, q # p PROVE FALSE
      BY <2>2, <3>1 DEF Alone
    <3> QED BY <1>0, <2>2, <2>3, <2>4, <2>5, <2>6, <2>7, <3>1 DEF Alone
  <2>9. ASSUME ~disturbed' PROVE /\ ~disturbed /\ underway' = {}
                                 /\ answered \/ meta' = meta
    BY <2>1, <2>9 DEF CallAs, Calm
  <2>10. (\A q \in Runs : ~Answered(q)') => (\A q \in Runs : ~Answered(q)) /\ ~answered
    BY <2>2, <2>4, <2>5, <2>6 DEF Answered
  <2>11. Calm'
    <3> SUFFICES ASSUME ~disturbed' PROVE Calm'
      BY DEF Calm
    <3>1. underway' = {} /\ ~disturbed
      BY <2>9
    <3>2. \A q \in Busy' : run'[q].alone
      BY <1>0, <2>3, <2>4, <2>5, <3>1 DEF Calm
    <3>3. (\A q \in Runs : ~Answered(q)') => row'.status = meta'.configured
      BY <2>2, <2>9, <2>10, <3>1 DEF Calm
    <3> QED BY <3>1, <3>2, <3>3 DEF Calm
  <2> QED BY <2>8, <2>11
<1>3. ASSUME NEW p \in Runs, Read(p) PROVE Alone' /\ Calm'
  <2>1. run'[p].op = "refresh" /\ run[p].op = "refresh"
    <3>1. run' = [run EXCEPT ![p] = [@ EXCEPT !.at = "called", !.ok = TRUE,
                                             !.seen = EffectiveStatus]]
          \/ run' = [run EXCEPT ![p] = Idle]
      BY <1>3 DEF Read
    <3>2. Idle.op = "refresh"
      BY DEF Idle
    <3> QED BY <1>3, <3>1, <3>2 DEF Read, TypeOK, Local
  <2>2. \A q \in Runs \ {p} : run'[q] = run[q]
    BY <1>3 DEF Read, TypeOK
  <2>3. p \notin Busy /\ Busy' = Busy
    BY <2>1, <2>2 DEF Busy, Changes
  <2> QED BY <1>3, <2>2, <2>3 DEF Read, Alone, Calm, Answered, Busy
<1>4. ASSUME NEW p \in Runs, Commit(p) PROVE Alone' /\ Calm'
  <2>1. row'.status = IF run[p].op # "refresh" /\ run[p].ok
                         /\ Target(run[p].op) # run[p].loaded.status
                      THEN Target(run[p].op) ELSE row.status
    BY <1>4, FlushStatus DEF Commit, TypeOK
  <2>2. \A q \in Runs \ {p} : run'[q] = run[q]
    BY <1>4 DEF Commit, TypeOK
  <2>3. Busy' = Busy \ {p}
    BY <1>4, <2>2 DEF Commit, Busy, TypeOK, Idle
  <2>4. Answered(p) <=> run[p].op # "refresh" /\ run[p].ok
    BY <1>4 DEF Commit, Answered, Busy, Changes, TypeOK, Local
  <2>5. \A q \in Runs \ {p} : Answered(q)' <=> Answered(q)
    BY <2>2, <2>3 DEF Answered
  <2>6. ~Answered(p)'
    BY <2>3 DEF Answered
  <2>7. meta' = meta /\ underway' = underway
    BY <1>4 DEF Commit
  <2>8. CASE ~Answered(p)
    <3>1. row'.status = row.status
      BY <2>1, <2>4, <2>8
    <3>2. ~(p \in Busy /\ run[p].ok)
      BY <1>4, <2>8 DEF Answered, Commit
    <3>3. disturbed' = disturbed
      BY <1>4, <3>2 DEF Commit
    <3>4. (\A q \in Runs : ~Answered(q)') => (\A q \in Runs : ~Answered(q))
      BY <2>5, <2>8
    <3> QED BY <1>0, <2>2, <2>3, <2>5, <2>7, <3>1, <3>3, <3>4 DEF Alone, Calm
  <2>9. CASE Answered(p)
    <3>1. p \in Busy
      BY <2>9 DEF Answered
    <3>2. CASE run[p].alone
      <4>1. row'.status = meta'.configured
        BY <2>1, <2>4, <2>7, <2>9, <3>1, <3>2 DEF Alone
      <4>2. Busy' = {}
        BY <2>3, <3>1, <3>2 DEF Alone
      <4>3. ~disturbed' => underway = {}
        BY <1>4, <3>2 DEF Commit, Calm
      <4> QED BY <2>7, <4>1, <4>2, <4>3 DEF Alone, Calm
    <3>3. CASE ~run[p].alone
      <4>1. disturbed /\ disturbed'
        BY <1>4, <3>1, <3>3 DEF Commit, Calm
      <4>2. \A q \in Busy' : ~run'[q].alone
        BY <2>2, <2>3, <3>1, <3>3 DEF Alone, Busy
      <4> QED BY <4>1, <4>2 DEF Alone, Calm
    <3> QED BY <3>2, <3>3
  <2> QED BY <2>8, <2>9
<1>5. ASSUME NEW p \in Runs, Crash(p) PROVE Alone' /\ Calm'
  BY <1>5 DEF Crash, Alone, Calm, Busy, Answered, Idle, TypeOK, Local
<1>6. ASSUME NEW status \in Switch, Land(status) PROVE Alone' /\ Calm'
  BY <1>6 DEF Land, Interfere, Alone, Calm, Busy, Answered, TypeOK, Local
<1>7. CASE SwitchAd
  BY <1>7 DEF SwitchAd, Interfere, Alone, Calm, Busy, Answered, TypeOK, Local
<1>8. CASE SwitchParents
  BY <1>8 DEF SwitchParents, Alone, Calm, Busy, Answered, TypeOK
<1>9. CASE Review
  BY <1>9 DEF Review, Alone, Calm, Busy, Answered, TypeOK
<1>10. CASE UNCHANGED vars
  BY <1>10 DEF vars, Alone, Calm, Busy, Answered
<1> QED BY <1>1, <1>2, <1>3, <1>4, <1>5, <1>6, <1>7, <1>8, <1>9, <1>10 DEF Next, Step

\* Unless a reply was lost, a process died, requests overlapped or somebody used the
\* Ads Manager, the row between requests says what Meta has; a change that runs alone
\* restores that (PublicationService.activate, pause, refresh_status).
THEOREM Agreement == Spec => []AgreeUnlessDisturbed
<1>1. Init => IInv
  <2> SUFFICES ASSUME Init PROVE IInv
    OBVIOUS
  <2>1. Busy = {}
    BY DEF Init, Busy, Idle
  <2> QED BY <2>1, TypeInitially DEF Init, IInv, Alone, Calm
<1>2. IInv => AgreeUnlessDisturbed
  BY DEF IInv, Calm, Answered, AgreeUnlessDisturbed, Busy
<1> QED BY <1>1, <1>2, AgreementInductive, PTL DEF Spec

\* The activation of an ad is audited in the commit that makes the row ACTIVE, whatever
\* the other requests do to the row (PublicationService.activate).
THEOREM ActivationsAudited == Spec => []ActiveHasAudit
<1>1. Init => ActiveHasAudit
  BY DEF Init, ActiveHasAudit
<1>2. TypeOK /\ ActiveHasAudit /\ [Next]_vars => ActiveHasAudit'
  <2> SUFFICES ASSUME TypeOK, ActiveHasAudit, [Next]_vars PROVE ActiveHasAudit'
    OBVIOUS
  <2>1. ASSUME NEW p \in Runs, Commit(p) PROVE ActiveHasAudit'
    <3>1. row'.status = "ACTIVE"
            => row.status = "ACTIVE" \/ (run[p].op # "refresh" /\ run[p].ok
                                          /\ Target(run[p].op) = "ACTIVE")
      BY <2>1, FlushStatus DEF Commit, TypeOK
    <3> QED BY <2>1, <3>1 DEF Commit, ActiveHasAudit, Target
  <2>2. CASE UNCHANGED <<row, audited>>
    BY <2>2 DEF ActiveHasAudit
  <2> QED BY <2>1, <2>2 DEF Next, Step, Load, Call, Read, Crash, Land, SwitchAd,
                            SwitchParents, Review, vars
<1> QED BY <1>1, <1>2, TypeCorrect, PTL DEF Spec

\* A flag for manual review survives every interleaving of requests, because a commit
\* writes only the columns that the request assigned (refresh_status and the ORM).
THEOREM FlagsSurvive == Spec => FlagSticks
<1>1. TypeOK /\ [Next]_vars
        => (row.workflow = "requires_manual_review"
              => row'.workflow = "requires_manual_review")
  <2> SUFFICES ASSUME TypeOK, [Next]_vars, row.workflow = "requires_manual_review"
               PROVE  row'.workflow = "requires_manual_review"
    OBVIOUS
  <2>1. ASSUME NEW p \in Runs, Commit(p) PROVE row'.workflow = "requires_manual_review"
    <3>1. Assigned(run[p]).workflow \in {run[p].loaded.workflow, "requires_manual_review"}
      BY DEF Assigned, Refreshed, Changed, TypeOK, Local, Row
    <3> QED BY <2>1, <3>1 DEF Commit, Flush
  <2> QED BY <2>1 DEF Next, Step, Load, Call, Read, Crash, Land, SwitchAd,
                      SwitchParents, Review, vars
<1> QED BY <1>1, TypeCorrect, PTL DEF Spec, FlagSticks
=============================================================================
