------------------------- MODULE CreativeReview_proofs -------------------------
(* Proofs about CreativeReview: its types, that a stored row has its file,  *)
(* that the status follows the last decision, and what passes the gate.     *)
EXTENDS CreativeReview, FiniteSetTheorems, TLAPS

\* The types need two bounds: of the checks of a creative, and of the images that a
\* generation has left.
ChecksBounded == \A c \in Creatives : Len(checks[c]) <= MaxChecks
ImagesLeft    == \A p \in Runs : run[p].op = "generate" => run[p].left >= 1

\* A handler works on a creative that is there, unless it generates it.
Chosen == \A p \in Runs : run[p].op \in {"approve", "reject", "publish"} => run[p].creative \in Rows

TypeInv == TypeOK /\ ChecksBounded /\ ImagesLeft /\ Chosen

LEMMA IdleType ==
  /\ Idle \in Local /\ Idle.op = "none"
  /\ \A n \in 0..MaxImages : [Idle EXCEPT !.op = "generate", !.left = n] \in Local
<1>1. Idle \in Local
  BY CreativeReviewAssumption DEF Idle, Local, Ops, Statuses, Verdicts
<1>2. ASSUME NEW n \in 0..MaxImages PROVE [Idle EXCEPT !.op = "generate", !.left = n] \in Local
  BY <1>1 DEF Local, Ops
<1> QED BY <1>1, <1>2 DEF Idle

LEMMA OpenType ==
  ASSUME TypeOK, ChecksBounded, NEW c \in Creatives
  PROVE  Open(c) \in SUBSET (1..MaxChecks) /\ Open(c) \subseteq DOMAIN checks[c]
<1>1. checks[c] \in Seq(Check) /\ Len(checks[c]) <= MaxChecks /\ MaxChecks \in Nat
  BY CreativeReviewAssumption DEF TypeOK, ChecksBounded
<1>2. DOMAIN checks[c] = 1..Len(checks[c]) /\ Len(checks[c]) \in Nat
  BY <1>1
<1> QED BY <1>1, <1>2 DEF Open

\* Overriding checks keeps their number.
LEMMA OverrideType ==
  ASSUME NEW s \in Seq(Check), NEW S
  PROVE  LET t == [k \in DOMAIN s |-> IF k \in S THEN "overridden" ELSE s[k]]
         IN  t \in Seq(Check) /\ Len(t) = Len(s)
<1> DEFINE t == [k \in DOMAIN s |-> IF k \in S THEN "overridden" ELSE s[k]]
<1>1. Len(s) \in Nat /\ DOMAIN s = 1..Len(s) /\ \A k \in 1..Len(s) : s[k] \in Check
  OBVIOUS
<1>2. t \in [1..Len(s) -> Check]
  BY <1>1 DEF Check
<1>3. t \in Seq(Check) /\ DOMAIN t = 1..Len(s)
  BY <1>1, <1>2
<1> QED BY <1>1, <1>3

LEMMA WrittenType ==
  ASSUME TypeOK, NEW p \in Runs, run[p].creative \in Rows, NEW status \in Statuses \ {"none"}
  PROVE  Written(p, status) \in Statuses \ {"none"}
BY DEF TypeOK, Written, Row, Rows

\* What the steps of a handler that change nothing but its own state lead to.
LEMMA ReadingGoes ==
  ASSUME TypeInv, NEW p \in Runs,
         LoadGenerate(p) \/ LookUp(p) \/ LoadDecision(p) \/ ReadBlocked(p) \/ LoadPublish(p)
           \/ Gate(p) \/ Abort(p)
  PROVE  /\ UNCHANGED <<creative, checks, decision, files, attempt, overlapped>>
         /\ \E l \in Local :
              /\ run' = [run EXCEPT ![p] = l]
              /\ l.op = "generate" => l.left >= 1 /\ l.at # "write"
              /\ l.op \in {"approve", "reject", "publish"} => l.creative \in Rows
<1>1. /\ UNCHANGED <<creative, checks, decision, files, attempt, overlapped>>
  BY DEF LoadGenerate, LookUp, LoadDecision, ReadBlocked, LoadPublish, Gate, Abort
<1>2. run[p] \in Local 
  BY DEF TypeInv, TypeOK
<1>3. CASE LoadGenerate(p)
  <2>1. PICK n \in Returned : run' = [run EXCEPT ![p] = [Idle EXCEPT !.op = "generate", !.left = n]]
    BY <1>3 DEF LoadGenerate
  <2>2. n \in 0..MaxImages /\ n >= 1
    BY CreativeReviewAssumption DEF Returned
  <2>3. [Idle EXCEPT !.op = "generate", !.left = n] \in Local
    BY IdleType, <2>2
  <2> QED BY <1>1, <2>1, <2>2, <2>3 DEF Idle
<1>4. CASE LookUp(p)
  <2>1. PICK i \in Images : run' = [run EXCEPT ![p] =
               [@ EXCEPT !.at = "read", !.image = i, !.duplicate = IsDuplicate(i)]]
    BY <1>4 DEF LookUp
  <2>2. IsDuplicate(i) \in BOOLEAN
    BY DEF IsDuplicate
  <2>3. [run[p] EXCEPT !.at = "read", !.image = i, !.duplicate = IsDuplicate(i)] \in Local
    BY <1>2, <2>2 DEF Local
  <2>4. run[p].op = "generate" /\ run[p].left >= 1
    BY <1>4 DEF LookUp, At, TypeInv, ImagesLeft
  <2> QED BY <1>1, <1>2, <2>1, <2>3, <2>4 DEF Local
<1>5. CASE LoadDecision(p)
  <2>1. PICK c \in Rows, op \in {"approve", "reject"}, owner \in BOOLEAN :
               run' = [run EXCEPT ![p] = [Idle EXCEPT !.op = op, !.creative = c, !.owner = owner,
                                                      !.status = creative[c].status]]
    BY <1>5 DEF LoadDecision
  <2>2. c \in Creatives /\ creative[c].status \in Statuses
    BY DEF Rows, TypeInv, TypeOK, Row
  <2>3. [Idle EXCEPT !.op = op, !.creative = c, !.owner = owner,
                     !.status = creative[c].status] \in Local
    BY IdleType, <2>2 DEF Local, Ops
  <2> QED BY <1>1, <2>1, <2>3 DEF Idle
<1>6. CASE ReadBlocked(p)
  <2>1. run[p].creative \in Rows /\ run[p].op = "approve"
    BY <1>6 DEF TypeInv, Chosen, ReadBlocked, At
  <2>2. Open(run[p].creative) \in SUBSET (1..MaxChecks)
    BY <2>1, OpenType DEF Rows, TypeInv
  <2>3. run' = [run EXCEPT ![p] = [@ EXCEPT !.at = "write", !.open = Open(run[p].creative)]]
    BY <1>6 DEF ReadBlocked
  <2>4. [run[p] EXCEPT !.at = "write", !.open = Open(run[p].creative)] \in Local
    BY <1>2, <2>2 DEF Local
  <2> QED BY <1>1, <1>2, <2>1, <2>3, <2>4 DEF Local
<1>7. CASE LoadPublish(p)
  <2>1. PICK c \in Rows :
               run' = [run EXCEPT ![p] = [Idle EXCEPT !.op = "publish", !.creative = c,
                                                      !.status = creative[c].status,
                                                      !.last = decision[c].last, !.open = Open(c)]]
    BY <1>7 DEF LoadPublish
  <2>2. c \in Creatives /\ creative[c].status \in Statuses /\ decision[c].last \in Verdicts
    BY DEF Rows, TypeInv, TypeOK, Row, Decision
  <2>3. Open(c) \in SUBSET (1..MaxChecks)
    BY <2>2, OpenType DEF TypeInv
  <2>4. [Idle EXCEPT !.op = "publish", !.creative = c, !.status = creative[c].status,
                     !.last = decision[c].last, !.open = Open(c)] \in Local
    BY IdleType, <2>2, <2>3 DEF Local, Ops
  <2> QED BY <1>1, <2>1, <2>4 DEF Idle
<1>8. CASE Gate(p)
  <2>1. run[p].creative \in Rows /\ run[p].op = "publish"
    BY <1>8 DEF TypeInv, Chosen, Gate, At
  <2>2. run' = [run EXCEPT ![p] = [@ EXCEPT !.at = "write"]]
    BY <1>8 DEF Gate
  <2>3. [run[p] EXCEPT !.at = "write"] \in Local
    BY <1>2 DEF Local
  <2> QED BY <1>1, <1>2, <2>1, <2>2, <2>3 DEF Local
<1>9. CASE Abort(p)
  BY <1>1, <1>9, IdleType DEF Abort, Ends
<1> QED BY <1>3, <1>4, <1>5, <1>6, <1>7, <1>8, <1>9

\* A row that an image is committed for.
LEMMA InsertGoes ==
  ASSUME TypeInv, NEW p \in Runs, Insert(p)
  PROVE  /\ At(p, "generate", "write")
         /\ \E row \in Row :
              /\ creative' = [creative EXCEPT ![run[p].creative] = row]
              /\ row.status \in {"blocked", "awaiting_approval"}
              /\ row.stored = ~run[p].duplicate /\ row.image = run[p].image
         /\ \E found \in Seq(Check) :
              /\ Len(found) <= MaxChecks /\ (run[p].duplicate => 1 \in DOMAIN found)
              /\ checks' = [checks EXCEPT ![run[p].creative] = found]
         /\ UNCHANGED <<decision, files, attempt, overlapped>>
         /\ \E l \in Local :
              /\ run' = [run EXCEPT ![p] = l]
              /\ l.op = "generate" => l.left >= 1 /\ l.at # "write"
              /\ l.op \notin {"approve", "reject", "publish"}
<1> DEFINE c == run[p].creative
           open(quality) == IF quality THEN <<"open">> ELSE <<>>
           found(quality, policy) == IF policy THEN Append(open(quality), "open") ELSE open(quality)
           row(quality, policy) == [status |-> IF quality \/ policy THEN "blocked"
                                               ELSE "awaiting_approval",
                                    image |-> run[p].image, stored |-> ~run[p].duplicate]
<1>1. PICK quality \in QualityBlocks(run[p].duplicate), policy \in PolicyBlocks :
        /\ Len(found(quality, policy)) <= MaxChecks
        /\ checks' = [checks EXCEPT ![c] = found(quality, policy)]
        /\ creative' = [creative EXCEPT ![c] = row(quality, policy)]
  BY DEF Insert
<1>2. found(quality, policy) \in Seq(Check) /\ (run[p].duplicate => 1 \in DOMAIN found(quality, policy))
  <2>1. <<"open">> \in Seq(Check) /\ <<>> \in Seq(Check) /\ "open" \in Check
    BY DEF Check
  <2>2. open(quality) \in Seq(Check)
    BY <2>1
  <2>3. run[p].duplicate => quality
    BY <1>1 DEF QualityBlocks
  <2>4. quality => 1 \in DOMAIN open(quality)
    <3>1. quality => open(quality) = <<"open">>
      OBVIOUS
    <3>2. 1 \in DOMAIN <<"open">>
      OBVIOUS
    <3> HIDE DEF open
    <3> QED BY <3>1, <3>2
  <2> HIDE DEF open
  <2>5. LET more == Append(open(quality), "open")
        IN  more \in Seq(Check) /\ 1 \in DOMAIN more
    BY <2>1, <2>2
  <2> QED BY <2>2, <2>3, <2>4, <2>5
<1>3. run[p] \in Local
  BY DEF TypeInv, TypeOK
<1>4. row(quality, policy) \in Row
  <2>1. run[p].image \in Images \cup {NoImage} /\ run[p].duplicate \in BOOLEAN
    BY <1>3 DEF Local
  <2> QED BY <2>1 DEF Row, Statuses
<1>5. At(p, "generate", "write") /\ UNCHANGED <<decision, files, attempt, overlapped>>
  BY DEF Insert
<1>6. \E l \in Local :
        /\ run' = [run EXCEPT ![p] = l]
        /\ l.op = "generate" => l.left >= 1 /\ l.at # "write"
        /\ l.op \notin {"approve", "reject", "publish"}
  <2>1. run[p].left \in 1..MaxImages
    BY <1>3, <1>5 DEF Local, At, TypeInv, ImagesLeft
  <2>2. CASE run[p].left = 1
    BY <2>2, IdleType DEF Insert
  <2>3. CASE run[p].left # 1
    <3>1. run[p].left - 1 \in 0..MaxImages /\ run[p].left - 1 >= 1
      BY <2>1, <2>3, CreativeReviewAssumption
    <3>2. [Idle EXCEPT !.op = "generate", !.left = run[p].left - 1] \in Local
      BY <3>1, IdleType
    <3>3. run' = [run EXCEPT ![p] = [Idle EXCEPT !.op = "generate", !.left = run[p].left - 1]]
      BY <2>3 DEF Insert
    <3> QED BY <3>1, <3>2, <3>3 DEF Idle
  <2> QED BY <2>2, <2>3
<1>7. row(quality, policy).status \in {"blocked", "awaiting_approval"}
      /\ row(quality, policy).stored = ~run[p].duplicate /\ row(quality, policy).image = run[p].image
  OBVIOUS
<1> HIDE DEF found, row
<1> QED BY <1>1, <1>2, <1>4, <1>5, <1>6, <1>7

\* What a decision writes to the creative it is about.  A rejection may add another row.
LEMMA DecisionGoes ==
  ASSUME TypeInv, NEW p \in Runs, Approve(p) \/ Reject(p) \/ RequestVariation(p)
  PROVE  LET c == run[p].creative
             verdict == IF run[p].op = "approve" THEN "approved" ELSE "rejected"
         IN  /\ c \in Rows /\ c \in Creatives /\ run[p].op \in {"approve", "reject"}
             /\ Decide(p, verdict)
             /\ \/ creative' = [creative EXCEPT ![c].status = Written(p, verdict)]
                \/ \E new \in Fresh : creative' = [creative EXCEPT ![c].status = Written(p, verdict),
                                                                   ![new].status = "queued"]
             /\ Written(p, verdict) \in Statuses \ {"none"}
             /\ UNCHANGED <<files, attempt>>
             /\ \/ UNCHANGED checks
                \/ checks' = [checks EXCEPT ![c] =
                     [k \in DOMAIN @ |-> IF k \in run[p].open THEN "overridden" ELSE @[k]]]
             /\ run' = [run EXCEPT ![p] = Idle]
<1> DEFINE c == run[p].creative
           verdict == IF run[p].op = "approve" THEN "approved" ELSE "rejected"
<1>1. run[p].op \in {"approve", "reject"}
  BY DEF Approve, Reject, RequestVariation, At
<1>2. c \in Rows /\ c \in Creatives
  BY <1>1 DEF TypeInv, Chosen, Rows
<1>3. Written(p, verdict) \in Statuses \ {"none"}
  <2>1. verdict \in Statuses \ {"none"}
    BY DEF Statuses
  <2> HIDE DEF verdict
  <2> QED BY <1>2, <2>1, WrittenType DEF TypeInv
<1>4. CASE Approve(p)
  BY <1>1, <1>2, <1>3, <1>4 DEF Approve, At, Decide, Ends, Overridden
<1>5. CASE Reject(p)
  BY <1>1, <1>2, <1>3, <1>5 DEF Reject, Decide, Ends
<1>6. CASE RequestVariation(p)
  BY <1>1, <1>2, <1>3, <1>6 DEF RequestVariation, Decide, Ends
<1> QED BY <1>4, <1>5, <1>6

\* The steps, by what they change.
Reading(p)  == \/ LoadGenerate(p) \/ LookUp(p) \/ LoadDecision(p) \/ ReadBlocked(p)
               \/ LoadPublish(p) \/ Gate(p) \/ Abort(p)
Deciding(p) == Approve(p) \/ Reject(p) \/ RequestVariation(p)

LEMMA StepCases ==
  ASSUME [Next]_vars
  PROVE  \/ \E p \in Runs : Reading(p) \/ Store(p) \/ Insert(p) \/ Deciding(p) \/ Publish(p)
         \/ \E c \in Creatives : Recheck(c)
         \/ UNCHANGED vars
BY DEF Next, Reading, Deciding

\* A decision changes the status of its creative, and of a new one if it is a variation.
LEMMA DecisionRows ==
  ASSUME TypeInv, NEW p \in Runs, Deciding(p)
  PROVE  LET c == run[p].creative
             verdict == IF run[p].op = "approve" THEN "approved" ELSE "rejected"
         IN  /\ creative'[c].status = Written(p, verdict)
             /\ \A d \in Creatives :
                  creative'[d].stored = creative[d].stored /\ creative'[d].image = creative[d].image
             /\ \A d \in Creatives \ {c} :
                  \/ creative'[d].status = creative[d].status
                  \/ d \in Fresh /\ creative'[d].status = "queued"
<1> DEFINE c == run[p].creative
           status == Written(p, IF run[p].op = "approve" THEN "approved" ELSE "rejected")
           decided == [creative EXCEPT ![c].status = status]
<1>1. /\ c \in Rows /\ c \in Creatives
      /\ \/ creative' = decided
         \/ \E new \in Fresh : creative' = [creative EXCEPT ![c].status = status,
                                                            ![new].status = "queued"]
  BY DecisionGoes DEF Deciding
<1>2. creative \in [Creatives -> Row]
  BY DEF TypeInv, TypeOK
<1> HIDE DEF status, c
<1>3. /\ decided \in [Creatives -> [status : {status} \cup Statuses, image : Images \cup {NoImage},
                                    stored : BOOLEAN]]
      /\ decided[c].status = status
      /\ \A d \in Creatives :
           decided[d].stored = creative[d].stored /\ decided[d].image = creative[d].image
      /\ \A d \in Creatives \ {c} : decided[d].status = creative[d].status
  BY <1>1, <1>2 DEF Row
<1>4. CASE creative' = decided
  BY <1>3, <1>4 DEF status, c
<1>5. ASSUME NEW new \in Fresh, creative' = [decided EXCEPT ![new].status = "queued"]
      PROVE  /\ creative'[c].status = status
             /\ \A d \in Creatives :
                  creative'[d].stored = creative[d].stored /\ creative'[d].image = creative[d].image
             /\ \A d \in Creatives \ {c} :
                  \/ creative'[d].status = creative[d].status
                  \/ d \in Fresh /\ creative'[d].status = "queued"
  <2>1. new # c
    BY <1>1 DEF Fresh
  <2> HIDE DEF decided
  <2> QED BY <1>1, <1>3, <1>5, <2>1
<1>6. ASSUME NEW new \in Fresh, creative' = [creative EXCEPT ![c].status = status,
                                                             ![new].status = "queued"]
      PROVE  creative' = [decided EXCEPT ![new].status = "queued"]
  BY <1>6
<1> QED BY <1>1, <1>4, <1>5, <1>6 DEF status, c

\* A row is never deleted.
LEMMA RowsGrow == ASSUME TypeInv, [Next]_vars PROVE Rows \subseteq Rows'
<1>1. ASSUME NEW p \in Runs, Insert(p) PROVE Rows \subseteq Rows'
  <2>1. PICK row \in Row : /\ creative' = [creative EXCEPT ![run[p].creative] = row]
                           /\ row.status \in {"blocked", "awaiting_approval"}
    BY <1>1, InsertGoes
  <2> QED BY <2>1 DEF Rows, TypeInv, TypeOK
<1>2. ASSUME NEW p \in Runs, Deciding(p) PROVE Rows \subseteq Rows'
  <2> DEFINE status == Written(p, IF run[p].op = "approve" THEN "approved" ELSE "rejected")
             c == run[p].creative
  <2>1. /\ creative'[c].status = status
        /\ \A d \in Creatives \ {c} : creative'[d].status = creative[d].status
                                      \/ creative'[d].status = "queued"
    BY <1>2, DecisionRows
  <2>2. status # "none"
    BY <1>2, DecisionGoes DEF Deciding
  <2> HIDE DEF status, c
  <2> QED BY <2>1, <2>2 DEF Rows
<1>3. ASSUME UNCHANGED creative PROVE Rows \subseteq Rows'
  BY <1>3 DEF Rows
<1>4. ASSUME NEW p \in Runs, Reading(p) \/ Store(p) \/ Publish(p) PROVE UNCHANGED creative
  BY <1>4, ReadingGoes DEF Reading, Store, Publish
<1> QED BY <1>1, <1>2, <1>3, <1>4, StepCases DEF Recheck, vars

\* Every variable keeps its type.
LEMMA TypeInductive == TypeInv /\ [Next]_vars => TypeInv'
<1> SUFFICES ASSUME TypeInv, [Next]_vars PROVE TypeInv'
  OBVIOUS
<1> USE DEF TypeInv, TypeOK
<1>1. Rows \subseteq Rows'
  BY RowsGrow
<1> DEFINE Moves(p, l) ==
             /\ run' = [run EXCEPT ![p] = l]
             /\ l.op = "generate" => l.left >= 1
             /\ l.op \in {"approve", "reject", "publish"} => l.creative \in Rows
<1>2. ASSUME NEW p \in Runs, NEW l \in Local, Moves(p, l)
      PROVE  run' \in [Runs -> Local] /\ ImagesLeft' /\ Chosen'
  <2>1. run' \in [Runs -> Local] /\ \A q \in Runs : run'[q] = IF q = p THEN l ELSE run[q]
    BY <1>2
  <2> QED BY <1>1, <1>2, <2>1 DEF ImagesLeft, Chosen
<1>3. ASSUME NEW p \in Runs, run' = [run EXCEPT ![p] = Idle] PROVE Moves(p, Idle)
  BY <1>3 DEF Idle
<1>4. ASSUME NEW p \in Runs, Reading(p) PROVE TypeInv'
  <2>1. \E l \in Local : Moves(p, l)
    BY <1>4, ReadingGoes DEF Reading
  <2>2. UNCHANGED <<creative, checks, decision, files, attempt, overlapped>>
    BY <1>4, ReadingGoes DEF Reading
  <2> QED BY <1>2, <2>1, <2>2 DEF ChecksBounded
<1>5. ASSUME NEW p \in Runs, Store(p) PROVE TypeInv'
  <2>1. PICK c \in Fresh : /\ files' = files \cup Put(p, c)
                           /\ run' = [run EXCEPT ![p] = [@ EXCEPT !.at = "write", !.creative = c]]
    BY <1>5 DEF Store
  <2>2. c \in Creatives
    BY DEF Fresh
  <2>3. [run[p] EXCEPT !.at = "write", !.creative = c] \in Local
    BY <2>2 DEF Local
  <2>4. run[p].op = "generate" /\ run[p].left >= 1
    BY <1>5 DEF Store, At, ImagesLeft
  <2>5. Moves(p, [run[p] EXCEPT !.at = "write", !.creative = c])
    BY <2>1, <2>4 DEF Local
  <2>6. run' \in [Runs -> Local] /\ ImagesLeft' /\ Chosen'
    BY <1>2, <2>3, <2>5
  <2> QED BY <1>5, <2>1, <2>2, <2>6 DEF Store, Put, ChecksBounded
<1>6. ASSUME NEW p \in Runs, Insert(p) PROVE TypeInv'
  <2>1. \E l \in Local : Moves(p, l)
    BY <1>6, InsertGoes
  <2>2. run' \in [Runs -> Local] /\ ImagesLeft' /\ Chosen'
    BY <1>2, <2>1
  <2>3. creative' \in [Creatives -> Row]
    BY <1>6, InsertGoes
  <2>4. checks' \in [Creatives -> Seq(Check)] /\ ChecksBounded'
    BY <1>6, InsertGoes DEF ChecksBounded
  <2> QED BY <1>6, <2>2, <2>3, <2>4, InsertGoes
<1>7. ASSUME NEW p \in Runs, Deciding(p) PROVE TypeInv'
  <2> DEFINE verdict == IF run[p].op = "approve" THEN "approved" ELSE "rejected"
             status == Written(p, verdict)
             c == run[p].creative
  <2>1. /\ c \in Creatives /\ status \in Statuses
        /\ \/ creative' = [creative EXCEPT ![c].status = status]
           \/ \E new \in Fresh : creative' = [creative EXCEPT ![c].status = status,
                                                              ![new].status = "queued"]
        /\ Decide(p, verdict)
        /\ UNCHANGED <<files, attempt>>
        /\ \/ UNCHANGED checks
           \/ checks' = [checks EXCEPT ![c] =
                [k \in DOMAIN @ |-> IF k \in run[p].open THEN "overridden" ELSE @[k]]]
        /\ run' = [run EXCEPT ![p] = Idle]
    BY <1>7, DecisionGoes DEF Deciding
  <2>2. run' \in [Runs -> Local] /\ ImagesLeft' /\ Chosen'
    BY <1>2, <1>3, <2>1, IdleType
  <2>3. checks' \in [Creatives -> Seq(Check)] /\ ChecksBounded'
    <3> DEFINE read == run[p].open
               t == [k \in DOMAIN checks[c] |-> IF k \in read THEN "overridden" ELSE checks[c][k]]
    <3>1. t \in Seq(Check) /\ Len(t) = Len(checks[c])
      BY <2>1, OverrideType
    <3>2. UNCHANGED checks \/ checks' = [checks EXCEPT ![c] = t]
      BY <2>1
    <3>3. c \in Creatives
      BY <2>1
    <3> HIDE DEF t, c
    <3>4. checks' \in [Creatives -> Seq(Check)]
      BY <3>1, <3>2, <3>3
    <3>5. ASSUME NEW d \in Creatives PROVE Len(checks'[d]) <= MaxChecks
      BY <3>1, <3>2, <3>3 DEF ChecksBounded
    <3> QED BY <3>4, <3>5 DEF ChecksBounded
  <2>4. decision' \in [Creatives -> Decision] /\ overlapped' \subseteq Creatives
    <3>1. verdict \in Verdicts
      BY DEF Verdicts
    <3>2. [last |-> verdict, approved |-> decision[c].approved \/ verdict = "approved"] \in Decision
      BY <3>1 DEF Decision
    <3>3. decision' = [decision EXCEPT ![c] =
            [last |-> verdict, approved |-> decision[c].approved \/ verdict = "approved"]]
      BY <2>1 DEF Decide
    <3>4. overlapped' \subseteq Creatives
      BY <2>1 DEF Decide
    <3> QED BY <2>1, <3>2, <3>3, <3>4
  <2>5. creative' \in [Creatives -> Row]
    <3> HIDE DEF status, c
    <3> DEFINE decided == [creative EXCEPT ![c].status = status]
    <3>1. decided \in [Creatives -> Row]
      <4>1. creative \in [Creatives -> Row] /\ c \in Creatives /\ status \in Statuses
        BY <2>1
      <4>2. [creative[c] EXCEPT !.status = status] \in Row
        BY <4>1 DEF Row
      <4> QED BY <4>1, <4>2
    <3>2. ASSUME NEW new \in Fresh PROVE [decided EXCEPT ![new].status = "queued"] \in [Creatives -> Row]
      <4> HIDE DEF decided
      <4>1. "queued" \in Statuses /\ new \in Creatives
        BY DEF Statuses, Fresh
      <4>2. [decided[new] EXCEPT !.status = "queued"] \in Row
        BY <3>1, <4>1 DEF Row
      <4> QED BY <3>1, <4>1, <4>2
    <3> QED BY <2>1, <3>1, <3>2
  <2> QED BY <2>1, <2>2, <2>3, <2>4, <2>5
<1>8. ASSUME NEW p \in Runs, Publish(p) PROVE TypeInv'
  <2>1. run' \in [Runs -> Local] /\ ImagesLeft' /\ Chosen'
    BY <1>2, <1>3, <1>8, IdleType DEF Publish, Ends
  <2>2. attempt' \in Attempt
    BY <1>8 DEF Publish, Local, Attempt
  <2> QED BY <1>8, <2>1, <2>2 DEF Publish, ChecksBounded
<1>9. ASSUME NEW c \in Creatives, Recheck(c) PROVE TypeInv'
  <2>1. checks[c] \in Seq(Check) /\ "open" \in Check /\ MaxChecks \in Nat
    BY CreativeReviewAssumption DEF Check
  <2>2. Append(checks[c], "open") \in Seq(Check) /\ Len(Append(checks[c], "open")) <= MaxChecks
    BY <1>9, <2>1 DEF Recheck
  <2>3. checks' = [checks EXCEPT ![c] = Append(checks[c], "open")]
    BY <1>9 DEF Recheck
  <2>4. checks' \in [Creatives -> Seq(Check)] /\ ChecksBounded'
    BY <2>2, <2>3 DEF ChecksBounded
  <2> QED BY <1>1, <1>9, <2>4 DEF Recheck, ImagesLeft, Chosen
<1>10. CASE UNCHANGED vars
  BY <1>1, <1>10 DEF vars, ChecksBounded, ImagesLeft, Chosen
<1> QED BY <1>4, <1>5, <1>6, <1>7, <1>8, <1>9, <1>10, StepCases

LEMMA InitTypes == Init => TypeInv
<1> SUFFICES ASSUME Init PROVE TypeInv
  OBVIOUS
<1>1. NoRow \in Row /\ NoDecision \in Decision /\ <<>> \in Seq(Check)
  BY DEF NoRow, Row, NoDecision, Decision, Statuses, Verdicts
<1>2. NoAttempt \in Attempt
  BY DEF NoAttempt, Attempt, Verdicts
<1>3. TypeOK
  BY <1>1, <1>2, IdleType DEF Init, TypeOK
<1>4. ChecksBounded
  BY CreativeReviewAssumption DEF Init, ChecksBounded
<1>5. ImagesLeft /\ Chosen
  BY DEF Init, ImagesLeft, Chosen, Idle
<1> QED BY <1>3, <1>4, <1>5 DEF TypeInv

\* Every variable of the review has its type.
THEOREM TypeCorrect == Spec => []TypeOK
<1>1. Spec => []TypeInv
  BY InitTypes, TypeInductive, PTL DEF Spec
<1>2. TypeInv => TypeOK
  BY DEF TypeInv
<1> QED BY <1>1, <1>2, PTL

-----------------------------------------------------------------------------
(* A stored row has its file.                                               *)

Writing(p) == At(p, "generate", "write")

\* Rows that say so have a file, and so has an image about to get its row: it was put
\* into the store before, and nothing is taken out of it.
FileInv ==
  /\ \A c \in Creatives : creative[c].stored => c \in files
  /\ \A p \in Runs : Writing(p) /\ ~run[p].duplicate => run[p].creative \in files

LEMMA FileInductive == TypeInv /\ FileInv /\ [Next]_vars => FileInv'
<1> SUFFICES ASSUME TypeInv, FileInv, [Next]_vars PROVE FileInv'
  OBVIOUS
<1> USE DEF TypeInv, TypeOK
<1>1. ASSUME NEW p \in Runs, NEW l \in Local, run' = [run EXCEPT ![p] = l],
             l.op # "generate" \/ l.at # "write",
             files \subseteq files', \A c \in Creatives : creative'[c].stored => c \in files'
      PROVE  FileInv'
  BY <1>1 DEF FileInv, Writing, At
<1>2. ASSUME NEW p \in Runs, Reading(p) PROVE FileInv'
  <2>1. UNCHANGED <<creative, files>>
    BY <1>2, ReadingGoes DEF Reading
  <2>2. \E l \in Local : run' = [run EXCEPT ![p] = l] /\ (l.op # "generate" \/ l.at # "write")
    BY <1>2, ReadingGoes DEF Reading
  <2> QED BY <1>1, <2>1, <2>2 DEF FileInv
<1>3. ASSUME NEW p \in Runs, Store(p) PROVE FileInv'
  <2>1. PICK c \in Fresh : /\ files' = files \cup Put(p, c)
                           /\ run' = [run EXCEPT ![p] = [@ EXCEPT !.at = "write", !.creative = c]]
    BY <1>3 DEF Store
  <2>2. run'[p].creative = c /\ run'[p].duplicate = run[p].duplicate
    BY <2>1 DEF Local
  <2>3. ~run[p].duplicate => c \in files'
    BY <2>1 DEF Put
  <2>4. \A q \in Runs \ {p} : run'[q] = run[q]
    BY <2>1
  <2>5. UNCHANGED creative /\ files \subseteq files'
    BY <1>3, <2>1 DEF Store
  <2> QED BY <2>2, <2>3, <2>4, <2>5 DEF FileInv, Writing, At
<1>4. ASSUME NEW p \in Runs, Insert(p) PROVE FileInv'
  <2>1. PICK row \in Row : /\ creative' = [creative EXCEPT ![run[p].creative] = row]
                           /\ row.stored = ~run[p].duplicate
    BY <1>4, InsertGoes
  <2>2. Writing(p) /\ UNCHANGED files
    BY <1>4, InsertGoes DEF Writing
  <2>3. \A c \in Creatives : creative'[c].stored => c \in files'
    BY <2>1, <2>2 DEF FileInv
  <2>4. \E l \in Local : run' = [run EXCEPT ![p] = l] /\ (l.op # "generate" \/ l.at # "write")
    BY <1>4, InsertGoes
  <2> QED BY <1>1, <2>2, <2>3, <2>4
<1>5. ASSUME NEW p \in Runs, Deciding(p) PROVE FileInv'
  <2>1. UNCHANGED files /\ run' = [run EXCEPT ![p] = Idle]
    BY <1>5, DecisionGoes DEF Deciding
  <2>2. \A c \in Creatives : creative'[c].stored = creative[c].stored
    BY <1>5, DecisionRows
  <2> QED BY <1>1, <2>1, <2>2, IdleType DEF FileInv
<1>6. ASSUME NEW p \in Runs, Publish(p) PROVE FileInv'
  BY <1>1, <1>6, IdleType DEF Publish, Ends, FileInv
<1>7. ASSUME NEW c \in Creatives, Recheck(c) PROVE FileInv'
  BY <1>7 DEF Recheck, FileInv, Writing, At
<1>8. CASE UNCHANGED vars
  BY <1>8 DEF vars, FileInv, Writing, At
<1> QED BY <1>2, <1>3, <1>4, <1>5, <1>6, <1>7, <1>8, StepCases

\* Whatever dies between the store and the commit of an image, a row that says its image
\* is stored has the file (CreativeService.generate).
THEOREM RowsHaveFiles == Spec => []RowHasFile
<1>1. Init => FileInv
  BY DEF Init, FileInv, Writing, At, NoRow, Idle
<1>2. FileInv => RowHasFile
  BY DEF FileInv, RowHasFile, Rows
<1> QED BY <1>1, <1>2, InitTypes, TypeInductive, FileInductive, PTL DEF Spec

-----------------------------------------------------------------------------
(* The status follows the last decision.                                    *)

\* What is about to be inserted is not there yet, and nobody else inserts it.
NewlyMade ==
  \A p \in Runs : Writing(p) =>
    /\ run[p].creative \in Creatives \ Rows
    /\ \A q \in Runs \ {p} : Writing(q) => run[q].creative # run[p].creative

DecidedIsThere == \A c \in Creatives : decision[c].last # "none" => c \in Rows

StatusInv == NewlyMade /\ DecidedIsThere /\ StatusIsLastDecision

\* A step adds no row that a generation is about to insert, other than its own.
LEMMA NewlyMadeInductive == TypeInv /\ NewlyMade /\ [Next]_vars => NewlyMade'
<1> SUFFICES ASSUME TypeInv, NewlyMade, [Next]_vars PROVE NewlyMade'
  OBVIOUS
<1> USE DEF TypeInv, TypeOK
<1>1. ASSUME NEW p \in Runs, NEW l \in Local, run' = [run EXCEPT ![p] = l],
             l.op # "generate" \/ l.at # "write",
             \A q \in Runs \ {p} : Writing(q) => run[q].creative \notin Rows'
      PROVE  NewlyMade'
  BY <1>1 DEF NewlyMade, Writing, At
<1>2. ASSUME NEW p \in Runs, Reading(p) PROVE NewlyMade'
  <2>1. UNCHANGED creative
    BY <1>2, ReadingGoes DEF Reading
  <2>2. \E l \in Local : run' = [run EXCEPT ![p] = l] /\ (l.op # "generate" \/ l.at # "write")
    BY <1>2, ReadingGoes DEF Reading
  <2> QED BY <1>1, <2>1, <2>2 DEF NewlyMade, Rows
<1>3. ASSUME NEW p \in Runs, Store(p) PROVE NewlyMade'
  <2>1. PICK c \in Fresh : run' = [run EXCEPT ![p] = [@ EXCEPT !.at = "write", !.creative = c]]
    BY <1>3 DEF Store
  <2>2. run'[p].creative = c /\ \A q \in Runs \ {p} : run'[q] = run[q]
    BY <2>1 DEF Local
  <2>3. Rows' = Rows
    BY <1>3 DEF Store, Rows
  <2>4. c \in Creatives \ Rows /\ \A q \in Runs : Writing(q) => run[q].creative # c
    BY DEF Fresh, Writing, At
  <2>5. \A q \in Runs \ {p} : Writing(q)' => Writing(q)
    BY <2>2 DEF Writing, At
  <2>6. ASSUME NEW q \in Runs, Writing(q)'
        PROVE  /\ run'[q].creative \in Creatives \ Rows'
               /\ \A r \in Runs \ {q} : Writing(r)' => run'[r].creative # run'[q].creative
    <3>1. CASE q = p
      BY <2>2, <2>3, <2>4, <2>5, <3>1
    <3>2. CASE q # p
      BY <2>2, <2>3, <2>4, <2>5, <2>6, <3>2 DEF NewlyMade
    <3> QED BY <3>1, <3>2
  <2> QED BY <2>6 DEF NewlyMade
<1>4. ASSUME NEW p \in Runs, Insert(p) PROVE NewlyMade'
  <2>1. PICK row \in Row : creative' = [creative EXCEPT ![run[p].creative] = row]
    BY <1>4, InsertGoes
  <2>2. Writing(p)
    BY <1>4, InsertGoes DEF Writing
  <2>3. \A q \in Runs \ {p} : Writing(q) => run[q].creative \notin Rows'
    BY <2>1, <2>2 DEF NewlyMade, Rows
  <2>4. \E l \in Local : run' = [run EXCEPT ![p] = l] /\ (l.op # "generate" \/ l.at # "write")
    BY <1>4, InsertGoes
  <2> QED BY <1>1, <2>3, <2>4
<1>5. ASSUME NEW p \in Runs, Deciding(p) PROVE NewlyMade'
  <2>1. run[p].creative \in Rows /\ run' = [run EXCEPT ![p] = Idle]
    BY <1>5, DecisionGoes DEF Deciding
  <2>2. \A d \in Creatives \ {run[p].creative} :
          creative'[d].status = creative[d].status \/ d \in Fresh
    BY <1>5, DecisionRows
  <2>3. \A q \in Runs \ {p} : Writing(q) => run[q].creative \notin Fresh
    BY DEF Fresh, Writing, At
  <2>4. \A q \in Runs \ {p} : Writing(q) => run[q].creative \notin Rows'
    BY <2>1, <2>2, <2>3 DEF NewlyMade, Rows
  <2> QED BY <1>1, <2>1, <2>4, IdleType
<1>6. ASSUME NEW p \in Runs, Publish(p) PROVE NewlyMade'
  BY <1>1, <1>6, IdleType DEF Publish, Ends, NewlyMade, Rows
<1>7. ASSUME NEW c \in Creatives, Recheck(c) PROVE NewlyMade'
  BY <1>7 DEF Recheck, NewlyMade, Writing, At, Rows
<1>8. CASE UNCHANGED vars
  BY <1>8 DEF vars, NewlyMade, Writing, At, Rows
<1> QED BY <1>2, <1>3, <1>4, <1>5, <1>6, <1>7, <1>8, StepCases

LEMMA StatusInductive == TypeInv /\ StatusInv /\ [Next]_vars => StatusInv'
<1> SUFFICES ASSUME TypeInv, StatusInv, [Next]_vars PROVE StatusInv'
  OBVIOUS
<1>1. NewlyMade' /\ Rows \subseteq Rows'
  BY NewlyMadeInductive, RowsGrow DEF StatusInv
<1>2. ASSUME UNCHANGED <<creative, decision, overlapped>> PROVE StatusInv'
  BY <1>1, <1>2 DEF StatusInv, DecidedIsThere, StatusIsLastDecision, Rows
<1>3. ASSUME NEW p \in Runs, Reading(p) \/ Store(p) \/ Publish(p)
      PROVE  UNCHANGED <<creative, decision, overlapped>>
  BY <1>3, ReadingGoes DEF Reading, Store, Publish
<1>4. ASSUME NEW p \in Runs, Insert(p) PROVE StatusInv'
  <2>1. PICK row \in Row : creative' = [creative EXCEPT ![run[p].creative] = row]
    BY <1>4, InsertGoes
  <2>2. UNCHANGED <<decision, overlapped>> /\ Writing(p)
    BY <1>4, InsertGoes DEF Writing
  <2>3. run[p].creative \in Creatives \ Rows
    BY <2>2 DEF StatusInv, NewlyMade
  <2>4. decision[run[p].creative].last = "none"
    BY <2>3 DEF StatusInv, DecidedIsThere
  <2>5. \A c \in Creatives \ {run[p].creative} : creative'[c] = creative[c]
    BY <2>1 DEF TypeInv, TypeOK
  <2>6. DecidedIsThere'
    BY <1>1, <2>2 DEF StatusInv, DecidedIsThere
  <2>7. StatusIsLastDecision'
    BY <2>2, <2>4, <2>5 DEF StatusInv, StatusIsLastDecision
  <2> QED BY <1>1, <2>6, <2>7 DEF StatusInv
<1>5. ASSUME NEW p \in Runs, Deciding(p) PROVE StatusInv'
  <2> DEFINE c == run[p].creative
             verdict == IF run[p].op = "approve" THEN "approved" ELSE "rejected"
  <2>1. c \in Rows /\ c \in Creatives /\ Decide(p, verdict)
    BY <1>5, DecisionGoes DEF Deciding
  <2>2. creative'[c].status = Written(p, verdict)
    BY <1>5, DecisionRows
  <2>3. \A d \in Creatives \ {c} : creative'[d].status = creative[d].status \/ d \in Fresh
    BY <1>5, DecisionRows
  <2>4. \A d \in Creatives \ {c} : decision'[d] = decision[d]
    BY <2>1 DEF Decide, TypeInv, TypeOK
  <2>5. decision'[c].last = verdict
    BY <2>1 DEF Decide, TypeInv, TypeOK
  <2>6. overlapped \subseteq overlapped' /\ (run[p].status # creative[c].status => c \in overlapped')
    BY <2>1 DEF Decide
  <2>7. run[p].status = creative[c].status => Written(p, verdict) = verdict
    BY DEF Written
  <2>8. \A d \in Fresh : decision[d].last = "none"
    BY DEF StatusInv, DecidedIsThere, Fresh
  <2> HIDE DEF c, verdict
  <2>9. DecidedIsThere'
    BY <1>1, <2>1, <2>4 DEF StatusInv, DecidedIsThere
  <2>10. StatusIsLastDecision'
    BY <2>2, <2>3, <2>4, <2>5, <2>6, <2>7, <2>8 DEF StatusInv, StatusIsLastDecision
  <2> QED BY <1>1, <2>9, <2>10 DEF StatusInv
<1> QED BY <1>2, <1>3, <1>4, <1>5, StepCases DEF Recheck, vars

LEMMA InitStatus == Init => StatusInv
BY DEF Init, StatusInv, NewlyMade, DecidedIsThere, StatusIsLastDecision, Writing, At, Idle,
       NoDecision

\* The status of a creative is that of the last decision, but for decisions whose handler
\* had loaded the creative before another was committed (approve and reject).
THEOREM StatusFollows == Spec => []StatusIsLastDecision
<1>1. StatusInv => StatusIsLastDecision
  BY DEF StatusInv
<1> QED BY <1>1, InitTypes, InitStatus, TypeInductive, StatusInductive, PTL DEF Spec

-----------------------------------------------------------------------------
(* What passes the gate.                                                    *)

\* What the gate has made sure of when a creative passes it.
Passed(c, last, open) ==
  /\ c \in Rows /\ open \subseteq DOMAIN checks[c]
  /\ decision[c].approved
  /\ \A k \in open : checks[c][k] = "overridden"
  /\ last = "rejected" => c \in overlapped

\* What a publication has read of its creative: a rejection that it has seen shows in the
\* status, unless decisions overlapped.
Asked(p) ==
  /\ run[p].open \subseteq DOMAIN checks[run[p].creative]
  /\ run[p].last = "rejected" => run[p].status = "rejected" \/ run[p].creative \in overlapped
  /\ run[p].at = "write" => Passed(run[p].creative, run[p].last, run[p].open)

GateInv ==
  /\ \A p \in Runs : run[p].op = "publish" => Asked(p)
  /\ attempt # NoAttempt => Passed(attempt.creative, attempt.last, attempt.open)

\* Nothing that the gate makes sure of is undone: checks are added and overridden, and
\* approvals stay in the table.
Keeps(c) == /\ DOMAIN checks[c] \subseteq DOMAIN checks'[c]
            /\ \A k \in DOMAIN checks[c] :
                 checks[c][k] = "overridden" => checks'[c][k] = "overridden"
            /\ decision[c].approved => decision'[c].approved
            /\ c \in overlapped => c \in overlapped'

LEMMA RowsKeep == ASSUME TypeInv, NewlyMade, [Next]_vars PROVE \A c \in Rows : Keeps(c)
<1> USE DEF TypeInv, TypeOK, Keeps
<1>1. ASSUME NEW c \in Rows, UNCHANGED <<checks, decision, overlapped>> PROVE Keeps(c)
  BY <1>1
<1>2. ASSUME NEW p \in Runs, Reading(p) \/ Store(p) \/ Publish(p)
      PROVE  UNCHANGED <<checks, decision, overlapped>>
  BY <1>2, ReadingGoes DEF Reading, Store, Publish
<1>3. ASSUME NEW c \in Rows, NEW p \in Runs, Insert(p) PROVE Keeps(c)
  <2>1. Writing(p) /\ UNCHANGED <<decision, overlapped>>
    BY <1>3, InsertGoes DEF Writing
  <2>2. run[p].creative # c
    BY <2>1 DEF NewlyMade
  <2>3. PICK found \in Seq(Check) : checks' = [checks EXCEPT ![run[p].creative] = found]
    BY <1>3, InsertGoes
  <2>4. checks'[c] = checks[c]
    BY <2>2, <2>3 DEF Rows
  <2> QED BY <2>1, <2>4
<1>4. ASSUME NEW c \in Rows, NEW p \in Runs, Deciding(p) PROVE Keeps(c)
  <2> DEFINE d == run[p].creative
             t == [k \in DOMAIN checks[d] |-> IF k \in run[p].open THEN "overridden"
                                              ELSE checks[d][k]]
             verdict == IF run[p].op = "approve" THEN "approved" ELSE "rejected"
  <2>1. Decide(p, verdict) /\ (UNCHANGED checks \/ checks' = [checks EXCEPT ![d] = t])
    BY <1>4, DecisionGoes DEF Deciding
  <2>2. decision[c].approved => decision'[c].approved
    BY <2>1 DEF Decide, Rows
  <2>3. c \in overlapped => c \in overlapped'
    BY <2>1 DEF Decide
  <2>4. checks'[c] = checks[c] \/ (c = d /\ checks'[c] = t)
    BY <2>1 DEF Rows
  <2> QED BY <2>2, <2>3, <2>4
<1>5. ASSUME NEW c \in Rows, NEW d \in Creatives, Recheck(d) PROVE Keeps(c)
  <2>1. UNCHANGED <<decision, overlapped>> /\ checks' = [checks EXCEPT ![d] = Append(@, "open")]
    BY <1>5 DEF Recheck
  <2>2. c \in Creatives /\ checks[c] \in Seq(Check)
    BY DEF Rows
  <2>3. checks'[c] = checks[c] \/ checks'[c] = Append(checks[c], "open")
    BY <2>1, <2>2
  <2>4. LET t == Append(checks[c], "open")
        IN  DOMAIN checks[c] \subseteq DOMAIN t /\ \A k \in DOMAIN checks[c] : t[k] = checks[c][k]
    BY <2>2 DEF Check
  <2> QED BY <2>1, <2>3, <2>4
<1> QED BY <1>1, <1>2, <1>3, <1>4, <1>5, StepCases DEF vars

LEMMA GateInductive == TypeInv /\ StatusInv /\ GateInv /\ [Next]_vars => GateInv'
<1> SUFFICES ASSUME TypeInv, StatusInv, GateInv, [Next]_vars PROVE GateInv'
  OBVIOUS
<1>1. Rows \subseteq Rows' /\ \A c \in Rows : Keeps(c)
  BY RowsGrow, RowsKeep DEF StatusInv
<1> USE DEF TypeInv, TypeOK
<1>2. ASSUME NEW q \in Runs, run'[q] = run[q], run[q].op = "publish" PROVE Asked(q)'
  <2>1. run[q].creative \in Rows /\ Asked(q)
    BY <1>2 DEF Chosen, GateInv
  <2> QED BY <1>1, <1>2, <2>1 DEF Asked, Passed, Keeps
<1>3. ASSUME UNCHANGED attempt, attempt' # NoAttempt
      PROVE  Passed(attempt.creative, attempt.last, attempt.open)'
  <2>1. Passed(attempt.creative, attempt.last, attempt.open)
    BY <1>3 DEF GateInv
  <2> QED BY <1>1, <1>3, <2>1 DEF Passed, Keeps
<1>4. ASSUME NEW p \in Runs, \A q \in Runs \ {p} : run'[q] = run[q],
             run'[p].op = "publish" => Asked(p)', UNCHANGED attempt
      PROVE  GateInv'
  BY <1>2, <1>3, <1>4 DEF GateInv
<1>5. ASSUME NEW p \in Runs, NEW l \in Local, run' = [run EXCEPT ![p] = l], l.op # "publish",
             UNCHANGED attempt
      PROVE  GateInv'
  <2>1. run'[p] = l /\ \A q \in Runs \ {p} : run'[q] = run[q]
    BY <1>5
  <2> QED BY <1>4, <1>5, <2>1
<1>6. ASSUME NEW p \in Runs, LoadPublish(p) PROVE GateInv'
  <2>1. PICK c \in Rows :
               run' = [run EXCEPT ![p] = [Idle EXCEPT !.op = "publish", !.creative = c,
                                                      !.status = creative[c].status,
                                                      !.last = decision[c].last, !.open = Open(c)]]
    BY <1>6 DEF LoadPublish
  <2>2. /\ run'[p].creative = c /\ run'[p].status = creative[c].status
        /\ run'[p].last = decision[c].last /\ run'[p].open = Open(c) /\ run'[p].at = "load"
        /\ \A q \in Runs \ {p} : run'[q] = run[q]
    BY <2>1 DEF Idle
  <2>3. UNCHANGED <<creative, checks, decision, attempt, overlapped>>
    BY <1>6 DEF LoadPublish
  <2>4. Open(c) \subseteq DOMAIN checks[c]
    BY DEF Open
  <2>5. decision[c].last = "rejected" => creative[c].status = "rejected" \/ c \in overlapped
    BY DEF StatusInv, StatusIsLastDecision, Rows
  <2>6. Asked(p)'
    BY <2>2, <2>3, <2>4, <2>5 DEF Asked
  <2> QED BY <1>4, <2>2, <2>3, <2>6
<1>7. ASSUME NEW p \in Runs, Gate(p) PROVE GateInv'
  <2> DEFINE c == run[p].creative
  <2>1. /\ run[p].op = "publish" /\ c \in Rows /\ Asked(p)
        /\ run[p].status \in Publishable /\ Cleared(p)
        /\ UNCHANGED <<creative, checks, decision, attempt, overlapped>>
        /\ run' = [run EXCEPT ![p] = [@ EXCEPT !.at = "write"]]
    BY <1>7 DEF Gate, At, Chosen, GateInv
  <2>2. /\ run'[p].creative = c /\ run'[p].status = run[p].status
        /\ run'[p].last = run[p].last /\ run'[p].open = run[p].open
        /\ \A q \in Runs \ {p} : run'[q] = run[q]
    BY <2>1 DEF Local
  <2>3. \A k \in DOMAIN checks[c] : checks[c][k] = "overridden"
    <3>1. checks[c] \in Seq(Check)
      BY <2>1 DEF Rows
    <3>2. \A k \in DOMAIN checks[c] : checks[c][k] \in Check
      BY <3>1
    <3> QED BY <2>1, <3>2 DEF Cleared, Open, Check
  <2>4. run[p].last = "rejected" => c \in overlapped
    BY <2>1 DEF Asked, Publishable
  <2>5. Passed(c, run[p].last, run[p].open)
    BY <2>1, <2>3, <2>4 DEF Passed, Asked, Cleared
  <2>6. Asked(p)'
    BY <1>1, <2>1, <2>2, <2>5 DEF Asked, Passed
  <2> QED BY <1>4, <2>1, <2>2, <2>6
<1>8. ASSUME NEW p \in Runs, Publish(p) PROVE GateInv'
  <2>1. Passed(run[p].creative, run[p].last, run[p].open)
    BY <1>8 DEF Publish, At, GateInv, Asked
  <2>2. /\ attempt'.creative = run[p].creative /\ attempt'.last = run[p].last
        /\ attempt'.open = run[p].open
        /\ run' = [run EXCEPT ![p] = Idle]
    BY <1>8 DEF Publish, Ends
  <2>3. Passed(attempt.creative, attempt.last, attempt.open)'
    BY <1>1, <2>1, <2>2 DEF Passed, Keeps
  <2>4. \A q \in Runs : run'[q].op = "publish" => run'[q] = run[q]
    BY <2>2 DEF Idle
  <2> QED BY <1>2, <2>3, <2>4 DEF GateInv
<1>9. ASSUME UNCHANGED <<run, attempt>> PROVE GateInv'
  BY <1>2, <1>3, <1>9 DEF GateInv
<1>10. ASSUME NEW p \in Runs, Reading(p), ~LoadPublish(p), ~Gate(p) PROVE GateInv'
  <2>1. UNCHANGED attempt
    BY <1>10, ReadingGoes DEF Reading
  <2>2. PICK l \in Local : run' = [run EXCEPT ![p] = l]
    BY <1>10, ReadingGoes DEF Reading
  <2>3. run'[p] = l /\ \A q \in Runs \ {p} : run'[q] = run[q]
    BY <2>2
  <2>4. run'[p].op # "publish"
    <3>1. CASE LoadGenerate(p)
      BY <3>1 DEF LoadGenerate, Idle
    <3>2. CASE LookUp(p)
      BY <3>2 DEF LookUp, At, Local
    <3>3. CASE LoadDecision(p)
      BY <3>3 DEF LoadDecision, Idle
    <3>4. CASE ReadBlocked(p)
      BY <3>4 DEF ReadBlocked, At, Local
    <3>5. CASE Abort(p)
      BY <3>5 DEF Abort, Ends, Idle
    <3> QED BY <1>10, <3>1, <3>2, <3>3, <3>4, <3>5 DEF Reading
  <2> QED BY <1>4, <2>1, <2>3, <2>4
<1>11. ASSUME NEW p \in Runs, Store(p) PROVE GateInv'
  <2>1. PICK c \in Fresh : run' = [run EXCEPT ![p] = [@ EXCEPT !.at = "write", !.creative = c]]
    BY <1>11 DEF Store
  <2>2. run'[p].op = "generate" /\ \A q \in Runs \ {p} : run'[q] = run[q]
    BY <1>11, <2>1 DEF Store, At, Local
  <2> QED BY <1>4, <1>11, <2>2 DEF Store
<1>12. ASSUME NEW p \in Runs, Insert(p) PROVE GateInv'
  <2>1. UNCHANGED attempt /\ \E l \in Local : run' = [run EXCEPT ![p] = l] /\ l.op # "publish"
    BY <1>12, InsertGoes
  <2> QED BY <1>5, <2>1
<1>13. ASSUME NEW p \in Runs, Deciding(p) PROVE GateInv'
  <2>1. UNCHANGED attempt /\ run' = [run EXCEPT ![p] = Idle]
    BY <1>13, DecisionGoes DEF Deciding
  <2> QED BY <1>5, <2>1, IdleType
<1> QED BY <1>6, <1>7, <1>8, <1>9, <1>10, <1>11, <1>12, <1>13, StepCases DEF Recheck, vars

\* What passes the gate was approved, its open checks were overridden, and the decision
\* the publication had seen was no rejection unless decisions overlapped (the guards of
\* publication_service against approve and reject).
THEOREM GateIsRespected == Spec => []PublishedIsApproved
<1>1. Init => GateInv
  BY DEF Init, GateInv, Idle
<1>2. GateInv => PublishedIsApproved
  BY DEF GateInv, Passed, PublishedIsApproved
<1> QED BY <1>1, <1>2, InitTypes, InitStatus, TypeInductive, StatusInductive, GateInductive,
           PTL DEF Spec

-----------------------------------------------------------------------------
(* What passes the gate has an image.                                       *)

\* The image of a row is stored or has a check: duplicates are blocked.
Checked(c) == creative[c].image # NoImage =>
                c \in Rows /\ (creative[c].stored \/ DOMAIN checks[c] # {})

\* What is true of a creative once no check of it is open.
Imaged(c) == /\ c \in Rows
             /\ \/ creative[c].stored
                \/ creative[c].image = NoImage
                \/ \E k \in DOMAIN checks[c] : checks[c][k] = "overridden"

ImageInv ==
  /\ \A c \in Creatives : Checked(c)
  /\ \A p \in Runs : At(p, "publish", "write") => Imaged(run[p].creative)
  /\ attempt # NoAttempt => Imaged(attempt.creative)

\* A row keeps its image.
LEMMA ImagesStay ==
  ASSUME TypeInv, NewlyMade, [Next]_vars
  PROVE  \A c \in Rows :
           creative'[c].image = creative[c].image /\ creative'[c].stored = creative[c].stored
<1> DEFINE Stay == \A c \in Rows :
             creative'[c].image = creative[c].image /\ creative'[c].stored = creative[c].stored
<1>1. ASSUME UNCHANGED creative PROVE Stay
  BY <1>1
<1>2. ASSUME NEW p \in Runs, Reading(p) \/ Store(p) \/ Publish(p) PROVE UNCHANGED creative
  BY <1>2, ReadingGoes DEF Reading, Store, Publish
<1>3. ASSUME NEW p \in Runs, Insert(p) PROVE Stay
  <2>1. PICK row \in Row : creative' = [creative EXCEPT ![run[p].creative] = row]
    BY <1>3, InsertGoes
  <2>2. run[p].creative \notin Rows
    BY <1>3, InsertGoes DEF NewlyMade, Writing
  <2> QED BY <2>1, <2>2 DEF TypeInv, TypeOK, Rows
<1>4. ASSUME NEW p \in Runs, Deciding(p) PROVE Stay
  BY <1>4, DecisionRows DEF Rows
<1> QED BY <1>1, <1>2, <1>3, <1>4, StepCases DEF Recheck, vars

LEMMA CheckedInductive ==
  ASSUME TypeInv, NewlyMade, \A c \in Creatives : Checked(c), [Next]_vars
  PROVE  \A c \in Creatives : Checked(c)'
<1>1. /\ Rows \subseteq Rows' /\ \A c \in Rows : Keeps(c)
      /\ \A c \in Rows :
           creative'[c].image = creative[c].image /\ creative'[c].stored = creative[c].stored
  BY RowsGrow, RowsKeep, ImagesStay
<1>2. ASSUME NEW c \in Creatives, creative'[c].image = creative[c].image PROVE Checked(c)'
  <2> SUFFICES ASSUME creative'[c].image # NoImage
               PROVE  c \in Rows' /\ (creative'[c].stored \/ DOMAIN checks'[c] # {})
    BY DEF Checked
  <2>1. c \in Rows /\ (creative[c].stored \/ DOMAIN checks[c] # {})
    BY <1>2 DEF Checked
  <2>2. DOMAIN checks[c] \subseteq DOMAIN checks'[c]
    BY <1>1, <2>1 DEF Keeps
  <2> QED BY <1>1, <2>1, <2>2
<1>3. ASSUME NEW p \in Runs, Insert(p) PROVE \A c \in Creatives : Checked(c)'
  <2> PICK d \in Creatives : d = run[p].creative
    BY <1>3, InsertGoes DEF NewlyMade, Writing
  <2>1. PICK row \in Row : /\ creative' = [creative EXCEPT ![d] = row]
                           /\ row.status \in {"blocked", "awaiting_approval"}
                           /\ row.stored = ~run[p].duplicate
    BY <1>3, InsertGoes
  <2>2. PICK found \in Seq(Check) : /\ run[p].duplicate => 1 \in DOMAIN found
                                    /\ checks' = [checks EXCEPT ![d] = found]
    BY <1>3, InsertGoes
  <2>3. \A c \in Creatives \ {d} : creative'[c].image = creative[c].image
    BY <2>1 DEF TypeInv, TypeOK
  <2>4. creative'[d] = row /\ checks'[d] = found /\ d \in Rows'
    BY <2>1, <2>2 DEF TypeInv, TypeOK, Rows
  <2>5. creative'[d].stored \/ DOMAIN checks'[d] # {}
    BY <2>1, <2>2, <2>4
  <2>6. Checked(d)'
    BY <2>4, <2>5 DEF Checked
  <2> QED BY <1>2, <2>3, <2>6
<1>4. ASSUME NEW p \in Runs, Deciding(p) PROVE \A c \in Creatives : Checked(c)'
  BY <1>2, <1>4, DecisionRows
<1>5. ASSUME NEW p \in Runs, Reading(p) \/ Store(p) \/ Publish(p) PROVE UNCHANGED creative
  BY <1>5, ReadingGoes DEF Reading, Store, Publish
<1> QED BY <1>2, <1>3, <1>4, <1>5, StepCases DEF Recheck, vars

\* Who is at the gate, and what passed it, after a step that passes nothing.
LEMMA ImageInductive == TypeInv /\ NewlyMade /\ ImageInv /\ [Next]_vars => ImageInv'
<1> SUFFICES ASSUME TypeInv, NewlyMade, ImageInv, [Next]_vars PROVE ImageInv'
  OBVIOUS
<1>1. \A c \in Creatives : Checked(c)'
  BY CheckedInductive DEF ImageInv
<1>2. ASSUME NEW c, Imaged(c) PROVE Imaged(c)'
  <2>1. c \in Rows /\ c \in Rows' /\ Keeps(c)
    BY <1>2, RowsGrow, RowsKeep DEF Imaged
  <2>2. creative'[c].image = creative[c].image /\ creative'[c].stored = creative[c].stored
    BY <2>1, ImagesStay
  <2> QED BY <1>2, <2>1, <2>2 DEF Imaged, Keeps
<1>3. ASSUME \A q \in Runs : At(q, "publish", "write")' => run'[q] = run[q], UNCHANGED attempt
      PROVE  ImageInv'
  <2>1. ASSUME NEW q \in Runs, At(q, "publish", "write")' PROVE Imaged(run[q].creative)'
    <3>1. run'[q] = run[q] /\ Imaged(run[q].creative)
      BY <1>3, <2>1 DEF ImageInv, At
    <3> QED BY <1>2, <3>1
  <2>2. attempt' # NoAttempt => Imaged(attempt.creative)'
    BY <1>2, <1>3 DEF ImageInv
  <2> QED BY <1>1, <2>1, <2>2 DEF ImageInv
<1>4. ASSUME NEW p \in Runs, NEW l, run' = [run EXCEPT ![p] = l],
             l.op # "publish" \/ l.at # "write", UNCHANGED attempt
      PROVE  ImageInv'
  <2>1. run'[p] = l /\ \A q \in Runs \ {p} : run'[q] = run[q]
    BY <1>4 DEF TypeInv, TypeOK
  <2>2. \A q \in Runs : At(q, "publish", "write")' => run'[q] = run[q]
    BY <1>4, <2>1 DEF At
  <2> QED BY <1>3, <1>4, <2>2
<1>5. ASSUME NEW p \in Runs, Gate(p) PROVE ImageInv'
  <2> DEFINE c == run[p].creative
  <2>1. /\ run[p].op = "publish" /\ c \in Rows /\ c \in Creatives /\ Cleared(p)
        /\ UNCHANGED <<creative, checks, attempt>>
        /\ run' = [run EXCEPT ![p] = [@ EXCEPT !.at = "write"]]
    BY <1>5 DEF Gate, At, TypeInv, Chosen, Rows
  <2>2. run'[p].creative = c /\ \A q \in Runs \ {p} : run'[q] = run[q]
    BY <2>1 DEF TypeInv, TypeOK, Local
  <2>3. \A k \in DOMAIN checks[c] : checks[c][k] = "overridden"
    <3>1. checks[c] \in Seq(Check)
      BY <2>1 DEF TypeInv, TypeOK
    <3>2. \A k \in DOMAIN checks[c] : checks[c][k] \in Check
      BY <3>1
    <3> QED BY <2>1, <3>2 DEF Cleared, Open, Check
  <2>4. Imaged(c)
    BY <2>1, <2>3 DEF Imaged, ImageInv, Checked
  <2>5. ASSUME NEW q \in Runs, At(q, "publish", "write")' PROVE Imaged(run[q].creative)'
    <3>1. CASE q = p
      BY <1>2, <2>2, <2>4, <3>1
    <3>2. CASE q # p
      BY <1>2, <2>2, <2>5, <3>2 DEF At, ImageInv
    <3> QED BY <3>1, <3>2
  <2>6. attempt' # NoAttempt => Imaged(attempt.creative)'
    BY <1>2, <2>1 DEF ImageInv
  <2> QED BY <1>1, <2>5, <2>6 DEF ImageInv
<1>6. ASSUME NEW p \in Runs, Publish(p) PROVE ImageInv'
  <2>1. Imaged(run[p].creative)
    BY <1>6 DEF Publish, ImageInv
  <2>2. attempt'.creative = run[p].creative /\ run' = [run EXCEPT ![p] = Idle]
    BY <1>6 DEF Publish, Ends
  <2>3. Imaged(attempt.creative)'
    BY <1>2, <2>1, <2>2
  <2>4. ASSUME NEW q \in Runs, At(q, "publish", "write")' PROVE Imaged(run[q].creative)'
    <3>1. run'[q] = run[q] /\ At(q, "publish", "write")
      BY <2>2, <2>4 DEF At, Idle, TypeInv, TypeOK
    <3> QED BY <1>2, <3>1 DEF ImageInv
  <2> QED BY <1>1, <2>3, <2>4 DEF ImageInv
<1>7. ASSUME NEW p \in Runs, Reading(p), ~Gate(p) PROVE ImageInv'
  <2>1. UNCHANGED attempt /\ run[p] \in Local
    BY <1>7, ReadingGoes DEF Reading, TypeInv, TypeOK
  <2>2. PICK l \in Local : run' = [run EXCEPT ![p] = l]
    BY <1>7, ReadingGoes DEF Reading
  <2>3. run'[p] = l
    BY <2>2 DEF TypeInv, TypeOK
  <2>4. run'[p].op # "publish" \/ run'[p].at # "write"
    <3> USE DEF TypeInv, TypeOK
    <3>1. CASE LoadGenerate(p)
      BY <3>1 DEF LoadGenerate, Idle
    <3>2. CASE LookUp(p)
      BY <2>1, <3>2 DEF LookUp, At, Local
    <3>3. CASE LoadDecision(p)
      BY <3>3 DEF LoadDecision, Idle
    <3>4. CASE ReadBlocked(p)
      BY <2>1, <3>4 DEF ReadBlocked, At, Local
    <3>5. CASE LoadPublish(p)
      BY <3>5 DEF LoadPublish, Idle
    <3>6. CASE Abort(p)
      BY <3>6 DEF Abort, Ends, Idle
    <3> QED BY <1>7, <3>1, <3>2, <3>3, <3>4, <3>5, <3>6 DEF Reading
  <2> QED BY <1>4, <2>1, <2>2, <2>3, <2>4
<1>8. ASSUME NEW p \in Runs, Store(p) PROVE ImageInv'
  <2>1. PICK c \in Fresh : run' = [run EXCEPT ![p] = [@ EXCEPT !.at = "write", !.creative = c]]
    BY <1>8 DEF Store
  <2>2. run[p] \in Local /\ run[p].op = "generate" /\ UNCHANGED attempt
    BY <1>8 DEF Store, At, TypeInv, TypeOK
  <2>3. [run[p] EXCEPT !.at = "write", !.creative = c].op # "publish"
    BY <2>2 DEF Local
  <2> QED BY <1>4, <2>1, <2>2, <2>3
<1>9. ASSUME NEW p \in Runs, Insert(p) PROVE ImageInv'
  BY <1>4, <1>9, InsertGoes
<1>10. ASSUME NEW p \in Runs, Deciding(p) PROVE ImageInv'
  <2>1. UNCHANGED attempt /\ run' = [run EXCEPT ![p] = Idle]
    BY <1>10, DecisionGoes DEF Deciding
  <2> QED BY <1>4, <2>1, IdleType
<1>11. ASSUME UNCHANGED <<run, attempt>> PROVE ImageInv'
  BY <1>3, <1>11
<1> QED BY <1>5, <1>6, <1>7, <1>8, <1>9, <1>10, <1>11, StepCases DEF Recheck, vars

\* A creative that passed the gate has its file, or an owner overrode one of its checks,
\* or it is a variation without an image (the duplicate of generate against the gate).
THEOREM ImageOrOverride == Spec => []PublishedHasImage
<1>1. Init => ImageInv
  BY DEF Init, ImageInv, Checked, At, Idle, NoRow
<1>2. TypeInv /\ FileInv /\ ImageInv => PublishedHasImage
  BY DEF FileInv, ImageInv, Imaged, PublishedHasImage, Rows
<1>3. Init => FileInv
  BY DEF Init, FileInv, Writing, At, NoRow, Idle
<1>4. StatusInv => NewlyMade
  BY DEF StatusInv
<1> QED BY <1>1, <1>2, <1>3, <1>4, InitTypes, InitStatus, TypeInductive, StatusInductive,
           FileInductive, ImageInductive, PTL DEF Spec

-----------------------------------------------------------------------------
(* How often an image is stored.                                            *)

\* The rows with a stored image, and the handlers that are about to store it: all of
\* these looked for a duplicate when there was none.
StoredRows(i) == {c \in Creatives : creative[c].stored /\ creative[c].image = i}
Storing(i)    == {p \in Runs : /\ run[p].op = "generate" /\ run[p].at \in {"read", "write"}
                               /\ run[p].image = i /\ ~run[p].duplicate}

\* As many rows as handlers, less those that have still to store theirs.
Fits(S, T) == /\ IsFiniteSet(S) /\ T \subseteq Runs
              /\ Cardinality(S) + Cardinality(T) <= Cardinality(Runs)

DuplicateInv ==
  /\ \A c \in Creatives : creative[c].stored => c \in Rows
  /\ \A i \in Images : Fits(StoredRows(i), Storing(i))

LEMMA Smaller ==
  ASSUME NEW S, NEW T, IsFiniteSet(S), T \subseteq S
  PROVE  /\ IsFiniteSet(T) /\ Cardinality(T) \in Nat /\ Cardinality(S) \in Nat
         /\ Cardinality(T) <= Cardinality(S)
BY FS_Subset, FS_CardinalityType

LEMMA FitsNothing == ASSUME NEW S, NEW T, S = {}, T \subseteq Runs PROVE Fits(S, T)
<1>1. IsFiniteSet({}) /\ Cardinality({}) = 0
  BY FS_EmptySet
<1>2. Cardinality(T) \in Nat /\ Cardinality(T) <= Cardinality(Runs)
  BY Smaller, CreativeReviewAssumption
<1> QED BY <1>1, <1>2 DEF Fits

LEMMA FitsLess ==
  ASSUME NEW S, NEW T, NEW U, NEW V, Fits(S, T), U \subseteq S, V \subseteq T
  PROVE  Fits(U, V)
<1>1. IsFiniteSet(T) /\ Cardinality(Runs) \in Nat
  BY Smaller, CreativeReviewAssumption DEF Fits
<1>2. /\ IsFiniteSet(U) /\ Cardinality(U) \in Nat /\ Cardinality(S) \in Nat
      /\ Cardinality(U) <= Cardinality(S)
  BY Smaller DEF Fits
<1>3. /\ Cardinality(V) \in Nat /\ Cardinality(T) \in Nat
      /\ Cardinality(V) <= Cardinality(T)
  BY <1>1, Smaller
<1> QED BY <1>1, <1>2, <1>3 DEF Fits

\* A handler stores what it was about to store.
LEMMA FitsMove ==
  ASSUME NEW S, NEW T, NEW c, NEW p \in T, Fits(S, T)
  PROVE  Fits(S \cup {c}, T \ {p})
<1>1. IsFiniteSet(T) /\ Cardinality(Runs) \in Nat /\ Cardinality(T) \in Nat
  BY Smaller, CreativeReviewAssumption DEF Fits
<1>2. Cardinality(T \ {p}) = Cardinality(T) - 1
  BY <1>1, FS_RemoveElement
<1>3. IsFiniteSet(S) /\ Cardinality(S) \in Nat
  BY FS_CardinalityType DEF Fits
<1>4. CASE c \in S
  <2>1. S \cup {c} = S
    BY <1>4
  <2>2. Fits(S, T \ {p})
    BY <1>1, <1>2, <1>3 DEF Fits
  <2> QED BY <2>1, <2>2
<1>5. CASE c \notin S
  <2>1. IsFiniteSet(S \cup {c}) /\ Cardinality(S \cup {c}) = Cardinality(S) + 1
    BY <1>3, <1>5, FS_AddElement
  <2> QED BY <1>1, <1>2, <1>3, <2>1 DEF Fits
<1> QED BY <1>4, <1>5

LEMMA DuplicateInductive == TypeInv /\ DuplicateInv /\ [Next]_vars => DuplicateInv'
<1> SUFFICES ASSUME TypeInv, DuplicateInv, [Next]_vars PROVE DuplicateInv'
  OBVIOUS
<1> USE DEF TypeInv, TypeOK
<1>0. Rows \subseteq Rows'
  BY RowsGrow
<1> DEFINE Stay == \A c \in Creatives :
             creative'[c].image = creative[c].image /\ creative'[c].stored = creative[c].stored
\* Nothing is stored, and nobody new is about to.
<1>1. ASSUME Stay, \A i \in Images : Storing(i)' \subseteq Storing(i) PROVE DuplicateInv'
  <2>1. \A i \in Images : StoredRows(i)' \subseteq StoredRows(i)
    BY <1>1 DEF StoredRows
  <2>2. \A i \in Images : Fits(StoredRows(i), Storing(i))'
    BY <1>1, <2>1, FitsLess DEF DuplicateInv
  <2> QED BY <1>0, <1>1, <2>2 DEF DuplicateInv
<1>2. ASSUME NEW p \in Runs, NEW l, run' = [run EXCEPT ![p] = l],
             l.op # "generate" \/ l.at = "load"
      PROVE  \A i \in Images : Storing(i)' \subseteq Storing(i) /\ p \notin Storing(i)'
  BY <1>2 DEF Storing
<1>3. ASSUME NEW p \in Runs, Reading(p), ~LookUp(p) PROVE DuplicateInv'
  <2>1. Stay /\ run[p] \in Local
    BY <1>3, ReadingGoes DEF Reading
  <2>2. PICK l \in Local : run' = [run EXCEPT ![p] = l]
    BY <1>3, ReadingGoes DEF Reading
  <2>3. run'[p] = l
    BY <2>2
  <2>4. run'[p].op # "generate" \/ run'[p].at = "load"
    <3>1. CASE LoadGenerate(p)
      BY <3>1 DEF LoadGenerate, Idle
    <3>2. CASE LoadDecision(p)
      BY <3>2 DEF LoadDecision, Idle
    <3>3. CASE ReadBlocked(p)
      BY <2>1, <3>3 DEF ReadBlocked, At, Local
    <3>4. CASE LoadPublish(p)
      BY <3>4 DEF LoadPublish, Idle
    <3>5. CASE Gate(p)
      BY <2>1, <3>5 DEF Gate, At, Local
    <3>6. CASE Abort(p)
      BY <3>6 DEF Abort, Ends, Idle
    <3> QED BY <1>3, <3>1, <3>2, <3>3, <3>4, <3>5, <3>6 DEF Reading
  <2> QED BY <1>1, <1>2, <2>1, <2>2, <2>3, <2>4
<1>4. ASSUME NEW p \in Runs, LookUp(p) PROVE DuplicateInv'
  <2>1. PICK i \in Images : run' = [run EXCEPT ![p] =
               [@ EXCEPT !.at = "read", !.image = i, !.duplicate = IsDuplicate(i)]]
    BY <1>4 DEF LookUp
  <2>2. /\ run'[p].image = i /\ run'[p].duplicate = IsDuplicate(i)
        /\ \A q \in Runs \ {p} : run'[q] = run[q]
    BY <2>1 DEF Local
  <2>3. UNCHANGED creative
    BY <1>4 DEF LookUp
  <2>4. ASSUME NEW j \in Images PROVE Fits(StoredRows(j), Storing(j))'
    <3>1. StoredRows(j)' = StoredRows(j) /\ Storing(j)' \subseteq Runs
      BY <2>3 DEF StoredRows, Storing
    <3>2. CASE j = i /\ ~IsDuplicate(i)
      <4>1. StoredRows(j) = {}
        BY <3>2 DEF StoredRows, IsDuplicate, DuplicateInv
      <4> QED BY <3>1, <4>1, FitsNothing
    <3>3. CASE j # i \/ IsDuplicate(i)
      <4>1. Storing(j)' \subseteq Storing(j)
        BY <2>2, <3>3 DEF Storing
      <4> QED BY <3>1, <4>1, FitsLess DEF DuplicateInv
    <3> QED BY <3>2, <3>3
  <2> QED BY <1>0, <2>3, <2>4 DEF DuplicateInv
<1>5. ASSUME NEW p \in Runs, Store(p) PROVE DuplicateInv'
  <2>1. PICK c \in Fresh : run' = [run EXCEPT ![p] = [@ EXCEPT !.at = "write", !.creative = c]]
    BY <1>5 DEF Store
  <2>2. /\ run'[p].image = run[p].image /\ run'[p].duplicate = run[p].duplicate
        /\ \A q \in Runs \ {p} : run'[q] = run[q]
    BY <2>1 DEF Local
  <2>3. run[p].op = "generate" /\ run[p].at = "read" /\ Stay
    BY <1>5 DEF Store, At
  <2>4. \A i \in Images : Storing(i)' \subseteq Storing(i)
    BY <2>2, <2>3 DEF Storing
  <2> QED BY <1>1, <2>3, <2>4
<1>6. ASSUME NEW p \in Runs, Insert(p) PROVE DuplicateInv'
  <2> PICK d : d = run[p].creative
    OBVIOUS
  <2>1. PICK row \in Row : /\ creative' = [creative EXCEPT ![d] = row]
                           /\ row.status \in {"blocked", "awaiting_approval"}
                           /\ row.stored = ~run[p].duplicate /\ row.image = run[p].image
    BY <1>6, InsertGoes
  <2>2. /\ \A c \in Creatives \ {d} : creative'[c] = creative[c]
        /\ d \in Creatives => creative'[d] = row
    BY <2>1
  <2>3. \A i \in Images : Storing(i)' \subseteq Storing(i) /\ p \notin Storing(i)'
    <3>1. PICK l \in Local : run' = [run EXCEPT ![p] = l]
      BY <1>6, InsertGoes
    <3>2. l.op # "generate" \/ l.at = "load"
      <4>1. run'[p] = l
        BY <3>1
      <4> QED BY <1>6, <4>1 DEF Insert, Idle
    <3> QED BY <1>2, <3>1, <3>2
  <2>4. ASSUME NEW i \in Images PROVE Fits(StoredRows(i), Storing(i))'
    <3>1. Fits(StoredRows(i), Storing(i))
      BY DEF DuplicateInv
    <3>2. CASE run[p].image = i /\ ~run[p].duplicate
      <4>1. p \in Storing(i)
        BY <1>6, <3>2, InsertGoes DEF Storing, At
      <4>2. Fits(StoredRows(i) \cup {d}, Storing(i) \ {p})
        BY <3>1, <4>1, FitsMove
      <4>3. StoredRows(i)' \subseteq StoredRows(i) \cup {d}
        BY <2>2 DEF StoredRows
      <4> QED BY <2>3, <4>2, <4>3, FitsLess
    <3>3. CASE run[p].image # i \/ run[p].duplicate
      <4>1. StoredRows(i)' \subseteq StoredRows(i)
        BY <2>1, <2>2, <3>3 DEF StoredRows
      <4> QED BY <2>3, <3>1, <4>1, FitsLess
    <3> QED BY <3>2, <3>3
  <2>5. \A c \in Creatives : creative'[c].stored => c \in Rows'
    BY <1>0, <2>1, <2>2 DEF DuplicateInv, Rows
  <2> QED BY <2>4, <2>5 DEF DuplicateInv
<1>7. ASSUME NEW p \in Runs, Deciding(p) PROVE DuplicateInv'
  <2>1. run' = [run EXCEPT ![p] = Idle] /\ Stay
    BY <1>7, DecisionGoes, DecisionRows DEF Deciding
  <2>2. Idle.op # "generate"
    BY IdleType
  <2> QED BY <1>1, <1>2, <2>1, <2>2
<1>8. ASSUME NEW p \in Runs, Publish(p) PROVE DuplicateInv'
  <2>1. run' = [run EXCEPT ![p] = Idle] /\ Stay
    BY <1>8 DEF Publish, Ends
  <2>2. Idle.op # "generate"
    BY IdleType
  <2> QED BY <1>1, <1>2, <2>1, <2>2
<1>9. ASSUME UNCHANGED <<creative, run>> PROVE DuplicateInv'
  BY <1>1, <1>9 DEF Storing
<1> QED BY <1>3, <1>4, <1>5, <1>6, <1>7, <1>8, <1>9, StepCases DEF Recheck, vars

\* For any number of handlers, an image is stored at most once by each of them: a later
\* generation finds the duplicate (find_duplicate_hash against the commit of generate).
THEOREM ImagesAreShared == Spec => []DuplicatesBounded
<1>1. Init => DuplicateInv
  <2> SUFFICES ASSUME Init PROVE DuplicateInv
    OBVIOUS
  <2>1. \A c \in Creatives : ~creative[c].stored
    BY DEF Init, NoRow
  <2>2. \A i \in Images : StoredRows(i) = {} /\ Storing(i) \subseteq Runs
    BY <2>1 DEF StoredRows, Storing
  <2> QED BY <2>1, <2>2, FitsNothing DEF DuplicateInv
<1>2. DuplicateInv => DuplicatesBounded
  <2> SUFFICES ASSUME DuplicateInv, NEW i \in Images
               PROVE  Cardinality({c \in Rows : creative[c].stored /\ creative[c].image = i})
                        <= Cardinality(Runs)
    BY DEF DuplicatesBounded
  <2>1. {c \in Rows : creative[c].stored /\ creative[c].image = i} \subseteq StoredRows(i)
    BY DEF StoredRows, Rows
  <2>2. Fits(StoredRows(i), {})
    BY FitsLess DEF DuplicateInv
  <2>3. Cardinality({}) = 0
    BY FS_EmptySet
  <2>4. Fits({c \in Rows : creative[c].stored /\ creative[c].image = i}, {})
    BY <2>1, <2>2, FitsLess
  <2>5. /\ Cardinality({c \in Rows : creative[c].stored /\ creative[c].image = i}) \in Nat
        /\ Cardinality(Runs) \in Nat
    BY <2>4, CreativeReviewAssumption, FS_CardinalityType DEF Fits
  <2> QED BY <2>3, <2>4, <2>5 DEF Fits
<1> QED BY <1>1, <1>2, InitTypes, TypeInductive, DuplicateInductive, PTL DEF Spec
=============================================================================
