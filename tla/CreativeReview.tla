---------------------------- MODULE CreativeReview -----------------------------
(***************************************************************************)
(* Creatives from the generated image to the publication gate: the         *)
(* pipeline of CreativeService, the checks, the decisions of owners and    *)
(* admins, and what the gate reads of them.                                *)
(*                                                                         *)
(* A handler loads a creative, reads more, and commits; nothing locks the  *)
(* row, and a status equal to the loaded one is not in the UPDATE.  The    *)
(* object store is outside the transaction.                                *)
(***************************************************************************)
EXTENDS Integers, Sequences, FiniteSets

CONSTANTS
  Runs,       \* handlers at work at the same time
  Creatives,  \* ids of creatives; a stored file is named after its creative
  Images,     \* contents of images, told apart by their SHA-256
  NoCreative, NoImage,
  MaxImages,  \* bound of the images of one generation
  MaxChecks   \* bound of the BLOCKED checks of a creative

ASSUME CreativeReviewAssumption ==
  /\ IsFiniteSet(Runs) /\ NoCreative \notin Creatives /\ NoImage \notin Images
  /\ MaxImages \in Nat \ {0} /\ MaxChecks \in Nat

VARIABLES
  creative,    \* the GeneratedCreative rows, with the original asset
  checks,      \* checks[c]: its BLOCKED quality and policy checks
  decision,    \* decision[c]: the Approval rows
  files,       \* the creatives whose original is in the object store
  attempt,     \* what passed the gate last, and what was true when it was asked
  overlapped,  \* creatives decided by a handler that had loaded an older status
  run          \* the local state of a handler

vars == <<creative, checks, decision, files, attempt, overlapped, run>>

-----------------------------------------------------------------------------

Statuses == {"none", "queued", "blocked", "awaiting_approval", "approved", "rejected"}
Row      == [status : Statuses, image : Images \cup {NoImage}, stored : BOOLEAN]
NoRow    == [status |-> "none", image |-> NoImage, stored |-> FALSE]

\* A row without override_by is open.
Check == {"open", "overridden"}

Verdicts == {"none", "approved", "rejected"}

\* The latest decision, and whether there is a row that approves.
Decision   == [last : Verdicts, approved : BOOLEAN]
NoDecision == [last |-> "none", approved |-> FALSE]

\* "last" and "open" are the latest decision and the open checks when the handler
\* loaded the creative.
Attempt   == [creative : Creatives \cup {NoCreative}, last : Verdicts, open : SUBSET (1..MaxChecks)]
NoAttempt == [creative |-> NoCreative, last |-> "none", open |-> {}]

Ops   == {"generate", "approve", "reject", "publish"}
Local == [op : Ops \cup {"none"}, at : {"load", "read", "write"}, left : 0..MaxImages,
          image : Images \cup {NoImage}, duplicate : BOOLEAN, creative : Creatives \cup {NoCreative},
          status : Statuses, owner : BOOLEAN, last : Verdicts, open : SUBSET (1..MaxChecks)]
Idle  == [op |-> "none", at |-> "load", left |-> 0, image |-> NoImage, duplicate |-> FALSE,
          creative |-> NoCreative, status |-> "none", owner |-> FALSE,
          last |-> "none", open |-> {}]

Rows    == {c \in Creatives : creative[c].status # "none"}
Open(c) == {k \in DOMAIN checks[c] : checks[c][k] = "open"}

At(p, op, at) == run[p].op = op /\ run[p].at = at

Ends(p) == run' = [run EXCEPT ![p] = Idle]

\* Neither a row nor a file, nor about to be one.
Fresh == {c \in Creatives \ (Rows \cup files) :
            \A p \in Runs : run[p].op = "generate" /\ run[p].at = "write" => run[p].creative # c}

-----------------------------------------------------------------------------
(* CreativeService.generate.                                                *)

\* How many images the provider returns; a refusal or an error ends the request.
Returned == 1..MaxImages

LoadGenerate(p) ==
  /\ run[p].op = "none"
  /\ \E n \in Returned :
       run' = [run EXCEPT ![p] = [Idle EXCEPT !.op = "generate", !.left = n]]
  /\ UNCHANGED <<creative, checks, decision, files, attempt, overlapped>>

\* Mutant: the lookup is made in another organization.
IsDuplicateNever(i) == FALSE

\* find_duplicate_hash.
IsDuplicate(i) == \E c \in Rows : creative[c].stored /\ creative[c].image = i

LookUp(p) ==
  /\ At(p, "generate", "load")
  /\ \E i \in Images :
       run' = [run EXCEPT ![p].at = "read", ![p].image = i, ![p].duplicate = IsDuplicate(i)]
  /\ UNCHANGED <<creative, checks, decision, files, attempt, overlapped>>

\* Mutant: an error of the store is swallowed, as it is for a derivative.
PutSwallowed(p, c) == {}

\* Mutant: the file is named after the creative before that has an id.
PutUnnamed(p, c) == {run[p].creative}

Put(p, c) == IF run[p].duplicate THEN {} ELSE {c}

\* An exact duplicate is not stored.
Store(p) ==
  /\ At(p, "generate", "read")
  /\ \E c \in Fresh :
       /\ files' = files \cup Put(p, c)
       /\ run' = [run EXCEPT ![p].at = "write", ![p].creative = c]
  /\ UNCHANGED <<creative, checks, decision, attempt, overlapped>>

\* Mutant: a duplicate is only a warning.
QualityBlocksUnlessDuplicate(duplicate) == BOOLEAN

\* Whether the quality engine blocks: a duplicate, a corrupt or a large file.
QualityBlocks(duplicate) == IF duplicate THEN {TRUE} ELSE BOOLEAN

\* Whether the policy engine blocks: the text, or the provider's moderation.
PolicyBlocks == BOOLEAN

\* One commit for each image.
Insert(p) ==
  LET c == run[p].creative
  IN  /\ At(p, "generate", "write")
      /\ \E quality \in QualityBlocks(run[p].duplicate), policy \in PolicyBlocks :
           LET open  == IF quality THEN <<"open">> ELSE <<>>
               found == IF policy THEN Append(open, "open") ELSE open
           IN  /\ Len(found) <= MaxChecks
               /\ checks' = [checks EXCEPT ![c] = found]
               /\ creative' = [creative EXCEPT ![c] =
                    [status |-> IF quality \/ policy THEN "blocked" ELSE "awaiting_approval",
                     image |-> run[p].image, stored |-> ~run[p].duplicate]]
      /\ run' = [run EXCEPT ![p] =
           IF run[p].left = 1 THEN Idle
           ELSE [Idle EXCEPT !.op = "generate", !.left = run[p].left - 1]]
      /\ UNCHANGED <<decision, files, attempt, overlapped>>

\* The two requests that check a creative again: the status stays what it is.
Recheck(c) ==
  /\ c \in Rows /\ Len(checks[c]) < MaxChecks
  /\ checks' = [checks EXCEPT ![c] = Append(@, "open")]
  /\ UNCHANGED <<creative, decision, files, attempt, overlapped, run>>

-----------------------------------------------------------------------------
(* Decisions of owners and admins.                                          *)

\* Nothing is asked of the status.
LoadDecision(p) ==
  /\ run[p].op = "none"
  /\ \E c \in Rows, op \in {"approve", "reject"}, owner \in BOOLEAN :
       run' = [run EXCEPT ![p] = [Idle EXCEPT !.op = op, !.creative = c, !.owner = owner,
                                              !.status = creative[c].status]]
  /\ UNCHANGED <<creative, checks, decision, files, attempt, overlapped>>

\* Open checks need an owner who asks for the override and comments on it.
ReadBlocked(p) ==
  LET open == Open(run[p].creative)
  IN  /\ At(p, "approve", "load")
      /\ open # {} => run[p].owner
      /\ run' = [run EXCEPT ![p].at = "write", ![p].open = open]
      /\ UNCHANGED <<creative, checks, decision, files, attempt, overlapped>>

\* Mutant: the UPDATE does not touch an approved creative.
WrittenUnlessApproved(p, status) ==
  LET now == creative[run[p].creative].status
  IN  IF now = "approved" THEN now ELSE status

\* The UPDATE of the status.
Written(p, status) ==
  IF status = run[p].status THEN creative[run[p].creative].status ELSE status

Decide(p, verdict) ==
  LET c == run[p].creative
  IN  /\ decision' = [decision EXCEPT ![c] =
           [last |-> verdict, approved |-> @.approved \/ verdict = "approved"]]
      /\ overlapped' = IF run[p].status # creative[c].status THEN overlapped \cup {c}
                       ELSE overlapped
      /\ Ends(p)

\* The checks that get override_by: those that were read.
Overridden(p) == run[p].open

Approve(p) ==
  LET c == run[p].creative
  IN  /\ At(p, "approve", "write")
      /\ creative' = [creative EXCEPT ![c].status = Written(p, "approved")]
      /\ checks' = [checks EXCEPT ![c] =
           [k \in DOMAIN @ |-> IF k \in Overridden(p) THEN "overridden" ELSE @[k]]]
      /\ Decide(p, "approved")
      /\ UNCHANGED <<files, attempt>>

Reject(p) ==
  /\ run[p].op = "reject"
  /\ creative' = [creative EXCEPT ![run[p].creative].status = Written(p, "rejected")]
  /\ Decide(p, "rejected")
  /\ UNCHANGED <<checks, files, attempt>>

\* The rejection adds a creative without an image, to be generated by another request.
RequestVariation(p) ==
  /\ run[p].op = "reject"
  /\ \E new \in Fresh :
       creative' = [creative EXCEPT ![run[p].creative].status = Written(p, "rejected"),
                                    ![new].status = "queued"]
  /\ Decide(p, "rejected")
  /\ UNCHANGED <<checks, files, attempt>>

-----------------------------------------------------------------------------
(* What the publication gate asks of a creative.                            *)

LoadPublish(p) ==
  /\ run[p].op = "none"
  /\ \E c \in Rows :
       run' = [run EXCEPT ![p] = [Idle EXCEPT !.op = "publish", !.creative = c,
                                              !.status = creative[c].status,
                                              !.last = decision[c].last, !.open = Open(c)]]
  /\ UNCHANGED <<creative, checks, decision, files, attempt, overlapped>>

\* Mutant: the status is not looked at.
PublishableAny == Statuses

Publishable == {"approved", "awaiting_approval"}

\* Mutant: only an awaited creative needs an approval and closed checks.
ClearedAny(p) == run[p].status = "approved" \/ decision[run[p].creative].approved

\* Any approval will do, and no check may be open (REQUIRE_HUMAN_APPROVAL is on, as it is
\* by default).
Cleared(p) == decision[run[p].creative].approved /\ Open(run[p].creative) = {}

Gate(p) ==
  /\ At(p, "publish", "load")
  /\ run[p].status \in Publishable /\ Cleared(p)
  /\ run' = [run EXCEPT ![p].at = "write"]
  /\ UNCHANGED <<creative, checks, decision, files, attempt, overlapped>>

Publish(p) ==
  /\ At(p, "publish", "write")
  /\ attempt' = [creative |-> run[p].creative, last |-> run[p].last, open |-> run[p].open]
  /\ Ends(p)
  /\ UNCHANGED <<creative, checks, decision, files, overlapped>>

-----------------------------------------------------------------------------

\* The handler is refused, fails or dies: its transaction is rolled back.  So ends a
\* generation without images, too: the row for it has no creative_id.
Abort(p) ==
  /\ run[p].op # "none"
  /\ Ends(p)
  /\ UNCHANGED <<creative, checks, decision, files, attempt, overlapped>>

Init ==
  /\ creative = [c \in Creatives |-> NoRow]
  /\ checks = [c \in Creatives |-> <<>>]
  /\ decision = [c \in Creatives |-> NoDecision]
  /\ files = {}
  /\ attempt = NoAttempt
  /\ overlapped = {}
  /\ run = [p \in Runs |-> Idle]

Next ==
  \/ \E c \in Creatives : Recheck(c)
  \/ \E p \in Runs :
       \/ LoadGenerate(p) \/ LookUp(p) \/ Store(p) \/ Insert(p)
       \/ LoadDecision(p) \/ ReadBlocked(p) \/ Approve(p) \/ Reject(p) \/ RequestVariation(p)
       \/ LoadPublish(p) \/ Gate(p) \/ Publish(p)
       \/ Abort(p)

Spec == Init /\ [][Next]_vars

-----------------------------------------------------------------------------
(* Properties.                                                              *)

\* Every variable has its type.
TypeOK ==
  /\ creative \in [Creatives -> Row]
  /\ checks \in [Creatives -> Seq(Check)]
  /\ decision \in [Creatives -> Decision]
  /\ files \subseteq Creatives
  /\ attempt \in Attempt
  /\ overlapped \subseteq Creatives
  /\ run \in [Runs -> Local]

\* What passes the gate was approved, and every check that was open when it was asked
\* has been overridden.  The latest decision at that time was no rejection, unless two
\* decisions on the creative overlapped.
PublishedIsApproved ==
  attempt # NoAttempt =>
    /\ decision[attempt.creative].approved
    /\ \A k \in attempt.open : checks[attempt.creative][k] = "overridden"
    /\ attempt.last = "rejected" => attempt.creative \in overlapped

\* The status is that of the latest decision, unless the handler that took one had
\* loaded the creative before another was committed.
StatusIsLastDecision ==
  \A c \in Creatives \ overlapped :
    decision[c].last # "none" => creative[c].status = decision[c].last

\* A creative that passed the gate has its file, unless an owner overrode its checks or
\* it is a variation that was approved before its image was generated.
PublishedHasImage ==
  attempt # NoAttempt =>
    LET c == attempt.creative
    IN  \/ c \in files
        \/ creative[c].image = NoImage
        \/ \E k \in DOMAIN checks[c] : checks[c][k] = "overridden"

\* Whatever dies between the store and the commit, a row never points to a file that is
\* not there.
RowHasFile == \A c \in Rows : creative[c].stored => c \in files

\* An image is stored at most once by each handler: later ones find the duplicate.
DuplicatesBounded ==
  \A i \in Images :
    Cardinality({c \in Rows : creative[c].stored /\ creative[c].image = i}) <= Cardinality(Runs)
=============================================================================
