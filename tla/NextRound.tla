------------------------------- MODULE NextRound -------------------------------
(***************************************************************************)
(* What people review between two rounds of an experiment: the learnings   *)
(* drawn from it, the suggestions for the next round, the versions of the  *)
(* prompts those draft, and the analyses of the ad behind them.            *)
(*                                                                         *)
(* A handler (a request, or the task suggest_next_round) reads, decides    *)
(* and commits; no row is locked in between and no constraint makes a      *)
(* pending suggestion, a version number or an analysis unique.  A refused  *)
(* request leaves nothing behind and is not modelled.                      *)
(***************************************************************************)
EXTENDS Integers, Sequences, FiniteSets

CONSTANTS
  Runs,            \* handlers at work at the same time
  Learnings,       \* learnings that may be written down
  MaxSuggestions,  \* bound of the suggestions of the experiment
  MaxVersions,     \* bound of the prompt versions
  MaxAnalyses      \* bound of the analyses of the ad

ASSUME NextRoundAssumption ==
  /\ IsFiniteSet(Runs) /\ Runs # {}
  /\ MaxSuggestions \in Nat /\ MaxVersions \in Nat /\ MaxAnalyses \in Nat

VARIABLES
  learning,     \* the Learning rows
  suggestions,  \* the ExperimentSuggestion rows of one experiment
  versions,     \* the PromptVersion rows of one product, in the order of their commits
  analyses,     \* the CreativeAnalysis rows of one ad and one input_hash
  run           \* the local state of a handler

vars == <<learning, suggestions, versions, analyses, run>>

-----------------------------------------------------------------------------

\* A reviewed row and how many reviews of it are in the audit log.
Reviewed == [status : {"none", "pending", "accepted", "rejected"}, reviews : Nat]

\* "provisional" and "pending_approval" are pending here, "confirmed" and "approved"
\* accepted.
New == [status |-> "pending", reviews |-> 0]

Suggestion == [review : Reviewed, used : SUBSET Learnings, version : Nat \ {0}]
Version    == [template : Nat \ {0}, number : Nat \ {0}, parent : Nat]
NoVersion  == [template |-> 0, number |-> 0, parent |-> 0]
Analysis   == [number : Nat \ {0}, forced : BOOLEAN]

Ops   == {"learning", "suggestion", "suggest", "revise", "analyze"}
Local == [op : Ops \cup {"none"}, at : {"begin", "read", "write"}, item : Learnings \cup Nat,
          verdict : {"accepted", "rejected"}, used : SUBSET Learnings,
          version : Version \cup {NoVersion}, forced : BOOLEAN, number : Nat]
Idle  == [op |-> "none", at |-> "begin", item |-> 0, verdict |-> "rejected", used |-> {},
          version |-> NoVersion, forced |-> FALSE, number |-> 0]

Begin(p, local) == run[p].op = "none" /\ run' = [run EXCEPT ![p] = local]

At(p, op, at) == run[p].op = op /\ run[p].at = at

Ends(p) == run' = [run EXCEPT ![p] = Idle]

\* The greatest number in a sequence of numbered rows, 0 if there is none.
Latest(rows) ==
  LET numbers == {rows[i].number : i \in DOMAIN rows} \cup {0}
  IN  CHOOSE n \in numbers : \A k \in numbers : k <= n

-----------------------------------------------------------------------------
(* Reviews.                                                                 *)

\* Mutant: the status is not looked at.
ReviewableAny(row) == row.status # "none"

\* What confirm, approve and the two rejects ask of the row.
Reviewable(row) == row.status = "pending"

After(row, p) == [status |-> run[p].verdict, reviews |-> row.reviews + 1]

CreateLearning(l) ==
  /\ learning[l].status = "none"
  /\ learning' = [learning EXCEPT ![l] = New]
  /\ UNCHANGED <<suggestions, versions, analyses, run>>

LoadLearning(p) ==
  /\ \E l \in Learnings, verdict \in {"accepted", "rejected"} :
       /\ Reviewable(learning[l])
       /\ Begin(p, [Idle EXCEPT !.op = "learning", !.item = l, !.verdict = verdict])
  /\ UNCHANGED <<learning, suggestions, versions, analyses>>

ReviewLearning(p) ==
  /\ run[p].op = "learning"
  /\ learning' = [learning EXCEPT ![run[p].item] = After(@, p)]
  /\ Ends(p)
  /\ UNCHANGED <<suggestions, versions, analyses>>

LoadSuggestion(p) ==
  /\ \E i \in DOMAIN suggestions, verdict \in {"accepted", "rejected"} :
       /\ Reviewable(suggestions[i].review)
       /\ Begin(p, [Idle EXCEPT !.op = "suggestion", !.item = i, !.verdict = verdict])
  /\ UNCHANGED <<learning, suggestions, versions, analyses>>

ReviewSuggestion(p) ==
  /\ run[p].op = "suggestion"
  /\ suggestions' = [suggestions EXCEPT ![run[p].item].review = After(@, p)]
  /\ Ends(p)
  /\ UNCHANGED <<learning, versions, analyses>>

-----------------------------------------------------------------------------
(* NextRoundService.suggest.                                                *)

PendingSuggestions == {i \in DOMAIN suggestions : suggestions[i].review.status = "pending"}

\* Mutant: approved suggestions are counted instead.
MaySuggestAccepted ==
  \A i \in DOMAIN suggestions : suggestions[i].review.status # "accepted"

MaySuggest == PendingSuggestions = {}

LoadSuggest(p) ==
  /\ MaySuggest
  /\ Begin(p, [Idle EXCEPT !.op = "suggest"])
  /\ UNCHANGED <<learning, suggestions, versions, analyses>>

\* The best of the learnings that are not rejected; the scores are left open.
Retrieve(p) ==
  /\ At(p, "suggest", "begin")
  /\ \E used \in SUBSET {l \in Learnings : learning[l].status \in {"pending", "accepted"}} :
       run' = [run EXCEPT ![p].at = "read", ![p].used = used]
  /\ UNCHANGED <<learning, suggestions, versions, analyses>>

Templates == {versions[i].template : i \in DOMAIN versions}

\* Not yet taken by a committed template or by one that is about to be.
NewTemplate ==
  LET taken == Templates \cup ({run[p].version.template : p \in Runs} \ {0})
  IN  CHOOSE t \in 1..(Cardinality(taken) + 1) : t \notin taken

Of(t) == {i \in DOMAIN versions : versions[i].template = t}

MaxNumber(t) == Latest([i \in Of(t) |-> versions[i]])

\* Mutant: the version takes its parent's number.
NextNumberSame(t) == IF Of(t) = {} THEN 1 ELSE MaxNumber(t)

NextNumber(t) == MaxNumber(t) + 1

\* Mutant: the first version is number 0.
FirstVersionZero == [template |-> NewTemplate, number |-> 0, parent |-> 0]

FirstVersion == [template |-> NewTemplate, number |-> 1, parent |-> 0]

\* The draft follows a version with the greatest number of the product's latest template;
\* which template that is depends on when the transactions began.
DraftVersion(p) ==
  /\ At(p, "suggest", "read")
  /\ \E draft \in {FirstVersion} \cup
         {[template |-> versions[i].template, number |-> NextNumber(versions[i].template),
           parent |-> i] : i \in DOMAIN versions} :
       /\ draft.parent = 0 <=> versions = <<>>
       /\ draft.parent # 0 => versions[draft.parent].number = MaxNumber(draft.template)
       /\ run' = [run EXCEPT ![p].at = "write", ![p].version = draft]
  /\ UNCHANGED <<learning, suggestions, versions, analyses>>

\* One commit for the draft experiment, the prompt, the suggestion and its usages.
Suggest(p) ==
  /\ At(p, "suggest", "write")
  /\ Len(suggestions) < MaxSuggestions /\ Len(versions) < MaxVersions
  /\ versions' = Append(versions, run[p].version)
  /\ suggestions' = Append(suggestions, [review |-> New, used |-> run[p].used,
                                         version |-> Len(versions) + 1])
  /\ Ends(p)
  /\ UNCHANGED <<learning, analyses>>

-----------------------------------------------------------------------------
(* PromptService.                                                           *)

Generate ==
  /\ Len(versions) < MaxVersions
  /\ versions' = Append(versions, FirstVersion)
  /\ UNCHANGED <<learning, suggestions, analyses, run>>

\* The base is the one the user names or the latest.
LoadRevise(p) ==
  /\ \E i \in DOMAIN versions :
       Begin(p, [Idle EXCEPT !.op = "revise", !.item = i])
  /\ UNCHANGED <<learning, suggestions, versions, analyses>>

\* The greatest number is read after the base.
NumberRevision(p) ==
  /\ At(p, "revise", "begin")
  /\ LET base == versions[run[p].item]
     IN  run' = [run EXCEPT ![p].at = "write",
                            ![p].version = [template |-> base.template,
                                            number   |-> NextNumber(base.template),
                                            parent   |-> run[p].item]]
  /\ UNCHANGED <<learning, suggestions, versions, analyses>>

Revise(p) ==
  /\ At(p, "revise", "write")
  /\ Len(versions) < MaxVersions
  /\ versions' = Append(versions, run[p].version)
  /\ Ends(p)
  /\ UNCHANGED <<learning, suggestions, analyses>>

-----------------------------------------------------------------------------
(* AnalysisService.analyze.                                                 *)

\* Mutant: the hash differs from call to call.
NotYetAnalyzedNever == TRUE

\* _find_existing returns the row if there is one, and raises if there are several:
\* either way nothing is written.
NotYetAnalyzed == analyses = <<>>

LoadAnalyze(p) ==
  /\ \E forced \in BOOLEAN :
       /\ forced \/ NotYetAnalyzed
       /\ Begin(p, [Idle EXCEPT !.op = "analyze", !.forced = forced])
  /\ UNCHANGED <<learning, suggestions, versions, analyses>>

\* The version is read before the provider is called.
NumberAnalysis(p) ==
  /\ At(p, "analyze", "begin")
  /\ run' = [run EXCEPT ![p].at = "write", ![p].number = Latest(analyses) + 1]
  /\ UNCHANGED <<learning, suggestions, versions, analyses>>

Analyze(p) ==
  /\ At(p, "analyze", "write")
  /\ Len(analyses) < MaxAnalyses
  /\ analyses' = Append(analyses, [number |-> run[p].number, forced |-> run[p].forced])
  /\ Ends(p)
  /\ UNCHANGED <<learning, suggestions, versions>>

-----------------------------------------------------------------------------

\* The handler dies, or the provider fails: nothing but an audit row is committed.
Crash(p) ==
  /\ run[p].op # "none"
  /\ Ends(p)
  /\ UNCHANGED <<learning, suggestions, versions, analyses>>

Init ==
  /\ learning = [l \in Learnings |-> [status |-> "none", reviews |-> 0]]
  /\ suggestions = <<>>
  /\ versions = <<>>
  /\ analyses = <<>>
  /\ run = [p \in Runs |-> Idle]

Next ==
  \/ \E l \in Learnings : CreateLearning(l)
  \/ Generate
  \/ \E p \in Runs :
       \/ LoadLearning(p) \/ ReviewLearning(p)
       \/ LoadSuggestion(p) \/ ReviewSuggestion(p)
       \/ LoadSuggest(p) \/ Retrieve(p) \/ DraftVersion(p) \/ Suggest(p)
       \/ LoadRevise(p) \/ NumberRevision(p) \/ Revise(p)
       \/ LoadAnalyze(p) \/ NumberAnalysis(p) \/ Analyze(p)
       \/ Crash(p)

Spec == Init /\ [][Next]_vars

-----------------------------------------------------------------------------
(* Properties.                                                              *)

\* Every variable has its type.
TypeOK ==
  /\ learning \in [Learnings -> Reviewed]
  /\ suggestions \in Seq(Suggestion)
  /\ versions \in Seq(Version)
  /\ analyses \in Seq(Analysis)
  /\ run \in [Runs -> Local]

\* The reviews of a learning or of a suggestion that are in the audit log are those of
\* handlers that had loaded it before the first was committed: at most one for each.
ReviewsBounded ==
  /\ \A l \in Learnings : learning[l].reviews <= Cardinality(Runs)
  /\ \A i \in DOMAIN suggestions : suggestions[i].review.reviews <= Cardinality(Runs)

\* An experiment has no more pending suggestions than handlers that looked for one at
\* the same time.
PendingBounded == Cardinality(PendingSuggestions) <= Cardinality(Runs)

\* The history of a template: its first version has no parent, the others follow a
\* version of the same template that was there before and has a smaller number, no
\* number is left out, and one number is taken at most once by each handler.
VersionsWellFormed ==
  \A t \in Templates :
    /\ \A i \in Of(t) : LET v == versions[i]
                        IN  IF v.number = 1 THEN v.parent = 0
                            ELSE /\ v.parent \in Of(t) /\ v.parent < i
                                 /\ versions[v.parent].number < v.number
    /\ \A n \in 1..MaxNumber(t) :
         Cardinality({i \in Of(t) : versions[i].number = n}) \in 1..Cardinality(Runs)

\* Only a forced analysis adds to those of one input, except for handlers that looked
\* for one at the same time.
UnforcedBounded ==
  Cardinality({i \in DOMAIN analyses : ~analyses[i].forced}) <= Cardinality(Runs)
=============================================================================
