--------------------------- MODULE NextRound_proofs ---------------------------
(* Proofs about NextRound: its types, how often a row can be reviewed, how   *)
(* many suggestions and analyses there can be at a time, and the history of  *)
(* the prompt versions.                                                      *)
EXTENDS NextRound, FiniteSetTheorems, WellFoundedInduction, TLAPS

-----------------------------------------------------------------------------
(* Finite sets of numbers.                                                  *)

LEMMA LessThanIsWellFounded == IsWellFoundedOn({ss \in Nat \X Nat : ss[1] < ss[2]}, Nat)
BY NatLessThanWellFounded DEF OpToRel

\* A set of naturals has a least element.
LEMMA LeastExists ==
  ASSUME NEW T, T \subseteq Nat, T # {} PROVE \E x \in T : \A y \in T : x <= y
<1> DEFINE R == {ss \in Nat \X Nat : ss[1] < ss[2]}
<1>1. PICK x \in T : \A y \in T : ~(<<y, x>> \in R)
  <2>1. IsWellFoundedOn(R, Nat)
    BY LessThanIsWellFounded
  <2> HIDE DEF R
  <2> QED BY <2>1, WFMin
<1>2. \A y, z \in Nat : y < z => <<y, z>> \in R
  OBVIOUS
<1> HIDE DEF R
<1>3. \A y \in T : ~(y < x)
  BY <1>1, <1>2
<1> QED BY <1>3

\* A finite set of naturals has a greatest element: the one above which there are fewest.
LEMMA GreatestExists ==
  ASSUME NEW S, IsFiniteSet(S), S \subseteq Nat, S # {}
  PROVE  \E n \in S : \A k \in S : k <= n
<1> DEFINE Above(n) == {k \in S : k > n}
           Sizes    == {Cardinality(Above(n)) : n \in S}
<1>1. \A n \in S : IsFiniteSet(Above(n)) /\ Cardinality(Above(n)) \in Nat
  BY FS_Subset, FS_CardinalityType
<1>2. PICK n \in S : \A m \in S : Cardinality(Above(n)) <= Cardinality(Above(m))
  <2> HIDE DEF Above
  <2>1. Sizes \subseteq Nat /\ Sizes # {}
    BY <1>1
  <2>2. \E x \in Sizes : \A y \in Sizes : x <= y
    <3> HIDE DEF Sizes
    <3> QED BY <2>1, LeastExists
  <2> QED BY <2>2
<1> HIDE DEF Sizes
<1>3. ASSUME NEW k \in S, k > n PROVE FALSE
  <2>0. k \in Nat /\ n \in Nat /\ \A j \in S : j \in Nat
    OBVIOUS
  <2>1. Above(k) \subseteq Above(n) \ {k} /\ k \in Above(n)
    <3>1. \A j \in S : j > k => j > n /\ j # k
      BY <1>3, <2>0
    <3> QED BY <1>3, <3>1
  <2>2. IsFiniteSet(Above(n) \ {k}) /\ Cardinality(Above(n) \ {k}) = Cardinality(Above(n)) - 1
    BY <1>1, <2>1, FS_RemoveElement
  <2>3. Cardinality(Above(k)) <= Cardinality(Above(n) \ {k})
    BY <2>1, <2>2, FS_Subset
  <2> HIDE DEF Above
  <2> QED BY <1>1, <1>2, <2>2, <2>3
<1> HIDE DEF Above
<1>4. \A k \in S : k <= n
  BY <1>3
<1> QED BY <1>4

\* A finite set of positive numbers does not hold the numbers up to its size and one more.
LEMMA SomethingIsFree ==
  ASSUME NEW S, IsFiniteSet(S)
  PROVE  \E t \in 1..(Cardinality(S) + 1) : t \notin S
<1> DEFINE c == Cardinality(S)
<1>1. c \in Nat
  BY FS_CardinalityType
<1>2. IsFiniteSet(1..(c + 1)) /\ Cardinality(1..(c + 1)) = c + 1
  BY <1>1, FS_Interval
<1>3. SUFFICES ASSUME 1..(c + 1) \subseteq S PROVE FALSE
  OBVIOUS
<1>4. Cardinality(1..(c + 1)) <= c
  BY <1>3, FS_Subset
<1> QED BY <1>1, <1>2, <1>4

\* A set that is not larger, and one with at most one element more.
LEMMA Smaller ==
  ASSUME NEW S, NEW T, IsFiniteSet(S), T \subseteq S
  PROVE  /\ IsFiniteSet(T) /\ Cardinality(T) \in Nat /\ Cardinality(S) \in Nat
         /\ Cardinality(T) <= Cardinality(S)
BY FS_Subset, FS_CardinalityType

LEMMA OneMore ==
  ASSUME NEW S, NEW T, NEW x, IsFiniteSet(S), T \subseteq S \cup {x}
  PROVE  /\ IsFiniteSet(T) /\ Cardinality(T) \in Nat /\ Cardinality(S) \in Nat
         /\ Cardinality(T) <= Cardinality(S) + 1
<1>1. IsFiniteSet(S \cup {x}) /\ Cardinality(S) \in Nat
  BY FS_AddElement, FS_CardinalityType
<1>2. Cardinality(S \cup {x}) <= Cardinality(S) + 1
  <2>1. x \in S => Cardinality(S \cup {x}) = Cardinality(S)
    BY FS_AddElement
  <2>2. x \notin S => Cardinality(S \cup {x}) = Cardinality(S) + 1
    BY FS_AddElement
  <2> QED BY <1>1, <2>1, <2>2
<1>3. IsFiniteSet(T) /\ Cardinality(T) <= Cardinality(S \cup {x})
  BY <1>1, FS_Subset
<1>4. Cardinality(T) \in Nat /\ Cardinality(S \cup {x}) \in Nat
  BY <1>1, <1>3, FS_CardinalityType
<1> QED BY <1>1, <1>2, <1>3, <1>4

-----------------------------------------------------------------------------
(* What handlers may still add: n is there and the handlers of T may each    *)
(* add one.                                                                  *)

Fits(n, T) == n \in Nat /\ T \subseteq Runs /\ n + Cardinality(T) <= Cardinality(Runs)

LEMMA RunsFinite ==
  ASSUME NEW T, T \subseteq Runs
  PROVE  /\ IsFiniteSet(T) /\ Cardinality(T) \in Nat /\ Cardinality(Runs) \in Nat
         /\ Cardinality(T) <= Cardinality(Runs)
BY NextRoundAssumption, Smaller

\* As long as there is nothing, every handler may add something.
LEMMA FitsEmpty == ASSUME NEW T, T \subseteq Runs PROVE Fits(0, T)
BY RunsFinite DEF Fits

LEMMA FitsKeep ==
  ASSUME NEW n, NEW m \in Nat, NEW T, NEW U, Fits(n, T), m <= n, U \subseteq T
  PROVE  Fits(m, U)
<1>1. /\ IsFiniteSet(T) /\ Cardinality(T) \in Nat /\ Cardinality(Runs) \in Nat
  BY RunsFinite DEF Fits
<1>2. Cardinality(U) \in Nat /\ Cardinality(U) <= Cardinality(T)
  BY <1>1, Smaller
<1> QED BY <1>1, <1>2 DEF Fits

\* A handler of T adds what it may.
LEMMA FitsMove ==
  ASSUME NEW n, NEW m \in Nat, NEW T, NEW U, NEW p \in T, Fits(n, T), m <= n + 1,
         U \subseteq T \ {p}
  PROVE  Fits(m, U)
<1>1. /\ IsFiniteSet(T) /\ Cardinality(T) \in Nat /\ Cardinality(Runs) \in Nat
  BY RunsFinite DEF Fits
<1>2. IsFiniteSet(T \ {p}) /\ Cardinality(T \ {p}) = Cardinality(T) - 1
  BY <1>1, FS_RemoveElement
<1>3. Cardinality(U) \in Nat /\ Cardinality(U) <= Cardinality(T \ {p})
  BY <1>2, Smaller
<1> QED BY <1>1, <1>2, <1>3 DEF Fits

-----------------------------------------------------------------------------
(* The greatest number and a template that is free.                         *)

\* The function's range is finite if its domain is.
LEMMA RangeFinite ==
  ASSUME NEW D, NEW f, IsFiniteSet(D), f = [x \in D |-> f[x]]
  PROVE  IsFiniteSet({f[x] : x \in D})
<1>1. f \in Surjection(D, {f[x] : x \in D})
  BY DEF Surjection
<1> QED BY <1>1, FS_Surjection

\* What the code's max() over the numbers returns.
LEMMA LatestIs ==
  ASSUME NEW rows, IsFiniteSet(DOMAIN rows), \A i \in DOMAIN rows : rows[i].number \in Nat
  PROVE  /\ Latest(rows) \in Nat
         /\ \A i \in DOMAIN rows : rows[i].number <= Latest(rows)
         /\ Latest(rows) = 0 \/ \E i \in DOMAIN rows : rows[i].number = Latest(rows)
<1> DEFINE number  == [i \in DOMAIN rows |-> rows[i].number]
           numbers == {rows[i].number : i \in DOMAIN rows}
<1>1. numbers = {number[i] : i \in DOMAIN rows}
  OBVIOUS
<1>2. IsFiniteSet(numbers)
  <2>1. DOMAIN number = DOMAIN rows /\ number = [i \in DOMAIN rows |-> number[i]]
    OBVIOUS
  <2> HIDE DEF number, numbers
  <2> QED BY <1>1, <2>1, RangeFinite
<1>3. IsFiniteSet(numbers \cup {0})
  <2> HIDE DEF numbers
  <2> QED BY <1>2, FS_AddElement
<1>4. numbers \cup {0} \subseteq Nat /\ numbers \cup {0} # {}
  OBVIOUS
<1>5. \E n \in numbers \cup {0} : \A k \in numbers \cup {0} : k <= n
  <2> HIDE DEF numbers
  <2> QED BY <1>3, <1>4, GreatestExists
<1>6. /\ Latest(rows) \in numbers \cup {0}
      /\ \A k \in numbers \cup {0} : k <= Latest(rows)
  BY <1>5 DEF Latest
<1> QED BY <1>4, <1>6

LEMMA VersionsFinite ==
  ASSUME versions \in Seq(Version)
  PROVE  /\ IsFiniteSet(DOMAIN versions)
         /\ \A t : IsFiniteSet(Of(t)) /\ Of(t) \subseteq DOMAIN versions
<1>1. DOMAIN versions = 1..Len(versions) /\ Len(versions) \in Nat
  OBVIOUS
<1>2. IsFiniteSet(DOMAIN versions)
  BY <1>1, FS_Interval
<1> QED BY <1>2, Smaller DEF Of

LEMMA MaxNumberIs ==
  ASSUME versions \in Seq(Version), NEW t
  PROVE  /\ MaxNumber(t) \in Nat
         /\ \A i \in Of(t) : versions[i].number <= MaxNumber(t)
         /\ MaxNumber(t) = 0 \/ \E i \in Of(t) : versions[i].number = MaxNumber(t)
<1> DEFINE rows == [i \in Of(t) |-> versions[i]]
<1>1. DOMAIN rows = Of(t) /\ \A i \in Of(t) : rows[i] = versions[i]
  OBVIOUS
<1>2. IsFiniteSet(DOMAIN rows) /\ \A i \in DOMAIN rows : rows[i].number \in Nat
  <2>1. \A i \in Of(t) : versions[i] \in Version
    BY DEF Of
  <2> QED BY <1>1, <2>1, VersionsFinite DEF Version
<1>3. MaxNumber(t) = Latest(rows)
  BY DEF MaxNumber
<1> HIDE DEF rows
<1> QED BY <1>1, <1>2, <1>3, LatestIs

\* The new template has no version, committed or about to be.
LEMMA NewTemplateIs ==
  ASSUME TypeOK
  PROVE  /\ NewTemplate \in Nat \ {0}
         /\ NewTemplate \notin Templates
         /\ \A p \in Runs : run[p].version.template # NewTemplate
<1> DEFINE template == [i \in DOMAIN versions |-> versions[i].template]
           drafted  == [p \in Runs |-> run[p].version.template]
           taken    == Templates \cup ({drafted[p] : p \in Runs} \ {0})
<1>1. IsFiniteSet(Templates)
  <2>1. Templates = {template[i] : i \in DOMAIN versions}
    BY DEF Templates
  <2>2. template = [i \in DOMAIN versions |-> template[i]]
    OBVIOUS
  <2> HIDE DEF template
  <2> QED BY <2>1, <2>2, RangeFinite, VersionsFinite DEF TypeOK
<1>2. IsFiniteSet({drafted[p] : p \in Runs} \ {0})
  <2>1. drafted = [p \in Runs |-> drafted[p]]
    OBVIOUS
  <2> HIDE DEF drafted
  <2>2. IsFiniteSet({drafted[p] : p \in Runs})
    BY <2>1, RangeFinite, NextRoundAssumption
  <2> QED BY <2>2, Smaller
<1>3. IsFiniteSet(taken)
  <2> HIDE DEF drafted
  <2> QED BY <1>1, <1>2, FS_Union
<1>4. \E t \in 1..(Cardinality(taken) + 1) : t \notin taken
  <2> HIDE DEF taken
  <2> QED BY <1>3, SomethingIsFree
<1>5. taken = Templates \cup ({run[p].version.template : p \in Runs} \ {0})
  OBVIOUS
<1>6. NewTemplate = CHOOSE t \in 1..(Cardinality(taken) + 1) : t \notin taken
  BY <1>5 DEF NewTemplate
<1>7. NewTemplate \in 1..(Cardinality(taken) + 1) /\ NewTemplate \notin taken
  <2> HIDE DEF taken
  <2> QED BY <1>4, <1>6
<1>8. Cardinality(taken) \in Nat
  <2> HIDE DEF taken
  <2> QED BY <1>3, FS_CardinalityType
<1>9. NewTemplate \in Nat \ {0}
  <2> HIDE DEF taken
  <2> QED BY <1>7, <1>8
<1> QED BY <1>7, <1>9

-----------------------------------------------------------------------------
(* Types.                                                                   *)

\* Handler p is about to add its version.
Writes(p) == run[p].op \in {"suggest", "revise"} /\ run[p].at = "write"

\* What a handler works on exists, and what it is about to insert is well-formed.
Handles(p) ==
  /\ run[p].op = "learning" => run[p].item \in Learnings
  /\ run[p].op = "suggestion" => run[p].item \in DOMAIN suggestions
  /\ run[p].op = "revise" => run[p].item \in DOMAIN versions
  /\ Writes(p) => run[p].version \in Version
  /\ At(p, "analyze", "write") => run[p].number \in Nat \ {0}

TypeInv == TypeOK /\ \A p \in Runs : Handles(p)

LEMMA IdleIs ==
  /\ Idle \in Local /\ Idle.op = "none" /\ Idle.at = "begin" /\ Idle.version = NoVersion
  /\ NoVersion.template = 0
BY DEF Idle, Local, Ops, NoVersion, Version

LEMMA EndsIs ==
  ASSUME TypeOK, NEW p \in Runs, Ends(p)
  PROVE  /\ run' \in [Runs -> Local] /\ run'[p] = Idle
         /\ \A q \in Runs \ {p} : run'[q] = run[q]
BY IdleIs DEF TypeOK, Ends

LEMMA BeginIs ==
  ASSUME TypeOK, NEW p \in Runs, NEW local \in Local, Begin(p, local)
  PROVE  /\ run' \in [Runs -> Local] /\ run[p].op = "none" /\ run'[p] = local
         /\ \A q \in Runs \ {p} : run'[q] = run[q]
BY DEF TypeOK, Begin

\* The five ways to begin.
LEMMA LocalType ==
  ASSUME NEW item \in Learnings \cup Nat, NEW verdict \in {"accepted", "rejected"},
         NEW forced \in BOOLEAN, NEW op \in Ops
  PROVE  /\ [Idle EXCEPT !.op = op, !.item = item, !.verdict = verdict] \in Local
         /\ [Idle EXCEPT !.op = op] \in Local
         /\ [Idle EXCEPT !.op = op, !.item = item] \in Local
         /\ [Idle EXCEPT !.op = op, !.forced = forced] \in Local
BY DEF Idle, Local, Ops

\* The steps that move one handler.
RunStep(p) ==
  \/ LoadLearning(p) \/ ReviewLearning(p) \/ LoadSuggestion(p) \/ ReviewSuggestion(p)
  \/ LoadSuggest(p) \/ Retrieve(p) \/ DraftVersion(p) \/ Suggest(p)
  \/ LoadRevise(p) \/ NumberRevision(p) \/ Revise(p)
  \/ LoadAnalyze(p) \/ NumberAnalysis(p) \/ Analyze(p) \/ Crash(p)

LEMMA LoadLearningIs ==
  ASSUME TypeOK, NEW p \in Runs, LoadLearning(p)
  PROVE  /\ UNCHANGED <<learning, suggestions, versions, analyses>>
         /\ run' \in [Runs -> Local] /\ \A q \in Runs \ {p} : run'[q] = run[q]
         /\ run'[p].op = "learning" /\ run'[p].item \in Learnings
         /\ run'[p].version.template = 0
         /\ learning[run'[p].item].status = "pending"
<1>1. PICK l \in Learnings, verdict \in {"accepted", "rejected"} :
        /\ learning[l].status = "pending"
        /\ Begin(p, [Idle EXCEPT !.op = "learning", !.item = l, !.verdict = verdict])
  BY DEF LoadLearning, Reviewable
<1> DEFINE local == [Idle EXCEPT !.op = "learning", !.item = l, !.verdict = verdict]
<1>2. local \in Local
  BY LocalType DEF Ops
<1>3. local.op = "learning" /\ local.item = l /\ local.version.template = 0
  BY DEF Idle, NoVersion
<1> HIDE DEF local
<1>4. run' \in [Runs -> Local] /\ run'[p] = local /\ \A q \in Runs \ {p} : run'[q] = run[q]
  BY <1>1, <1>2, BeginIs DEF local
<1> QED BY <1>1, <1>3, <1>4 DEF LoadLearning

LEMMA LoadSuggestionIs ==
  ASSUME TypeOK, NEW p \in Runs, LoadSuggestion(p)
  PROVE  /\ UNCHANGED <<learning, suggestions, versions, analyses>>
         /\ run' \in [Runs -> Local] /\ \A q \in Runs \ {p} : run'[q] = run[q]
         /\ run'[p].op = "suggestion" /\ run'[p].item \in DOMAIN suggestions
         /\ run'[p].version.template = 0
         /\ suggestions[run'[p].item].review.status = "pending"
<1>1. PICK i \in DOMAIN suggestions, verdict \in {"accepted", "rejected"} :
        /\ suggestions[i].review.status = "pending"
        /\ Begin(p, [Idle EXCEPT !.op = "suggestion", !.item = i, !.verdict = verdict])
  BY DEF LoadSuggestion, Reviewable
<1> DEFINE local == [Idle EXCEPT !.op = "suggestion", !.item = i, !.verdict = verdict]
<1>2. local \in Local
  <2>1. i \in Nat
    BY DEF TypeOK
  <2> QED BY <2>1, LocalType DEF Ops
<1>3. local.op = "suggestion" /\ local.item = i /\ local.version.template = 0
  BY DEF Idle, NoVersion
<1> HIDE DEF local
<1>4. run' \in [Runs -> Local] /\ run'[p] = local /\ \A q \in Runs \ {p} : run'[q] = run[q]
  BY <1>1, <1>2, BeginIs DEF local
<1> QED BY <1>1, <1>3, <1>4 DEF LoadSuggestion

LEMMA LoadSuggestIs ==
  ASSUME TypeOK, NEW p \in Runs, LoadSuggest(p)
  PROVE  /\ UNCHANGED <<learning, suggestions, versions, analyses>>
         /\ run' \in [Runs -> Local] /\ \A q \in Runs \ {p} : run'[q] = run[q]
         /\ run'[p].op = "suggest" /\ run'[p].at = "begin" /\ run'[p].version.template = 0
         /\ PendingSuggestions = {}
<1> DEFINE local == [Idle EXCEPT !.op = "suggest"]
<1>2. local \in Local
  BY LocalType DEF Ops
<1>3. local.op = "suggest" /\ local.at = "begin" /\ local.version.template = 0
  BY DEF Idle, NoVersion
<1> HIDE DEF local
<1>4. run' \in [Runs -> Local] /\ run'[p] = local /\ \A q \in Runs \ {p} : run'[q] = run[q]
  BY <1>2, BeginIs DEF local, LoadSuggest
<1> QED BY <1>3, <1>4 DEF LoadSuggest, MaySuggest

LEMMA LoadReviseIs ==
  ASSUME TypeOK, NEW p \in Runs, LoadRevise(p)
  PROVE  /\ UNCHANGED <<learning, suggestions, versions, analyses>>
         /\ run' \in [Runs -> Local] /\ \A q \in Runs \ {p} : run'[q] = run[q]
         /\ run'[p].op = "revise" /\ run'[p].at = "begin" /\ run'[p].version.template = 0
         /\ run'[p].item \in DOMAIN versions
<1>1. PICK i \in DOMAIN versions : Begin(p, [Idle EXCEPT !.op = "revise", !.item = i])
  BY DEF LoadRevise
<1> DEFINE local == [Idle EXCEPT !.op = "revise", !.item = i]
<1>2. local \in Local
  <2>1. i \in Nat
    BY DEF TypeOK
  <2> QED BY <2>1, LocalType DEF Ops
<1>3. local.op = "revise" /\ local.at = "begin" /\ local.version.template = 0 /\ local.item = i
  BY DEF Idle, NoVersion
<1> HIDE DEF local
<1>4. run' \in [Runs -> Local] /\ run'[p] = local /\ \A q \in Runs \ {p} : run'[q] = run[q]
  BY <1>1, <1>2, BeginIs DEF local
<1> QED BY <1>3, <1>4 DEF LoadRevise

LEMMA LoadAnalyzeIs ==
  ASSUME TypeOK, NEW p \in Runs, LoadAnalyze(p)
  PROVE  /\ UNCHANGED <<learning, suggestions, versions, analyses>>
         /\ run' \in [Runs -> Local] /\ \A q \in Runs \ {p} : run'[q] = run[q]
         /\ run'[p].op = "analyze" /\ run'[p].at = "begin" /\ run'[p].version.template = 0
         /\ run'[p].forced \/ analyses = <<>>
<1>1. PICK forced \in BOOLEAN : /\ forced \/ analyses = <<>>
                                /\ Begin(p, [Idle EXCEPT !.op = "analyze", !.forced = forced])
  BY DEF LoadAnalyze, NotYetAnalyzed
<1> DEFINE local == [Idle EXCEPT !.op = "analyze", !.forced = forced]
<1>2. local \in Local
  BY LocalType DEF Ops
<1>3. /\ local.op = "analyze" /\ local.at = "begin" /\ local.version.template = 0
      /\ local.forced = forced
  BY DEF Idle, NoVersion
<1> HIDE DEF local
<1>4. run' \in [Runs -> Local] /\ run'[p] = local /\ \A q \in Runs \ {p} : run'[q] = run[q]
  BY <1>1, <1>2, BeginIs DEF local
<1> QED BY <1>1, <1>3, <1>4 DEF LoadAnalyze

LEMMA RetrieveIs ==
  ASSUME TypeOK, NEW p \in Runs, Retrieve(p)
  PROVE  /\ UNCHANGED <<learning, suggestions, versions, analyses>>
         /\ run' \in [Runs -> Local] /\ \A q \in Runs \ {p} : run'[q] = run[q]
         /\ run[p].op = "suggest" /\ run'[p].op = "suggest" /\ run'[p].at = "read"
         /\ run'[p].version = run[p].version
<1>1. PICK used \in SUBSET Learnings : run' = [run EXCEPT ![p].at = "read", ![p].used = used]
  BY DEF Retrieve
<1>2. run[p] \in Local
  BY DEF TypeOK
<1>3. run'[p] = [run[p] EXCEPT !.at = "read", !.used = used]
  BY <1>1 DEF TypeOK
<1>4. run'[p] \in Local
  BY <1>2, <1>3 DEF Local
<1>5. \A q \in Runs \ {p} : run'[q] = run[q]
  BY <1>1 DEF TypeOK
<1>6. run' \in [Runs -> Local]
  BY <1>1, <1>4, <1>5 DEF TypeOK
<1> QED BY <1>2, <1>3, <1>5, <1>6 DEF Retrieve, At, Local

\* What a draft or a revision may be: the first version of a new template, or one that
\* follows another with the number after the greatest.
Follows(v, i) ==
  /\ i \in DOMAIN versions
  /\ v = [template |-> versions[i].template, number |-> NextNumber(versions[i].template),
          parent |-> i]

LEMMA FollowsType ==
  ASSUME TypeOK, NEW v, NEW i, Follows(v, i) PROVE v \in Version
<1>1. versions[i] \in Version /\ i \in Nat
  BY DEF TypeOK, Follows
<1>2. MaxNumber(versions[i].template) \in Nat
  BY MaxNumberIs DEF TypeOK
<1> QED BY <1>1, <1>2 DEF Follows, NextNumber, Version

LEMMA DraftIs ==
  ASSUME TypeOK, NEW p \in Runs, DraftVersion(p)
  PROVE  /\ UNCHANGED <<learning, suggestions, versions, analyses>>
         /\ run' \in [Runs -> Local] /\ \A q \in Runs \ {p} : run'[q] = run[q]
         /\ run[p].op = "suggest" /\ run'[p].op = "suggest" /\ run'[p].at = "write"
         /\ run'[p].version \in Version
         /\ run'[p].version = FirstVersion \/ \E i : Follows(run'[p].version, i)
<1>1. PICK draft : /\ draft = FirstVersion \/ \E i \in DOMAIN versions : Follows(draft, i)
                   /\ run' = [run EXCEPT ![p].at = "write", ![p].version = draft]
  BY DEF DraftVersion, Follows
<1>2. draft \in Version
  <2>1. FirstVersion \in Version
    BY NewTemplateIs DEF FirstVersion, Version
  <2> QED BY <1>1, <2>1, FollowsType
<1>3. run[p] \in Local
  BY DEF TypeOK
<1>4. run'[p] = [run[p] EXCEPT !.at = "write", !.version = draft]
  BY <1>1 DEF TypeOK
<1>5. run'[p] \in Local
  BY <1>2, <1>3, <1>4 DEF Local
<1>6. \A q \in Runs \ {p} : run'[q] = run[q]
  BY <1>1 DEF TypeOK
<1>7. run' \in [Runs -> Local]
  BY <1>1, <1>5, <1>6 DEF TypeOK
<1>8. run'[p].version = draft /\ run'[p].at = "write" /\ run'[p].op = run[p].op
  BY <1>3, <1>4 DEF Local
<1> QED BY <1>1, <1>2, <1>6, <1>7, <1>8 DEF DraftVersion, At

LEMMA NumberRevisionIs ==
  ASSUME TypeInv, NEW p \in Runs, NumberRevision(p)
  PROVE  /\ UNCHANGED <<learning, suggestions, versions, analyses>>
         /\ run' \in [Runs -> Local] /\ \A q \in Runs \ {p} : run'[q] = run[q]
         /\ run[p].op = "revise" /\ run'[p].op = "revise" /\ run'[p].at = "write"
         /\ run'[p].version \in Version /\ run'[p].item = run[p].item
         /\ \E i : Follows(run'[p].version, i)
<1> DEFINE i == run[p].item
           v == [template |-> versions[i].template,
                 number |-> NextNumber(versions[i].template), parent |-> i]
<1>0. TypeOK
  BY DEF TypeInv
<1>1. i \in DOMAIN versions /\ Follows(v, i) /\ run[p].op = "revise"
  BY DEF TypeInv, Handles, NumberRevision, At, Follows
<1>2. v \in Version
  BY <1>0, <1>1, FollowsType
<1>3. run' = [run EXCEPT ![p].at = "write", ![p].version = v]
  BY DEF NumberRevision
<1> HIDE DEF v
<1>4. run[p] \in Local
  BY <1>0 DEF TypeOK
<1>5. run'[p] = [run[p] EXCEPT !.at = "write", !.version = v]
  BY <1>0, <1>3 DEF TypeOK
<1>6. run'[p] \in Local
  BY <1>2, <1>4, <1>5 DEF Local
<1>7. \A q \in Runs \ {p} : run'[q] = run[q]
  BY <1>0, <1>3 DEF TypeOK
<1>8. run' \in [Runs -> Local]
  BY <1>0, <1>3, <1>6, <1>7 DEF TypeOK
<1>9. /\ run'[p].version = v /\ run'[p].at = "write" /\ run'[p].op = run[p].op
      /\ run'[p].item = run[p].item
  BY <1>4, <1>5 DEF Local
<1> QED BY <1>1, <1>2, <1>7, <1>8, <1>9 DEF NumberRevision

LEMMA NumberAnalysisIs ==
  ASSUME TypeOK, NEW p \in Runs, NumberAnalysis(p)
  PROVE  /\ UNCHANGED <<learning, suggestions, versions, analyses>>
         /\ run' \in [Runs -> Local] /\ \A q \in Runs \ {p} : run'[q] = run[q]
         /\ run[p].op = "analyze" /\ run'[p].op = "analyze" /\ run'[p].at = "write"
         /\ run'[p].version = run[p].version /\ run'[p].number \in Nat \ {0}
         /\ run'[p].forced = run[p].forced
<1>1. Latest(analyses) \in Nat
  <2>1. DOMAIN analyses = 1..Len(analyses) /\ Len(analyses) \in Nat
    BY DEF TypeOK
  <2>2. IsFiniteSet(DOMAIN analyses)
    BY <2>1, FS_Interval
  <2>3. \A i \in DOMAIN analyses : analyses[i] \in Analysis /\ analyses[i].number \in Nat
    <3>1. \A i \in DOMAIN analyses : analyses[i] \in Analysis
      BY DEF TypeOK
    <3> QED BY <3>1 DEF Analysis
  <2> QED BY <2>2, <2>3, LatestIs
<1> DEFINE number == Latest(analyses) + 1
<1>2. number \in Nat \ {0} /\ number \in Nat
  BY <1>1
<1>3. run' = [run EXCEPT ![p].at = "write", ![p].number = number]
  BY DEF NumberAnalysis
<1> HIDE DEF number
<1>4. run[p] \in Local
  BY DEF TypeOK
<1>5. run'[p] = [run[p] EXCEPT !.at = "write", !.number = number]
  BY <1>3 DEF TypeOK
<1>6. run'[p] \in Local
  BY <1>2, <1>4, <1>5 DEF Local
<1>7. \A q \in Runs \ {p} : run'[q] = run[q]
  BY <1>3 DEF TypeOK
<1>8. run' \in [Runs -> Local]
  BY <1>3, <1>6, <1>7 DEF TypeOK
<1>9. /\ run'[p].version = run[p].version /\ run'[p].at = "write" /\ run'[p].op = run[p].op
      /\ run'[p].number = number /\ run'[p].forced = run[p].forced
  BY <1>4, <1>5 DEF Local
<1> QED BY <1>2, <1>7, <1>8, <1>9 DEF NumberAnalysis, At

LEMMA Appended ==
  ASSUME NEW S, NEW s \in Seq(S), NEW x \in S, NEW t, t = Append(s, x)
  PROVE  /\ t \in Seq(S)
         /\ DOMAIN s \subseteq DOMAIN t
         /\ DOMAIN t = DOMAIN s \cup {Len(s) + 1}
         /\ Len(s) + 1 \in Nat \ {0} /\ Len(s) + 1 \notin DOMAIN s
         /\ \A i \in DOMAIN s : t[i] = s[i] /\ i \in Nat /\ i < Len(s) + 1
         /\ t[Len(s) + 1] = x
OBVIOUS

\* A review of the row that was loaded.
LEMMA ReviewLearningIs ==
  ASSUME TypeInv, NEW p \in Runs, ReviewLearning(p)
  PROVE  /\ UNCHANGED <<suggestions, versions, analyses>>
         /\ run' \in [Runs -> Local] /\ run'[p] = Idle /\ \A q \in Runs \ {p} : run'[q] = run[q]
         /\ run[p].op = "learning" /\ run[p].item \in Learnings
         /\ learning' \in [Learnings -> Reviewed]
         /\ learning'[run[p].item].status \in {"accepted", "rejected"}
         /\ learning'[run[p].item].reviews = learning[run[p].item].reviews + 1
         /\ \A l \in Learnings \ {run[p].item} : learning'[l] = learning[l]
<1> DEFINE l == run[p].item
<1>0. TypeOK /\ run[p] \in Local /\ run[p].op = "learning" /\ l \in Learnings
  BY DEF TypeInv, TypeOK, ReviewLearning, Handles
<1>1. learning' = [learning EXCEPT ![l] = After(learning[l], p)]
  BY DEF ReviewLearning
<1>2. After(learning[l], p) \in Reviewed
  BY <1>0 DEF TypeOK, Reviewed, After, Local
<1>3. /\ After(learning[l], p).status \in {"accepted", "rejected"}
      /\ After(learning[l], p).reviews = learning[l].reviews + 1
  BY <1>0 DEF After, Local
<1>4. /\ learning' \in [Learnings -> Reviewed] /\ learning'[l] = After(learning[l], p)
      /\ \A m \in Learnings \ {l} : learning'[m] = learning[m]
  BY <1>0, <1>1, <1>2 DEF TypeOK
<1> QED BY <1>0, <1>3, <1>4, EndsIs DEF ReviewLearning

LEMMA ReviewSuggestionIs ==
  ASSUME TypeInv, NEW p \in Runs, ReviewSuggestion(p)
  PROVE  /\ UNCHANGED <<learning, versions, analyses>>
         /\ run' \in [Runs -> Local] /\ run'[p] = Idle /\ \A q \in Runs \ {p} : run'[q] = run[q]
         /\ run[p].op = "suggestion" /\ run[p].item \in DOMAIN suggestions
         /\ suggestions' \in Seq(Suggestion) /\ DOMAIN suggestions' = DOMAIN suggestions
         /\ suggestions'[run[p].item].review.status \in {"accepted", "rejected"}
         /\ suggestions'[run[p].item].review.reviews
              = suggestions[run[p].item].review.reviews + 1
         /\ \A j \in DOMAIN suggestions \ {run[p].item} : suggestions'[j] = suggestions[j]
<1> DEFINE i == run[p].item
           row == suggestions[i]
<1>0. TypeOK /\ run[p] \in Local /\ run[p].op = "suggestion" /\ i \in DOMAIN suggestions
  BY DEF TypeInv, TypeOK, ReviewSuggestion, Handles
<1>1. suggestions' = [suggestions EXCEPT ![i] = [row EXCEPT !.review = After(row.review, p)]]
  BY DEF ReviewSuggestion
<1>2. row \in Suggestion /\ row.review \in Reviewed
  <2>1. row \in Suggestion
    BY <1>0 DEF TypeOK
  <2> QED BY <2>1 DEF Suggestion
<1>3. After(row.review, p) \in Reviewed
  BY <1>0, <1>2 DEF Reviewed, After, Local
<1>4. /\ After(row.review, p).status \in {"accepted", "rejected"}
      /\ After(row.review, p).reviews = row.review.reviews + 1
  BY <1>0 DEF After, Local
<1>5. /\ [row EXCEPT !.review = After(row.review, p)] \in Suggestion
      /\ [row EXCEPT !.review = After(row.review, p)].review = After(row.review, p)
  BY <1>2, <1>3 DEF Suggestion
<1>6. /\ suggestions' \in Seq(Suggestion) /\ DOMAIN suggestions' = DOMAIN suggestions
      /\ suggestions'[i] = [row EXCEPT !.review = After(row.review, p)]
      /\ \A j \in DOMAIN suggestions \ {i} : suggestions'[j] = suggestions[j]
  <2> HIDE DEF row
  <2> QED BY <1>0, <1>1, <1>5 DEF TypeOK
<1> QED BY <1>0, <1>4, <1>5, <1>6, EndsIs DEF ReviewSuggestion

LEMMA SuggestIs ==
  ASSUME TypeInv, NEW p \in Runs, Suggest(p)
  PROVE  /\ UNCHANGED <<learning, analyses>>
         /\ run' \in [Runs -> Local] /\ run'[p] = Idle /\ \A q \in Runs \ {p} : run'[q] = run[q]
         /\ run[p].op = "suggest" /\ Writes(p) /\ run[p].version \in Version
         /\ versions' = Append(versions, run[p].version)
         /\ \E s \in Suggestion : /\ s.review = New
                                  /\ suggestions' = Append(suggestions, s)
<1>0. TypeOK /\ run[p] \in Local /\ run[p].op = "suggest" /\ Writes(p)
  BY DEF TypeInv, TypeOK, Suggest, At, Writes
<1>1. run[p].version \in Version
  BY <1>0 DEF TypeInv, Handles
<1> DEFINE s == [review |-> New, used |-> run[p].used, version |-> Len(versions) + 1]
<1>2. s \in Suggestion
  <2>1. New \in Reviewed /\ run[p].used \in SUBSET Learnings
    BY <1>0 DEF New, Reviewed, Local
  <2>2. Len(versions) + 1 \in Nat \ {0}
    BY <1>0 DEF TypeOK
  <2> QED BY <2>1, <2>2 DEF Suggestion
<1>3. suggestions' = Append(suggestions, s) /\ s.review = New
  BY DEF Suggest
<1> QED BY <1>0, <1>1, <1>2, <1>3, EndsIs DEF Suggest

LEMMA ReviseIs ==
  ASSUME TypeInv, NEW p \in Runs, Revise(p)
  PROVE  /\ UNCHANGED <<learning, suggestions, analyses>>
         /\ run' \in [Runs -> Local] /\ run'[p] = Idle /\ \A q \in Runs \ {p} : run'[q] = run[q]
         /\ run[p].op = "revise" /\ Writes(p) /\ run[p].version \in Version
         /\ versions' = Append(versions, run[p].version)
<1>0. TypeOK /\ run[p].op = "revise" /\ Writes(p)
  BY DEF TypeInv, Revise, At, Writes
<1>1. run[p].version \in Version
  BY <1>0 DEF TypeInv, Handles
<1> QED BY <1>0, <1>1, EndsIs DEF Revise

LEMMA AnalyzeIs ==
  ASSUME TypeInv, NEW p \in Runs, Analyze(p)
  PROVE  /\ UNCHANGED <<learning, suggestions, versions>>
         /\ run' \in [Runs -> Local] /\ run'[p] = Idle /\ \A q \in Runs \ {p} : run'[q] = run[q]
         /\ run[p].op = "analyze"
         /\ \E a \in Analysis : /\ a.forced = run[p].forced
                                /\ analyses' = Append(analyses, a)
<1>0. TypeOK /\ run[p] \in Local /\ run[p].op = "analyze" /\ run[p].number \in Nat \ {0}
  BY DEF TypeInv, TypeOK, Analyze, At, Handles
<1>1. [number |-> run[p].number, forced |-> run[p].forced] \in Analysis
  BY <1>0 DEF Analysis, Local
<1> QED BY <1>0, <1>1, EndsIs DEF Analyze

LEMMA CrashIs ==
  ASSUME TypeOK, NEW p \in Runs, Crash(p)
  PROVE  /\ UNCHANGED <<learning, suggestions, versions, analyses>>
         /\ run' \in [Runs -> Local] /\ run'[p] = Idle /\ \A q \in Runs \ {p} : run'[q] = run[q]
BY EndsIs DEF Crash

\* The rows are only added to.
RowsGrow == /\ DOMAIN suggestions \subseteq DOMAIN suggestions'
            /\ DOMAIN versions \subseteq DOMAIN versions'

LEMMA TypeStep ==
  ASSUME TypeInv, NEW p \in Runs, RunStep(p)
  PROVE  TypeOK' /\ RowsGrow /\ Handles(p)' /\ \A q \in Runs \ {p} : run'[q] = run[q]
<1> DEFINE Goal == TypeOK' /\ RowsGrow /\ Handles(p)' /\ \A q \in Runs \ {p} : run'[q] = run[q]
<1>0. TypeOK /\ Handles(p)
  BY DEF TypeInv
<1>idle. run'[p] = Idle => Handles(p)'
  BY IdleIs DEF Handles, Writes, At
<1>same. UNCHANGED <<learning, suggestions, versions, analyses>> /\ run' \in [Runs -> Local]
           => TypeOK' /\ RowsGrow
  BY <1>0 DEF TypeOK, RowsGrow
<1>1. CASE LoadLearning(p)
  BY <1>0, <1>1, <1>same, LoadLearningIs DEF Handles, Writes, At
<1>2. CASE ReviewLearning(p)
  BY <1>0, <1>2, <1>idle, ReviewLearningIs DEF TypeOK, RowsGrow
<1>3. CASE LoadSuggestion(p)
  BY <1>0, <1>3, <1>same, LoadSuggestionIs DEF Handles, Writes, At
<1>4. CASE ReviewSuggestion(p)
  BY <1>0, <1>4, <1>idle, ReviewSuggestionIs DEF TypeOK, RowsGrow
<1>5. CASE LoadSuggest(p)
  BY <1>0, <1>5, <1>same, LoadSuggestIs DEF Handles, Writes, At
<1>6. CASE Retrieve(p)
  BY <1>0, <1>6, <1>same, RetrieveIs DEF Handles, Writes, At
<1>7. CASE DraftVersion(p)
  BY <1>0, <1>7, <1>same, DraftIs DEF Handles, Writes, At
<1>8. CASE Suggest(p)
  <2>1. PICK s \in Suggestion : suggestions' = Append(suggestions, s)
    BY <1>8, SuggestIs
  <2>2. suggestions' \in Seq(Suggestion) /\ DOMAIN suggestions \subseteq DOMAIN suggestions'
    BY <1>0, <2>1, Appended DEF TypeOK
  <2>3. versions' \in Seq(Version) /\ DOMAIN versions \subseteq DOMAIN versions'
    <3>1. PICK v \in Version : versions' = Append(versions, v)
      BY <1>0, <1>8, SuggestIs
    <3> QED BY <1>0, <3>1, Appended DEF TypeOK
  <2>4. UNCHANGED <<learning, analyses>> /\ run' \in [Runs -> Local] /\ run'[p] = Idle
        /\ \A q \in Runs \ {p} : run'[q] = run[q]
    BY <1>8, SuggestIs
  <2> QED BY <1>0, <1>idle, <2>2, <2>3, <2>4 DEF TypeOK, RowsGrow
<1>9. CASE LoadRevise(p)
  BY <1>0, <1>9, <1>same, LoadReviseIs DEF Handles, Writes, At
<1>10. CASE NumberRevision(p)
  BY <1>0, <1>10, <1>same, NumberRevisionIs DEF Handles, Writes, At
<1>11. CASE Revise(p)
  <2>1. versions' \in Seq(Version) /\ DOMAIN versions \subseteq DOMAIN versions'
    <3>1. PICK v \in Version : versions' = Append(versions, v)
      BY <1>0, <1>11, ReviseIs
    <3> QED BY <1>0, <3>1, Appended DEF TypeOK
  <2>2. UNCHANGED <<learning, suggestions, analyses>> /\ run' \in [Runs -> Local]
        /\ run'[p] = Idle /\ \A q \in Runs \ {p} : run'[q] = run[q]
    BY <1>11, ReviseIs
  <2> QED BY <1>0, <1>idle, <2>1, <2>2 DEF TypeOK, RowsGrow
<1>12. CASE LoadAnalyze(p)
  BY <1>0, <1>12, <1>same, LoadAnalyzeIs DEF Handles, Writes, At
<1>13. CASE NumberAnalysis(p)
  BY <1>0, <1>13, <1>same, NumberAnalysisIs DEF Handles, Writes, At
<1>14. CASE Analyze(p)
  <2>1. PICK a \in Analysis : analyses' = Append(analyses, a)
    BY <1>14, AnalyzeIs
  <2>2. analyses' \in Seq(Analysis)
    BY <1>0, <2>1, Appended DEF TypeOK
  <2>3. UNCHANGED <<learning, suggestions, versions>> /\ run' \in [Runs -> Local]
        /\ run'[p] = Idle /\ \A q \in Runs \ {p} : run'[q] = run[q]
    BY <1>14, AnalyzeIs
  <2> QED BY <1>0, <1>idle, <2>2, <2>3 DEF TypeOK, RowsGrow
<1>15. CASE Crash(p)
  BY <1>0, <1>15, <1>idle, <1>same, CrashIs
<1> QED BY <1>1, <1>2, <1>3, <1>4, <1>5, <1>6, <1>7, <1>8, <1>9, <1>10, <1>11, <1>12, <1>13,
           <1>14, <1>15 DEF RunStep

LEMMA CreateLearningIs ==
  ASSUME TypeOK, NEW l \in Learnings, CreateLearning(l)
  PROVE  /\ UNCHANGED <<suggestions, versions, analyses, run>>
         /\ learning' \in [Learnings -> Reviewed] /\ learning'[l].reviews = 0
         /\ \A m \in Learnings \ {l} : learning'[m] = learning[m]
<1>1. New \in Reviewed /\ New.reviews = 0
  BY DEF New, Reviewed
<1> QED BY <1>1 DEF CreateLearning, TypeOK

LEMMA GenerateIs ==
  ASSUME TypeOK, Generate
  PROVE  /\ UNCHANGED <<learning, suggestions, analyses, run>>
         /\ FirstVersion \in Version
         /\ versions' = Append(versions, FirstVersion)
BY NewTemplateIs DEF Generate, FirstVersion, Version

LEMMA TypeInvInductive == TypeInv /\ [Next]_vars => TypeInv'
<1> SUFFICES ASSUME TypeInv, [Next]_vars PROVE TypeInv'
  OBVIOUS
<1>0. TypeOK
  BY DEF TypeInv
<1>stay. ASSUME NEW q \in Runs, run'[q] = run[q], RowsGrow PROVE Handles(q)'
  <2>1. Handles(q)
    BY DEF TypeInv
  <2> QED BY <1>stay, <2>1 DEF Handles, Writes, At, RowsGrow
<1>1. ASSUME NEW p \in Runs, RunStep(p) PROVE TypeInv'
  <2>1. TypeOK' /\ RowsGrow /\ Handles(p)' /\ \A q \in Runs \ {p} : run'[q] = run[q]
    BY <1>1, TypeStep
  <2> QED BY <1>stay, <2>1 DEF TypeInv
<1>2. ASSUME NEW l \in Learnings, CreateLearning(l) PROVE TypeInv'
  <2>1. TypeOK' /\ RowsGrow /\ run' = run
    BY <1>0, <1>2, CreateLearningIs DEF TypeOK, RowsGrow
  <2> QED BY <1>stay, <2>1 DEF TypeInv
<1>3. CASE Generate
  <2>1. versions' \in Seq(Version) /\ DOMAIN versions \subseteq DOMAIN versions'
    <3>1. PICK v \in Version : versions' = Append(versions, v)
      BY <1>0, <1>3, GenerateIs
    <3> QED BY <1>0, <3>1, Appended DEF TypeOK
  <2>2. TypeOK' /\ RowsGrow /\ run' = run
    BY <1>0, <1>3, <2>1, GenerateIs DEF TypeOK, RowsGrow
  <2> QED BY <1>stay, <2>2 DEF TypeInv
<1>4. CASE UNCHANGED vars
  <2>1. TypeOK' /\ RowsGrow /\ run' = run
    BY <1>0, <1>4 DEF TypeOK, RowsGrow, vars
  <2> QED BY <1>stay, <2>1 DEF TypeInv
<1> QED BY <1>1, <1>2, <1>3, <1>4 DEF Next, RunStep

LEMMA TypeInvInitially == Init => TypeInv
<1> SUFFICES ASSUME Init PROVE TypeInv
  OBVIOUS
<1>1. TypeOK
  BY IdleIs DEF Init, TypeOK, Reviewed
<1>2. \A p \in Runs : Handles(p)
  BY IdleIs DEF Init, Handles, Writes, At
<1> QED BY <1>1, <1>2 DEF TypeInv

\* For any number of handlers and learnings: the rows and what the handlers hold are
\* well-formed, and every handler works on a row that is there.
THEOREM TypeCorrect == Spec => []TypeOK
<1>1. TypeInv => TypeOK
  BY DEF TypeInv
<1> QED BY <1>1, TypeInvInitially, TypeInvInductive, PTL DEF Spec

-----------------------------------------------------------------------------
(* Reviews.                                                                 *)

LearningHolders(l) == {p \in Runs : run[p].op = "learning" /\ run[p].item = l}
SuggestionHolders(i) == {p \in Runs : run[p].op = "suggestion" /\ run[p].item = i}

\* A row that is not reviewed has no reviews, and each handler that loaded it may add one.
Counted(row, holders) ==
  /\ row.status \in {"none", "pending"} => row.reviews = 0
  /\ Fits(row.reviews, holders)

ReviewInv ==
  /\ TypeInv
  /\ \A l \in Learnings : Counted(learning[l], LearningHolders(l))
  /\ \A i \in DOMAIN suggestions : Counted(suggestions[i].review, SuggestionHolders(i))

LEMMA CountedKeep ==
  ASSUME NEW row, NEW holders, NEW fewer, Counted(row, holders), fewer \subseteq holders
  PROVE  Counted(row, fewer)
<1>1. row.reviews \in Nat /\ row.reviews <= row.reviews
  BY DEF Counted, Fits
<1> QED BY <1>1, FitsKeep DEF Counted

\* A row without reviews may be loaded by everyone.
LEMMA CountedNone ==
  ASSUME NEW row, NEW holders, row.reviews = 0, holders \subseteq Runs
  PROVE  Counted(row, holders)
BY FitsEmpty DEF Counted

LEMMA CountedReview ==
  ASSUME NEW row, NEW next, NEW holders, NEW fewer, NEW p \in holders, Counted(row, holders),
         fewer \subseteq holders \ {p}, next.status \in {"accepted", "rejected"},
         next.reviews = row.reviews + 1
  PROVE  Counted(next, fewer)
<1>1. next.reviews \in Nat /\ next.reviews <= row.reviews + 1
  BY DEF Counted, Fits
<1> QED BY <1>1, FitsMove DEF Counted

\* The steps of handlers that review nothing.
LEMMA ReviewQuiet ==
  ASSUME TypeInv, NEW p \in Runs, RunStep(p), ~LoadLearning(p), ~ReviewLearning(p),
         ~LoadSuggestion(p), ~ReviewSuggestion(p)
  PROVE  learning' = learning /\ run'[p].op \notin {"learning", "suggestion"}
<1>0. TypeOK
  BY DEF TypeInv
<1>1. CASE LoadSuggest(p) \/ Retrieve(p) \/ DraftVersion(p) \/ Suggest(p)
  BY <1>0, <1>1, LoadSuggestIs, RetrieveIs, DraftIs, SuggestIs, IdleIs
<1>2. CASE LoadRevise(p) \/ NumberRevision(p) \/ Revise(p)
  BY <1>0, <1>2, LoadReviseIs, NumberRevisionIs, ReviseIs, IdleIs
<1>3. CASE LoadAnalyze(p) \/ NumberAnalysis(p) \/ Analyze(p) \/ Crash(p)
  BY <1>0, <1>3, LoadAnalyzeIs, NumberAnalysisIs, AnalyzeIs, CrashIs, IdleIs
<1> QED BY <1>1, <1>2, <1>3 DEF RunStep

LEMMA LearningCounted ==
  ASSUME ReviewInv, NEW p \in Runs, RunStep(p), NEW l \in Learnings
  PROVE  Counted(learning[l], LearningHolders(l))'
<1>0. /\ TypeOK /\ TypeInv /\ Counted(learning[l], LearningHolders(l))
      /\ \A q \in Runs \ {p} : run'[q] = run[q]
  BY TypeStep DEF ReviewInv, TypeInv
<1>1. LearningHolders(l)' \subseteq Runs
  BY DEF LearningHolders
<1>2. ~(run'[p].op = "learning" /\ run'[p].item = l)
        => LearningHolders(l)' \subseteq LearningHolders(l) \ {p}
  BY <1>0 DEF LearningHolders
<1>3. CASE LoadLearning(p)
  <2>1. learning' = learning /\ learning[run'[p].item].status = "pending"
    BY <1>0, <1>3, LoadLearningIs
  <2>2. CASE run'[p].item = l
    BY <1>0, <1>1, <2>1, <2>2, CountedNone DEF Counted
  <2>3. CASE run'[p].item # l
    BY <1>0, <1>2, <2>1, <2>3, CountedKeep
  <2> QED BY <2>2, <2>3
<1>4. CASE ReviewLearning(p)
  <2>1. LearningHolders(l)' \subseteq LearningHolders(l) \ {p}
    BY <1>0, <1>2, <1>4, ReviewLearningIs, IdleIs
  <2>2. CASE run[p].item = l
    <3>1. p \in LearningHolders(l)
      BY <1>0, <1>4, <2>2, ReviewLearningIs DEF LearningHolders
    <3>2. /\ learning'[l].status \in {"accepted", "rejected"}
          /\ learning'[l].reviews = learning[l].reviews + 1
      BY <1>0, <1>4, <2>2, ReviewLearningIs
    <3> QED BY <1>0, <2>1, <3>1, <3>2, CountedReview
  <2>3. CASE run[p].item # l
    <3>1. learning'[l] = learning[l]
      BY <1>0, <1>4, <2>3, ReviewLearningIs
    <3> QED BY <1>0, <2>1, <3>1, CountedKeep
  <2> QED BY <2>2, <2>3
<1>5. CASE ~LoadLearning(p) /\ ~ReviewLearning(p)
  <2>1. learning' = learning /\ run'[p].op # "learning"
    <3>1. CASE LoadSuggestion(p) \/ ReviewSuggestion(p)
      BY <1>0, <3>1, LoadSuggestionIs, ReviewSuggestionIs, IdleIs
    <3>2. CASE ~LoadSuggestion(p) /\ ~ReviewSuggestion(p)
      BY <1>0, <1>5, <3>2, ReviewQuiet
    <3> QED BY <3>1, <3>2
  <2> QED BY <1>0, <1>2, <2>1, CountedKeep
<1> QED BY <1>3, <1>4, <1>5

\* A suggestion that was just added has no reviews; the steps keep the others.
LEMMA SuggestionsStep ==
  ASSUME TypeInv, NEW p \in Runs, RunStep(p), ~ReviewSuggestion(p), NEW i \in DOMAIN suggestions'
  PROVE  \/ i \in DOMAIN suggestions /\ suggestions'[i] = suggestions[i]
         \/ /\ Suggest(p) /\ i \notin DOMAIN suggestions /\ suggestions'[i].review = New
            /\ i = Len(suggestions) + 1
<1>0. TypeOK
  BY DEF TypeInv
<1>1. CASE Suggest(p)
  <2>1. PICK s \in Suggestion : s.review = New /\ suggestions' = Append(suggestions, s)
    BY <1>1, SuggestIs
  <2>2. /\ DOMAIN suggestions' = DOMAIN suggestions \cup {Len(suggestions) + 1}
        /\ Len(suggestions) + 1 \notin DOMAIN suggestions
        /\ \A j \in DOMAIN suggestions : suggestions'[j] = suggestions[j]
        /\ suggestions'[Len(suggestions) + 1] = s
    BY <1>0, <2>1, Appended DEF TypeOK
  <2> QED BY <1>1, <2>1, <2>2
<1>2. CASE suggestions' = suggestions
  BY <1>2
<1> QED BY <1>1, <1>2
        DEF RunStep, LoadLearning, ReviewLearning, LoadSuggestion, LoadSuggest, Retrieve,
            DraftVersion, LoadRevise, NumberRevision, Revise, LoadAnalyze, NumberAnalysis,
            Analyze, Crash

LEMMA SuggestionCounted ==
  ASSUME ReviewInv, NEW p \in Runs, RunStep(p), NEW i \in DOMAIN suggestions'
  PROVE  Counted(suggestions'[i].review, SuggestionHolders(i)')
<1>0. /\ TypeOK /\ TypeInv
      /\ \A q \in Runs \ {p} : run'[q] = run[q]
  BY TypeStep DEF ReviewInv, TypeInv
<1>old. ASSUME i \in DOMAIN suggestions
        PROVE  Counted(suggestions[i].review, SuggestionHolders(i))
  BY <1>old DEF ReviewInv
<1>1. SuggestionHolders(i)' \subseteq Runs
  BY DEF SuggestionHolders
<1>2. ~(run'[p].op = "suggestion" /\ run'[p].item = i)
        => SuggestionHolders(i)' \subseteq SuggestionHolders(i) \ {p}
  BY <1>0 DEF SuggestionHolders
<1>3. CASE LoadSuggestion(p)
  <2>1. /\ suggestions' = suggestions
        /\ suggestions[run'[p].item].review.status = "pending"
    BY <1>0, <1>3, LoadSuggestionIs
  <2>2. CASE run'[p].item = i
    BY <1>old, <1>1, <2>1, <2>2, CountedNone DEF Counted
  <2>3. CASE run'[p].item # i
    BY <1>old, <1>2, <2>1, <2>3, CountedKeep
  <2> QED BY <2>2, <2>3
<1>4. CASE ReviewSuggestion(p)
  <2>1. SuggestionHolders(i)' \subseteq SuggestionHolders(i) \ {p}
    BY <1>0, <1>2, <1>4, ReviewSuggestionIs, IdleIs
  <2>2. i \in DOMAIN suggestions
    BY <1>0, <1>4, ReviewSuggestionIs
  <2>3. CASE run[p].item = i
    <3>1. p \in SuggestionHolders(i)
      BY <1>0, <1>4, <2>3, ReviewSuggestionIs DEF SuggestionHolders
    <3>2. /\ suggestions'[i].review.status \in {"accepted", "rejected"}
          /\ suggestions'[i].review.reviews = suggestions[i].review.reviews + 1
      BY <1>0, <1>4, <2>3, ReviewSuggestionIs
    <3> QED BY <1>old, <2>1, <2>2, <3>1, <3>2, CountedReview
  <2>4. CASE run[p].item # i
    <3>1. suggestions'[i] = suggestions[i]
      BY <1>0, <1>4, <2>2, <2>4, ReviewSuggestionIs
    <3> QED BY <1>old, <2>1, <2>2, <3>1, CountedKeep
  <2> QED BY <2>3, <2>4
<1>5. CASE ~LoadSuggestion(p) /\ ~ReviewSuggestion(p)
  <2>1. run'[p].op # "suggestion"
    <3>1. CASE LoadLearning(p) \/ ReviewLearning(p)
      BY <1>0, <3>1, LoadLearningIs, ReviewLearningIs, IdleIs
    <3>2. CASE ~LoadLearning(p) /\ ~ReviewLearning(p)
      BY <1>0, <1>5, <3>2, ReviewQuiet
    <3> QED BY <3>1, <3>2
  <2>2. CASE i \in DOMAIN suggestions /\ suggestions'[i] = suggestions[i]
    BY <1>old, <1>2, <2>1, <2>2, CountedKeep
  <2>3. CASE suggestions'[i].review = New
    BY <1>1, <2>3, CountedNone DEF New
  <2> QED BY <1>0, <1>5, <2>2, <2>3, SuggestionsStep
<1> QED BY <1>3, <1>4, <1>5

LEMMA ReviewInductive == ReviewInv /\ [Next]_vars => ReviewInv'
<1> SUFFICES ASSUME ReviewInv, [Next]_vars
             PROVE  /\ \A l \in Learnings : Counted(learning[l], LearningHolders(l))'
                    /\ \A i \in DOMAIN suggestions' :
                         Counted(suggestions'[i].review, SuggestionHolders(i)')
  BY TypeInvInductive DEF ReviewInv
<1>0. TypeOK
  BY DEF ReviewInv, TypeInv
<1>1. ASSUME NEW p \in Runs, RunStep(p)
      PROVE  /\ \A l \in Learnings : Counted(learning[l], LearningHolders(l))'
             /\ \A i \in DOMAIN suggestions' :
                  Counted(suggestions'[i].review, SuggestionHolders(i)')
  BY <1>1, LearningCounted, SuggestionCounted
<1>2. ASSUME NEW l \in Learnings, CreateLearning(l)
      PROVE  /\ \A m \in Learnings : Counted(learning[m], LearningHolders(m))'
             /\ \A i \in DOMAIN suggestions' :
                  Counted(suggestions'[i].review, SuggestionHolders(i)')
  <2>1. /\ suggestions' = suggestions /\ run' = run /\ learning'[l].reviews = 0
        /\ \A m \in Learnings \ {l} : learning'[m] = learning[m]
    BY <1>0, <1>2, CreateLearningIs
  <2>2. /\ \A m : LearningHolders(m)' = LearningHolders(m) /\ LearningHolders(m) \subseteq Runs
        /\ \A i : SuggestionHolders(i)' = SuggestionHolders(i)
    BY <2>1 DEF LearningHolders, SuggestionHolders
  <2>3. Counted(learning'[l], LearningHolders(l))
    BY <2>1, <2>2, CountedNone
  <2> QED BY <2>1, <2>2, <2>3 DEF ReviewInv
<1>3. ASSUME UNCHANGED <<learning, suggestions, run>>
      PROVE  /\ \A l \in Learnings : Counted(learning[l], LearningHolders(l))'
             /\ \A i \in DOMAIN suggestions' :
                  Counted(suggestions'[i].review, SuggestionHolders(i)')
  <2>1. /\ \A m : LearningHolders(m)' = LearningHolders(m)
        /\ \A i : SuggestionHolders(i)' = SuggestionHolders(i)
    BY <1>3 DEF LearningHolders, SuggestionHolders
  <2> QED BY <1>3, <2>1 DEF ReviewInv
<1> QED BY <1>1, <1>2, <1>3 DEF Next, RunStep, Generate, vars

\* For any number of handlers, learnings and suggestions: a row has at most one review for
\* each handler, since all of them loaded it before the first was committed (confirm,
\* approve, reject).
THEOREM ReviewsAreBounded == Spec => []ReviewsBounded
<1>1. Init => ReviewInv
  <2> SUFFICES ASSUME Init PROVE ReviewInv
    OBVIOUS
  <2>1. \A l \in Learnings : learning[l].reviews = 0 /\ LearningHolders(l) \subseteq Runs
    BY DEF Init, LearningHolders
  <2>2. DOMAIN suggestions = {}
    BY DEF Init
  <2> QED BY <2>1, <2>2, TypeInvInitially, CountedNone DEF ReviewInv
<1>2. ReviewInv => ReviewsBounded
  <2>1. ASSUME NEW n, NEW T, Fits(n, T) PROVE n <= Cardinality(Runs)
    BY <2>1, RunsFinite DEF Fits
  <2> QED BY <2>1 DEF ReviewInv, Counted, ReviewsBounded
<1> QED BY <1>1, <1>2, ReviewInductive, PTL DEF Spec

-----------------------------------------------------------------------------
(* Pending suggestions.                                                     *)

Suggesters == {p \in Runs : run[p].op = "suggest"}

\* The handlers that found no pending suggestion may each add one.
PendingInv ==
  /\ TypeInv
  /\ Fits(Cardinality(PendingSuggestions), Suggesters)

LEMMA PendingFinite ==
  ASSUME TypeOK PROVE IsFiniteSet(PendingSuggestions) /\ Cardinality(PendingSuggestions) \in Nat
<1>1. DOMAIN suggestions = 1..Len(suggestions) /\ Len(suggestions) \in Nat
  BY DEF TypeOK
<1>2. IsFiniteSet(DOMAIN suggestions)
  BY <1>1, FS_Interval
<1> QED BY <1>2, Smaller DEF PendingSuggestions

\* A step that leaves no more pending and starts no suggestion.
LEMMA PendingKeep ==
  ASSUME PendingInv, PendingSuggestions' \subseteq PendingSuggestions,
         Suggesters' \subseteq Suggesters
  PROVE  Fits(Cardinality(PendingSuggestions), Suggesters)'
<1>1. /\ Cardinality(PendingSuggestions') \in Nat
      /\ Cardinality(PendingSuggestions') <= Cardinality(PendingSuggestions)
  BY PendingFinite, Smaller DEF PendingInv, TypeInv
<1> QED BY <1>1, FitsKeep DEF PendingInv

LEMMA PendingStep ==
  ASSUME PendingInv, NEW p \in Runs, RunStep(p)
  PROVE  Fits(Cardinality(PendingSuggestions), Suggesters)'
<1>0. /\ TypeOK /\ TypeInv /\ Suggesters' \subseteq Runs
      /\ \A q \in Runs \ {p} : run'[q] = run[q]
  BY TypeStep DEF PendingInv, TypeInv, Suggesters
<1>1. CASE LoadSuggest(p)
  <2>1. PendingSuggestions' = {}
    BY <1>0, <1>1, LoadSuggestIs DEF PendingSuggestions
  <2>2. Cardinality({}) = 0
    BY FS_EmptySet
  <2> QED BY <1>0, <2>1, <2>2, FitsEmpty
<1>2. CASE Suggest(p)
  <2>1. p \in Suggesters /\ Suggesters' \subseteq Suggesters \ {p}
    BY <1>0, <1>2, SuggestIs, IdleIs DEF Suggesters
  <2>2. ~ReviewSuggestion(p)
    BY <1>0, <1>2, SuggestIs DEF ReviewSuggestion
  <2>3. PendingSuggestions' \subseteq PendingSuggestions \cup {Len(suggestions) + 1}
    BY <1>0, <2>2, SuggestionsStep DEF PendingSuggestions
  <2>4. /\ Cardinality(PendingSuggestions') \in Nat
        /\ Cardinality(PendingSuggestions') <= Cardinality(PendingSuggestions) + 1
    BY <1>0, <2>3, PendingFinite, OneMore
  <2> QED BY <2>1, <2>4, FitsMove DEF PendingInv
<1>3. CASE ReviewSuggestion(p)
  <2>1. Suggesters' \subseteq Suggesters
    BY <1>0, <1>3, ReviewSuggestionIs, IdleIs DEF Suggesters
  <2>2. PendingSuggestions' \subseteq PendingSuggestions
    BY <1>0, <1>3, ReviewSuggestionIs DEF PendingSuggestions
  <2> QED BY <2>1, <2>2, PendingKeep
<1>4. CASE ~LoadSuggest(p) /\ ~Suggest(p) /\ ~ReviewSuggestion(p)
  <2>1. run'[p].op = "suggest" => run[p].op = "suggest"
    <3>1. CASE LoadLearning(p) \/ ReviewLearning(p) \/ LoadSuggestion(p)
      BY <1>0, <3>1, LoadLearningIs, ReviewLearningIs, LoadSuggestionIs, IdleIs
    <3>2. CASE Retrieve(p) \/ DraftVersion(p)
      BY <1>0, <3>2, RetrieveIs, DraftIs
    <3>3. CASE LoadRevise(p) \/ NumberRevision(p) \/ Revise(p)
      BY <1>0, <3>3, LoadReviseIs, NumberRevisionIs, ReviseIs, IdleIs
    <3>4. CASE LoadAnalyze(p) \/ NumberAnalysis(p) \/ Analyze(p) \/ Crash(p)
      BY <1>0, <3>4, LoadAnalyzeIs, NumberAnalysisIs, AnalyzeIs, CrashIs, IdleIs
    <3> QED BY <1>4, <3>1, <3>2, <3>3, <3>4 DEF RunStep
  <2>2. Suggesters' \subseteq Suggesters
    BY <1>0, <2>1 DEF Suggesters
  <2>3. PendingSuggestions' \subseteq PendingSuggestions
    BY <1>0, <1>4, SuggestionsStep DEF PendingSuggestions
  <2> QED BY <2>2, <2>3, PendingKeep
<1> QED BY <1>1, <1>2, <1>3, <1>4

LEMMA PendingInductive == PendingInv /\ [Next]_vars => PendingInv'
<1> SUFFICES ASSUME PendingInv, [Next]_vars
             PROVE  Fits(Cardinality(PendingSuggestions), Suggesters)'
  BY TypeInvInductive DEF PendingInv
<1>1. ASSUME NEW p \in Runs, RunStep(p)
      PROVE  Fits(Cardinality(PendingSuggestions), Suggesters)'
  BY <1>1, PendingStep
<1>2. CASE UNCHANGED <<suggestions, run>>
  <2>1. PendingSuggestions' = PendingSuggestions /\ Suggesters' = Suggesters
    BY <1>2 DEF PendingSuggestions, Suggesters
  <2> QED BY <2>1, PendingKeep
<1> QED BY <1>1, <1>2 DEF Next, RunStep, CreateLearning, Generate, vars

\* For any number of handlers: an experiment never has more pending suggestions than
\* handlers, each of which looked before the others committed (NextRoundService.suggest).
THEOREM PendingIsBounded == Spec => []PendingBounded
<1>1. Init => PendingInv
  <2> SUFFICES ASSUME Init PROVE PendingInv
    OBVIOUS
  <2>1. PendingSuggestions = {} /\ Suggesters \subseteq Runs
    BY DEF Init, PendingSuggestions, Suggesters
  <2>2. Cardinality({}) = 0
    BY FS_EmptySet
  <2> QED BY <2>1, <2>2, TypeInvInitially, FitsEmpty DEF PendingInv
<1>2. PendingInv => PendingBounded
  <2>1. ASSUME NEW n, NEW T, Fits(n, T) PROVE n <= Cardinality(Runs)
    BY <2>1, RunsFinite DEF Fits
  <2> QED BY <2>1 DEF PendingInv, PendingBounded
<1> QED BY <1>1, <1>2, PendingInductive, PTL DEF Spec

-----------------------------------------------------------------------------
(* Analyses that were not forced.                                           *)

Unforced  == {i \in DOMAIN analyses : ~analyses[i].forced}
Analyzers == {p \in Runs : run[p].op = "analyze" /\ ~run[p].forced}

\* The handlers that found no analysis may each add one.
UnforcedInv ==
  /\ TypeInv
  /\ Fits(Cardinality(Unforced), Analyzers)

LEMMA UnforcedFinite ==
  ASSUME TypeOK PROVE IsFiniteSet(Unforced) /\ Cardinality(Unforced) \in Nat
<1>1. DOMAIN analyses = 1..Len(analyses) /\ Len(analyses) \in Nat
  BY DEF TypeOK
<1>2. IsFiniteSet(DOMAIN analyses)
  BY <1>1, FS_Interval
<1> QED BY <1>2, Smaller DEF Unforced

LEMMA UnforcedKeep ==
  ASSUME UnforcedInv, Unforced' \subseteq Unforced, Analyzers' \subseteq Analyzers
  PROVE  Fits(Cardinality(Unforced), Analyzers)'
<1>1. Cardinality(Unforced') \in Nat /\ Cardinality(Unforced') <= Cardinality(Unforced)
  BY UnforcedFinite, Smaller DEF UnforcedInv, TypeInv
<1> QED BY <1>1, FitsKeep DEF UnforcedInv

LEMMA UnforcedStep ==
  ASSUME UnforcedInv, NEW p \in Runs, RunStep(p)
  PROVE  Fits(Cardinality(Unforced), Analyzers)'
<1>0. /\ TypeOK /\ TypeInv /\ Analyzers' \subseteq Runs
      /\ \A q \in Runs \ {p} : run'[q] = run[q]
  BY TypeStep DEF UnforcedInv, TypeInv, Analyzers
<1>1. CASE LoadAnalyze(p)
  <2>1. analyses' = analyses /\ (run'[p].forced \/ analyses = <<>>)
    BY <1>0, <1>1, LoadAnalyzeIs
  <2>2. CASE run'[p].forced
    <3>1. Unforced' \subseteq Unforced /\ Analyzers' \subseteq Analyzers
      BY <1>0, <2>1, <2>2 DEF Unforced, Analyzers
    <3> QED BY <3>1, UnforcedKeep
  <2>3. CASE analyses = <<>>
    <3>1. Unforced' = {}
      BY <2>1, <2>3 DEF Unforced
    <3>2. Cardinality({}) = 0
      BY FS_EmptySet
    <3> QED BY <1>0, <3>1, <3>2, FitsEmpty
  <2> QED BY <2>1, <2>2, <2>3
<1>2. CASE Analyze(p)
  <2>1. PICK a \in Analysis : a.forced = run[p].forced /\ analyses' = Append(analyses, a)
    BY <1>0, <1>2, AnalyzeIs
  <2>2. /\ DOMAIN analyses' = DOMAIN analyses \cup {Len(analyses) + 1}
        /\ \A j \in DOMAIN analyses : analyses'[j] = analyses[j]
        /\ analyses'[Len(analyses) + 1] = a
    BY <1>0, <2>1, Appended DEF TypeOK
  <2>3. Analyzers' \subseteq Analyzers \ {p}
    BY <1>0, <1>2, AnalyzeIs, IdleIs DEF Analyzers
  <2>4. CASE run[p].forced
    <3>1. Unforced' \subseteq Unforced
      BY <2>1, <2>2, <2>4 DEF Unforced
    <3> QED BY <2>3, <3>1, UnforcedKeep
  <2>5. CASE ~run[p].forced
    <3>1. Unforced' \subseteq Unforced \cup {Len(analyses) + 1}
      BY <2>2 DEF Unforced
    <3>2. /\ Cardinality(Unforced') \in Nat
          /\ Cardinality(Unforced') <= Cardinality(Unforced) + 1
      BY <1>0, <3>1, UnforcedFinite, OneMore
    <3>3. p \in Analyzers
      BY <1>0, <1>2, <2>5, AnalyzeIs DEF Analyzers
    <3> QED BY <2>3, <3>2, <3>3, FitsMove DEF UnforcedInv
  <2> QED BY <2>4, <2>5
<1>3. CASE ~LoadAnalyze(p) /\ ~Analyze(p)
  <2>1. run'[p].op = "analyze" => run[p].op = "analyze" /\ run'[p].forced = run[p].forced
    <3>1. CASE LoadLearning(p) \/ ReviewLearning(p) \/ LoadSuggestion(p) \/ ReviewSuggestion(p)
      BY <1>0, <3>1, LoadLearningIs, ReviewLearningIs, LoadSuggestionIs, ReviewSuggestionIs, IdleIs
    <3>2. CASE LoadSuggest(p) \/ Retrieve(p) \/ DraftVersion(p) \/ Suggest(p)
      BY <1>0, <3>2, LoadSuggestIs, RetrieveIs, DraftIs, SuggestIs, IdleIs
    <3>3. CASE LoadRevise(p) \/ NumberRevision(p) \/ Revise(p)
      BY <1>0, <3>3, LoadReviseIs, NumberRevisionIs, ReviseIs, IdleIs
    <3>4. CASE NumberAnalysis(p) \/ Crash(p)
      BY <1>0, <3>4, NumberAnalysisIs, CrashIs, IdleIs
    <3> QED BY <1>3, <3>1, <3>2, <3>3, <3>4 DEF RunStep
  <2>2. Analyzers' \subseteq Analyzers
    BY <1>0, <2>1 DEF Analyzers
  <2>3. analyses' = analyses
    BY <1>3 DEF RunStep, LoadLearning, ReviewLearning, LoadSuggestion, ReviewSuggestion,
                LoadSuggest, Retrieve, DraftVersion, Suggest, LoadRevise, NumberRevision, Revise,
                NumberAnalysis, Crash
  <2>4. Unforced' \subseteq Unforced
    BY <2>3 DEF Unforced
  <2> QED BY <2>2, <2>4, UnforcedKeep
<1> QED BY <1>1, <1>2, <1>3

LEMMA UnforcedInductive == UnforcedInv /\ [Next]_vars => UnforcedInv'
<1> SUFFICES ASSUME UnforcedInv, [Next]_vars PROVE Fits(Cardinality(Unforced), Analyzers)'
  BY TypeInvInductive DEF UnforcedInv
<1>1. ASSUME NEW p \in Runs, RunStep(p) PROVE Fits(Cardinality(Unforced), Analyzers)'
  BY <1>1, UnforcedStep
<1>2. CASE UNCHANGED <<analyses, run>>
  <2>1. Unforced' = Unforced /\ Analyzers' = Analyzers
    BY <1>2 DEF Unforced, Analyzers
  <2> QED BY <2>1, UnforcedKeep
<1> QED BY <1>1, <1>2 DEF Next, RunStep, CreateLearning, Generate, vars

\* For any number of handlers: the analyses of one input that nobody forced are at most as
\* many as the handlers, each of which looked for one before the provider answered the
\* others (AnalysisService.analyze).
THEOREM UnforcedIsBounded == Spec => []UnforcedBounded
<1>1. Init => UnforcedInv
  <2> SUFFICES ASSUME Init PROVE UnforcedInv
    OBVIOUS
  <2>1. Unforced = {} /\ Analyzers \subseteq Runs
    BY DEF Init, Unforced, Analyzers
  <2>2. Cardinality({}) = 0
    BY FS_EmptySet
  <2> QED BY <2>1, <2>2, TypeInvInitially, FitsEmpty DEF UnforcedInv
<1>2. UnforcedInv => UnforcedBounded
  <2>1. ASSUME NEW n, NEW T, Fits(n, T) PROVE n <= Cardinality(Runs)
    BY <2>1, RunsFinite DEF Fits
  <2> QED BY <2>1 DEF UnforcedInv, UnforcedBounded, Unforced
<1> QED BY <1>1, <1>2, UnforcedInductive, PTL DEF Spec

-----------------------------------------------------------------------------
(* The history of the versions.                                             *)

\* Version v is the first of its template, or follows one of vs with a smaller number.
Grounded(vs, v) ==
  IF v.number = 1 THEN v.parent = 0
  ELSE /\ v.parent \in DOMAIN vs
       /\ vs[v.parent].template = v.template /\ vs[v.parent].number < v.number

\* Template t has a version with each number up to n.
NoGap(vs, t, n) ==
  \A k \in 1..n : \E j \in DOMAIN vs : vs[j].template = t /\ vs[j].number = k

\* The versions with number n of template t, and the handlers that are about to add one.
Taken(vs, t, n) == {i \in DOMAIN vs : vs[i].template = t /\ vs[i].number = n}
Takers(t, n) == {p \in Runs : Writes(p) /\ run[p].version.template = t
                                        /\ run[p].version.number = n}

Rooted(vs) ==
  \A i \in DOMAIN vs : /\ Grounded(vs, vs[i]) /\ vs[i].parent < i
                       /\ NoGap(vs, vs[i].template, vs[i].number)

Ready(vs, v) == Grounded(vs, v) /\ NoGap(vs, v.template, v.number - 1)

VersionInv ==
  /\ TypeInv
  /\ Rooted(versions)
  /\ \A p \in Runs : Writes(p) => Ready(versions, run[p].version)
  /\ \A t, n \in Nat : Fits(Cardinality(Taken(versions, t, n)), Takers(t, n))

Grows(vs, ws) == DOMAIN vs \subseteq DOMAIN ws /\ \A i \in DOMAIN vs : ws[i] = vs[i]

\* What was ready stays ready.
LEMMA ReadyGrows ==
  ASSUME NEW vs, NEW ws, Grows(vs, ws), NEW v, Ready(vs, v) PROVE Ready(ws, v)
BY DEF Grows, Ready, Grounded, NoGap

\* The first version of a new template needs nothing.
LEMMA FirstIsReady == FirstVersion.number = 1 /\ Ready(versions, FirstVersion)
BY DEF FirstVersion, Ready, Grounded, NoGap

\* A version that follows another takes the number after the greatest: there is no gap
\* before it and no version that has it.
LEMMA FollowsReady ==
  ASSUME TypeOK, Rooted(versions), NEW v, NEW i, Follows(v, i)
  PROVE  /\ Ready(versions, v)
         /\ Taken(versions, v.template, v.number) = {}
<1> DEFINE t == versions[i].template
<1>1. /\ i \in DOMAIN versions /\ i \in Nat \ {0} /\ i \in Of(t)
      /\ v.template = t /\ v.number = MaxNumber(t) + 1 /\ v.parent = i
  BY DEF Follows, NextNumber, TypeOK, Of
<1>2. \A j \in DOMAIN versions : versions[j].number \in Nat \ {0}
  <2>1. \A j \in DOMAIN versions : versions[j] \in Version
    BY DEF TypeOK
  <2> QED BY <2>1 DEF Version
<1>3. /\ MaxNumber(t) \in Nat
      /\ \A j \in Of(t) : versions[j].number <= MaxNumber(t)
      /\ MaxNumber(t) = 0 \/ \E j \in Of(t) : versions[j].number = MaxNumber(t)
  BY MaxNumberIs DEF TypeOK
<1> HIDE DEF t
<1>4. versions[i].number <= MaxNumber(t) /\ MaxNumber(t) # 0
  BY <1>1, <1>2, <1>3
<1>5. PICK j \in Of(t) : versions[j].number = MaxNumber(t)
  BY <1>3, <1>4
<1>6. j \in DOMAIN versions /\ versions[j].template = t
  BY DEF Of
<1>7. NoGap(versions, t, MaxNumber(t))
  BY <1>5, <1>6 DEF Rooted
<1>8. v.number - 1 = MaxNumber(t) /\ v.number # 1
  BY <1>1, <1>3, <1>4
<1>9. Grounded(versions, v)
  <2>1. versions[i].number < v.number
    BY <1>1, <1>2, <1>3, <1>4
  <2> QED BY <1>1, <1>8, <2>1 DEF Grounded, t
<1>10. Taken(versions, t, v.number) = {}
  <2>1. ASSUME NEW k \in DOMAIN versions, versions[k].template = t PROVE versions[k].number # v.number
    <3>1. k \in Of(t)
      BY <2>1 DEF Of
    <3> QED BY <1>1, <1>2, <1>3, <3>1
  <2> QED BY <2>1 DEF Taken
<1> QED BY <1>1, <1>7, <1>8, <1>9, <1>10 DEF Ready

\* The commit of a version that is ready.
LEMMA CommitIsRooted ==
  ASSUME TypeOK, Rooted(versions), NEW v \in Version, Ready(versions, v),
         versions' = Append(versions, v)
  PROVE  Grows(versions, versions') /\ Rooted(versions')
<1> DEFINE new == Len(versions) + 1
<1>1. /\ DOMAIN versions' = DOMAIN versions \cup {new}
      /\ new \in Nat \ {0} /\ new \notin DOMAIN versions
      /\ \A i \in DOMAIN versions : versions'[i] = versions[i] /\ i \in Nat /\ i < new
      /\ versions'[new] = v
  BY Appended DEF TypeOK
<1> HIDE DEF new
<1>2. Grows(versions, versions')
  BY <1>1 DEF Grows
<1>3. ASSUME NEW i \in DOMAIN versions
      PROVE  /\ Grounded(versions', versions'[i]) /\ versions'[i].parent < i
             /\ NoGap(versions', versions'[i].template, versions'[i].number)
  <2>1. /\ Grounded(versions, versions[i]) /\ versions[i].parent < i
        /\ NoGap(versions, versions[i].template, versions[i].number)
    BY DEF Rooted
  <2>2. versions'[i] = versions[i]
    BY <1>1
  <2>3. Grounded(versions', versions[i])
    BY <1>2, <2>1 DEF Grows, Grounded
  <2>4. NoGap(versions', versions[i].template, versions[i].number)
    BY <1>2, <2>1 DEF Grows, NoGap
  <2> QED BY <2>1, <2>2, <2>3, <2>4
<1>4. /\ Grounded(versions', v) /\ v.parent < new /\ NoGap(versions', v.template, v.number)
  <2>1. Grounded(versions', v) /\ NoGap(versions', v.template, v.number - 1)
    BY <1>2, ReadyGrows DEF Ready
  <2>2. v.parent < new
    BY <1>1 DEF Ready, Grounded, Version
  <2>3. v.number \in Nat \ {0}
    BY DEF Version
  <2>4. ASSUME NEW k \in 1..v.number
        PROVE  \E j \in DOMAIN versions' : versions'[j].template = v.template
                                           /\ versions'[j].number = k
    <3>1. CASE k = v.number
      BY <1>1, <3>1
    <3>2. CASE k # v.number
      <4>1. k \in 1..(v.number - 1)
        BY <2>3, <3>2
      <4> QED BY <2>1, <4>1 DEF NoGap
    <3> QED BY <3>1, <3>2
  <2> QED BY <2>1, <2>2, <2>4 DEF NoGap
<1> QED BY <1>1, <1>2, <1>3, <1>4 DEF Rooted

LEMMA TakenFinite ==
  ASSUME TypeOK, NEW t, NEW n
  PROVE  IsFiniteSet(Taken(versions, t, n)) /\ Cardinality(Taken(versions, t, n)) \in Nat
<1>1. IsFiniteSet(DOMAIN versions)
  BY VersionsFinite DEF TypeOK
<1> QED BY <1>1, Smaller DEF Taken

\* Nobody takes a number that was not being taken.
LEMMA TakenKeep ==
  ASSUME VersionInv, NEW t \in Nat, NEW n \in Nat,
         Taken(versions', t, n) \subseteq Taken(versions, t, n), Takers(t, n)' \subseteq Takers(t, n)
  PROVE  Fits(Cardinality(Taken(versions', t, n)), Takers(t, n)')
<1>1. /\ Cardinality(Taken(versions', t, n)) \in Nat
      /\ Cardinality(Taken(versions', t, n)) <= Cardinality(Taken(versions, t, n))
  BY TakenFinite, Smaller DEF VersionInv, TypeInv
<1> QED BY <1>1, FitsKeep DEF VersionInv

LEMMA TakenEmpty ==
  ASSUME NEW t, NEW n, Taken(versions', t, n) = {}
  PROVE  Fits(Cardinality(Taken(versions', t, n)), Takers(t, n)')
<1>1. Cardinality({}) = 0 /\ Takers(t, n)' \subseteq Runs
  BY FS_EmptySet DEF Takers
<1> QED BY <1>1, FitsEmpty

\* A handler has drafted or numbered its version.
LEMMA DraftStep ==
  ASSUME VersionInv, NEW p \in Runs, versions' = versions,
         \A q \in Runs \ {p} : run'[q] = run[q],
         NEW v, v = run'[p].version,
         Ready(versions, v), Taken(versions, v.template, v.number) = {}
  PROVE  /\ Rooted(versions')
         /\ \A q \in Runs : Writes(q)' => Ready(versions', run'[q].version)
         /\ \A t, n \in Nat : Fits(Cardinality(Taken(versions', t, n)), Takers(t, n)')
<1>1. ASSUME NEW q \in Runs, Writes(q)' PROVE Ready(versions, run'[q].version)
  <2>1. CASE q = p
    BY <2>1
  <2>2. CASE q # p
    BY <1>1, <2>2 DEF VersionInv, Writes
  <2> QED BY <2>1, <2>2
<1>2. ASSUME NEW t \in Nat, NEW n \in Nat
      PROVE  Fits(Cardinality(Taken(versions', t, n)), Takers(t, n)')
  <2>1. CASE t = v.template /\ n = v.number
    BY <2>1, TakenEmpty
  <2>2. CASE ~(t = v.template /\ n = v.number)
    <3>1. Takers(t, n)' \subseteq Takers(t, n)
      BY <2>2 DEF Takers, Writes
    <3> QED BY <3>1, TakenKeep
  <2> QED BY <2>1, <2>2
<1> QED BY <1>1, <1>2 DEF VersionInv

\* A handler commits its version.
LEMMA CommitStep ==
  ASSUME VersionInv, NEW p \in Runs, Writes(p), run[p].version \in Version,
         versions' = Append(versions, run[p].version), run'[p] = Idle,
         \A q \in Runs \ {p} : run'[q] = run[q]
  PROVE  /\ Rooted(versions')
         /\ \A q \in Runs : Writes(q)' => Ready(versions', run'[q].version)
         /\ \A t, n \in Nat : Fits(Cardinality(Taken(versions', t, n)), Takers(t, n)')
<1> DEFINE v == run[p].version
           new == Len(versions) + 1
<1>0. TypeOK /\ Ready(versions, v)
  BY DEF VersionInv, TypeInv
<1>1. Grows(versions, versions') /\ Rooted(versions')
  BY <1>0, CommitIsRooted DEF VersionInv
<1>2. ~Writes(p)'
  BY IdleIs DEF Writes
<1>3. ASSUME NEW q \in Runs, Writes(q)' PROVE Ready(versions', run'[q].version)
  <2>1. q # p /\ run'[q] = run[q] /\ Writes(q)
    BY <1>2, <1>3 DEF Writes
  <2> QED BY <1>1, <2>1, ReadyGrows DEF VersionInv
<1>4. /\ DOMAIN versions' = DOMAIN versions \cup {new}
      /\ \A i \in DOMAIN versions : versions'[i] = versions[i]
      /\ versions'[new] = v
  BY <1>0, Appended DEF TypeOK
<1> HIDE DEF new
<1>5. ASSUME NEW t \in Nat, NEW n \in Nat
      PROVE  Fits(Cardinality(Taken(versions', t, n)), Takers(t, n)')
  <2>1. Takers(t, n)' \subseteq Takers(t, n) \ {p}
    BY <1>2 DEF Takers, Writes
  <2>2. CASE t = v.template /\ n = v.number
    <3>1. Taken(versions', t, n) \subseteq Taken(versions, t, n) \cup {new}
      BY <1>4 DEF Taken
    <3>2. /\ Cardinality(Taken(versions', t, n)) \in Nat
          /\ Cardinality(Taken(versions', t, n)) <= Cardinality(Taken(versions, t, n)) + 1
      <4>1. IsFiniteSet(Taken(versions, t, n))
        BY <1>0, TakenFinite
      <4> QED BY <3>1, <4>1, OneMore
    <3>3. p \in Takers(t, n)
      BY <2>2 DEF Takers
    <3>4. Fits(Cardinality(Taken(versions, t, n)), Takers(t, n))
      BY DEF VersionInv
    <3> QED BY <2>1, <3>2, <3>3, <3>4, FitsMove
  <2>3. CASE ~(t = v.template /\ n = v.number)
    <3>1. Taken(versions', t, n) \subseteq Taken(versions, t, n)
      BY <1>4, <2>3 DEF Taken
    <3> QED BY <2>1, <3>1, TakenKeep
  <2> QED BY <2>2, <2>3
<1> QED BY <1>1, <1>3, <1>5

\* A template that PromptService makes is nobody else's.
LEMMA GenerateStep ==
  ASSUME VersionInv, Generate
  PROVE  /\ Rooted(versions')
         /\ \A q \in Runs : Writes(q)' => Ready(versions', run'[q].version)
         /\ \A t, n \in Nat : Fits(Cardinality(Taken(versions', t, n)), Takers(t, n)')
<1> DEFINE new == Len(versions) + 1
<1>0. /\ TypeOK /\ run' = run /\ FirstVersion \in Version
      /\ versions' = Append(versions, FirstVersion)
  BY GenerateIs DEF VersionInv, TypeInv
<1>1. Grows(versions, versions') /\ Rooted(versions')
  BY <1>0, FirstIsReady, CommitIsRooted DEF VersionInv
<1>2. ASSUME NEW q \in Runs, Writes(q)' PROVE Ready(versions', run'[q].version)
  BY <1>0, <1>1, <1>2, ReadyGrows DEF VersionInv, Writes
<1>3. /\ DOMAIN versions' = DOMAIN versions \cup {new}
      /\ \A i \in DOMAIN versions : versions'[i] = versions[i]
      /\ versions'[new] = FirstVersion
  BY <1>0, Appended DEF TypeOK
<1> HIDE DEF new
<1>4. ASSUME NEW t \in Nat, NEW n \in Nat
      PROVE  Fits(Cardinality(Taken(versions', t, n)), Takers(t, n)')
  <2>0. Takers(t, n)' = Takers(t, n)
    BY <1>0 DEF Takers, Writes
  <2>1. CASE t = NewTemplate
    <3>1. Takers(t, n) = {}
      BY <1>0, <2>1, NewTemplateIs DEF Takers
    <3>2. Taken(versions', t, n) \subseteq {} \cup {new}
      BY <1>0, <1>3, <2>1, NewTemplateIs DEF Taken, Templates
    <3>3. /\ IsFiniteSet({}) /\ Cardinality({}) = 0
      BY FS_EmptySet
    <3>4. /\ Cardinality(Taken(versions', t, n)) \in Nat
          /\ Cardinality(Taken(versions', t, n)) <= 1
      <4>1. /\ Cardinality(Taken(versions', t, n)) \in Nat
            /\ Cardinality(Taken(versions', t, n)) <= Cardinality({}) + 1
        BY <3>2, <3>3, OneMore
      <4> QED BY <3>3, <4>1
    <3>5. Cardinality(Runs) \in Nat /\ Cardinality(Runs) # 0
      BY NextRoundAssumption, FS_EmptySet, FS_CardinalityType
    <3> QED BY <2>0, <3>1, <3>3, <3>4, <3>5 DEF Fits
  <2>2. CASE t # NewTemplate
    <3>1. Taken(versions', t, n) \subseteq Taken(versions, t, n)
      BY <1>3, <2>2 DEF Taken, FirstVersion
    <3> QED BY <2>0, <3>1, TakenKeep
  <2> QED BY <2>1, <2>2
<1> QED BY <1>1, <1>2, <1>4

\* The steps of handlers that touch no version.
LEMMA OtherStep ==
  ASSUME VersionInv, versions' = versions,
         \A q \in Runs : ~Writes(q)' \/ run'[q] = run[q]
  PROVE  /\ Rooted(versions')
         /\ \A q \in Runs : Writes(q)' => Ready(versions', run'[q].version)
         /\ \A t, n \in Nat : Fits(Cardinality(Taken(versions', t, n)), Takers(t, n)')
<1>1. ASSUME NEW q \in Runs, Writes(q)' PROVE Ready(versions', run'[q].version)
  BY <1>1 DEF VersionInv, Writes
<1>2. ASSUME NEW t \in Nat, NEW n \in Nat
      PROVE  Fits(Cardinality(Taken(versions', t, n)), Takers(t, n)')
  <2>1. Takers(t, n)' \subseteq Takers(t, n)
    BY DEF Takers, Writes
  <2> QED BY <2>1, TakenKeep
<1> QED BY <1>1, <1>2 DEF VersionInv

LEMMA VersionInductive == VersionInv /\ [Next]_vars => VersionInv'
<1> DEFINE Goal ==
      /\ Rooted(versions')
      /\ \A q \in Runs : Writes(q)' => Ready(versions', run'[q].version)
      /\ \A t, n \in Nat : Fits(Cardinality(Taken(versions', t, n)), Takers(t, n)')
<1> SUFFICES ASSUME VersionInv, [Next]_vars PROVE Goal
  BY TypeInvInductive DEF VersionInv
<1>0. TypeInv /\ TypeOK
  BY DEF VersionInv, TypeInv
<1>1. ASSUME NEW p \in Runs, RunStep(p) PROVE Goal
  <2>0. \A q \in Runs \ {p} : run'[q] = run[q]
    BY <1>0, <1>1, TypeStep
  <2>1. CASE DraftVersion(p)
    <3>1. versions' = versions /\ (run'[p].version = FirstVersion
                                   \/ \E i : Follows(run'[p].version, i))
      BY <1>0, <2>1, DraftIs
    <3>2. Taken(versions, FirstVersion.template, FirstVersion.number) = {}
      BY <1>0, NewTemplateIs DEF Taken, Templates, FirstVersion
    <3>3. /\ Ready(versions, run'[p].version)
          /\ Taken(versions, run'[p].version.template, run'[p].version.number) = {}
      BY <1>0, <3>1, <3>2, FirstIsReady, FollowsReady DEF VersionInv
    <3> QED BY <2>0, <3>1, <3>3, DraftStep
  <2>2. CASE NumberRevision(p)
    <3>1. versions' = versions /\ \E i : Follows(run'[p].version, i)
      BY <1>0, <2>2, NumberRevisionIs
    <3>2. /\ Ready(versions, run'[p].version)
          /\ Taken(versions, run'[p].version.template, run'[p].version.number) = {}
      BY <1>0, <3>1, FollowsReady DEF VersionInv
    <3> QED BY <2>0, <3>1, <3>2, DraftStep
  <2>3. CASE Suggest(p)
    BY <1>0, <2>0, <2>3, SuggestIs, CommitStep
  <2>4. CASE Revise(p)
    BY <1>0, <2>0, <2>4, ReviseIs, CommitStep
  <2>5. CASE ~DraftVersion(p) /\ ~NumberRevision(p) /\ ~Suggest(p) /\ ~Revise(p)
    <3>1. versions' = versions /\ ~Writes(p)'
      <4>1. CASE LoadLearning(p) \/ ReviewLearning(p) \/ LoadSuggestion(p)
                 \/ ReviewSuggestion(p)
        BY <1>0, <4>1, LoadLearningIs, ReviewLearningIs, LoadSuggestionIs, ReviewSuggestionIs,
           IdleIs DEF Writes
      <4>2. CASE LoadSuggest(p) \/ Retrieve(p) \/ LoadRevise(p)
        BY <1>0, <4>2, LoadSuggestIs, RetrieveIs, LoadReviseIs DEF Writes
      <4>3. CASE LoadAnalyze(p) \/ NumberAnalysis(p) \/ Analyze(p) \/ Crash(p)
        BY <1>0, <4>3, LoadAnalyzeIs, NumberAnalysisIs, AnalyzeIs, CrashIs, IdleIs DEF Writes
      <4> QED BY <1>1, <2>5, <4>1, <4>2, <4>3 DEF RunStep
    <3> QED BY <2>0, <3>1, OtherStep
  <2> QED BY <2>1, <2>2, <2>3, <2>4, <2>5
<1>2. CASE Generate
  BY <1>2, GenerateStep
<1>3. CASE UNCHANGED <<versions, run>>
  BY <1>3, OtherStep
<1> HIDE DEF Goal
<1> QED BY <1>1, <1>2, <1>3 DEF Next, RunStep, CreateLearning, vars

\* For any number of handlers and versions: in the history of every template the first
\* version has no parent, the others follow an earlier one with a smaller number, no number
\* is left out, and a number is taken at most once by each handler, since all of them read
\* the greatest before one committed (generate, revise, suggest).
THEOREM VersionsCorrect == Spec => []VersionsWellFormed
<1>1. Init => VersionInv
  <2> SUFFICES ASSUME Init PROVE VersionInv
    OBVIOUS
  <2>1. versions = <<>> /\ DOMAIN versions = {} /\ \A p \in Runs : ~Writes(p)
    BY IdleIs DEF Init, Writes
  <2>2. Rooted(versions)
    BY <2>1 DEF Rooted
  <2>3. \A t, n \in Nat : Taken(versions, t, n) = {} /\ Takers(t, n) \subseteq Runs
    BY <2>1 DEF Taken, Takers
  <2>4. Cardinality({}) = 0
    BY FS_EmptySet
  <2> QED BY <2>1, <2>2, <2>3, <2>4, TypeInvInitially, FitsEmpty DEF VersionInv
<1>2. VersionInv => VersionsWellFormed
  <2> SUFFICES ASSUME VersionInv, NEW t \in Templates
               PROVE  /\ \A i \in Of(t) :
                           IF versions[i].number = 1 THEN versions[i].parent = 0
                           ELSE /\ versions[i].parent \in Of(t) /\ versions[i].parent < i
                                /\ versions[versions[i].parent].number < versions[i].number
                      /\ \A n \in 1..MaxNumber(t) :
                           Cardinality({i \in Of(t) : versions[i].number = n})
                             \in 1..Cardinality(Runs)
    BY DEF VersionsWellFormed
  <2>0. TypeOK /\ Rooted(versions)
    BY DEF VersionInv, TypeInv
  <2>1. ASSUME NEW i \in Of(t)
        PROVE  IF versions[i].number = 1 THEN versions[i].parent = 0
               ELSE /\ versions[i].parent \in Of(t) /\ versions[i].parent < i
                    /\ versions[versions[i].parent].number < versions[i].number
    BY <2>0 DEF Rooted, Grounded, Of
  <2>2. ASSUME NEW n \in 1..MaxNumber(t)
        PROVE  Cardinality({i \in Of(t) : versions[i].number = n}) \in 1..Cardinality(Runs)
    <3>1. {i \in Of(t) : versions[i].number = n} = Taken(versions, t, n)
      BY DEF Taken, Of
    <3>2. MaxNumber(t) \in Nat /\ n \in Nat
      BY <2>0, MaxNumberIs DEF TypeOK
    <3>3. PICK j \in Of(t) : versions[j].number = MaxNumber(t)
      BY <2>0, <3>2, MaxNumberIs DEF TypeOK
    <3>4. \E k \in DOMAIN versions : versions[k].template = t /\ versions[k].number = n
      <4>1. NoGap(versions, t, MaxNumber(t))
        BY <2>0, <3>3 DEF Rooted, Of
      <4> QED BY <4>1 DEF NoGap
    <3>5. Taken(versions, t, n) # {}
      BY <3>4 DEF Taken
    <3>6. Cardinality(Taken(versions, t, n)) # 0
      BY <2>0, <3>5, TakenFinite, FS_EmptySet
    <3>7. t \in Nat
      <4>1. versions[j] \in Version /\ versions[j].template = t
        BY <2>0 DEF TypeOK, Of
      <4> QED BY <4>1 DEF Version
    <3>8. Fits(Cardinality(Taken(versions, t, n)), Takers(t, n))
      BY <3>2, <3>7 DEF VersionInv
    <3>9. /\ Cardinality(Taken(versions, t, n)) \in Nat /\ Cardinality(Runs) \in Nat
          /\ Cardinality(Taken(versions, t, n)) <= Cardinality(Runs)
      BY <3>8, RunsFinite DEF Fits
    <3> QED BY <3>1, <3>6, <3>9
  <2> QED BY <2>1, <2>2
<1> QED BY <1>1, <1>2, VersionInductive, PTL DEF Spec
=============================================================================
