--------------------------- MODULE MetaImport_proofs ---------------------------
(* Proofs about MetaImport: its types, that every row is accounted for by   *)
(* the sync that created it, that no data goes back, and that a sync which  *)
(* succeeded has imported what it read.                                     *)
EXTENDS MetaImport, TLAPS

LEMMA KindsFact ==
  /\ Kinds = {"account", "campaign", "adset", "ad", "asset", "snapshot"}
  /\ Len(Order) = 6
  /\ \A i \in 1..6 : Order[i] \in Kinds
BY DEF Kinds, Order

LEMMA Constants ==
  /\ NoRow \in Row /\ NoChange \in Change /\ NoOwn \in [AdKinds -> Row]
  /\ AdKinds \subseteq Kinds /\ \A k \in AdKinds : NoOwn[k] = NoRow
  /\ NoChange.old = NoRow /\ NoChange.new = NoRow /\ NoRow.ver = 0 /\ NoRow.stamp = NoRun
<1>1. NoRow \in Row
  BY MetaImportAssumption DEF NoRow, Row
<1>2. AdKinds \subseteq Kinds
  BY KindsFact DEF AdKinds
<1>3. NoOwn \in [AdKinds -> Row] /\ \A k \in AdKinds : NoOwn[k] = NoRow
  BY <1>1 DEF NoOwn
<1> QED BY <1>1, <1>2, <1>3 DEF NoChange, Change, NoRow

LEMMA KindType == ASSUME TypeOK, NEW r \in Runs PROVE Kind(r) \in Kinds
BY KindsFact DEF TypeOK, Local, Kind

LEMMA AdvancedGoes ==
  ASSUME TypeOK, NEW r \in Runs
  PROVE  /\ Advanced(r) \in Local /\ Advanced(r).at \in {"read", "complete"}
         /\ Advanced(r).change = run[r].change /\ Advanced(r).made = run[r].made
         /\ Advanced(r).own = run[r].own
         /\ run[r].step = 6 => Advanced(r).at = "complete"
<1>1. run[r] \in Local /\ Len(Order) = 6
  BY KindsFact DEF TypeOK
<1>2. CASE run[r].step = 6
  BY <1>1, <1>2 DEF Advanced, Local, Places
<1>3. CASE run[r].step # 6
  <2>1. run[r].step + 1 \in 1..6
    BY <1>1, <1>3 DEF Local
  <2> QED BY <1>1, <1>3, <2>1 DEF Advanced, Local, Places
<1> QED BY <1>2, <1>3

LEMMA EndedGoes ==
  ASSUME TypeOK, NEW r \in Runs, NEW place \in Places
  PROVE  /\ Ended(r, place) \in Local /\ Ended(r, place).at = place
         /\ Ended(r, place).change = [k \in Kinds |-> NoChange] /\ Ended(r, place).made = {}
         /\ Ended(r, place).own = NoOwn
<1>1. run[r] \in Local /\ 1 \in 1..Len(Order) /\ 0 \in 0..MaxVersion
  BY KindsFact, MetaImportAssumption DEF TypeOK
<1>2. /\ [k \in Kinds |-> NoChange] \in [Kinds -> Change] /\ NoRow \in Row
      /\ NoOwn \in [AdKinds -> Row]
  BY Constants
<1> QED BY <1>1, <1>2 DEF Ended, Local

\* A transaction is at work in these places.
Open == {"read", "select", "flush", "complete", "failing"}

\* A snapshot is of an ad that the sync has inserted or that has a row.
AdOf(l) == l.own["ad"] # NoRow \/ row["ad"].ver > 0

\* What a sync has read, and what it found: a row that it has selected is there and has
\* the stamp of another.
ReadOf(l, r) ==
  /\ l.at \in {"select", "flush"} => l.raw > 0
  /\ l.at \in {"select", "flush"} /\ Order[l.step] = "snapshot" => AdOf(l)
  /\ l.at = "flush" =>
       /\ l.loaded = NoRow \/ row[Order[l.step]].ver > 0
       /\ l.loaded.stamp # r
ReadInv == \A r \in Runs : ReadOf(run[r], r)

\* A row that is not there has no columns, an ad without a row has no snapshot and no
\* second row, and a stamp is that of a sync that has committed.
RowInv ==
  /\ \A k \in Kinds :
       /\ row[k].ver = 0 => row[k] = NoRow
       /\ row[k].stamp # NoRun => run[row[k].stamp].at = "done"
  /\ row["ad"].ver = 0 => row["snapshot"].ver = 0 /\ twins = {}

\* What a sync has written to a row: it inserts the row or updates one that is there.
\* The row of an ad is only updated, and a snapshot is written last.
Inserts(r, k) == run[r].change[k].old = NoRow /\ row[k].ver = 0
HeldOf(r, k) ==
  Wrote(r, k) =>
    /\ run[r].at \in Open
    /\ run[r].change[k].new.ver > 0
    /\ run[r].change[k].new.stamp \in {r, NoRun}
    /\ Inserts(r, k) \/ row[k].ver > 0
    /\ k \in AdKinds => row["ad"].ver > 0
    /\ k = "snapshot" => run[r].at = "complete" /\ ~OwnsAd(r)
    /\ k # "asset" => Holds(r, k)

\* No other sync that is not over has changed the same row.
OneHolder == \A k \in Kinds, r, q \in Runs : Holds(r, k) /\ Holds(q, k) => r = q
HeldInv   == OneHolder /\ \A r \in Runs, k \in Kinds : HeldOf(r, k)

\* The ad that a sync inserts, and its snapshot.
OwnOf(r) ==
  \A k \in AdKinds : run[r].own[k] # NoRow =>
    /\ run[r].at \in Open /\ OwnsAd(r)
    /\ run[r].own[k].ver > 0 /\ run[r].own[k].stamp = r
OwnInv == \A r \in Runs : OwnOf(r)

TypeInv == TypeOK /\ RowInv /\ ReadInv /\ HeldInv /\ OwnInv

\* What a step of a sync before its first write, or between two, leads to.
LEMMA ReadingGoes ==
  ASSUME TypeInv, NEW r \in Runs,
         CreateRun(r) \/ ReadAccount(r) \/ ReadPage(r) \/ Overlook(r) \/ FindsTwins(r)
           \/ ReadFails(r) \/ Select(r)
  PROVE  \E l \in Local :
           /\ run' = [run EXCEPT ![r] = l]
           /\ run[r].at \in Open \cup {"new"} /\ l.at \in Open
           /\ l.change = run[r].change /\ l.made = run[r].made /\ l.own = run[r].own
           /\ run[r].at # "complete"
           /\ ReadOf(l, r)
<1>1. run[r] \in Local /\ meta \in 1..MaxVersion /\ meta \in 0..MaxVersion /\ meta > 0
  BY MetaImportAssumption DEF TypeInv, TypeOK
<1> DEFINE Good(l) == /\ run' = [run EXCEPT ![r] = l]
                      /\ run[r].at \in Open \cup {"new"} /\ l.at \in Open
                      /\ l.change = run[r].change /\ l.made = run[r].made
                      /\ l.own = run[r].own /\ run[r].at # "complete"
                      /\ ReadOf(l, r)
<1>2. ASSUME run' = [run EXCEPT ![r] = Advanced(r)], run[r].at = "read"
      PROVE  Advanced(r) \in Local /\ Good(Advanced(r))
  BY <1>2, AdvancedGoes DEF Open, ReadOf, TypeInv
<1>3. ASSUME Got(r), run[r].at = "read", Kind(r) = "snapshot" => AdKnown(r)
      PROVE  \E l \in Local : Good(l)
  <2> DEFINE l == [run[r] EXCEPT !.at = "select", !.raw = meta]
  <2>1. l \in Local
    BY <1>1 DEF Local, Places
  <2>2. /\ l.at = "select" /\ l.raw = meta /\ l.change = run[r].change /\ l.made = run[r].made
        /\ l.own = run[r].own /\ l.step = run[r].step
    BY <1>1 DEF Local
  <2>3. run' = [run EXCEPT ![r] = l]
    BY <1>1, <1>3 DEF Got, TypeInv, TypeOK, Local
  <2>4. Kind(r) = "snapshot" => AdOf(run[r])
    <3>1. "ad" \in Kinds /\ "ad" \in AdKinds
      BY KindsFact DEF AdKinds
    <3>2. Wrote(r, "ad") => row["ad"].ver > 0
      BY <3>1 DEF TypeInv, HeldInv, HeldOf
    <3> QED BY <1>3, <3>2 DEF AdKnown, AdInMap, OwnsAd, AdOf
  <2> HIDE DEF l
  <2>5. ReadOf(l, r)
    BY <1>1, <2>2, <2>4 DEF ReadOf, AdOf, Kind
  <2> QED BY <1>3, <2>1, <2>2, <2>3, <2>5 DEF Open
<1>4. CASE CreateRun(r)
  <2> DEFINE l == [run[r] EXCEPT !.at = "read", !.began = meta]
  <2>1. /\ l \in Local /\ l.at = "read" /\ l.change = run[r].change /\ l.made = run[r].made
        /\ l.own = run[r].own
    BY <1>1 DEF Local, Places
  <2>2. run' = [run EXCEPT ![r] = l] /\ run[r].at = "new"
    BY <1>1, <1>4 DEF CreateRun, TypeInv, TypeOK, Local
  <2> HIDE DEF l
  <2> QED BY <2>1, <2>2 DEF Open, ReadOf
<1>5. CASE ReadAccount(r)
  BY <1>2, <1>3, <1>5 DEF ReadAccount
<1>6. CASE ReadPage(r)
  BY <1>2, <1>3, <1>6 DEF ReadPage
<1>7. CASE Overlook(r)
  BY <1>2, <1>7 DEF Overlook
<1>8. CASE FindsTwins(r) \/ ReadFails(r)
  <2> DEFINE l == [run[r] EXCEPT !.at = "failing"]
  <2>1. /\ l \in Local /\ l.at = "failing" /\ l.change = run[r].change /\ l.made = run[r].made
        /\ l.own = run[r].own
    BY <1>1 DEF Local, Places
  <2>2. run' = [run EXCEPT ![r] = l] /\ run[r].at \in {"read", "select"}
    BY <1>1, <1>8 DEF FindsTwins, Ambiguous, ReadFails, TypeInv, TypeOK, Local
  <2> HIDE DEF l
  <2> QED BY <2>1, <2>2 DEF Open, ReadOf
<1>9. CASE Select(r)
  <2> PICK found : found = IF Own(r) THEN NoRow ELSE row[Kind(r)]
    OBVIOUS
  <2> DEFINE l == [run[r] EXCEPT !.at = "flush", !.loaded = found]
  <2>1. row[Kind(r)] \in Row /\ Kind(r) \in Kinds /\ found \in Row
    BY KindType, Constants DEF TypeInv, TypeOK
  <2>2. l \in Local
    BY <1>1, <2>1 DEF Local, Places
  <2>3. /\ l.at = "flush" /\ l.change = run[r].change /\ l.made = run[r].made
        /\ l.raw = run[r].raw /\ l.loaded = found /\ l.step = run[r].step
        /\ l.own = run[r].own
    BY <1>1 DEF Local
  <2>4. run' = [run EXCEPT ![r] = l] /\ run[r].at = "select"
    BY <1>1, <1>9 DEF Select, TypeInv, TypeOK, Local
  <2>5. found = NoRow \/ row[Kind(r)].ver > 0
    <3>1. row[Kind(r)].ver \in Nat
      BY <2>1, MetaImportAssumption DEF Row
    <3>2. row[Kind(r)].ver = 0 => row[Kind(r)] = NoRow
      BY <2>1 DEF TypeInv, RowInv
    <3> QED BY <3>1, <3>2
  <2>6. found.stamp # r
    <3>1. NoRow.stamp = NoRun /\ r # NoRun
      BY Constants, MetaImportAssumption
    <3>2. row[Kind(r)].stamp # r
      BY <2>1, <2>4, <3>1 DEF TypeInv, RowInv
    <3> QED BY <3>1, <3>2
  <2>7. Order[run[r].step] = "snapshot" => AdOf(run[r])
    BY <2>4 DEF TypeInv, ReadInv, ReadOf
  <2>8. run[r].raw > 0
    BY <2>4 DEF TypeInv, ReadInv, ReadOf
  <2> HIDE DEF l
  <2>9. ReadOf(l, r)
    BY <2>3, <2>5, <2>6, <2>7, <2>8 DEF ReadOf, AdOf, Kind
  <2> QED BY <2>2, <2>3, <2>4, <2>9 DEF Open
<1> QED BY <1>4, <1>5, <1>6, <1>7, <1>8, <1>9

\* The row a sync writes has the version it has read, and its stamp or none.
LEMMA AssignedGoes ==
  ASSUME TypeOK, NEW r \in Runs
  PROVE  /\ Assigned(r) \in Row /\ Assigned(r).ver = run[r].raw
         /\ Assigned(r).stamp = IF Kind(r) = "asset" THEN NoRun ELSE r
<1>1. run[r].raw \in 0..MaxVersion /\ \A q, k : Wrote(q, k) \in BOOLEAN
  BY DEF TypeOK, Local, Wrote
<1>2. PICK stamp : stamp = IF Kind(r) = "asset" THEN NoRun ELSE r
  OBVIOUS
<1> DEFINE as(linked) == [ver |-> run[r].raw, stamp |-> stamp, linked |-> linked]
<1>3. \A linked \in BOOLEAN : as(linked) \in Row
  BY <1>1, <1>2 DEF Row
<1>4. \E linked \in BOOLEAN : Assigned(r) = as(linked)
  <2>1. Kind(r) \in {"account", "campaign", "adset", "ad", "asset", "snapshot"}
    BY KindType, KindsFact
  <2>2. CASE Kind(r) \in {"account", "campaign", "snapshot"}
    BY <1>2, <2>2 DEF Assigned, AccountRow, CampaignRow, SnapshotRow
  <2>3. CASE Kind(r) = "adset"
    BY <1>1, <1>2, <2>3 DEF Assigned, AdSetRow
  <2>4. CASE Kind(r) = "ad"
    BY <1>1, <1>2, <2>4 DEF Assigned, AdRow
  <2>5. CASE Kind(r) = "asset"
    BY <1>2, <2>5 DEF Assigned, AssetRow
  <2> QED BY <2>1, <2>2, <2>3, <2>4, <2>5
<1> QED BY <1>2, <1>3, <1>4

LEMMA FlushGoes ==
  ASSUME TypeOK, NEW r \in Runs, FlushRow(r)
  PROVE  \E l \in Local, c \in Change :
           /\ run' = [run EXCEPT ![r] = l]
           /\ l.at \in {"read", "complete"} /\ l.own = run[r].own
           /\ run[r].step = 6 => l.at = "complete"
           /\ l.change = [run[r].change EXCEPT ![Kind(r)] = c]
           /\ c.old = run[r].loaded /\ c.new = Assigned(r)
           /\ l.made = IF IsInsert(r) /\ Kind(r) # "account" THEN run[r].made \cup {Kind(r)}
                       ELSE run[r].made
<1> DEFINE a == Advanced(r)
           k == Kind(r)
           c == [old |-> run[r].loaded, new |-> Assigned(r)]
           made == IF IsInsert(r) /\ k # "account" THEN run[r].made \cup {k} ELSE run[r].made
           change == [run[r].change EXCEPT ![k] = c]
           l == [a EXCEPT !.change = change, !.made = made]
<1>1. /\ a \in Local /\ a.at \in {"read", "complete"} /\ a.own = run[r].own
      /\ a.change = run[r].change /\ a.made = run[r].made
      /\ run[r].step = 6 => a.at = "complete"
  BY AdvancedGoes
<1>2. c \in Change /\ k \in Kinds
  BY AssignedGoes, KindType DEF TypeOK, Local, Change
<1>3. c.old = run[r].loaded /\ c.new = Assigned(r)
  OBVIOUS
<1>4. run' = [run EXCEPT ![r] =
                [a EXCEPT !.change[k] = c,
                          !.made = IF IsInsert(r) /\ k # "account" THEN a.made \cup {k} ELSE a.made]]
  BY DEF FlushRow, Flushed
<1> HIDE DEF a, k, c
<1>5. change \in [Kinds -> Change] /\ made \in SUBSET Kinds
  BY <1>1, <1>2 DEF Local
<1>6. [a EXCEPT !.change[k] = c, !.made = made] = l
  BY <1>1 DEF Local
<1>7. run' = [run EXCEPT ![r] = l]
  BY <1>1, <1>4, <1>6
<1> HIDE DEF change, made
<1>8. /\ l \in Local /\ l.at = a.at /\ l.change = change /\ l.made = made
      /\ l.own = run[r].own
  BY <1>1, <1>5 DEF Local
<1> HIDE DEF l
<1> QED BY <1>1, <1>2, <1>3, <1>7, <1>8 DEF change, made, k

\* The rows of its own ad that a sync inserts.
LEMMA FlushOwnGoes ==
  ASSUME TypeOK, NEW r \in Runs, FlushOwn(r)
  PROVE  \E l \in Local :
           /\ run' = [run EXCEPT ![r] = l]
           /\ l.at \in {"read", "complete"} /\ l.change = run[r].change
           /\ Kind(r) \in AdKinds
           /\ l.own = [run[r].own EXCEPT ![Kind(r)] = Assigned(r)]
           /\ l.made = run[r].made \cup {Kind(r)}
<1> DEFINE a == Advanced(r)
           k == Kind(r)
           new == Assigned(r)
           own == [run[r].own EXCEPT ![k] = new]
           made == run[r].made \cup {k}
           l == [a EXCEPT !.own = own, !.made = made]
<1>1. /\ a \in Local /\ a.at \in {"read", "complete"} /\ a.own = run[r].own
      /\ a.change = run[r].change /\ a.made = run[r].made
  BY AdvancedGoes
<1>2. k \in AdKinds /\ k \in Kinds /\ new \in Row
  BY AssignedGoes, KindType DEF FlushOwn, Unshared, Own, AdKinds
<1>3. run' = [run EXCEPT ![r] = [a EXCEPT !.own[k] = new, !.made = a.made \cup {k}]]
  BY DEF FlushOwn
<1> HIDE DEF a, k, new
<1>4. own \in [AdKinds -> Row] /\ made \in SUBSET Kinds
  BY <1>1, <1>2 DEF Local
<1>5. [a EXCEPT !.own[k] = new, !.made = made] = l
  BY <1>1 DEF Local
<1>6. run' = [run EXCEPT ![r] = l]
  BY <1>1, <1>3, <1>5
<1> HIDE DEF own, made
<1>7. l \in Local /\ l.at = a.at /\ l.change = run[r].change /\ l.own = own /\ l.made = made
  BY <1>1, <1>4 DEF Local
<1> HIDE DEF l
<1> QED BY <1>1, <1>2, <1>6, <1>7 DEF own, made, k, new

\* A commit writes the rows, the counters and the status.
Committing(r) == CompleteRun(r) \/ FailRun(r)

LEMMA CommitGoes ==
  ASSUME TypeOK, NEW r \in Runs, Committing(r)
  PROVE  /\ run[r].at \in {"complete", "failing"}
         /\ row' = [k \in Kinds |-> IF IsFirst(r) /\ k \in AdKinds THEN run[r].own[k]
                                   ELSE Written(row[k], run[r].change[k])]
         /\ twins' = IF OwnsAd(r) /\ ~IsFirst(r) THEN twins \cup {r} ELSE twins
         /\ created' = [created EXCEPT ![r] = run[r].made]
         /\ \E result \in {"success", "failed"} : status' = [status EXCEPT ![r] = result]
         /\ run' = [run EXCEPT ![r] = Ended(r, "done")]
         /\ UNCHANGED <<meta, listed, overlooked>>
BY DEF Committing, CompleteRun, FailRun, Commit

LEMMA WrittenGoes ==
  ASSUME NEW db \in Row, NEW c \in Change
  PROVE  /\ Written(db, c) \in Row
         /\ Written(db, c).ver = IF c.new.ver = c.old.ver THEN db.ver ELSE c.new.ver
         /\ Written(db, c).stamp = IF c.new.stamp = c.old.stamp THEN db.stamp ELSE c.new.stamp
         /\ c.new = c.old => Written(db, c) = db
<1>1. /\ DOMAIN db = {"ver", "stamp", "linked"}
      /\ db = [ver |-> db.ver, stamp |-> db.stamp, linked |-> db.linked]
      /\ db.ver \in 0..MaxVersion /\ db.stamp \in Runs \cup {NoRun} /\ db.linked \in BOOLEAN
  BY DEF Row
<1>2. /\ c.new.ver \in 0..MaxVersion /\ c.new.stamp \in Runs \cup {NoRun}
      /\ c.new.linked \in BOOLEAN
  BY DEF Change, Row
<1>3. Written(db, c) =
        [ver    |-> IF c.new.ver = c.old.ver THEN db.ver ELSE c.new.ver,
         stamp  |-> IF c.new.stamp = c.old.stamp THEN db.stamp ELSE c.new.stamp,
         linked |-> IF c.new.linked = c.old.linked THEN db.linked ELSE c.new.linked]
  BY <1>1 DEF Written
<1>4. Written(db, c) \in Row
  BY <1>1, <1>2, <1>3 DEF Row
<1>5. c.new = c.old => Written(db, c) = db
  BY <1>1, <1>3
<1> QED BY <1>3, <1>4, <1>5

\* A transaction that ends without a commit.
Ending(r) == FlushConflict(r) \/ Crash(r)

StartOrRead(r) == CreateRun(r) \/ ReadAccount(r) \/ ReadPage(r) \/ Overlook(r) \/ ReadFails(r)
                  \/ FindsTwins(r) \/ Select(r)

LEMMA StepCases ==
  ASSUME [Next]_vars
  PROVE  \/ \E r \in Runs : StartOrRead(r) \/ FlushRow(r) \/ FlushOwn(r) \/ Committing(r)
                           \/ Ending(r)
         \/ MetaChanges \/ UNCHANGED vars
BY DEF Next, Work, Ending, StartOrRead, Committing

LEMMA EndingGoes ==
  ASSUME TypeOK, NEW r \in Runs, Ending(r)
  PROVE  /\ run[r].at \in Open
         /\ run' = [run EXCEPT ![r] = Ended(r, "dead")]
         /\ UNCHANGED <<meta, listed, row, status, created, overlooked, twins>>
BY DEF Ending, FlushConflict, Crash, Open, TypeOK, Local, Places

-----------------------------------------------------------------------------
(* The strengthening of the type invariant is inductive.                    *)

\* Who has changed a row has written it.
LEMMA HoldsWrote == ASSUME NEW r, NEW k, Holds(r, k) PROVE Wrote(r, k)
BY Constants DEF Holds, Wrote

LEMMA RowGoes ==
  ASSUME TypeInv, NEW r \in Runs, Committing(r), NEW k \in Kinds
  PROVE  /\ row'[k] \in Row
         /\ row[k].ver > 0 => row'[k].ver > 0
         /\ Wrote(r, k) => row'[k].ver > 0
         /\ row'[k].ver = 0 => row'[k] = NoRow
         /\ row'[k].stamp \in {row[k].stamp, r, NoRun}
         /\ IsFirst(r) /\ k \in AdKinds =>
              row'[k] = run[r].own[k] /\ row[k] = NoRow /\ ~Wrote(r, k)
         /\ ~(IsFirst(r) /\ k \in AdKinds) /\ ~Holds(r, k) => row'[k] = row[k]
<1> DEFINE c == run[r].change[k]
<1>1. row[k] \in Row /\ c \in Change
  BY DEF TypeInv, TypeOK, Local
<1>2. row[k].ver \in Nat /\ c.old.ver \in Nat /\ c.new.ver \in Nat
  BY <1>1, MetaImportAssumption DEF Change, Row
<1>3. row[k].ver = 0 => row[k] = NoRow
  BY DEF TypeInv, RowInv
<1>4. CASE IsFirst(r) /\ k \in AdKinds
  <2>1. row["ad"] = NoRow /\ row["ad"].ver = 0
    BY <1>4, Constants DEF IsFirst
  <2>2. row[k] = NoRow
    BY <1>3, <1>4, <2>1 DEF TypeInv, RowInv, AdKinds
  <2>3. ~Wrote(r, k)
    BY <1>4, <2>1 DEF TypeInv, HeldInv, HeldOf
  <2>4. row'[k] = run[r].own[k]
    BY <1>4, CommitGoes DEF TypeInv
  <2>5. run[r].own[k] \in Row
    BY <1>4 DEF TypeInv, TypeOK, Local
  <2>6. run[r].own[k] # NoRow => run[r].own[k].ver > 0 /\ run[r].own[k].stamp = r
    BY <1>4 DEF TypeInv, OwnInv, OwnOf
  <2> QED BY <1>4, <2>2, <2>3, <2>4, <2>5, <2>6, Constants
<1>5. CASE ~(IsFirst(r) /\ k \in AdKinds)
  <2>1. row'[k] = Written(row[k], c)
    BY <1>5, CommitGoes DEF TypeInv
  <2>2. Wrote(r, k) =>
          /\ c.new.ver > 0 /\ c.new.stamp \in {r, NoRun}
          /\ c.old = NoRow \/ row[k].ver > 0
    BY DEF TypeInv, HeldInv, HeldOf, Inserts
  <2>3. (Wrote(r, k) <=> c # NoChange) /\ (Holds(r, k) <=> c.new # c.old)
    BY DEF Wrote, Holds
  <2> HIDE DEF c
  <2>4. ASSUME Wrote(r, k)
        PROVE  Written(row[k], c).ver > 0 /\ Written(row[k], c).stamp \in {row[k].stamp, r, NoRun}
    BY <1>1, <1>2, <2>2, <2>4, WrittenGoes, Constants
  <2>5. ASSUME ~Holds(r, k) PROVE Written(row[k], c) = row[k]
    BY <1>1, <2>3, <2>5, WrittenGoes
  <2>6. Written(row[k], c) \in Row
    BY <1>1, WrittenGoes
  <2>7. Holds(r, k) => Wrote(r, k)
    BY HoldsWrote
  <2> QED BY <1>2, <1>3, <1>5, <2>1, <2>4, <2>5, <2>6, <2>7
<1> QED BY <1>4, <1>5

LEMMA TypeInit == ASSUME Init PROVE TypeInv
<1>1. /\ 0 \in 0..MaxVersion /\ 1 \in 0..MaxVersion /\ meta \in 1..MaxVersion
      /\ 1 \in 1..Len(Order)
  BY MetaImportAssumption, KindsFact DEF Init
<1>2. \A place \in {"new", "done", "dead"} :
        /\ Start(place) \in Local /\ Start(place).at = place /\ Start(place).made = {}
        /\ Start(place).change = [k \in Kinds |-> NoChange] /\ Start(place).own = NoOwn
  BY <1>1, Constants DEF Start, Local, Places
<1>3. \A k \in Kinds :
        /\ Imported(k) \in Row /\ (Imported(k).ver = 0 => Imported(k) = NoRow)
        /\ Imported(k).stamp \in {Earlier, NoRun}
        /\ k # "account" => Imported(k).ver = 1
  BY <1>1, Constants, MetaImportAssumption DEF Imported, Row
<1>4. PICK imported \in BOOLEAN :
        /\ row = [k \in Kinds |-> IF imported THEN Imported(k) ELSE NoRow]
        /\ status = [r \in Runs |-> IF r # Earlier THEN "none"
                                     ELSE IF imported THEN "success" ELSE "running"]
        /\ created = [r \in Runs |-> IF r = Earlier /\ imported THEN Kinds \ {"account"} ELSE {}]
        /\ run = [r \in Runs |-> Start(IF r # Earlier THEN "new"
                                        ELSE IF imported THEN "done" ELSE "dead")]
  BY DEF Init
<1>5. \A r \in Runs : /\ run[r] \in Local /\ run[r].at \in {"new", "done", "dead"}
                      /\ run[r].change = [k \in Kinds |-> NoChange] /\ run[r].own = NoOwn
  BY <1>2, <1>4
<1>6. TypeOK
  <2>1. run \in [Runs -> Local]
    BY <1>4, <1>5
  <2>2. row \in [Kinds -> Row]
    BY <1>3, <1>4, Constants
  <2>3. status \in [Runs -> Statuses] /\ created \in [Runs -> SUBSET Kinds]
    BY <1>4 DEF Statuses
  <2> QED BY <1>1, <2>1, <2>2, <2>3 DEF Init, TypeOK
<1>7. RowInv
  <2>1. \A k \in Kinds : row[k] = IF imported THEN Imported(k) ELSE NoRow
    BY <1>4
  <2>2. ASSUME NEW k \in Kinds, row[k].stamp # NoRun PROVE run[row[k].stamp].at = "done"
    <3>1. imported /\ row[k].stamp = Earlier
      BY <1>3, <2>1, <2>2, Constants
    <3> QED BY <1>2, <1>4, <3>1, MetaImportAssumption
  <2>3. row["ad"].ver = 0 => row["snapshot"].ver = 0
    BY <1>3, <2>1, KindsFact, Constants
  <2>4. \A k \in Kinds : row[k].ver = 0 => row[k] = NoRow
    BY <1>3, <2>1
  <2> QED BY <2>2, <2>3, <2>4 DEF RowInv, Init
<1>8. ReadInv
  BY <1>5 DEF ReadInv, ReadOf
<1>9. HeldInv
  BY <1>5, Constants DEF HeldInv, HeldOf, OneHolder, Holds, Wrote
<1>10. OwnInv
  BY <1>5, Constants DEF OwnInv, OwnOf
<1> QED BY <1>6, <1>7, <1>8, <1>9, <1>10 DEF TypeInv

\* A step of one sync leaves the others alone.
LEMMA OthersStay ==
  ASSUME TypeOK, NEW r \in Runs, NEW l \in Local, run' = [run EXCEPT ![r] = l]
  PROVE  /\ run' \in [Runs -> Local] /\ run'[r] = l
         /\ \A q \in Runs \ {r} : run'[q] = run[q]
BY DEF TypeOK

LEMMA ReadingKeeps ==
  ASSUME TypeInv, NEW r \in Runs, StartOrRead(r)
  PROVE  TypeInv'
<1>1. PICK l \in Local :
        /\ run' = [run EXCEPT ![r] = l]
        /\ run[r].at \in Open \cup {"new"} /\ l.at \in Open
        /\ l.change = run[r].change /\ l.made = run[r].made /\ l.own = run[r].own
        /\ run[r].at # "complete"
        /\ ReadOf(l, r)
  BY ReadingGoes DEF StartOrRead
<1>2. run' \in [Runs -> Local] /\ run'[r] = l /\ \A q \in Runs \ {r} : run'[q] = run[q]
  BY <1>1, OthersStay DEF TypeInv
<1>3. row' = row /\ meta' = meta /\ listed' = listed /\ created' = created /\ twins' = twins
  BY DEF StartOrRead, CreateRun, ReadAccount, ReadPage, Overlook, FindsTwins, ReadFails, Select
<1>4. TypeOK'
  <2>1. status' \in [Runs -> Statuses]
    BY DEF StartOrRead, CreateRun, ReadAccount, ReadPage, Overlook, FindsTwins, ReadFails,
           Select, TypeInv, TypeOK, Statuses
  <2>2. overlooked' \in [Runs -> SUBSET Kinds]
    <3>1. Kind(r) \in Kinds
      BY KindType DEF TypeInv
    <3> QED BY <3>1 DEF StartOrRead, CreateRun, ReadAccount, ReadPage, Overlook, FindsTwins,
                        ReadFails, Select, TypeInv, TypeOK
  <2> QED BY <1>2, <1>3, <2>1, <2>2 DEF TypeInv, TypeOK
<1>5. RowInv'
  <2>1. ASSUME NEW k \in Kinds, row[k].stamp # NoRun PROVE run'[row[k].stamp].at = "done"
    <3>1. row[k].stamp \in Runs /\ run[row[k].stamp].at = "done"
      BY <2>1 DEF TypeInv, TypeOK, Row, RowInv
    <3> QED BY <1>1, <1>2, <3>1 DEF Open
  <2> QED BY <1>3, <2>1 DEF TypeInv, RowInv
<1>6. ReadInv'
  <2>1. ReadOf(run[r], r)'
    BY <1>1, <1>2, <1>3 DEF ReadOf, AdOf
  <2>2. ASSUME NEW q \in Runs \ {r} PROVE ReadOf(run[q], q)'
    BY <1>2, <1>3 DEF TypeInv, ReadInv, ReadOf, AdOf
  <2> QED BY <2>1, <2>2 DEF ReadInv
<1>7. \A q \in Runs : run'[q].change = run[q].change /\ run'[q].own = run[q].own
  BY <1>1, <1>2
<1>8. \A q \in Runs, k \in Kinds : (Wrote(q, k)' <=> Wrote(q, k)) /\ (Holds(q, k)' <=> Holds(q, k))
  BY <1>7 DEF Wrote, Holds
<1>9. ASSUME NEW q \in Runs, NEW k \in Kinds PROVE HeldOf(q, k)'
  <2>1. HeldOf(q, k)
    BY DEF TypeInv, HeldInv
  <2>2. run'[q].at = run[q].at \/ (q = r /\ run'[q].at \in Open /\ run[q].at # "complete")
    BY <1>1, <1>2
  <2> QED BY <1>3, <1>7, <1>8, <2>1, <2>2 DEF HeldOf, Inserts, OwnsAd
<1>10. HeldInv'
  BY <1>8, <1>9 DEF TypeInv, HeldInv, OneHolder
<1>11. OwnInv'
  BY <1>1, <1>2, <1>7 DEF TypeInv, OwnInv, OwnOf, OwnsAd
<1> QED BY <1>4, <1>5, <1>6, <1>10, <1>11 DEF TypeInv

\* What a sync has written, after a flush.
LEMMA FlushWrites ==
  ASSUME TypeInv, NEW r \in Runs, FlushRow(r)
  PROVE  \E l \in Local, c \in Change :
           /\ run' = [run EXCEPT ![r] = l]
           /\ l.at \in {"read", "complete"} /\ l.own = run[r].own
           /\ \A k \in Kinds : l.change[k] = IF k = Kind(r) THEN c ELSE run[r].change[k]
           /\ c # NoChange /\ c.new.ver > 0 /\ c.new.stamp \in {r, NoRun}
           /\ Kind(r) # "asset" => c.new # c.old
           /\ c.new # c.old => ~Locked(r, Kind(r))
           /\ (c.old = NoRow /\ row[Kind(r)].ver = 0) \/ row[Kind(r)].ver > 0
           /\ Kind(r) \in AdKinds => row["ad"].ver > 0
           /\ Kind(r) = "snapshot" => l.at = "complete" /\ ~OwnsAd(r)
           /\ IF c.old = NoRow /\ row[Kind(r)].ver = 0 /\ Kind(r) # "account"
              THEN l.made = run[r].made \cup {Kind(r)}
              ELSE l.made = run[r].made
<1>1. PICK l \in Local, c \in Change :
        /\ run' = [run EXCEPT ![r] = l]
        /\ l.at \in {"read", "complete"} /\ l.own = run[r].own
        /\ run[r].step = 6 => l.at = "complete"
        /\ l.change = [run[r].change EXCEPT ![Kind(r)] = c]
        /\ c.old = run[r].loaded /\ c.new = Assigned(r)
        /\ l.made = IF IsInsert(r) /\ Kind(r) # "account" THEN run[r].made \cup {Kind(r)}
                    ELSE run[r].made
  BY FlushGoes DEF TypeInv
<1>2. run[r].raw > 0 /\ (run[r].loaded = NoRow \/ row[Kind(r)].ver > 0) /\ run[r].loaded.stamp # r
      /\ (Kind(r) = "snapshot" => AdOf(run[r]))
  BY DEF FlushRow, TypeInv, ReadInv, ReadOf, Kind
<1>3. /\ IsInsert(r) => row[Kind(r)].ver = 0
      /\ Assigned(r) # run[r].loaded => ~Locked(r, Kind(r))
      /\ Kind(r) = "ad" => ~IsInsert(r)
      /\ Kind(r) = "snapshot" => ~OwnsAd(r)
  BY DEF FlushRow, Unshared, Own
<1>4. Kind(r) \in Kinds /\ run[r].change \in [Kinds -> Change]
  BY KindType DEF TypeInv, TypeOK, Local
<1>5. /\ c.new.ver = run[r].raw /\ c.new.stamp \in {r, NoRun}
      /\ Kind(r) # "asset" => c.new.stamp = r
  BY <1>1, AssignedGoes DEF TypeInv
<1>6. c # NoChange
  BY <1>2, <1>5, Constants
<1>7. \A k \in Kinds : l.change[k] = IF k = Kind(r) THEN c ELSE run[r].change[k]
  BY <1>1, <1>4
<1>8. row[Kind(r)].ver \in Nat
  BY <1>4, MetaImportAssumption DEF TypeInv, TypeOK, Row
<1>9. IsInsert(r) <=> (c.old = NoRow /\ row[Kind(r)].ver = 0)
  BY <1>1, <1>3 DEF IsInsert
<1>10. (c.old = NoRow /\ row[Kind(r)].ver = 0) \/ row[Kind(r)].ver > 0
  BY <1>1, <1>2, <1>3 DEF IsInsert
<1>11. Kind(r) \in AdKinds => row["ad"].ver > 0
  BY <1>2, <1>3 DEF AdKinds, AdOf, OwnsAd, IsInsert
<1>12. Kind(r) = "snapshot" => l.at = "complete"
  <2>1. run[r].step \in 1..6
    BY KindsFact DEF TypeInv, TypeOK, Local
  <2> QED BY <1>1, <2>1 DEF Kind, Order
<1>13. Kind(r) # "asset" => c.new # c.old
  BY <1>1, <1>2, <1>5
<1> HIDE DEF IsInsert
<1>14. IF c.old = NoRow /\ row[Kind(r)].ver = 0 /\ Kind(r) # "account"
       THEN l.made = run[r].made \cup {Kind(r)}
       ELSE l.made = run[r].made
  BY <1>1, <1>9
<1> QED BY <1>1, <1>2, <1>3, <1>5, <1>6, <1>7, <1>10, <1>11, <1>12, <1>13, <1>14

LEMMA FlushKeeps ==
  ASSUME TypeInv, NEW r \in Runs, FlushRow(r)
  PROVE  TypeInv'
<1> PICK kind \in Kinds : kind = Kind(r)
  BY KindType DEF TypeInv
<1>1. PICK l \in Local, c \in Change :
        /\ run' = [run EXCEPT ![r] = l]
        /\ l.at \in {"read", "complete"} /\ l.own = run[r].own
        /\ \A k \in Kinds : l.change[k] = IF k = kind THEN c ELSE run[r].change[k]
        /\ c # NoChange /\ c.new.ver > 0 /\ c.new.stamp \in {r, NoRun}
        /\ kind # "asset" => c.new # c.old
        /\ c.new # c.old => ~Locked(r, kind)
        /\ (c.old = NoRow /\ row[kind].ver = 0) \/ row[kind].ver > 0
        /\ kind \in AdKinds => row["ad"].ver > 0
        /\ kind = "snapshot" => l.at = "complete" /\ ~OwnsAd(r)
  BY FlushWrites
<1>2. run' \in [Runs -> Local] /\ run'[r] = l /\ \A q \in Runs \ {r} : run'[q] = run[q]
  BY <1>1, OthersStay DEF TypeInv
<1>3. UNCHANGED <<meta, listed, row, status, created, overlooked, twins>> /\ run[r].at = "flush"
  BY DEF FlushRow
<1>4. TypeOK'
  BY <1>2, <1>3 DEF TypeInv, TypeOK
<1>5. RowInv'
  <2>1. ASSUME NEW k \in Kinds, row[k].stamp # NoRun PROVE run'[row[k].stamp].at = "done"
    <3>1. row[k].stamp \in Runs /\ run[row[k].stamp].at = "done"
      BY <2>1 DEF TypeInv, TypeOK, Row, RowInv
    <3> QED BY <1>2, <1>3, <3>1
  <2> QED BY <1>3, <2>1 DEF TypeInv, RowInv
<1>6. ReadInv'
  <2>1. ReadOf(run[r], r)'
    BY <1>1, <1>2 DEF ReadOf
  <2>2. ASSUME NEW q \in Runs \ {r} PROVE ReadOf(run[q], q)'
    BY <1>2, <1>3 DEF TypeInv, ReadInv, ReadOf, AdOf
  <2> QED BY <2>1, <2>2 DEF ReadInv
<1>7. /\ \A q \in Runs, k \in Kinds : q # r \/ k # kind => run'[q].change[k] = run[q].change[k]
      /\ run'[r].change[kind] = c
      /\ \A q \in Runs : run'[q].own = run[q].own
  BY <1>1, <1>2
<1>8. \A q \in Runs, k \in Kinds : q # r \/ k # kind =>
        (Wrote(q, k)' <=> Wrote(q, k)) /\ (Holds(q, k)' <=> Holds(q, k))
  BY <1>7 DEF Wrote, Holds
<1>9. (Holds(r, kind)' <=> c.new # c.old)
  BY <1>7 DEF Holds
<1>10. ASSUME NEW k \in Kinds, NEW p \in Runs, NEW q \in Runs, Holds(p, k)', Holds(q, k)'
       PROVE  p = q
  <2>1. CASE k # kind
    BY <1>8, <1>10, <2>1 DEF TypeInv, HeldInv, OneHolder
  <2>2. CASE k = kind /\ Holds(r, kind)'
    <3>1. \A o \in Runs \ {r} : ~Holds(o, kind)'
      BY <1>1, <1>8, <1>9, <2>2 DEF Locked
    <3> QED BY <1>10, <2>2, <3>1
  <2>3. CASE k = kind /\ ~Holds(r, kind)'
    <3>1. p # r /\ q # r
      BY <1>10, <2>3
    <3> QED BY <1>8, <1>10, <3>1 DEF TypeInv, HeldInv, OneHolder
  <2> QED BY <2>1, <2>2, <2>3
<1>11. ASSUME NEW q \in Runs, NEW k \in Kinds PROVE HeldOf(q, k)'
  <2>1. HeldOf(q, k) /\ (OwnsAd(q)' <=> OwnsAd(q))
    BY <1>7 DEF TypeInv, HeldInv, OwnsAd
  <2>2. CASE q = r /\ k = kind
    BY <1>1, <1>2, <1>3, <1>7, <1>9, <2>1, <2>2 DEF HeldOf, Inserts, Open
  <2>3. CASE q = r /\ k # kind
    <3>1. k # "snapshot" \/ ~Wrote(q, k)
      BY <1>3, <2>1, <2>3 DEF HeldOf
    <3> QED BY <1>1, <1>2, <1>3, <1>7, <1>8, <2>1, <2>3, <3>1 DEF HeldOf, Inserts, Open
  <2>4. CASE q # r
    BY <1>2, <1>3, <1>7, <1>8, <2>1, <2>4 DEF HeldOf, Inserts
  <2> QED BY <2>2, <2>3, <2>4
<1>12. HeldInv'
  BY <1>10, <1>11 DEF HeldInv, OneHolder
<1>13. OwnInv'
  BY <1>1, <1>2, <1>7 DEF TypeInv, OwnInv, OwnOf, OwnsAd, Open
<1> QED BY <1>4, <1>5, <1>6, <1>12, <1>13 DEF TypeInv

\* The rows of its own ad, after their flush.
LEMMA FlushOwnWrites ==
  ASSUME TypeInv, NEW r \in Runs, FlushOwn(r)
  PROVE  \E l \in Local, kind \in AdKinds, new \in Row :
           /\ kind = Kind(r) /\ new = Assigned(r)
           /\ run' = [run EXCEPT ![r] = l]
           /\ l.at \in {"read", "complete"} /\ l.change = run[r].change
           /\ l.own[kind] = new /\ \A k \in AdKinds \ {kind} : l.own[k] = run[r].own[k]
           /\ new.ver > 0 /\ new.stamp = r /\ l.own["ad"] # NoRow
           /\ l.made = run[r].made \cup {kind}
           /\ run[r].at = "flush"
<1>1. PICK l \in Local :
        /\ run' = [run EXCEPT ![r] = l]
        /\ l.at \in {"read", "complete"} /\ l.change = run[r].change
        /\ Kind(r) \in AdKinds
        /\ l.own = [run[r].own EXCEPT ![Kind(r)] = Assigned(r)]
        /\ l.made = run[r].made \cup {Kind(r)}
  BY FlushOwnGoes DEF TypeInv
<1> PICK kind \in AdKinds, new \in Row : kind = Kind(r) /\ new = Assigned(r)
  BY <1>1, AssignedGoes DEF TypeInv
<1>2. run[r].at = "flush" /\ (kind = "ad" \/ OwnsAd(r))
  BY DEF FlushOwn, Unshared, Own
<1>3. new.ver > 0 /\ new.stamp = r
  <2>1. run[r].raw > 0
    BY <1>2 DEF TypeInv, ReadInv, ReadOf
  <2>2. kind # "asset"
    BY DEF AdKinds
  <2> QED BY <2>1, <2>2, AssignedGoes DEF TypeInv
<1>4. run[r].own \in [AdKinds -> Row] /\ "ad" \in AdKinds
  BY DEF TypeInv, TypeOK, Local, AdKinds
<1>5. l.own[kind] = new /\ \A k \in AdKinds \ {kind} : l.own[k] = run[r].own[k]
  BY <1>1, <1>4
<1>6. l.own["ad"] # NoRow
  BY <1>2, <1>3, <1>4, <1>5, Constants DEF OwnsAd
<1> QED BY <1>1, <1>2, <1>3, <1>5, <1>6

LEMMA FlushOwnKeeps ==
  ASSUME TypeInv, NEW r \in Runs, FlushOwn(r)
  PROVE  TypeInv'
<1>1. PICK l \in Local, kind \in AdKinds, new \in Row :
        /\ kind = Kind(r) /\ new = Assigned(r)
        /\ run' = [run EXCEPT ![r] = l]
        /\ l.at \in {"read", "complete"} /\ l.change = run[r].change
        /\ l.own[kind] = new /\ \A k \in AdKinds \ {kind} : l.own[k] = run[r].own[k]
        /\ new.ver > 0 /\ new.stamp = r /\ l.own["ad"] # NoRow
        /\ l.made = run[r].made \cup {kind}
        /\ run[r].at = "flush"
  BY FlushOwnWrites
<1>2. run' \in [Runs -> Local] /\ run'[r] = l /\ \A q \in Runs \ {r} : run'[q] = run[q]
  BY <1>1, OthersStay DEF TypeInv
<1>3. UNCHANGED <<meta, listed, row, status, created, overlooked, twins>>
  BY DEF FlushOwn
<1>4. TypeOK'
  BY <1>2, <1>3 DEF TypeInv, TypeOK
<1>5. RowInv'
  <2>1. ASSUME NEW k \in Kinds, row[k].stamp # NoRun PROVE run'[row[k].stamp].at = "done"
    <3>1. row[k].stamp \in Runs /\ run[row[k].stamp].at = "done"
      BY <2>1 DEF TypeInv, TypeOK, Row, RowInv
    <3> QED BY <1>1, <1>2, <3>1
  <2> QED BY <1>3, <2>1 DEF TypeInv, RowInv
<1>6. ReadInv'
  <2>1. ReadOf(run[r], r)'
    BY <1>1, <1>2 DEF ReadOf
  <2>2. ASSUME NEW q \in Runs \ {r} PROVE ReadOf(run[q], q)'
    BY <1>2, <1>3 DEF TypeInv, ReadInv, ReadOf, AdOf
  <2> QED BY <2>1, <2>2 DEF ReadInv
<1>7. \A q \in Runs, k \in Kinds : /\ run'[q].change[k] = run[q].change[k]
                                   /\ Wrote(q, k)' <=> Wrote(q, k)
                                   /\ Holds(q, k)' <=> Holds(q, k)
  <2>1. \A q \in Runs : run'[q].change = run[q].change
    BY <1>1, <1>2
  <2> QED BY <2>1 DEF Wrote, Holds
<1>8. ASSUME NEW q \in Runs, NEW k \in Kinds PROVE HeldOf(q, k)'
  <2>1. HeldOf(q, k)
    BY DEF TypeInv, HeldInv
  <2>2. CASE q = r
    <3>1. k # "snapshot" \/ ~Wrote(q, k)
      BY <1>1, <2>1, <2>2 DEF HeldOf
    <3> QED BY <1>1, <1>2, <1>3, <1>7, <2>1, <2>2, <3>1 DEF HeldOf, Inserts, Open
  <2>3. CASE q # r
    BY <1>2, <1>3, <1>7, <2>1, <2>3 DEF HeldOf, Inserts, OwnsAd
  <2> QED BY <2>2, <2>3
<1>9. HeldInv'
  BY <1>7, <1>8 DEF TypeInv, HeldInv, OneHolder
<1>10. OwnInv'
  BY <1>1, <1>2 DEF TypeInv, OwnInv, OwnOf, OwnsAd, Open
<1> QED BY <1>4, <1>5, <1>6, <1>9, <1>10 DEF TypeInv

\* The end of a transaction, with or without a commit, leaves the sync nothing to write,
\* and a row that another inserts is still not there.
LEMMA OverGoes ==
  ASSUME TypeInv, NEW r \in Runs, NEW place \in {"done", "dead"},
         run' = [run EXCEPT ![r] = Ended(r, place)],
         \A k \in Kinds : row[k].ver > 0 => row'[k].ver > 0,
         \A q \in Runs \ {r}, k \in Kinds : Wrote(q, k) /\ Inserts(q, k) => row'[k] = row[k]
  PROVE  /\ run' \in [Runs -> Local] /\ ReadInv' /\ HeldInv' /\ OwnInv'
         /\ run'[r].at = place /\ run'[r].made = {} /\ run'[r].own = NoOwn
         /\ \A k \in Kinds : ~Wrote(r, k)'
         /\ \A q \in Runs \ {r} : run'[q] = run[q]
<1> DEFINE l == Ended(r, place)
<1>1. /\ l \in Local /\ l.at = place /\ l.own = NoOwn
      /\ l.change = [k \in Kinds |-> NoChange] /\ l.made = {}
  BY EndedGoes DEF TypeInv, Places
<1>2. run' = [run EXCEPT ![r] = l]
  OBVIOUS
<1> HIDE DEF l
<1>3. run' \in [Runs -> Local] /\ run'[r] = l /\ \A q \in Runs \ {r} : run'[q] = run[q]
  BY <1>1, <1>2, OthersStay DEF TypeInv
<1>4. "ad" \in Kinds /\ \A q \in Runs : Order[run[q].step] \in Kinds
  BY KindsFact DEF TypeInv, TypeOK, Local
<1>5. ReadInv'
  <2>1. ReadOf(run[r], r)'
    BY <1>1, <1>3 DEF ReadOf
  <2>2. ASSUME NEW q \in Runs \ {r} PROVE ReadOf(run[q], q)'
    BY <1>3, <1>4 DEF TypeInv, ReadInv, ReadOf, AdOf
  <2> QED BY <2>1, <2>2 DEF ReadInv
<1>6. \A k \in Kinds : ~Wrote(r, k)' /\ ~Holds(r, k)'
  BY <1>1, <1>3, Constants DEF Wrote, Holds
<1>7. \A q \in Runs \ {r}, k \in Kinds :
        (Wrote(q, k)' <=> Wrote(q, k)) /\ (Holds(q, k)' <=> Holds(q, k))
  BY <1>3 DEF Wrote, Holds
<1>8. ASSUME NEW q \in Runs, NEW k \in Kinds PROVE HeldOf(q, k)'
  <2>1. CASE q = r
    BY <1>6, <2>1 DEF HeldOf
  <2>2. CASE q # r
    <3>1. HeldOf(q, k)
      BY DEF TypeInv, HeldInv
    <3>2. Wrote(q, k) /\ Inserts(q, k) => Inserts(q, k)'
      BY <1>3, <2>2 DEF Inserts
    <3> QED BY <1>3, <1>4, <1>7, <2>2, <3>1, <3>2 DEF HeldOf, OwnsAd
  <2> QED BY <2>1, <2>2
<1>9. HeldInv'
  BY <1>6, <1>7, <1>8 DEF TypeInv, HeldInv, OneHolder
<1>10. OwnInv'
  BY <1>1, <1>3, Constants DEF TypeInv, OwnInv, OwnOf, OwnsAd
<1> QED BY <1>1, <1>3, <1>5, <1>6, <1>9, <1>10

\* A commit does not touch a row that another sync is inserting.
LEMMA InsertsApart ==
  ASSUME TypeInv, NEW r \in Runs, Committing(r), NEW q \in Runs \ {r}, NEW k \in Kinds,
         Wrote(q, k), Inserts(q, k)
  PROVE  row'[k] = row[k]
<1>1. HeldOf(q, k)
  BY DEF TypeInv, HeldInv
<1>2. Holds(q, k)
  BY <1>1, Constants DEF HeldOf, Inserts, Holds
<1>3. ~Holds(r, k)
  BY <1>2 DEF TypeInv, HeldInv, OneHolder
<1>4. ~(IsFirst(r) /\ k \in AdKinds)
  BY <1>1, Constants DEF HeldOf, IsFirst
<1> QED BY <1>3, <1>4, RowGoes

LEMMA CommitKeeps ==
  ASSUME TypeInv, NEW r \in Runs, Committing(r)
  PROVE  TypeInv'
<1>1. PICK result \in {"success", "failed"} :
        /\ row' = [k \in Kinds |-> IF IsFirst(r) /\ k \in AdKinds THEN run[r].own[k]
                                  ELSE Written(row[k], run[r].change[k])]
        /\ twins' = IF OwnsAd(r) /\ ~IsFirst(r) THEN twins \cup {r} ELSE twins
        /\ created' = [created EXCEPT ![r] = run[r].made]
        /\ status' = [status EXCEPT ![r] = result]
        /\ run' = [run EXCEPT ![r] = Ended(r, "done")]
        /\ UNCHANGED <<meta, listed, overlooked>>
  BY CommitGoes DEF TypeInv
<1>2. \A k \in Kinds : /\ row'[k] \in Row /\ (row[k].ver > 0 => row'[k].ver > 0)
                       /\ row'[k].ver = 0 => row'[k] = NoRow
                       /\ row'[k].stamp \in {row[k].stamp, r, NoRun}
  BY RowGoes
<1>3. /\ run' \in [Runs -> Local] /\ ReadInv' /\ HeldInv' /\ OwnInv' /\ run'[r].at = "done"
      /\ \A q \in Runs \ {r} : run'[q] = run[q]
  BY <1>1, <1>2, OverGoes, InsertsApart
<1>4. TypeOK'
  <2>1. row' \in [Kinds -> Row]
    BY <1>1, <1>2
  <2>2. run[r].made \in SUBSET Kinds
    BY DEF TypeInv, TypeOK, Local
  <2>3. created' \in [Runs -> SUBSET Kinds] /\ status' \in [Runs -> Statuses]
    BY <1>1, <2>2 DEF TypeInv, TypeOK, Statuses
  <2>4. twins' \subseteq Runs
    BY <1>1 DEF TypeInv, TypeOK
  <2> QED BY <1>1, <1>3, <2>1, <2>3, <2>4 DEF TypeInv, TypeOK
<1>5. RowInv'
  <2>1. ASSUME NEW k \in Kinds, row'[k].stamp # NoRun PROVE run'[row'[k].stamp].at = "done"
    <3>1. CASE row'[k].stamp = r
      BY <1>3, <3>1
    <3>2. CASE row'[k].stamp # r
      <4>1. row'[k].stamp = row[k].stamp /\ row[k].stamp \in Runs
        BY <1>2, <2>1, <3>2 DEF TypeInv, TypeOK, Row
      <4> QED BY <1>3, <2>1, <3>2, <4>1 DEF TypeInv, RowInv
    <3> QED BY <3>1, <3>2
  <2>2. ASSUME row'["ad"].ver = 0 PROVE row'["snapshot"].ver = 0 /\ twins' = {}
    <3>1. "ad" \in Kinds /\ "snapshot" \in Kinds /\ "ad" \in AdKinds
      BY KindsFact DEF AdKinds
    <3>2. row["ad"].ver = 0
      <4>1. row["ad"].ver \in Nat
        BY <3>1, MetaImportAssumption DEF TypeInv, TypeOK, Row
      <4> QED BY <1>2, <2>2, <3>1, <4>1
    <3>3. row["snapshot"].ver = 0 /\ twins = {} /\ row["ad"] = NoRow
      BY <3>1, <3>2 DEF TypeInv, RowInv
    <3>4. ~OwnsAd(r)
      <4>1. IsFirst(r) => run[r].own["ad"].ver > 0 /\ row'["ad"] = run[r].own["ad"]
        BY <3>1, RowGoes DEF TypeInv, OwnInv, OwnOf, IsFirst, OwnsAd
      <4> QED BY <2>2, <3>3, <4>1 DEF IsFirst
    <3>5. ~Wrote(r, "snapshot")
      BY <3>1, <3>2 DEF TypeInv, HeldInv, HeldOf, AdKinds
    <3>6. row'["snapshot"] = row["snapshot"]
      BY <3>1, <3>4, <3>5, RowGoes, HoldsWrote DEF IsFirst
    <3> QED BY <1>1, <3>3, <3>4, <3>6
  <2> QED BY <1>2, <2>1, <2>2 DEF RowInv
<1> QED BY <1>3, <1>4, <1>5 DEF TypeInv

LEMMA EndingKeeps ==
  ASSUME TypeInv, NEW r \in Runs, Ending(r)
  PROVE  TypeInv'
<1>1. /\ run[r].at \in Open /\ run' = [run EXCEPT ![r] = Ended(r, "dead")]
      /\ UNCHANGED <<meta, listed, row, status, created, overlooked, twins>>
  BY EndingGoes DEF TypeInv
<1>2. /\ run' \in [Runs -> Local] /\ ReadInv' /\ HeldInv' /\ OwnInv'
      /\ \A q \in Runs \ {r} : run'[q] = run[q]
  BY <1>1, OverGoes
<1>3. TypeOK'
  BY <1>1, <1>2 DEF TypeInv, TypeOK
<1>4. RowInv'
  <2>1. ASSUME NEW k \in Kinds, row[k].stamp # NoRun PROVE run'[row[k].stamp].at = "done"
    <3>1. row[k].stamp \in Runs /\ run[row[k].stamp].at = "done"
      BY <2>1 DEF TypeInv, TypeOK, Row, RowInv
    <3> QED BY <1>1, <1>2, <3>1 DEF Open
  <2> QED BY <1>1, <2>1 DEF TypeInv, RowInv
<1> QED BY <1>2, <1>3, <1>4 DEF TypeInv

\* Only the data at Meta changes.
LEMMA RestKeeps ==
  ASSUME TypeInv, UNCHANGED <<listed, row, status, created, overlooked, twins, run>>,
         meta' \in 1..MaxVersion
  PROVE  TypeInv'
<1>1. TypeOK'
  BY DEF TypeInv, TypeOK
<1>2. RowInv' /\ ReadInv'
  BY DEF TypeInv, RowInv, ReadInv, ReadOf, AdOf
<1>3. HeldInv' /\ OwnInv'
  BY DEF TypeInv, HeldInv, HeldOf, OneHolder, Holds, Wrote, Inserts, OwnInv, OwnOf, OwnsAd
<1> QED BY <1>1, <1>2, <1>3 DEF TypeInv

LEMMA TypeStep == ASSUME TypeInv, [Next]_vars PROVE TypeInv'
<1>1. CASE MetaChanges
  <2>1. /\ UNCHANGED <<listed, row, status, created, overlooked, twins, run>>
        /\ meta' \in 1..MaxVersion
    BY <1>1, MetaImportAssumption DEF MetaChanges, TypeInv, TypeOK
  <2> QED BY <2>1, RestKeeps
<1>2. CASE UNCHANGED vars
  <2>1. UNCHANGED <<listed, row, status, created, overlooked, twins, run, meta>>
    BY <1>2 DEF vars
  <2> QED BY <2>1, RestKeeps DEF TypeInv, TypeOK
<1> QED BY <1>1, <1>2, StepCases, ReadingKeeps, FlushKeeps, FlushOwnKeeps, CommitKeeps,
           EndingKeeps

\* Every variable keeps its type: the service never reads a kind that is not in the
\* order of the import, and a commit leaves whole rows.
THEOREM TypeCorrect == Spec => []TypeOK
<1>1. Init => TypeInv
  BY TypeInit
<1>2. TypeInv /\ [Next]_vars => TypeInv'
  BY TypeStep
<1>3. TypeInv => TypeOK
  BY DEF TypeInv
<1> QED BY <1>1, <1>2, <1>3, PTL DEF Spec

\* While syncs overlap, at most one of them has an uncommitted change of a row that a
\* unique constraint or a row lock guards (MetaImportService._upsert_*): every row but
\* that of an ad a sync inserts itself, and of its snapshot.
THEOREM OneWriter == Spec => []OneHolder
<1>1. Init => TypeInv
  BY TypeInit
<1>2. TypeInv /\ [Next]_vars => TypeInv'
  BY TypeStep
<1>3. TypeInv => OneHolder
  BY DEF TypeInv, HeldInv
<1> QED BY <1>1, <1>2, <1>3, PTL DEF Spec

-----------------------------------------------------------------------------
(* Every row is counted by the sync that created it.                        *)

Settled == {"success", "failed"}

\* Only a sync that is over has a final status, counters in its MetaSyncRun row or a second
\* row of the ad.
SettledInv ==
  \A r \in Runs : status[r] \in Settled \/ created[r] # {} \/ r \in twins => run[r].at = "done"

\* A sync counts the rows it is inserting, and no other.
MadeInv ==
  \A r \in Runs, k \in Kinds :
    k \in run[r].made <=>
      \/ k # "account" /\ Wrote(r, k) /\ row[k].ver = 0
      \/ k \in AdKinds /\ run[r].own[k] # NoRow

\* The first part of RowsAccounted.
CountInv ==
  \A k \in Kinds \ {"account"} :
    /\ \A r, q \in Creators(k) : r = q
    /\ row[k].ver > 0 <=> Creators(k) # {}
    /\ row[k].stamp # NoRun => status[row[k].stamp] \in Settled

AccountInv == TypeInv /\ SettledInv /\ MadeInv /\ CountInv

LEMMA AccountInit == ASSUME Init PROVE AccountInv
<1>1. \A place : Start(place).at = place /\ Start(place).made = {} /\ Start(place).own = NoOwn
                 /\ Start(place).change = [k \in Kinds |-> NoChange]
  BY DEF Start
<1>2. PICK imported \in BOOLEAN :
        /\ row = [k \in Kinds |-> IF imported THEN Imported(k) ELSE NoRow]
        /\ status = [r \in Runs |-> IF r # Earlier THEN "none"
                                     ELSE IF imported THEN "success" ELSE "running"]
        /\ created = [r \in Runs |-> IF r = Earlier /\ imported THEN Kinds \ {"account"} ELSE {}]
        /\ run = [r \in Runs |-> Start(IF r # Earlier THEN "new"
                                        ELSE IF imported THEN "done" ELSE "dead")]
  BY DEF Init
<1>3. SettledInv
  BY <1>1, <1>2 DEF SettledInv, Settled, Init
<1>4. MadeInv
  BY <1>1, <1>2, Constants DEF MadeInv, Wrote
<1>5. \A k \in Kinds \ {"account"} : /\ Imported(k).ver > 0
                                     /\ Imported(k).stamp \in {Earlier, NoRun}
  BY DEF Imported
<1>6. ASSUME NEW k \in Kinds \ {"account"}
      PROVE  Creators(k) = IF imported THEN {Earlier} ELSE {}
  BY <1>2, MetaImportAssumption DEF Creators, Init
<1>7. CountInv
  BY <1>2, <1>5, <1>6, Constants, MetaImportAssumption DEF CountInv, Settled
<1> QED BY <1>3, <1>4, <1>7, TypeInit DEF AccountInv

LEMMA ReadingAccounts ==
  ASSUME AccountInv, NEW r \in Runs, StartOrRead(r)
  PROVE  SettledInv' /\ MadeInv' /\ CountInv'
<1>1. PICK l \in Local :
        /\ run' = [run EXCEPT ![r] = l]
        /\ run[r].at \in Open \cup {"new"} /\ l.at \in Open
        /\ l.change = run[r].change /\ l.made = run[r].made /\ l.own = run[r].own
  BY ReadingGoes DEF StartOrRead, AccountInv
<1>2. run'[r] = l /\ \A q \in Runs \ {r} : run'[q] = run[q]
  BY <1>1, OthersStay DEF AccountInv, TypeInv
<1>3. row' = row /\ created' = created /\ twins' = twins
  BY DEF StartOrRead, CreateRun, ReadAccount, ReadPage, Overlook, FindsTwins, ReadFails, Select
<1>4. /\ run[r].at # "done"
      /\ \/ status' = status
         \/ run[r].at = "new" /\ status' = [status EXCEPT ![r] = "running"]
  <2>1. run[r].at # "done"
    BY <1>1 DEF Open
  <2> QED BY <2>1 DEF StartOrRead, CreateRun, ReadAccount, ReadPage, Overlook, FindsTwins,
                      ReadFails, Select
<1>5. status[r] \notin Settled /\ \A q \in Runs : (status[q] \in Settled) <=> (status'[q] \in Settled)
  <2>1. status[r] \notin Settled /\ status \in [Runs -> Statuses]
    BY <1>4 DEF AccountInv, SettledInv, TypeInv, TypeOK
  <2> QED BY <1>4, <2>1 DEF Settled
<1>6. SettledInv'
  BY <1>2, <1>3, <1>4, <1>5 DEF AccountInv, SettledInv
<1>7. MadeInv'
  BY <1>1, <1>2, <1>3 DEF AccountInv, MadeInv, Wrote
<1>8. \A k \in Kinds : row[k].stamp \in Runs \cup {NoRun}
  BY DEF AccountInv, TypeInv, TypeOK, Row
<1>9. CountInv'
  BY <1>3, <1>5, <1>8 DEF AccountInv, CountInv, Creators
<1> QED BY <1>6, <1>7, <1>9

LEMMA FlushAccounts ==
  ASSUME AccountInv, NEW r \in Runs, FlushRow(r)
  PROVE  SettledInv' /\ MadeInv' /\ CountInv'
<1> PICK kind \in Kinds : kind = Kind(r)
  BY KindType DEF AccountInv, TypeInv
<1>1. PICK l \in Local, c \in Change :
        /\ run' = [run EXCEPT ![r] = l]
        /\ l.at \in {"read", "complete"} /\ l.own = run[r].own
        /\ \A k \in Kinds : l.change[k] = IF k = kind THEN c ELSE run[r].change[k]
        /\ c # NoChange
        /\ (c.old = NoRow /\ row[kind].ver = 0) \/ row[kind].ver > 0
        /\ kind \in AdKinds => row["ad"].ver > 0
        /\ kind = "snapshot" => ~OwnsAd(r)
        /\ IF c.old = NoRow /\ row[kind].ver = 0 /\ kind # "account"
           THEN l.made = run[r].made \cup {kind}
           ELSE l.made = run[r].made
  BY FlushWrites DEF AccountInv
<1>2. run'[r] = l /\ \A q \in Runs \ {r} : run'[q] = run[q]
  BY <1>1, OthersStay DEF AccountInv, TypeInv
<1>3. UNCHANGED <<row, status, created, twins>> /\ run[r].at = "flush"
  BY DEF FlushRow
<1>4. SettledInv'
  BY <1>2, <1>3 DEF AccountInv, SettledInv
<1>6. \A k \in Kinds : row[k].ver \in Nat
  BY MetaImportAssumption DEF AccountInv, TypeInv, TypeOK, Row
<1>7. ASSUME NEW k \in Kinds
      PROVE  k \in run[r].made <=> \/ k # "account" /\ run[r].change[k] # NoChange /\ row[k].ver = 0
                                   \/ k \in AdKinds /\ run[r].own[k] # NoRow
  BY DEF AccountInv, MadeInv, Wrote
<1>8. ASSUME NEW k \in Kinds
      PROVE  k \in l.made <=> \/ k # "account" /\ l.change[k] # NoChange /\ row[k].ver = 0
                              \/ k \in AdKinds /\ run[r].own[k] # NoRow
  <2>1. CASE k = kind
    <3>1. (row[kind].ver = 0 /\ c.old = NoRow) \/ (row[kind].ver > 0 /\ row[kind].ver # 0)
      BY <1>1, <1>6
    <3>2. l.change[k] = c
      BY <1>1, <2>1
    <3>3. CASE row[kind].ver = 0 /\ c.old = NoRow
      BY <1>1, <1>7, <2>1, <3>2, <3>3
    <3>4. CASE row[kind].ver > 0 /\ row[kind].ver # 0
      BY <1>1, <1>7, <2>1, <3>2, <3>4
    <3> QED BY <3>1, <3>3, <3>4
  <2>2. CASE k # kind
    <3>1. l.change[k] = run[r].change[k] /\ (k \in l.made <=> k \in run[r].made)
      BY <1>1, <2>2
    <3> QED BY <1>7, <3>1
  <2> QED BY <2>1, <2>2
<1>9. MadeInv'
  <2>1. ASSUME NEW q \in Runs, NEW k \in Kinds
        PROVE  k \in run'[q].made <=>
                 \/ k # "account" /\ run'[q].change[k] # NoChange /\ row'[k].ver = 0
                 \/ k \in AdKinds /\ run'[q].own[k] # NoRow
    <3>1. CASE q = r
      BY <1>1, <1>2, <1>3, <1>8, <3>1
    <3>2. CASE q # r
      BY <1>2, <1>3, <3>2 DEF AccountInv, MadeInv, Wrote
    <3> QED BY <3>1, <3>2
  <2> QED BY <2>1 DEF MadeInv, Wrote
<1>10. CountInv'
  BY <1>3 DEF AccountInv, CountInv, Creators
<1> QED BY <1>4, <1>9, <1>10

LEMMA FlushOwnAccounts ==
  ASSUME AccountInv, NEW r \in Runs, FlushOwn(r)
  PROVE  SettledInv' /\ MadeInv' /\ CountInv'
<1>1. PICK l \in Local, kind \in AdKinds, new \in Row :
        /\ run' = [run EXCEPT ![r] = l]
        /\ l.change = run[r].change
        /\ l.own[kind] = new /\ \A k \in AdKinds \ {kind} : l.own[k] = run[r].own[k]
        /\ new.ver > 0
        /\ l.made = run[r].made \cup {kind}
        /\ run[r].at = "flush"
  BY FlushOwnWrites DEF AccountInv
<1>2. run'[r] = l /\ \A q \in Runs \ {r} : run'[q] = run[q]
  BY <1>1, OthersStay DEF AccountInv, TypeInv
<1>3. UNCHANGED <<row, status, created, twins>> /\ new # NoRow
  BY <1>1, Constants DEF FlushOwn
<1>4. SettledInv'
  BY <1>1, <1>2, <1>3 DEF AccountInv, SettledInv
<1>5. ASSUME NEW q \in Runs, NEW k \in Kinds
      PROVE  k \in run'[q].made <=>
               \/ k # "account" /\ run'[q].change[k] # NoChange /\ row'[k].ver = 0
               \/ k \in AdKinds /\ run'[q].own[k] # NoRow
  <2>1. k \in run[q].made <=> \/ k # "account" /\ run[q].change[k] # NoChange /\ row[k].ver = 0
                              \/ k \in AdKinds /\ run[q].own[k] # NoRow
    BY DEF AccountInv, MadeInv, Wrote
  <2>2. CASE q = r /\ k = kind
    BY <1>1, <1>2, <1>3, <2>2
  <2>3. CASE q = r /\ k # kind
    BY <1>1, <1>2, <1>3, <2>1, <2>3
  <2>4. CASE q # r
    BY <1>2, <1>3, <2>1, <2>4
  <2> QED BY <2>2, <2>3, <2>4
<1>6. MadeInv'
  BY <1>5 DEF MadeInv, Wrote
<1>7. CountInv'
  BY <1>3 DEF AccountInv, CountInv, Creators
<1> QED BY <1>4, <1>6, <1>7

LEMMA CommitAccounts ==
  ASSUME AccountInv, NEW r \in Runs, Committing(r)
  PROVE  SettledInv' /\ MadeInv' /\ CountInv'
<1>1. PICK result \in Settled :
        /\ created' = [created EXCEPT ![r] = run[r].made]
        /\ twins' = IF OwnsAd(r) /\ ~IsFirst(r) THEN twins \cup {r} ELSE twins
        /\ status' = [status EXCEPT ![r] = result]
        /\ run' = [run EXCEPT ![r] = Ended(r, "done")]
        /\ run[r].at \in {"complete", "failing"}
  BY CommitGoes DEF AccountInv, TypeInv, Settled
<1>2. \A k \in Kinds :
        /\ row'[k] \in Row
        /\ row[k].ver > 0 => row'[k].ver > 0
        /\ Wrote(r, k) => row'[k].ver > 0
        /\ row'[k].stamp \in {row[k].stamp, r, NoRun}
        /\ IsFirst(r) /\ k \in AdKinds =>
             row'[k] = run[r].own[k] /\ row[k] = NoRow /\ ~Wrote(r, k)
        /\ ~(IsFirst(r) /\ k \in AdKinds) /\ ~Holds(r, k) => row'[k] = row[k]
  BY RowGoes DEF AccountInv
<1>3. /\ run'[r].at = "done" /\ run'[r].made = {} /\ run'[r].own = NoOwn
      /\ \A k \in Kinds : ~Wrote(r, k)'
      /\ \A q \in Runs \ {r} : run'[q] = run[q]
  BY <1>1, <1>2, OverGoes, InsertsApart DEF AccountInv
<1>4. /\ created'[r] = run[r].made /\ status'[r] \in Settled
      /\ \A q \in Runs \ {r} : created'[q] = created[q] /\ status'[q] = status[q]
  BY <1>1 DEF AccountInv, TypeInv, TypeOK
<1>5. created[r] = {}
  BY <1>1 DEF AccountInv, SettledInv
<1>6. SettledInv'
  BY <1>1, <1>3, <1>4 DEF AccountInv, SettledInv
<1>7. ASSUME NEW q \in Runs, NEW k \in Kinds
      PROVE  k \in run'[q].made <=> \/ k # "account" /\ Wrote(q, k)' /\ row'[k].ver = 0
                                    \/ k \in AdKinds /\ run'[q].own[k] # NoRow
  <2>1. CASE q = r
    BY <1>3, <2>1, Constants
  <2>2. CASE q # r
    <3>1. run'[q] = run[q] /\ (Wrote(q, k)' <=> Wrote(q, k))
      BY <1>3, <2>2 DEF Wrote
    <3>2. Wrote(q, k) => (row'[k].ver = 0 <=> row[k].ver = 0)
      <4>1. row[k].ver \in Nat /\ row'[k].ver \in Nat
        BY <1>2, MetaImportAssumption DEF AccountInv, TypeInv, TypeOK, Row
      <4>2. Wrote(q, k) => Inserts(q, k) \/ row[k].ver > 0
        BY DEF AccountInv, TypeInv, HeldInv, HeldOf
      <4>3. Wrote(q, k) /\ Inserts(q, k) => row'[k] = row[k]
        BY <2>2, InsertsApart DEF AccountInv
      <4> QED BY <1>2, <4>1, <4>2, <4>3
    <3> QED BY <3>1, <3>2 DEF AccountInv, MadeInv
  <2> QED BY <2>1, <2>2
<1>8. MadeInv'
  BY <1>7 DEF MadeInv
<1>9. ASSUME NEW k \in Kinds \ {"account"}
      PROVE  /\ \A p, q \in Creators(k)' : p = q
             /\ row'[k].ver > 0 <=> Creators(k)' # {}
             /\ row'[k].stamp # NoRun => status'[row'[k].stamp] \in Settled
  <2>1. /\ \A p, q \in Creators(k) : p = q
        /\ row[k].ver > 0 <=> Creators(k) # {}
        /\ row[k].stamp # NoRun => status[row[k].stamp] \in Settled
    BY DEF AccountInv, CountInv
  <2>2. row[k].ver \in Nat /\ row[k].stamp \in Runs \cup {NoRun} /\ row'[k].ver \in Nat
    BY <1>2, MetaImportAssumption DEF AccountInv, TypeInv, TypeOK, Row
  <2>3. k \in run[r].made <=> \/ Wrote(r, k) /\ row[k].ver = 0
                              \/ k \in AdKinds /\ run[r].own[k] # NoRow
    BY DEF AccountInv, MadeInv
  <2>4. row'[k].stamp # NoRun => status'[row'[k].stamp] \in Settled
    BY <1>2, <1>4, <2>1, <2>2
  <2>5. ASSUME NEW q \in Runs \ {r} PROVE q \in Creators(k)' <=> q \in Creators(k)
    BY <1>1, <1>4 DEF Creators
  <2>6. r \notin Creators(k)
    BY <1>5 DEF Creators
  <2>7. r \in Creators(k)' <=> k \in run[r].made /\ ~(k \in AdKinds /\ r \in twins')
    BY <1>4 DEF Creators
  <2>8. r \in twins => ~OwnsAd(r) \/ ~IsFirst(r) \/ k \notin AdKinds
    <3>1. IsFirst(r) => row["ad"].ver = 0
      BY Constants DEF IsFirst
    <3> QED BY <3>1 DEF AccountInv, TypeInv, RowInv
  <2>9. r \in Creators(k)' <=> row[k].ver = 0 /\ row'[k].ver > 0
    <3>1. CASE IsFirst(r) /\ k \in AdKinds
      <4>1. OwnsAd(r) /\ row[k].ver = 0 /\ row'[k] = run[r].own[k] /\ ~Wrote(r, k)
        BY <1>2, <3>1, Constants DEF IsFirst
      <4>2. r \notin twins'
        BY <1>1, <2>8, <3>1, <4>1
      <4>3. run[r].own[k] # NoRow <=> row'[k].ver > 0
        BY <3>1, <4>1, Constants DEF AccountInv, TypeInv, OwnInv, OwnOf
      <4> QED BY <2>3, <2>7, <3>1, <4>1, <4>2, <4>3
    <3>2. CASE ~IsFirst(r) /\ k \in AdKinds /\ OwnsAd(r)
      <4>1. r \in twins'
        BY <1>1, <3>2
      <4>2. row[k].ver = 0 => ~Wrote(r, k)
        <5>1. ASSUME Wrote(r, k), row[k].ver = 0 PROVE FALSE
          <6>1. k # "snapshot"
            BY <3>2, <5>1 DEF AccountInv, TypeInv, HeldInv, HeldOf
          <6>2. k = "ad" /\ row["ad"].ver > 0
            BY <3>2, <5>1, <6>1 DEF AdKinds, AccountInv, TypeInv, HeldInv, HeldOf
          <6> QED BY <5>1, <6>2
        <5> QED BY <5>1
      <4>3. ~Wrote(r, k) => row'[k] = row[k]
        BY <1>2, <3>2, HoldsWrote
      <4> QED BY <2>2, <2>7, <3>2, <4>1, <4>2, <4>3
    <3>3. CASE k \notin AdKinds \/ ~OwnsAd(r)
      <4>1. ~(IsFirst(r) /\ k \in AdKinds)
        BY <3>3 DEF IsFirst
      <4>2. ~(k \in AdKinds /\ run[r].own[k] # NoRow)
        BY <3>3 DEF AccountInv, TypeInv, OwnInv, OwnOf
      <4>3. Wrote(r, k) \/ row'[k] = row[k]
        BY <1>2, <4>1, HoldsWrote
      <4>4. ~(k \in AdKinds /\ Wrote(r, k) /\ row[k].ver = 0 /\ r \in twins')
        <5> SUFFICES ASSUME k \in AdKinds, Wrote(r, k), row[k].ver = 0, r \in twins' PROVE FALSE
          OBVIOUS
        <5>1. k = "snapshot" /\ row["ad"].ver > 0
          BY DEF AdKinds, AccountInv, TypeInv, HeldInv, HeldOf
        <5>2. r \in twins
          BY <1>1, <3>3
        <5> QED BY <1>1, <5>2 DEF AccountInv, SettledInv
      <4> QED BY <1>2, <2>2, <2>3, <2>7, <4>2, <4>3, <4>4
    <3> QED BY <3>1, <3>2, <3>3
  <2>10. row[k].ver > 0 => row'[k].ver > 0
    BY <1>2
  <2>11. Creators(k)' \subseteq Runs /\ Creators(k) \subseteq Runs
    BY DEF Creators
  <2>12. CASE r \in Creators(k)'
    <3>1. row[k].ver = 0 /\ row'[k].ver > 0 /\ Creators(k) = {}
      BY <2>1, <2>2, <2>9, <2>12
    <3>2. \A q \in Creators(k)' : q = r
      BY <2>5, <2>11, <3>1
    <3> QED BY <2>4, <2>12, <3>1, <3>2
  <2>13. CASE r \notin Creators(k)'
    <3>1. Creators(k)' = Creators(k)
      BY <2>5, <2>6, <2>11, <2>13
    <3>2. row'[k].ver > 0 <=> row[k].ver > 0
      BY <2>2, <2>9, <2>10, <2>13
    <3> QED BY <2>1, <2>4, <3>1, <3>2
  <2> QED BY <2>12, <2>13
<1>10. CountInv'
  BY <1>9 DEF CountInv
<1> QED BY <1>6, <1>8, <1>10

LEMMA EndingAccounts ==
  ASSUME AccountInv, NEW r \in Runs, Ending(r)
  PROVE  SettledInv' /\ MadeInv' /\ CountInv'
<1>1. /\ run[r].at \in Open
      /\ run' = [run EXCEPT ![r] = Ended(r, "dead")]
      /\ UNCHANGED <<meta, listed, row, status, created, overlooked, twins>>
  BY EndingGoes DEF AccountInv, TypeInv
<1>2. /\ run'[r].at = "dead" /\ run'[r].made = {} /\ run'[r].own = NoOwn
      /\ \A k \in Kinds : ~Wrote(r, k)'
      /\ \A q \in Runs \ {r} : run'[q] = run[q]
  BY <1>1, OverGoes DEF AccountInv
<1>3. status[r] \notin Settled /\ created[r] = {} /\ r \notin twins
  BY <1>1 DEF AccountInv, SettledInv, Open
<1>4. SettledInv'
  BY <1>1, <1>2, <1>3 DEF AccountInv, SettledInv
<1>5. CountInv'
  BY <1>1 DEF AccountInv, CountInv, Creators
<1>6. MadeInv'
  BY <1>1, <1>2, Constants DEF AccountInv, MadeInv, Wrote
<1> QED BY <1>4, <1>5, <1>6

LEMMA AccountStep == ASSUME AccountInv, [Next]_vars PROVE AccountInv'
<1>1. TypeInv'
  BY TypeStep DEF AccountInv
<1>2. CASE MetaChanges \/ UNCHANGED vars
  <2>1. UNCHANGED <<row, status, created, twins, run>>
    BY <1>2 DEF MetaChanges, vars
  <2> QED BY <1>1, <2>1 DEF AccountInv, SettledInv, MadeInv, CountInv, Creators, Wrote
<1> QED BY <1>1, <1>2, StepCases, ReadingAccounts, FlushAccounts, FlushOwnAccounts,
           CommitAccounts, EndingAccounts DEF AccountInv

-----------------------------------------------------------------------------
(* What a sync has read and written, and in which order.                    *)

\* How many kinds a sync is through with.
PassedBy(l) == IF l.at = "complete" THEN l.step ELSE l.step - 1
Leads(r)    == run[r].at \in Open /\ PassedBy(run[r]) >= 1

\* A kind is written unless the listing, or a listing it depends on, left it out.
Handled(r, k) == \/ Wrote(r, k)
                 \/ k \in AdKinds /\ run[r].own[k] # NoRow
                 \/ k \in overlooked[r]
                 \/ k = "account" /\ ~listed
                 \/ k = "snapshot" /\ "ad" \in overlooked[r]

\* Nothing is newer than the data at Meta, and nothing that a sync has read is older than
\* its beginning.
RowsClock == \A k \in Kinds : row[k].ver <= meta
ClockOf(r) ==
  /\ run[r].began <= meta
  /\ run[r].at \in {"select", "flush"} => run[r].began <= run[r].raw /\ run[r].raw <= meta

\* The kinds come one after another, the account first.
OrderOf(r) ==
  /\ "account" \notin overlooked[r]
  /\ run[r].at = "new" => PassedBy(run[r]) = 0
  /\ run[r].at = "complete" => PassedBy(run[r]) = 6
  /\ run[r].at \in Open => \A i \in 1..PassedBy(run[r]) : Handled(r, Order[i])

\* What a sync has written it has read since it began, with the links it found.
FreshRow(r, new) ==
  /\ Leads(r) /\ run[r].began <= new.ver /\ new.ver <= meta
  /\ overlooked[r] = {} => new.linked
WriteOf(r) ==
  /\ \A k \in Kinds : Wrote(r, k) => FreshRow(r, run[r].change[k].new)
  /\ \A k \in AdKinds : run[r].own[k] # NoRow => FreshRow(r, run[r].own[k])

\* While the account is listed, what the sync that holds its row has read is as new as any
\* committed row, and what it has loaded is what is committed.
HolderOf(r) ==
  listed =>
    /\ Leads(r) /\ run[r].at \in {"select", "flush"} => run[r].raw >= row[Kind(r)].ver
    /\ Leads(r) /\ run[r].at = "flush" => run[r].loaded = row[Kind(r)]
    /\ \A k \in Kinds \ {"account"} : Wrote(r, k) =>
         /\ run[r].change[k].old = row[k]
         /\ run[r].change[k].new.ver >= row[k].ver
    /\ OwnsAd(r) => row["ad"] = NoRow

\* An ad has no second row as long as the account is listed.
TwinsInv == listed => twins = {}

OrderInv == \A r \in Runs : ClockOf(r) /\ OrderOf(r) /\ WriteOf(r) /\ HolderOf(r)
SyncInv  == TypeInv /\ RowsClock /\ TwinsInv /\ OrderInv

LEMMA PassedType ==
  ASSUME TypeOK, NEW r \in Runs
  PROVE  /\ run[r] \in Local /\ run[r].step \in 1..6 /\ PassedBy(run[r]) \in 0..6
         /\ run[r].at # "complete" => PassedBy(run[r]) = run[r].step - 1
         /\ run[r].raw \in Nat /\ run[r].began \in Nat /\ meta \in Nat
         /\ \A k \in Kinds : row[k].ver \in Nat /\ run[r].change[k].new.ver \in Nat
         /\ \A k \in AdKinds : run[r].own[k].ver \in Nat
<1>1. run[r] \in Local /\ Len(Order) = 6
  BY KindsFact DEF TypeOK
<1>2. run[r].step \in 1..6
  BY <1>1 DEF Local
<1>3. /\ run[r].raw \in Nat /\ run[r].began \in Nat /\ meta \in Nat
  BY <1>1, MetaImportAssumption DEF Local, TypeOK
<1>4. ASSUME NEW k \in Kinds PROVE row[k].ver \in Nat /\ run[r].change[k].new.ver \in Nat
  <2>1. row[k] \in Row /\ run[r].change[k] \in Change
    BY <1>1 DEF TypeOK, Local
  <2> QED BY <2>1, MetaImportAssumption DEF Row, Change
<1>5. \A k \in AdKinds : run[r].own[k].ver \in Nat
  BY <1>1, MetaImportAssumption DEF Local, Row
<1> QED BY <1>1, <1>2, <1>3, <1>4, <1>5 DEF PassedBy

LEMMA AdvancedIs ==
  ASSUME TypeOK, NEW r \in Runs
  PROVE  /\ Advanced(r).began = run[r].began /\ PassedBy(Advanced(r)) = run[r].step
         /\ Advanced(r).at = "complete" => run[r].step = 6
<1>1. run[r] \in Local /\ run[r].step \in 1..6 /\ Len(Order) = 6
  BY PassedType, KindsFact
<1>2. CASE run[r].step = 6
  BY <1>1, <1>2 DEF Advanced, Local, PassedBy
<1>3. CASE run[r].step # 6
  BY <1>1, <1>3 DEF Advanced, Local, PassedBy
<1> QED BY <1>2, <1>3

\* The steps that read, by what they change: a sync begins, is through with a kind that it
\* does not write, or works on one.
Begun(r) == /\ run[r].at = "new" /\ run'[r].at = "read"
            /\ PassedBy(run'[r]) = PassedBy(run[r]) /\ run'[r].began = meta
Skips(r) == /\ run[r].at = "read" /\ run'[r].at \in {"read", "complete"}
            /\ run'[r].began = run[r].began /\ PassedBy(run'[r]) = run[r].step
            /\ run'[r].at = "complete" => run[r].step = 6
            /\ \/ Kind(r) \in overlooked'[r]
               \/ Kind(r) = "account" /\ ~listed
               \/ Kind(r) = "snapshot" /\ ~AdKnown(r)
Works(r) == /\ run[r].at \in Open /\ PassedBy(run'[r]) = PassedBy(run[r])
            /\ run'[r].began = run[r].began
            /\ \/ run'[r].at = "select" /\ run'[r].raw = meta
               \/ run'[r].at = "failing"
               \/ /\ run[r].at = "select" /\ run'[r].at = "flush" /\ run'[r].step = run[r].step
                  /\ run'[r].raw = run[r].raw
                  /\ run'[r].loaded = IF Own(r) THEN NoRow ELSE row[Kind(r)]

LEMMA ReadingIs ==
  ASSUME TypeInv, NEW r \in Runs, StartOrRead(r)
  PROVE  /\ UNCHANGED <<meta, listed, row, created, twins>>
         /\ \A q \in Runs \ {r} : run'[q] = run[q] /\ overlooked'[q] = overlooked[q]
         /\ overlooked[r] \subseteq overlooked'[r]
         /\ overlooked'[r] \subseteq overlooked[r] \cup (Kinds \ {"account"})
         /\ run'[r].change = run[r].change /\ run'[r].own = run[r].own
         /\ Begun(r) \/ Skips(r) \/ Works(r)
<1>1. UNCHANGED <<meta, listed, row, created, twins>>
  BY DEF StartOrRead, CreateRun, ReadAccount, ReadPage, Overlook, FindsTwins, ReadFails, Select
<1>2. /\ run[r] \in Local /\ run[r].step \in 1..6 /\ Kind(r) \in Kinds
      /\ overlooked \in [Runs -> SUBSET Kinds] /\ run \in [Runs -> Local]
  BY PassedType, KindType DEF TypeInv, TypeOK
<1>3. PICK l \in Local : /\ run' = [run EXCEPT ![r] = l]
                        /\ l.change = run[r].change /\ l.own = run[r].own
  BY ReadingGoes DEF StartOrRead
<1>4. run'[r] = l /\ \A q \in Runs \ {r} : run'[q] = run[q]
  BY <1>2, <1>3
<1>5. /\ \A q \in Runs \ {r} : overlooked'[q] = overlooked[q]
      /\ overlooked[r] \subseteq overlooked'[r]
      /\ overlooked'[r] \subseteq overlooked[r] \cup (Kinds \ {"account"})
      /\ Overlook(r) => Kind(r) \in overlooked'[r]
  BY <1>2 DEF StartOrRead, CreateRun, ReadAccount, ReadPage, Overlook, FindsTwins, ReadFails, Select
<1>6. ASSUME run[r].at = "read", run' = [run EXCEPT ![r] = Advanced(r)]
      PROVE  /\ run'[r].at \in {"read", "complete"}
             /\ run'[r].began = run[r].began /\ PassedBy(run'[r]) = run[r].step
             /\ run'[r].at = "complete" => run[r].step = 6
  <2>1. run'[r] = Advanced(r)
    BY <1>2, <1>6
  <2> QED BY <2>1, AdvancedIs, AdvancedGoes DEF TypeInv
<1>7. ASSUME run[r].at = "read", Got(r) PROVE Works(r)
  <2>1. /\ run'[r].at = "select" /\ run'[r].raw = meta /\ run'[r].step = run[r].step
        /\ run'[r].began = run[r].began
    BY <1>2, <1>7 DEF Got, Local
  <2> QED BY <1>7, <2>1 DEF Works, Open, PassedBy
<1>8. CASE CreateRun(r)
  <2>1. /\ run'[r].at = "read" /\ run'[r].began = meta /\ run'[r].step = run[r].step
        /\ run[r].at = "new"
    BY <1>2, <1>8 DEF CreateRun, Local
  <2> QED BY <1>1, <1>3, <1>4, <1>5, <2>1 DEF Begun, PassedBy
<1>9. CASE ReadAccount(r)
  BY <1>1, <1>3, <1>4, <1>5, <1>6, <1>7, <1>9 DEF ReadAccount, Skips
<1>10. CASE ReadPage(r)
  BY <1>1, <1>3, <1>4, <1>5, <1>6, <1>7, <1>10 DEF ReadPage, Skips
<1>11. CASE Overlook(r)
  BY <1>1, <1>3, <1>4, <1>5, <1>6, <1>11 DEF Overlook, Skips
<1>12. CASE FindsTwins(r) \/ ReadFails(r)
  <2>1. /\ run'[r].at = "failing" /\ run'[r].step = run[r].step
        /\ run'[r].began = run[r].began /\ run[r].at \in {"read", "select"}
    BY <1>2, <1>12 DEF FindsTwins, Ambiguous, ReadFails, Local
  <2> QED BY <1>1, <1>3, <1>4, <1>5, <2>1 DEF Works, Open, PassedBy
<1>13. CASE Select(r)
  <2>1. /\ run'[r].at = "flush" /\ run'[r].step = run[r].step /\ run[r].at = "select"
        /\ run'[r].began = run[r].began /\ run'[r].raw = run[r].raw
        /\ run'[r].loaded = IF Own(r) THEN NoRow ELSE row[Kind(r)]
    BY <1>2, <1>13 DEF Select, Local
  <2> QED BY <1>1, <1>3, <1>4, <1>5, <2>1 DEF Works, Open, PassedBy
<1> QED BY <1>8, <1>9, <1>10, <1>11, <1>12, <1>13 DEF StartOrRead

\* A flush, field by field.
LEMMA FlushIs ==
  ASSUME TypeInv, NEW r \in Runs, FlushRow(r)
  PROVE  /\ UNCHANGED <<meta, listed, row, status, created, overlooked, twins>>
         /\ \A q \in Runs \ {r} : run'[q] = run[q]
         /\ run[r].at = "flush" /\ run'[r].at \in {"read", "complete"}
         /\ run'[r].began = run[r].began /\ PassedBy(run'[r]) = run[r].step
         /\ run'[r].at = "complete" => run[r].step = 6
         /\ run'[r].own = run[r].own
         /\ \A k \in Kinds \ {Kind(r)} : run'[r].change[k] = run[r].change[k]
         /\ run'[r].change[Kind(r)] = [old |-> run[r].loaded, new |-> Assigned(r)]
<1> DEFINE a == Advanced(r)
           k == Kind(r)
           c == [old |-> run[r].loaded, new |-> Assigned(r)]
           made == IF IsInsert(r) /\ k # "account" THEN a.made \cup {k} ELSE a.made
           l == [a EXCEPT !.change[k] = c, !.made = made]
<1>1. /\ a \in Local /\ a.at \in {"read", "complete"} /\ a.change = run[r].change
      /\ a.own = run[r].own
      /\ a.began = run[r].began /\ PassedBy(a) = run[r].step
      /\ a.at = "complete" => run[r].step = 6
  BY AdvancedGoes, AdvancedIs DEF TypeInv
<1>2. k \in Kinds /\ a.change \in [Kinds -> Change]
  BY <1>1, KindType DEF TypeInv, Local
<1>3. run' = [run EXCEPT ![r] = l]
  BY DEF FlushRow, Flushed
<1> HIDE DEF a, c, made, k
<1>4. /\ l.at = a.at /\ l.began = a.began /\ l.step = a.step /\ l.own = a.own
      /\ l.change = [a.change EXCEPT ![k] = c]
  BY <1>1 DEF Local
<1> HIDE DEF l
<1>5. run'[r] = l /\ \A q \in Runs \ {r} : run'[q] = run[q]
  BY <1>3 DEF TypeInv, TypeOK
<1>6. /\ \A j \in Kinds \ {k} : l.change[j] = run[r].change[j]
      /\ l.change[k] = c
  BY <1>1, <1>2, <1>4
<1>7. PassedBy(run'[r]) = run[r].step
  BY <1>1, <1>4, <1>5 DEF PassedBy
<1> QED BY <1>1, <1>4, <1>5, <1>6, <1>7 DEF FlushRow, k, c

\* The flush of a row of its own ad, field by field.
LEMMA FlushOwnIs ==
  ASSUME TypeInv, NEW r \in Runs, FlushOwn(r)
  PROVE  /\ UNCHANGED <<meta, listed, row, status, created, overlooked, twins>>
         /\ \A q \in Runs \ {r} : run'[q] = run[q]
         /\ run[r].at = "flush" /\ run'[r].at \in {"read", "complete"}
         /\ run'[r].began = run[r].began /\ PassedBy(run'[r]) = run[r].step
         /\ run'[r].at = "complete" => run[r].step = 6
         /\ run'[r].change = run[r].change
<1> DEFINE a == Advanced(r)
           own == [a.own EXCEPT ![Kind(r)] = Assigned(r)]
           made == a.made \cup {Kind(r)}
           l == [a EXCEPT !.own = own, !.made = made]
<1>1. /\ a \in Local /\ a.at \in {"read", "complete"} /\ a.change = run[r].change
      /\ a.began = run[r].began /\ PassedBy(a) = run[r].step
      /\ a.at = "complete" => run[r].step = 6
  BY AdvancedGoes, AdvancedIs DEF TypeInv
<1>2. run' = [run EXCEPT ![r] = l]
  <2>1. run' = [run EXCEPT ![r] = [a EXCEPT !.own[Kind(r)] = Assigned(r),
                                            !.made = a.made \cup {Kind(r)}]]
    BY DEF FlushOwn
  <2> HIDE DEF a
  <2>2. [a EXCEPT !.own[Kind(r)] = Assigned(r), !.made = made] = l
    BY <1>1 DEF Local
  <2> QED BY <2>1, <2>2
<1> HIDE DEF a, own, made
<1>3. /\ l.at = a.at /\ l.began = a.began /\ l.step = a.step /\ l.change = a.change
  BY <1>1 DEF Local
<1> HIDE DEF l
<1>4. run'[r] = l /\ \A q \in Runs \ {r} : run'[q] = run[q]
  BY <1>2 DEF TypeInv, TypeOK
<1>5. PassedBy(run'[r]) = run[r].step
  BY <1>1, <1>3, <1>4 DEF PassedBy
<1> QED BY <1>1, <1>3, <1>4, <1>5 DEF FlushOwn

\* The end of a transaction.
LEMMA EndedIs ==
  ASSUME TypeInv, NEW r \in Runs, NEW place \in {"done", "dead"},
         run' = [run EXCEPT ![r] = Ended(r, place)]
  PROVE  /\ run'[r].at = place /\ run'[r].began = run[r].began
         /\ \A k \in Kinds : ~Wrote(r, k)'
         /\ \A k \in AdKinds : run'[r].own[k] = NoRow
         /\ \A q \in Runs \ {r} : run'[q] = run[q]
<1>1. run'[r] = Ended(r, place) /\ \A q \in Runs \ {r} : run'[q] = run[q]
  BY DEF TypeInv, TypeOK
<1>2. /\ Ended(r, place).at = place /\ Ended(r, place).own = NoOwn
      /\ Ended(r, place).change = [k \in Kinds |-> NoChange]
  BY EndedGoes DEF TypeInv, Places
<1>3. run[r] \in Local
  BY DEF TypeInv, TypeOK
<1>4. Ended(r, place).began = run[r].began
  BY <1>3 DEF Ended, Local
<1> QED BY <1>1, <1>2, <1>4, Constants DEF Wrote

\* The account's row lock lets one sync through at a time.
LEMMA OneLeads ==
  ASSUME SyncInv, listed, NEW r \in Runs, NEW q \in Runs, Leads(r), Leads(q)
  PROVE  r = q
<1> "account" \in Kinds /\ "account" \notin AdKinds /\ Order[1] = "account"
  BY KindsFact DEF AdKinds, Order
<1>1. ASSUME NEW p \in Runs, Leads(p) PROVE Holds(p, "account")
  <2>1. PassedBy(run[p]) \in 0..6 /\ PassedBy(run[p]) >= 1
    BY <1>1, PassedType DEF SyncInv, TypeInv, Leads
  <2>2. 1 \in 1..PassedBy(run[p])
    BY <2>1
  <2>3. Handled(p, "account") /\ "account" \notin overlooked[p]
    BY <1>1, <2>2 DEF SyncInv, OrderInv, OrderOf, Leads
  <2>4. Wrote(p, "account")
    BY <2>3 DEF Handled
  <2> QED BY <2>4 DEF SyncInv, TypeInv, HeldInv, HeldOf
<1> QED BY <1>1 DEF SyncInv, TypeInv, HeldInv, OneHolder

\* Another's step leaves what is known of a sync as it is.
LEMMA OtherSyncs ==
  ASSUME SyncInv, NEW q \in Runs, run'[q] = run[q], overlooked'[q] = overlooked[q],
         listed' = listed, meta' \in Nat, meta' >= meta
  PROVE  /\ ClockOf(q)' /\ OrderOf(q)' /\ WriteOf(q)'
         /\ ~Leads(q) \/ row' = row => HolderOf(q)'
<1>1. /\ run[q].began \in Nat /\ run[q].raw \in Nat /\ meta \in Nat
      /\ \A k \in Kinds : run[q].change[k].new.ver \in Nat
      /\ \A k \in AdKinds : run[q].own[k].ver \in Nat
  BY PassedType DEF SyncInv, TypeInv
<1>2. ClockOf(q) /\ OrderOf(q) /\ WriteOf(q) /\ HolderOf(q)
  BY DEF SyncInv, OrderInv
<1>3. /\ Leads(q)' <=> Leads(q)
      /\ \A k : (Wrote(q, k)' <=> Wrote(q, k)) /\ (Handled(q, k)' <=> Handled(q, k))
      /\ Kind(q)' = Kind(q) /\ (OwnsAd(q)' <=> OwnsAd(q))
  BY DEF Leads, Wrote, Handled, Kind, OwnsAd
<1>4. ClockOf(q)'
  BY <1>1, <1>2 DEF ClockOf
<1>5. OrderOf(q)'
  BY <1>2, <1>3 DEF OrderOf
<1>6. WriteOf(q)'
  <2>1. ASSUME NEW new, new.ver \in Nat, FreshRow(q, new) PROVE FreshRow(q, new)'
    BY <1>1, <1>3, <2>1 DEF FreshRow
  <2>2. ASSUME NEW k \in Kinds, Wrote(q, k)' PROVE FreshRow(q, run[q].change[k].new)'
    BY <1>1, <1>2, <1>3, <2>1, <2>2 DEF WriteOf
  <2>3. ASSUME NEW k \in AdKinds, run'[q].own[k] # NoRow PROVE FreshRow(q, run[q].own[k])'
    BY <1>1, <1>2, <2>1, <2>3 DEF WriteOf
  <2> QED BY <2>2, <2>3 DEF WriteOf
<1>7. ASSUME ~Leads(q) \/ row' = row PROVE HolderOf(q)'
  <2>1. OwnsAd(q) => Leads(q)
    BY <1>2 DEF WriteOf, FreshRow, OwnsAd, AdKinds
  <2> QED BY <1>2, <1>3, <1>7, <2>1 DEF HolderOf, WriteOf, FreshRow
<1> QED BY <1>4, <1>5, <1>6, <1>7

\* A sync that has finished, or has not begun, holds nothing.
LEMMA AtRest ==
  ASSUME SyncInv, NEW r \in Runs, run'[r].at \in {"done", "dead"},
         run'[r].began = run[r].began, \A k \in Kinds : ~Wrote(r, k)',
         \A k \in AdKinds : run'[r].own[k] = NoRow,
         overlooked'[r] = overlooked[r], meta' = meta
  PROVE  ClockOf(r)' /\ OrderOf(r)' /\ WriteOf(r)' /\ HolderOf(r)'
<1>1. ClockOf(r) /\ OrderOf(r)
  BY DEF SyncInv, OrderInv
<1>2. ClockOf(r)' /\ OrderOf(r)'
  BY <1>1 DEF ClockOf, OrderOf, Open
<1>3. WriteOf(r)' /\ HolderOf(r)'
  BY DEF WriteOf, HolderOf, Leads, Open, OwnsAd, AdKinds
<1> QED BY <1>2, <1>3

\* What the earlier sync has left behind is at most as new as Meta.
LEMMA SyncInit == ASSUME Init PROVE SyncInv
<1>1. TypeInv
  BY TypeInit
<1>2. PICK imported \in BOOLEAN :
        /\ row = [k \in Kinds |-> IF imported THEN Imported(k) ELSE NoRow]
        /\ run = [r \in Runs |-> Start(IF r # Earlier THEN "new"
                                        ELSE IF imported THEN "done" ELSE "dead")]
  BY DEF Init
<1>3. \A k \in Kinds : Imported(k).ver \in {0, 1}
  BY Constants DEF Imported
<1>4. meta = 1 /\ \A k \in Kinds : row[k].ver \in {0, 1}
  BY <1>2, <1>3, Constants DEF Init
<1>5. RowsClock
  BY <1>4 DEF RowsClock
<1>6. ASSUME NEW r \in Runs PROVE ClockOf(r) /\ OrderOf(r) /\ WriteOf(r) /\ HolderOf(r)
  <2>1. /\ run[r].at \in {"new", "done", "dead"} /\ run[r].began = 0 /\ run[r].step = 1
        /\ \A k \in Kinds : run[r].change[k] = NoChange
        /\ \A k \in AdKinds : run[r].own[k] = NoRow
    BY <1>2, Constants DEF Start
  <2>2. overlooked[r] = {}
    BY DEF Init
  <2>3. ClockOf(r) /\ OrderOf(r)
    BY <1>4, <2>1, <2>2 DEF ClockOf, OrderOf, PassedBy, Open
  <2>4. WriteOf(r) /\ HolderOf(r)
    BY <2>1 DEF WriteOf, HolderOf, Wrote, Leads, Open, OwnsAd, AdKinds
  <2> QED BY <2>3, <2>4
<1> QED BY <1>1, <1>5, <1>6 DEF SyncInv, OrderInv, TwinsInv, Init

\* Reading: a sync that takes an object from Meta is then as new as every committed row.
LEMMA ReadingSyncs ==
  ASSUME SyncInv, NEW r \in Runs, StartOrRead(r)
  PROVE  RowsClock' /\ TwinsInv' /\ OrderInv'
<1>1. /\ UNCHANGED <<meta, listed, row, created, twins>>
      /\ \A q \in Runs \ {r} : run'[q] = run[q] /\ overlooked'[q] = overlooked[q]
      /\ overlooked[r] \subseteq overlooked'[r]
      /\ overlooked'[r] \subseteq overlooked[r] \cup (Kinds \ {"account"})
      /\ run'[r].change = run[r].change /\ run'[r].own = run[r].own
      /\ Begun(r) \/ Skips(r) \/ Works(r)
  BY ReadingIs DEF SyncInv
<1>2. TypeInv' /\ TypeInv
  BY ReadingKeeps DEF SyncInv
<1>3. /\ run[r].step \in 1..6 /\ PassedBy(run[r]) \in 0..6
      /\ run[r].at # "complete" => PassedBy(run[r]) = run[r].step - 1
      /\ run[r].raw \in Nat /\ run[r].began \in Nat /\ meta \in Nat
      /\ \A k \in Kinds : row[k].ver \in Nat
  BY <1>2, PassedType DEF TypeInv
<1>4. RowsClock' /\ TwinsInv'
  BY <1>1 DEF SyncInv, RowsClock, TwinsInv
<1>5. ASSUME NEW q \in Runs \ {r} PROVE ClockOf(q)' /\ OrderOf(q)' /\ WriteOf(q)' /\ HolderOf(q)'
  BY <1>1, <1>3, OtherSyncs
<1>6. ClockOf(r) /\ OrderOf(r) /\ WriteOf(r) /\ HolderOf(r)
  BY DEF SyncInv, OrderInv
<1>7. /\ \A k : Wrote(r, k)' <=> Wrote(r, k)
      /\ \A k : Handled(r, k) => Handled(r, k)'
      /\ "account" \notin overlooked'[r]
      /\ overlooked'[r] = {} => overlooked[r] = {}
      /\ OwnsAd(r)' <=> OwnsAd(r)
  BY <1>1, <1>6 DEF Wrote, Handled, OrderOf, OwnsAd
<1>8. ASSUME Begun(r) PROVE ClockOf(r)' /\ OrderOf(r)' /\ WriteOf(r)' /\ HolderOf(r)'
  <2>1. /\ run[r].at = "new" /\ run'[r].at = "read" /\ PassedBy(run'[r]) = 0
        /\ run'[r].began = meta
    BY <1>6, <1>8 DEF Begun, OrderOf
  <2>2. \A k \in Kinds : ~Wrote(r, k)'
    BY <1>2, <1>7, <2>1 DEF TypeInv, HeldInv, HeldOf, Open
  <2>6. \A k \in AdKinds : run'[r].own[k] = NoRow
    BY <1>1, <1>2, <2>1 DEF TypeInv, OwnInv, OwnOf, Open
  <2>3. ClockOf(r)' /\ OrderOf(r)'
    BY <1>1, <1>3, <1>7, <2>1 DEF ClockOf, OrderOf
  <2>4. WriteOf(r)'
    BY <2>2, <2>6 DEF WriteOf
  <2>5. HolderOf(r)'
    BY <2>1, <2>2, <2>6 DEF HolderOf, OwnsAd, AdKinds
  <2> QED BY <2>3, <2>4, <2>5
<1>9. ASSUME Skips(r) PROVE ClockOf(r)' /\ OrderOf(r)' /\ WriteOf(r)' /\ HolderOf(r)'
  <2>1. /\ run[r].at = "read" /\ run'[r].at \in {"read", "complete"}
        /\ run'[r].began = run[r].began /\ PassedBy(run'[r]) = run[r].step
        /\ PassedBy(run[r]) = run[r].step - 1
        /\ run'[r].at = "complete" => run[r].step = 6
    BY <1>3, <1>9 DEF Skips
  <2> PICK kind \in Kinds : kind = Kind(r)
    BY <1>2, KindType DEF TypeInv
  <2>2. Handled(r, kind)'
    <3>1. CASE Kind(r) = "snapshot" /\ ~AdKnown(r)
      <4>1. run[r].step = 6
        BY <1>3, <3>1 DEF Kind, Order
      <4>2. 4 \in 1..PassedBy(run[r]) /\ Order[4] = "ad"
        BY <2>1, <4>1 DEF Order
      <4>3. Handled(r, "ad") /\ ~Wrote(r, "ad") /\ ~OwnsAd(r)
        BY <1>6, <2>1, <3>1, <4>2 DEF OrderOf, Open, AdKnown, AdInMap
      <4>4. "ad" \in overlooked[r]
        BY <4>3 DEF Handled, OwnsAd
      <4>5. "ad" \in overlooked'[r]
        BY <1>1, <4>4
      <4> QED BY <3>1, <4>5 DEF Handled
    <3>2. CASE Kind(r) = "account" /\ ~listed
      BY <1>1, <3>2 DEF Handled
    <3>3. CASE Kind(r) \in overlooked'[r]
      BY <3>3 DEF Handled
    <3> QED BY <1>9, <3>1, <3>2, <3>3 DEF Skips
  <2>3. ASSUME NEW i \in 1..run[r].step PROVE Handled(r, Order[i])'
    <3>1. CASE i = run[r].step
      <4>1. kind = Order[i]
        BY <3>1 DEF Kind
      <4> QED BY <2>2, <4>1
    <3>2. CASE i # run[r].step
      <4>1. i \in 1..PassedBy(run[r])
        BY <1>3, <2>1, <3>2
      <4>2. Handled(r, Order[i])
        BY <1>6, <2>1, <4>1 DEF OrderOf, Open
      <4> QED BY <1>7, <4>2
    <3> QED BY <3>1, <3>2
  <2>4. ClockOf(r)'
    BY <1>1, <1>6, <2>1 DEF ClockOf
  <2>5. OrderOf(r)'
    BY <1>7, <2>1, <2>3 DEF OrderOf
  <2>6. Leads(r)'
    BY <1>3, <2>1 DEF Leads, Open
  <2>7. WriteOf(r)'
    BY <1>1, <1>6, <1>7, <2>1, <2>6 DEF WriteOf, FreshRow
  <2>8. HolderOf(r)'
    BY <1>1, <1>6, <1>7, <2>1 DEF HolderOf
  <2> QED BY <2>4, <2>5, <2>7, <2>8
<1>10. ASSUME Works(r) PROVE ClockOf(r)' /\ OrderOf(r)' /\ WriteOf(r)' /\ HolderOf(r)'
  <2>1. /\ run[r].at \in Open /\ run'[r].at \in {"select", "flush", "failing"}
        /\ PassedBy(run'[r]) = PassedBy(run[r]) /\ run'[r].began = run[r].began
    BY <1>10 DEF Works
  <2>2. run'[r].at = "select" => run'[r].raw = meta
    BY <1>10 DEF Works
  <2>3. run'[r].at = "flush" =>
          /\ run[r].at = "select" /\ run'[r].step = run[r].step
          /\ run'[r].raw = run[r].raw
          /\ run'[r].loaded = IF Own(r) THEN NoRow ELSE row[Kind(r)]
    BY <1>10 DEF Works
  <2>4. Leads(r)' <=> Leads(r)
    BY <2>1 DEF Leads, Open
  <2>5. ClockOf(r)'
    BY <1>1, <1>3, <1>6, <2>1, <2>2, <2>3 DEF ClockOf
  <2>6. OrderOf(r)'
    BY <1>6, <1>7, <2>1 DEF OrderOf
  <2>7. WriteOf(r)'
    BY <1>1, <1>6, <1>7, <2>1, <2>4 DEF WriteOf, FreshRow
  <2>8. Kind(r)' \in Kinds /\ (run'[r].at = "flush" => Kind(r)' = Kind(r))
    <3>1. run' \in [Runs -> Local] /\ Len(Order) = 6
      BY <1>2, KindsFact DEF TypeInv, TypeOK
    <3>2. run'[r].step \in 1..6
      BY <3>1 DEF Local
    <3> QED BY <2>3, <3>2, KindsFact DEF Kind
  <2>9. run'[r].at = "select" => run'[r].raw >= row'[Kind(r)'].ver
    BY <1>1, <1>3, <2>2, <2>8 DEF SyncInv, RowsClock
  <2>10. listed /\ run'[r].at = "flush" => run'[r].loaded = row[Kind(r)]
    <3> SUFFICES ASSUME listed, run'[r].at = "flush", Own(r) PROVE row["snapshot"] = NoRow
      BY <2>3 DEF Own
    <3>1. row["ad"].ver = 0 /\ "snapshot" \in Kinds
      BY <1>6, Constants, KindsFact DEF Own, HolderOf
    <3> QED BY <3>1 DEF SyncInv, TypeInv, RowInv
  <2>11. HolderOf(r)'
    BY <1>1, <1>6, <1>7, <2>1, <2>3, <2>4, <2>8, <2>9, <2>10 DEF HolderOf
  <2> QED BY <2>5, <2>6, <2>7, <2>11
<1> QED BY <1>1, <1>4, <1>5, <1>8, <1>9, <1>10 DEF OrderInv

\* The row an ad set or an ad gets is linked if the listings left nothing out.
LEMMA AssignedLinks ==
  ASSUME SyncInv, NEW r \in Runs, run[r].at = "flush", overlooked[r] = {}
  PROVE  Assigned(r).linked
<1>1. /\ run[r].step \in 1..6 /\ PassedBy(run[r]) = run[r].step - 1
      /\ \A i \in 1..PassedBy(run[r]) : Handled(r, Order[i])
  BY PassedType DEF SyncInv, TypeInv, OrderInv, OrderOf, Open
<1>2. ASSUME NEW k \in {"campaign", "adset"}, NEW i \in 1..PassedBy(run[r]), Order[i] = k
      PROVE  Wrote(r, k)
  BY <1>1, <1>2 DEF Handled, AdKinds
<1>3. Kind(r) \in {"account", "campaign", "adset", "ad", "asset", "snapshot"}
  BY KindType, KindsFact DEF SyncInv, TypeInv
<1>4. CASE Kind(r) = "adset"
  <2>1. run[r].step = 3
    BY <1>1, <1>4 DEF Kind, Order
  <2>2. 2 \in 1..PassedBy(run[r]) /\ Order[2] = "campaign"
    BY <1>1, <2>1 DEF Order
  <2> QED BY <1>2, <1>4, <2>2 DEF Assigned, AdSetRow
<1>5. CASE Kind(r) = "ad"
  <2>1. run[r].step = 4
    BY <1>1, <1>5 DEF Kind, Order
  <2>2. 3 \in 1..PassedBy(run[r]) /\ Order[3] = "adset"
    BY <1>1, <2>1 DEF Order
  <2> QED BY <1>2, <1>5, <2>2 DEF Assigned, AdRow
<1>6. CASE Kind(r) \in {"account", "campaign", "asset", "snapshot"}
  BY <1>6 DEF Assigned, AccountRow, CampaignRow, AssetRow, SnapshotRow
<1> QED BY <1>3, <1>4, <1>5, <1>6

LEMMA FlushSyncs ==
  ASSUME SyncInv, NEW r \in Runs, FlushRow(r)
  PROVE  RowsClock' /\ TwinsInv' /\ OrderInv'
<1>0. PICK kind \in Kinds, new \in Row : kind = Kind(r) /\ new = Assigned(r)
  BY KindType, AssignedGoes DEF SyncInv, TypeInv
<1>1. /\ UNCHANGED <<meta, listed, row, status, created, overlooked, twins>>
      /\ \A q \in Runs \ {r} : run'[q] = run[q]
      /\ run[r].at = "flush" /\ run'[r].at \in {"read", "complete"}
      /\ run'[r].began = run[r].began /\ PassedBy(run'[r]) = run[r].step
      /\ run'[r].at = "complete" => run[r].step = 6
      /\ run'[r].own = run[r].own
      /\ \A k \in Kinds \ {kind} : run'[r].change[k] = run[r].change[k]
      /\ run'[r].change[kind] = [old |-> run[r].loaded, new |-> new]
  BY <1>0, FlushIs DEF SyncInv
<1>2. new.ver = run[r].raw /\ new.ver > 0
  BY <1>0, <1>1, AssignedGoes DEF SyncInv, TypeInv, ReadInv, ReadOf
<1>3. /\ run[r].step \in 1..6 /\ PassedBy(run[r]) = run[r].step - 1
      /\ run[r].raw \in Nat /\ run[r].began \in Nat /\ meta \in Nat
      /\ \A k \in Kinds : row[k].ver \in Nat
  BY <1>1, PassedType DEF SyncInv, TypeInv
<1>4. ClockOf(r) /\ OrderOf(r) /\ WriteOf(r) /\ HolderOf(r)
  BY DEF SyncInv, OrderInv
<1>5. overlooked[r] = {} => new.linked
  BY <1>0, <1>1, AssignedLinks
<1>6. /\ run'[r].change[kind].new = new /\ run'[r].change[kind].old = run[r].loaded
      /\ Wrote(r, kind)'
  <2>1. run'[r].change[kind].new = new /\ run'[r].change[kind].old = run[r].loaded
    BY <1>1
  <2>2. run'[r].change[kind].new.ver # NoChange.new.ver
    BY <1>2, <2>1, Constants
  <2> QED BY <2>1, <2>2 DEF Wrote
<1>7. kind # "account" => Leads(r)
  <2>1. kind # "account" => run[r].step # 1
    BY <1>0 DEF Kind, Order
  <2> QED BY <1>1, <1>3, <2>1 DEF Leads, Open
<1>8. listed /\ kind # "account" => run[r].loaded = row[kind] /\ new.ver >= row[kind].ver
  BY <1>0, <1>1, <1>2, <1>4, <1>7 DEF HolderOf
<1>9. RowsClock' /\ TwinsInv'
  BY <1>1 DEF SyncInv, RowsClock, TwinsInv
<1>10. ASSUME NEW q \in Runs \ {r} PROVE ClockOf(q)' /\ OrderOf(q)' /\ WriteOf(q)' /\ HolderOf(q)'
  BY <1>1, <1>3, OtherSyncs
<1>11. kind = Order[run[r].step]
  BY <1>0 DEF Kind
<1>12. /\ \A k \in Kinds \ {kind} : Wrote(r, k)' <=> Wrote(r, k)
       /\ \A k \in Kinds : Handled(r, k) => Handled(r, k)'
       /\ Handled(r, kind)'
  <2>1. \A k \in Kinds \ {kind} : Wrote(r, k)' <=> Wrote(r, k)
    BY <1>1 DEF Wrote
  <2>2. Handled(r, kind)'
    BY <1>6 DEF Handled
  <2> QED BY <1>1, <2>1, <2>2 DEF Handled
<1>13. Leads(r)'
  BY <1>1, <1>3 DEF Leads, Open
<1>14. ClockOf(r)'
  BY <1>1, <1>4 DEF ClockOf
<1>15. OrderOf(r)'
  <2>1. ASSUME NEW i \in 1..run[r].step PROVE Handled(r, Order[i])'
    <3>1. CASE i = run[r].step
      <4>1. kind = Order[i]
        BY <1>11, <3>1
      <4> QED BY <1>12, <4>1
    <3>2. CASE i # run[r].step
      <4>1. i \in 1..PassedBy(run[r]) /\ i \in 1..6
        BY <1>3, <3>2
      <4>2. Handled(r, Order[i]) /\ Order[i] \in Kinds
        BY <1>1, <1>4, <4>1, KindsFact DEF OrderOf, Open
      <4> QED BY <1>12, <4>2
    <3> QED BY <3>1, <3>2
  <2> QED BY <1>1, <1>4, <2>1 DEF OrderOf
<1>16. ASSUME NEW k \in Kinds, Wrote(r, k)'
       PROVE  /\ run'[r].began <= run'[r].change[k].new.ver /\ run'[r].change[k].new.ver <= meta'
              /\ overlooked'[r] = {} => run'[r].change[k].new.linked
  <2>1. CASE k = kind
    BY <1>1, <1>2, <1>4, <1>5, <1>6, <2>1 DEF ClockOf
  <2>2. CASE k # kind
    BY <1>1, <1>4, <1>12, <1>16, <2>2 DEF WriteOf, FreshRow
  <2> QED BY <2>1, <2>2
<1>17. WriteOf(r)'
  <2>1. ASSUME NEW k \in AdKinds, run'[r].own[k] # NoRow PROVE FreshRow(r, run[r].own[k])'
    BY <1>1, <1>4, <1>13, <2>1 DEF WriteOf, FreshRow
  <2> QED BY <1>13, <1>16, <2>1 DEF WriteOf, FreshRow
<1>18. ASSUME listed, NEW k \in Kinds \ {"account"}, Wrote(r, k)'
       PROVE  run'[r].change[k].old = row[k] /\ run'[r].change[k].new.ver >= row[k].ver
  <2>1. CASE k = kind
    BY <1>6, <1>8, <1>18, <2>1
  <2>2. CASE k # kind
    BY <1>1, <1>4, <1>12, <1>18, <2>2 DEF HolderOf
  <2> QED BY <2>1, <2>2
<1>19. HolderOf(r)'
  BY <1>1, <1>4, <1>18 DEF HolderOf, OwnsAd
<1> QED BY <1>9, <1>10, <1>14, <1>15, <1>17, <1>19 DEF OrderInv

LEMMA FlushOwnSyncs ==
  ASSUME SyncInv, NEW r \in Runs, FlushOwn(r)
  PROVE  RowsClock' /\ TwinsInv' /\ OrderInv'
<1>1. PICK l \in Local, kind \in AdKinds, new \in Row :
        /\ kind = Kind(r) /\ new = Assigned(r)
        /\ run' = [run EXCEPT ![r] = l]
        /\ l.own[kind] = new /\ \A k \in AdKinds \ {kind} : l.own[k] = run[r].own[k]
        /\ new.ver > 0 /\ l.own["ad"] # NoRow
  BY FlushOwnWrites DEF SyncInv
<1>2. /\ UNCHANGED <<meta, listed, row, status, created, overlooked, twins>>
      /\ \A q \in Runs \ {r} : run'[q] = run[q]
      /\ run[r].at = "flush" /\ run'[r].at \in {"read", "complete"}
      /\ run'[r].began = run[r].began /\ PassedBy(run'[r]) = run[r].step
      /\ run'[r].at = "complete" => run[r].step = 6
      /\ run'[r].change = run[r].change
  BY FlushOwnIs DEF SyncInv
<1>3. /\ run'[r].own[kind] = new /\ \A k \in AdKinds \ {kind} : run'[r].own[k] = run[r].own[k]
      /\ OwnsAd(r)' /\ kind \in Kinds
  BY <1>1, Constants DEF OwnsAd, SyncInv, TypeInv, TypeOK
<1>4. /\ run[r].step \in 1..6 /\ PassedBy(run[r]) = run[r].step - 1
      /\ run[r].raw \in Nat /\ run[r].began \in Nat /\ meta \in Nat
  BY <1>2, PassedType DEF SyncInv, TypeInv
<1>5. ClockOf(r) /\ OrderOf(r) /\ WriteOf(r) /\ HolderOf(r)
  BY DEF SyncInv, OrderInv
<1>6. new.ver = run[r].raw /\ (overlooked[r] = {} => new.linked)
  BY <1>1, <1>2, AssignedGoes, AssignedLinks DEF SyncInv, TypeInv
<1>7. kind = Order[run[r].step] /\ run[r].step # 1
  BY <1>1, <1>4 DEF Kind, Order, AdKinds
<1>8. Leads(r) /\ Leads(r)'
  BY <1>2, <1>4, <1>7 DEF Leads, Open
<1>9. RowsClock' /\ TwinsInv'
  BY <1>2 DEF SyncInv, RowsClock, TwinsInv
<1>10. ASSUME NEW q \in Runs \ {r} PROVE ClockOf(q)' /\ OrderOf(q)' /\ WriteOf(q)' /\ HolderOf(q)'
  BY <1>2, <1>4, OtherSyncs
<1>11. /\ \A k : Wrote(r, k)' <=> Wrote(r, k)
       /\ \A k \in Kinds : Handled(r, k) => Handled(r, k)'
       /\ Handled(r, kind)'
  <2>1. new # NoRow
    BY <1>1, Constants
  <2>2. \A k \in AdKinds : run[r].own[k] # NoRow => run'[r].own[k] # NoRow
    BY <1>3, <2>1
  <2> QED BY <1>2, <1>3, <2>1, <2>2 DEF Handled, Wrote
<1>12. ClockOf(r)'
  BY <1>2, <1>5 DEF ClockOf
<1>13. OrderOf(r)'
  <2>1. ASSUME NEW i \in 1..run[r].step PROVE Handled(r, Order[i])'
    <3>1. CASE i = run[r].step
      <4>1. kind = Order[i]
        BY <1>7, <3>1
      <4> QED BY <1>11, <4>1
    <3>2. CASE i # run[r].step
      <4>1. i \in 1..PassedBy(run[r]) /\ i \in 1..6
        BY <1>4, <3>2
      <4>2. Handled(r, Order[i]) /\ Order[i] \in Kinds
        BY <1>2, <1>5, <4>1, KindsFact DEF OrderOf, Open
      <4> QED BY <1>11, <4>2
    <3> QED BY <3>1, <3>2
  <2> QED BY <1>2, <1>5, <2>1 DEF OrderOf
<1>14. WriteOf(r)'
  <2>1. FreshRow(r, new)'
    BY <1>2, <1>5, <1>6, <1>8 DEF FreshRow, ClockOf
  <2>2. ASSUME NEW k \in AdKinds \ {kind}, run'[r].own[k] # NoRow PROVE FreshRow(r, run[r].own[k])'
    BY <1>2, <1>3, <1>5, <1>8, <2>2 DEF WriteOf, FreshRow
  <2>3. ASSUME NEW k \in Kinds, Wrote(r, k)' PROVE FreshRow(r, run[r].change[k].new)'
    BY <1>2, <1>5, <1>8, <1>11, <2>3 DEF WriteOf, FreshRow
  <2>4. FreshRow(r, run[r].own[kind])'
    BY <1>2, <1>3, <2>1 DEF FreshRow
  <2> QED BY <2>2, <2>3, <2>4 DEF WriteOf
<1>15. listed => row["ad"] = NoRow
  <2> SUFFICES ASSUME listed PROVE row["ad"] = NoRow
    OBVIOUS
  <2>1. CASE kind = "ad"
    <3>1. run[r].loaded = row["ad"]
      BY <1>1, <1>2, <1>5, <1>8, <2>1 DEF HolderOf
    <3>2. IsInsert(r)
      BY <1>1, <2>1 DEF FlushOwn, Unshared, Own
    <3> QED BY <3>1, <3>2 DEF IsInsert
  <2>2. CASE kind = "snapshot"
    <3>1. OwnsAd(r)
      BY <1>1, <2>2 DEF FlushOwn, Unshared, Own
    <3> QED BY <1>5, <3>1 DEF HolderOf
  <2> QED BY <2>1, <2>2 DEF AdKinds
<1>16. HolderOf(r)'
  BY <1>2, <1>5, <1>11, <1>15 DEF HolderOf
<1> QED BY <1>9, <1>10, <1>12, <1>13, <1>14, <1>16 DEF OrderInv

\* A commit puts the version a sync has read, and over the row it has loaded the row it
\* has assigned.
LEMMA RowIs ==
  ASSUME TypeInv, NEW r \in Runs, Committing(r), NEW k \in Kinds, ~(IsFirst(r) /\ k \in AdKinds)
  PROVE  /\ row'[k].ver \in {row[k].ver, run[r].change[k].new.ver}
         /\ run[r].change[k].old = row[k] => row'[k] = run[r].change[k].new
<1> DEFINE c == run[r].change[k]
<1>1. row[k] \in Row /\ c \in Change
  BY DEF TypeInv, TypeOK, Local
<1>2. row'[k] = Written(row[k], c)
  BY CommitGoes DEF TypeInv
<1> HIDE DEF c
<1>3. ASSUME c.old = row[k] PROVE Written(row[k], c) = c.new
  <2>1. c.new \in Row /\ DOMAIN row[k] = {"ver", "stamp", "linked"}
    BY <1>1 DEF Change, Row
  <2>2. Written(row[k], c) = [f \in {"ver", "stamp", "linked"} |-> c.new[f]]
    BY <1>3, <2>1 DEF Written
  <2> QED BY <2>1, <2>2 DEF Row
<1> QED BY <1>1, <1>2, <1>3, WrittenGoes DEF c

\* While the account is listed, a sync that commits has loaded what is committed, and no
\* row but the account's goes back.
LEMMA CommitForward ==
  ASSUME SyncInv, NEW r \in Runs, Committing(r), listed, NEW k \in Kinds \ {"account"}
  PROVE  /\ row'[k].ver >= row[k].ver
         /\ Wrote(r, k) => row'[k] = run[r].change[k].new
<1>1. /\ row[k].ver \in Nat /\ run[r].change[k].new.ver \in Nat
      /\ row'[k].ver \in Nat
  BY PassedType, RowGoes, MetaImportAssumption DEF SyncInv, TypeInv, Row
<1>2. CASE IsFirst(r) /\ k \in AdKinds
  <2>1. row[k] = NoRow /\ ~Wrote(r, k)
    BY <1>2, RowGoes DEF SyncInv
  <2> QED BY <1>1, <2>1, Constants
<1>3. CASE ~(IsFirst(r) /\ k \in AdKinds) /\ Wrote(r, k)
  <2>1. run[r].change[k].old = row[k] /\ run[r].change[k].new.ver >= row[k].ver
    BY <1>3 DEF SyncInv, OrderInv, HolderOf
  <2>2. row'[k] = run[r].change[k].new
    BY <1>3, <2>1, RowIs DEF SyncInv
  <2> QED BY <2>1, <2>2
<1>4. CASE ~(IsFirst(r) /\ k \in AdKinds) /\ ~Wrote(r, k)
  <2>1. row'[k] = row[k]
    BY <1>4, RowGoes, HoldsWrote DEF SyncInv
  <2> QED BY <1>1, <1>4, <2>1
<1> QED BY <1>2, <1>3, <1>4

LEMMA CommitSyncs ==
  ASSUME SyncInv, NEW r \in Runs, Committing(r)
  PROVE  RowsClock' /\ TwinsInv' /\ OrderInv'
<1>1. /\ run' = [run EXCEPT ![r] = Ended(r, "done")]
      /\ UNCHANGED <<meta, listed, overlooked>>
  BY CommitGoes DEF SyncInv, TypeInv
<1>2. /\ run'[r].at = "done" /\ run'[r].began = run[r].began
      /\ \A k \in Kinds : ~Wrote(r, k)'
      /\ \A k \in AdKinds : run'[r].own[k] = NoRow
      /\ \A q \in Runs \ {r} : run'[q] = run[q]
  BY <1>1, EndedIs DEF SyncInv
<1>3. RowsClock'
  <2>1. ASSUME NEW k \in Kinds PROVE row'[k].ver <= meta
    <3>1. row[k].ver <= meta
      BY DEF SyncInv, RowsClock
    <3>2. CASE IsFirst(r) /\ k \in AdKinds
      <4>1. row'[k] = run[r].own[k] /\ row[k] = NoRow
        BY <3>2, RowGoes DEF SyncInv
      <4>2. run[r].own[k] # NoRow => run[r].own[k].ver <= meta
        BY <3>2 DEF SyncInv, OrderInv, WriteOf, FreshRow
      <4> QED BY <3>1, <4>1, <4>2
    <3>3. CASE ~(IsFirst(r) /\ k \in AdKinds) /\ Wrote(r, k)
      <4>1. run[r].change[k].new.ver <= meta
        BY <3>3 DEF SyncInv, OrderInv, WriteOf, FreshRow
      <4> QED BY <3>1, <3>3, <4>1, RowIs DEF SyncInv
    <3>4. CASE ~(IsFirst(r) /\ k \in AdKinds) /\ ~Wrote(r, k)
      BY <3>1, <3>4, RowGoes, HoldsWrote DEF SyncInv
    <3> QED BY <3>2, <3>3, <3>4
  <2> QED BY <1>1, <2>1 DEF RowsClock
<1>4. ClockOf(r)' /\ OrderOf(r)' /\ WriteOf(r)' /\ HolderOf(r)'
  BY <1>1, <1>2, AtRest
<1>5. ASSUME NEW q \in Runs \ {r} PROVE ClockOf(q)' /\ OrderOf(q)' /\ WriteOf(q)' /\ HolderOf(q)'
  <2>1. meta \in Nat
    BY PassedType DEF SyncInv, TypeInv
  <2>2. /\ ClockOf(q)' /\ OrderOf(q)' /\ WriteOf(q)'
        /\ ~Leads(q) \/ row' = row => HolderOf(q)'
    BY <1>1, <1>2, <2>1, OtherSyncs
  <2>3. listed /\ Leads(q) => row' = row
    <3> SUFFICES ASSUME listed, Leads(q) PROVE row' = row
      OBVIOUS
    <3>1. ~Leads(r)
      BY OneLeads
    <3>2. ~OwnsAd(r) /\ \A k \in Kinds : ~Wrote(r, k)
      BY <3>1 DEF SyncInv, OrderInv, WriteOf, FreshRow, OwnsAd, AdKinds
    <3>3. \A k \in Kinds : row'[k] = row[k]
      BY <3>2, RowGoes, HoldsWrote DEF SyncInv, IsFirst
    <3>4. row \in [Kinds -> Row] /\ row' \in [Kinds -> Row]
      BY CommitKeeps DEF SyncInv, TypeInv, TypeOK
    <3> QED BY <3>3, <3>4
  <2>4. ~listed => HolderOf(q)'
    BY <1>1 DEF HolderOf
  <2> QED BY <2>2, <2>3, <2>4
<1>6. TwinsInv'
  <2> SUFFICES ASSUME listed PROVE twins' = {}
    BY <1>1 DEF TwinsInv
  <2>1. twins = {} /\ (OwnsAd(r) => row["ad"] = NoRow)
    BY DEF SyncInv, TwinsInv, OrderInv, HolderOf
  <2>2. ~(OwnsAd(r) /\ ~IsFirst(r))
    BY <2>1 DEF IsFirst
  <2> QED BY <2>1, <2>2, CommitGoes DEF SyncInv, TypeInv
<1> QED BY <1>3, <1>4, <1>5, <1>6 DEF OrderInv

LEMMA EndingSyncs ==
  ASSUME SyncInv, NEW r \in Runs, Ending(r)
  PROVE  RowsClock' /\ TwinsInv' /\ OrderInv'
<1>1. /\ run' = [run EXCEPT ![r] = Ended(r, "dead")]
      /\ UNCHANGED <<meta, listed, row, status, created, overlooked, twins>>
  BY EndingGoes DEF SyncInv, TypeInv
<1>2. /\ run'[r].at = "dead" /\ run'[r].began = run[r].began
      /\ \A k \in Kinds : ~Wrote(r, k)'
      /\ \A k \in AdKinds : run'[r].own[k] = NoRow
      /\ \A q \in Runs \ {r} : run'[q] = run[q]
  BY <1>1, EndedIs DEF SyncInv
<1>3. RowsClock' /\ TwinsInv'
  BY <1>1 DEF SyncInv, RowsClock, TwinsInv
<1>4. ClockOf(r)' /\ OrderOf(r)' /\ WriteOf(r)' /\ HolderOf(r)'
  BY <1>1, <1>2, AtRest
<1>5. meta \in Nat
  BY PassedType DEF SyncInv, TypeInv
<1>6. ASSUME NEW q \in Runs \ {r} PROVE ClockOf(q)' /\ OrderOf(q)' /\ WriteOf(q)' /\ HolderOf(q)'
  BY <1>1, <1>2, <1>5, OtherSyncs
<1> QED BY <1>3, <1>4, <1>6 DEF OrderInv

LEMMA SyncStep == ASSUME SyncInv, [Next]_vars PROVE SyncInv'
<1>1. TypeInv'
  BY TypeStep DEF SyncInv
<1>2. CASE MetaChanges \/ UNCHANGED vars
  <2>1. meta \in Nat /\ Earlier \in Runs /\ \A k \in Kinds : row[k].ver \in Nat
    BY PassedType, MetaImportAssumption DEF SyncInv, TypeInv
  <2>2. UNCHANGED <<listed, row, run, overlooked, twins>> /\ meta' \in Nat /\ meta' >= meta
    BY <1>2, <2>1 DEF MetaChanges, vars
  <2>3. RowsClock' /\ TwinsInv'
    BY <2>1, <2>2 DEF SyncInv, RowsClock, TwinsInv
  <2>4. OrderInv'
    BY <2>2, OtherSyncs DEF OrderInv
  <2> QED BY <1>1, <2>3, <2>4 DEF SyncInv
<1> QED BY <1>1, <1>2, StepCases, ReadingSyncs, FlushSyncs, FlushOwnSyncs, CommitSyncs,
           EndingSyncs DEF SyncInv

\* A commit is the only step that changes a row.
LEMMA RowsChange ==
  ASSUME TypeOK, [Next]_vars, row' # row
  PROVE  \E r \in Runs : Committing(r)
BY StepCases, EndingGoes
   DEF StartOrRead, CreateRun, ReadAccount, ReadPage, Overlook, FindsTwins, ReadFails, Select, FlushRow,
       FlushOwn, MetaChanges, vars

\* While the account is listed, the row lock of the account makes each sync read its
\* objects after the commit of the one before: no commit brings older data back.
THEOREM NothingGoesBack == Spec => NeverBackwards
<1>1. Init => SyncInv
  BY SyncInit
<1>2. SyncInv /\ [Next]_vars => SyncInv'
  BY SyncStep
<1>3. SyncInv /\ [Next]_vars =>
        [listed => \A k \in Kinds \ {"account"} : row'[k].ver >= row[k].ver]_vars
  <2> SUFFICES ASSUME SyncInv, [Next]_vars, listed, NEW k \in Kinds \ {"account"}
               PROVE  row'[k].ver >= row[k].ver
    OBVIOUS
  <2>1. Earlier \in Runs /\ row[k].ver \in Nat
    BY PassedType, MetaImportAssumption DEF SyncInv, TypeInv
  <2>2. CASE row' = row
    BY <2>1, <2>2
  <2>3. CASE row' # row
    BY <2>3, RowsChange, CommitForward DEF SyncInv, TypeInv
  <2> QED BY <2>2, <2>3
<1> QED BY <1>1, <1>2, <1>3, PTL DEF Spec, NeverBackwards

OneLeader == listed => \A r, q \in Runs : Leads(r) /\ Leads(q) => r = q

\* While the account is listed, one sync at a time is past the account: the flush of the
\* account's row waits for the transaction of any other (MetaImportService.run).
THEOREM OneAtATime == Spec => []OneLeader
<1>1. Init => SyncInv
  BY SyncInit
<1>2. SyncInv /\ [Next]_vars => SyncInv'
  BY SyncStep
<1>3. SyncInv => OneLeader
  BY OneLeads DEF OneLeader
<1> QED BY <1>1, <1>2, <1>3, PTL DEF Spec

\* However syncs overlap, conflict, fail and die, every row but the account's is counted as
\* created by exactly one sync, a row is stamped only by a sync that has finished, and an
\* ad has a second row only if the account is not listed.
THEOREM RowsAreAccounted == Spec => []RowsAccounted
<1>1. Init => AccountInv /\ SyncInv
  BY AccountInit, SyncInit
<1>2. (AccountInv /\ SyncInv) /\ [Next]_vars => (AccountInv /\ SyncInv)'
  BY AccountStep, SyncStep
<1>3. AccountInv /\ SyncInv => RowsAccounted
  BY DEF AccountInv, SyncInv, CountInv, TwinsInv, RowsAccounted, Settled
<1> QED BY <1>1, <1>2, <1>3, PTL DEF Spec

-----------------------------------------------------------------------------
(* What a sync that ended with success has imported.                        *)

\* What SuccessIsComplete says of a sync and a kind.
Reached(r, k) == \/ row[k].ver >= (IF listed THEN run[r].began ELSE 1)
                 \/ r \in twins /\ k \in AdKinds /\ k \in created[r]
DoneOf(r, k) ==
  status[r] = "success" /\ k \notin overlooked[r] =>
    /\ k # "snapshot" \/ "ad" \notin overlooked[r] => Reached(r, k)
    /\ listed /\ row[k].stamp = r /\ overlooked[r] = {} => row[k].linked

CompleteInv == AccountInv /\ SyncInv /\ \A r \in Runs, k \in Kinds \ {"account"} : DoneOf(r, k)

LEMMA CompleteInit ==
  ASSUME Init, NEW r \in Runs, NEW k \in Kinds \ {"account"}
  PROVE  DoneOf(r, k)
<1>1. PICK imported \in BOOLEAN :
        /\ row = [j \in Kinds |-> IF imported THEN Imported(j) ELSE NoRow]
        /\ status = [q \in Runs |-> IF q # Earlier THEN "none"
                                     ELSE IF imported THEN "success" ELSE "running"]
        /\ run = [q \in Runs |-> Start(IF q # Earlier THEN "new"
                                        ELSE IF imported THEN "done" ELSE "dead")]
  BY DEF Init
<1> SUFFICES ASSUME status[r] = "success"
             PROVE  row[k].ver >= (IF listed THEN run[r].began ELSE 1) /\ row[k].linked
  BY DEF DoneOf, Reached
<1>2. imported
  BY <1>1
<1>3. row[k].ver = 1 /\ row[k].linked /\ run[r].began = 0
  BY <1>1, <1>2 DEF Imported, Start
<1> QED BY <1>3

\* The commit of a sync that succeeds: it has handled every kind.
LEMMA SuccessCommits ==
  ASSUME AccountInv, SyncInv, NEW r \in Runs, Committing(r), NEW k \in Kinds \ {"account"}
  PROVE  DoneOf(r, k)'
<1> SUFFICES ASSUME status'[r] = "success", k \notin overlooked'[r]
             PROVE  /\ k # "snapshot" \/ "ad" \notin overlooked'[r] => Reached(r, k)'
                    /\ listed' /\ overlooked'[r] = {} => row'[k].linked
  BY DEF DoneOf
<1>1. /\ run' = [run EXCEPT ![r] = Ended(r, "done")]
      /\ twins' = IF OwnsAd(r) /\ ~IsFirst(r) THEN twins \cup {r} ELSE twins
      /\ created' = [created EXCEPT ![r] = run[r].made]
      /\ UNCHANGED <<meta, listed, overlooked>>
  BY CommitGoes DEF SyncInv, TypeInv
<1>2. run'[r].began = run[r].began /\ created'[r] = run[r].made
  <2>1. run'[r].began = run[r].began
    BY <1>1, EndedIs DEF SyncInv
  <2> QED BY <1>1, <2>1 DEF SyncInv, TypeInv, TypeOK
<1>3. run[r].at = "complete"
  BY DEF Committing, CompleteRun, FailRun, Commit, AccountInv, TypeInv, TypeOK
<1>4. \E i \in 1..6 : k = Order[i]
  BY KindsFact DEF Kinds
<1>5. Handled(r, k)
  BY <1>3, <1>4 DEF SyncInv, OrderInv, OrderOf, Open
<1>6. \/ Wrote(r, k)
      \/ k \in AdKinds /\ run[r].own[k] # NoRow
      \/ k = "snapshot" /\ "ad" \in overlooked[r]
  BY <1>1, <1>5 DEF Handled
<1>7. row'[k] \in Row /\ row'[k].ver \in Nat /\ run[r].began \in Nat
  BY RowGoes, PassedType, MetaImportAssumption DEF SyncInv, TypeInv, Row
<1>8. ASSUME Wrote(r, k)
      PROVE  /\ row'[k].ver >= (IF listed THEN run[r].began ELSE 1)
             /\ listed /\ overlooked[r] = {} => row'[k].linked
  <2>1. FreshRow(r, run[r].change[k].new)
    BY <1>8 DEF SyncInv, OrderInv, WriteOf
  <2>2. row'[k].ver > 0
    BY <1>8, RowGoes DEF SyncInv
  <2>3. listed => row'[k] = run[r].change[k].new
    BY <1>8, CommitForward
  <2> QED BY <1>7, <2>1, <2>2, <2>3 DEF FreshRow
<1>9. ASSUME k \in AdKinds, run[r].own[k] # NoRow
      PROVE  /\ Reached(r, k)'
             /\ listed /\ overlooked[r] = {} => row'[k].linked
  <2>1. FreshRow(r, run[r].own[k]) /\ OwnsAd(r) /\ run[r].own[k].ver > 0
    BY <1>9 DEF SyncInv, OrderInv, WriteOf, TypeInv, OwnInv, OwnOf
  <2>2. k \in run[r].made
    BY <1>9 DEF AccountInv, MadeInv
  <2>3. CASE IsFirst(r)
    <3>1. row'[k] = run[r].own[k]
      BY <1>9, <2>3, RowGoes DEF SyncInv
    <3>2. row'[k].ver >= (IF listed THEN run[r].began ELSE 1)
      BY <1>7, <2>1, <3>1 DEF FreshRow
    <3> QED BY <1>1, <1>2, <2>1, <3>1, <3>2 DEF FreshRow, Reached
  <2>4. CASE ~IsFirst(r)
    <3>1. r \in twins'
      BY <1>1, <2>1, <2>4
    <3>2. ~listed
      BY <2>1, <2>4 DEF SyncInv, OrderInv, HolderOf, IsFirst
    <3> QED BY <1>2, <1>9, <2>2, <3>1, <3>2 DEF Reached
  <2> QED BY <2>3, <2>4
<1>10. CASE Wrote(r, k)
  BY <1>1, <1>2, <1>8, <1>10 DEF Reached
<1>11. CASE k \in AdKinds /\ run[r].own[k] # NoRow
  BY <1>1, <1>9, <1>11
<1>12. CASE k = "snapshot" /\ "ad" \in overlooked[r]
  BY <1>1, <1>12
<1> QED BY <1>6, <1>10, <1>11, <1>12

\* A later commit leaves what a sync has imported, or replaces it by newer data.
LEMMA SuccessStays ==
  ASSUME CompleteInv, NEW q \in Runs, Committing(q), NEW r \in Runs \ {q},
         NEW k \in Kinds \ {"account"}
  PROVE  DoneOf(r, k)'
<1>1. /\ run' = [run EXCEPT ![q] = Ended(q, "done")]
      /\ twins' = IF OwnsAd(q) /\ ~IsFirst(q) THEN twins \cup {q} ELSE twins
      /\ created' = [created EXCEPT ![q] = run[q].made]
      /\ \E result : status' = [status EXCEPT ![q] = result]
      /\ UNCHANGED <<meta, listed, overlooked>>
  BY CommitGoes DEF CompleteInv, SyncInv, TypeInv
<1>2. /\ run'[r] = run[r] /\ status'[r] = status[r] /\ created'[r] = created[r]
      /\ r \in twins => r \in twins'
  BY <1>1 DEF CompleteInv, SyncInv, TypeInv, TypeOK
<1>3. run[r].began \in Nat /\ row[k].ver \in Nat /\ row'[k].ver \in Nat
  BY PassedType, RowGoes, MetaImportAssumption DEF CompleteInv, SyncInv, TypeInv, Row
<1>4. ~listed => (row[k].ver > 0 => row'[k].ver > 0)
  BY RowGoes DEF CompleteInv, SyncInv
<1>5. listed => row'[k].ver >= row[k].ver
  BY CommitForward DEF CompleteInv
<1>6. Reached(r, k) => Reached(r, k)'
  BY <1>1, <1>2, <1>3, <1>4, <1>5 DEF Reached
<1>7. ASSUME listed, row'[k].stamp = r PROVE row'[k] = row[k]
  <2>1. CASE IsFirst(q) /\ k \in AdKinds
    <3>1. row'[k] = run[q].own[k] /\ row[k] = NoRow
      BY <2>1, RowGoes DEF CompleteInv, SyncInv
    <3>2. run[q].own[k] = NoRow \/ run[q].own[k].stamp = q
      BY <2>1 DEF CompleteInv, SyncInv, TypeInv, OwnInv, OwnOf
    <3> QED BY <1>7, <3>1, <3>2
  <2>2. CASE ~(IsFirst(q) /\ k \in AdKinds) /\ Wrote(q, k)
    <3>1. row'[k] = run[q].change[k].new
      BY <1>7, <2>2, CommitForward DEF CompleteInv
    <3>2. run[q].change[k].new.stamp \in {q, NoRun}
      BY <2>2 DEF CompleteInv, SyncInv, TypeInv, HeldInv, HeldOf
    <3> QED BY <1>7, <3>1, <3>2, MetaImportAssumption
  <2>3. CASE ~(IsFirst(q) /\ k \in AdKinds) /\ ~Wrote(q, k)
    BY <2>3, RowGoes, HoldsWrote DEF CompleteInv, SyncInv
  <2> QED BY <2>1, <2>2, <2>3
<1>8. DoneOf(r, k)
  BY DEF CompleteInv
<1> QED BY <1>1, <1>2, <1>6, <1>7, <1>8 DEF DoneOf

\* The other steps do not touch a row, and nothing of a sync that has ended.
LEMMA SuccessRests ==
  ASSUME CompleteInv, [Next]_vars, ~\E q \in Runs : Committing(q), NEW r \in Runs,
         status'[r] = "success"
  PROVE  /\ status[r] = "success" /\ row' = row /\ listed' = listed
         /\ overlooked'[r] = overlooked[r] /\ run'[r] = run[r]
         /\ twins' = twins /\ created' = created
<1>1. /\ run \in [Runs -> Local] /\ status \in [Runs -> Statuses]
      /\ overlooked \in [Runs -> SUBSET Kinds]
  BY DEF CompleteInv, SyncInv, TypeInv, TypeOK
<1>2. TypeInv /\ (status[r] = "success" => run[r].at = "done")
  BY DEF CompleteInv, AccountInv, SettledInv, Settled
<1>3. CASE MetaChanges \/ UNCHANGED vars
  BY <1>3 DEF MetaChanges, vars
<1>4. ASSUME NEW q \in Runs, StartOrRead(q) \/ FlushRow(q) \/ FlushOwn(q) \/ Ending(q)
      PROVE  /\ status[r] = "success" /\ row' = row /\ listed' = listed
             /\ overlooked'[r] = overlooked[r] /\ run'[r] = run[r]
             /\ twins' = twins /\ created' = created
  <2>1. /\ row' = row /\ listed' = listed /\ twins' = twins /\ created' = created
        /\ run[q].at # "done"
        /\ \A p \in Runs \ {q} : run'[p] = run[p] /\ overlooked'[p] = overlooked[p]
    <3>1. CASE StartOrRead(q)
      <4>1. run[q].at # "done"
        BY <3>1, ReadingGoes DEF StartOrRead, Open, CompleteInv, SyncInv
      <4> QED BY <1>2, <3>1, <4>1, ReadingIs
    <3>2. CASE FlushRow(q) \/ FlushOwn(q)
      BY <1>2, <3>2, FlushIs, FlushOwnIs
    <3>3. CASE Ending(q)
      <4>1. /\ run[q].at \in Open /\ run' = [run EXCEPT ![q] = Ended(q, "dead")]
            /\ UNCHANGED <<row, listed, overlooked, twins, created>>
        BY <1>2, <3>3, EndingGoes DEF TypeInv
      <4> QED BY <1>1, <4>1 DEF Open
    <3> QED BY <1>4, <3>1, <3>2, <3>3
  <2>2. status'[r] = status[r] \/ status'[r] = "running"
    <3>1. CASE StartOrRead(q)
      BY <1>1, <3>1 DEF StartOrRead, CreateRun, ReadAccount, ReadPage, Overlook, FindsTwins,
                        ReadFails, Select
    <3>2. CASE FlushRow(q) \/ FlushOwn(q)
      BY <1>2, <3>2, FlushIs, FlushOwnIs
    <3>3. CASE Ending(q)
      BY <1>2, <3>3, EndingGoes DEF TypeInv
    <3> QED BY <1>4, <3>1, <3>2, <3>3
  <2> QED BY <1>2, <2>1, <2>2
<1> QED BY <1>3, <1>4, StepCases

LEMMA CompleteStep == ASSUME CompleteInv, [Next]_vars PROVE CompleteInv'
<1>1. AccountInv' /\ SyncInv'
  BY AccountStep, SyncStep DEF CompleteInv
<1>2. ASSUME NEW r \in Runs, NEW k \in Kinds \ {"account"} PROVE DoneOf(r, k)'
  <2>1. ASSUME NEW q \in Runs, Committing(q) PROVE DoneOf(r, k)'
    <3>1. CASE q = r
      BY <2>1, <3>1, SuccessCommits DEF CompleteInv
    <3>2. CASE q # r
      BY <2>1, <3>2, SuccessStays
    <3> QED BY <3>1, <3>2
  <2>2. CASE ~\E q \in Runs : Committing(q)
    <3> SUFFICES ASSUME status'[r] = "success" PROVE DoneOf(r, k)'
      BY DEF DoneOf
    <3>1. /\ status[r] = "success" /\ row' = row /\ listed' = listed
          /\ overlooked'[r] = overlooked[r] /\ run'[r] = run[r]
          /\ twins' = twins /\ created' = created
      BY <2>2, SuccessRests
    <3> QED BY <3>1 DEF CompleteInv, DoneOf, Reached
  <2> QED BY <2>1, <2>2
<1> QED BY <1>1, <1>2 DEF CompleteInv

\* A sync that has ended with success has imported what Meta had when it began, with the
\* links between its rows, as far as the listings showed it, whatever other syncs did
\* meanwhile and have done since.
THEOREM ImportIsComplete == Spec => []SuccessIsComplete
<1>1. Init => CompleteInv
  BY AccountInit, SyncInit, CompleteInit DEF CompleteInv
<1>2. CompleteInv /\ [Next]_vars => CompleteInv'
  BY CompleteStep
<1>3. CompleteInv => SuccessIsComplete
  BY DEF CompleteInv, DoneOf, Reached, SuccessIsComplete
<1> QED BY <1>1, <1>2, <1>3, PTL DEF Spec
=============================================================================
