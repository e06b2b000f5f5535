------------------------------- MODULE MetaImport -------------------------------
(***************************************************************************)
(* The read-only import of an ad account: MetaImportService.run, started   *)
(* by an administrator or by the hourly task, and retried after an error.  *)
(*                                                                         *)
(* A sync reads one kind of object after another from Meta and upserts     *)
(* each: it selects the row, sets its columns and flushes.  Everything is  *)
(* one transaction, so a flushed row is locked until the commit and other  *)
(* syncs see it only afterwards.  One object of every kind is modelled,    *)
(* and an ad without a creative; the data of an object is the version Meta *)
(* had when it was read.                                                   *)
(*                                                                         *)
(* Every table has a unique constraint on the key of its upsert, but for   *)
(* that of the ads: the ad a sync inserts, and the snapshot of that ad,    *)
(* are rows of its own, and it commits them whoever else did the same.     *)
(***************************************************************************)
EXTENDS Naturals, Sequences, FiniteSets

CONSTANTS
  Runs,        \* executions of the service, each with its MetaSyncRun row
  Earlier,     \* an execution that is over when the behaviour begins
  NoRun,       \* the sync of a row that none has stamped
  MaxVersion,  \* bound of the versions of the data at Meta
  MaxMissing   \* bound of the times a listing leaves a kind out

ASSUME MetaImportAssumption ==
  /\ Earlier \in Runs
  /\ NoRun \notin Runs
  /\ MaxVersion \in Nat \ {0}
  /\ MaxMissing \in Nat

VARIABLES
  meta,       \* the version of the data at Meta
  listed,     \* whether the account is on the one page list_ad_accounts reads
  row,        \* row[k]: the row of kind k that was committed first
  status,     \* status[r]: the status in the MetaSyncRun row
  created,    \* created[r]: the kinds the MetaSyncRun row counts as created
  overlooked, \* overlooked[r]: the kinds Meta's listing left out for r
  twins,      \* the syncs whose ad was committed when the ad had a row already
  run         \* the local state of an execution

vars == <<meta, listed, row, status, created, overlooked, twins, run>>

-----------------------------------------------------------------------------

\* The order of the import.
Order == <<"account", "campaign", "adset", "ad", "asset", "snapshot">>
Kinds == {Order[i] : i \in 1..Len(Order)}

\* The rows that are keyed by the id of an ad's row, its own included.
AdKinds == {"ad", "snapshot"}

\* "stamp" is the sync_run_id of a row (last_synced_at of the account); "linked" says
\* that its foreign keys to a campaign or an ad set are set.  Version 0: no row.
Row   == [ver : 0..MaxVersion, stamp : Runs \cup {NoRun}, linked : BOOLEAN]
NoRow == [ver |-> 0, stamp |-> NoRun, linked |-> FALSE]

\* The values a row was loaded with and those the service assigned.
Change   == [old : Row, new : Row]
NoChange == [old |-> NoRow, new |-> NoRow]

Statuses == {"none", "running", "success", "failed"}
\* "failing": the client has raised; "dead": the process or its session is gone.
Places   == {"new", "read", "select", "flush", "complete", "failing", "done", "dead"}
Local == [at : Places, step : 1..Len(Order), began : 0..MaxVersion, raw : 0..MaxVersion,
          loaded : Row, change : [Kinds -> Change], own : [AdKinds -> Row],
          made : SUBSET Kinds]

NoOwn == [k \in AdKinds |-> NoRow]

Kind(r)     == Order[run[r].step]
Wrote(r, k) == run[r].change[k] # NoChange
OwnsAd(r)   == run[r].own["ad"] # NoRow

\* An UPDATE that changes no column is not sent, and locks nothing.
Holds(r, k) == run[r].change[k].new # run[r].change[k].old

\* Only columns whose value differs from the loaded one are in the UPDATE.
Written(db, c) == [f \in DOMAIN db |-> IF c.new[f] = c.old[f] THEN db[f] ELSE c.new[f]]

\* Mutant: the account is not touched when it exists.
LockedUnlessAccount(r, k) == k # "account" /\ \E q \in Runs \ {r} : Holds(q, k)

\* Another transaction has inserted or updated the row and is not committed.
Locked(r, k) == \E q \in Runs \ {r} : Holds(q, k)

\* The local state of r when it goes on to the next kind.
Advanced(r) ==
  IF run[r].step = Len(Order) THEN [run[r] EXCEPT !.at = "complete"]
  ELSE [run[r] EXCEPT !.at = "read", !.step = @ + 1]

\* The local state of r when its transaction is over.
Ended(r, place) ==
  [run[r] EXCEPT !.at = place, !.step = 1, !.raw = 0, !.loaded = NoRow,
                 !.change = [k \in Kinds |-> NoChange], !.own = NoOwn, !.made = {}]

-----------------------------------------------------------------------------
(* Reading from Meta.                                                       *)

\* The MetaSyncRun row is committed before anything is read.
CreateRun(r) ==
  /\ run[r].at = "new"
  /\ status' = [status EXCEPT ![r] = "running"]
  /\ run' = [run EXCEPT ![r].at = "read", ![r].began = meta]
  /\ UNCHANGED <<meta, listed, row, created, overlooked, twins>>

Got(r) == run' = [run EXCEPT ![r].at = "select", ![r].raw = meta]

ReadAccount(r) ==
  /\ run[r].at = "read" /\ Kind(r) = "account"
  /\ IF listed THEN Got(r) ELSE run' = [run EXCEPT ![r] = Advanced(r)]
  /\ UNCHANGED <<meta, listed, row, status, created, overlooked, twins>>

\* The ad an insight is about is in the map of this run, or it is looked up.
AdInMap(r) == Wrote(r, "ad") \/ OwnsAd(r)
AdKnown(r) == AdInMap(r) \/ row["ad"].ver > 0

\* The lookup of an ad, for its upsert or for an insight, finds more than one row.
Ambiguous(r) ==
  /\ twins # {}
  /\ \/ run[r].at = "select" /\ Kind(r) = "ad"
     \/ run[r].at = "read" /\ Kind(r) = "snapshot" /\ ~AdInMap(r)

ReadPage(r) ==
  /\ run[r].at = "read" /\ Kind(r) # "account" /\ ~Ambiguous(r)
  /\ IF Kind(r) = "snapshot" /\ ~AdKnown(r)
     THEN run' = [run EXCEPT ![r] = Advanced(r)]
     ELSE Got(r)
  /\ UNCHANGED <<meta, listed, row, status, created, overlooked, twins>>

\* The pages end early: at max_pages, or at a cursor seen before.
Overlook(r) ==
  /\ run[r].at = "read" /\ Kind(r) # "account"
  /\ Cardinality({x \in Runs \X Kinds : x[2] \in overlooked[x[1]]}) < MaxMissing
  /\ overlooked' = [overlooked EXCEPT ![r] = @ \cup {Kind(r)}]
  /\ run' = [run EXCEPT ![r] = Advanced(r)]
  /\ UNCHANGED <<meta, listed, row, status, created, twins>>

\* scalar_one_or_none raises on two rows; the transaction goes on.
FindsTwins(r) ==
  /\ Ambiguous(r)
  /\ run' = [run EXCEPT ![r].at = "failing"]
  /\ UNCHANGED <<meta, listed, row, status, created, overlooked, twins>>

\* An authorisation error, or the retries of a GET are used up.
ReadFails(r) ==
  /\ run[r].at = "read"
  /\ run' = [run EXCEPT ![r].at = "failing"]
  /\ UNCHANGED <<meta, listed, row, status, created, overlooked, twins>>

-----------------------------------------------------------------------------
(* The upserts.                                                             *)

\* An ad that the sync has inserted has no snapshot yet.
Own(r) == Kind(r) = "snapshot" /\ OwnsAd(r)

\* A select sees committed rows; a sync touches each of its rows once.
Select(r) ==
  /\ run[r].at = "select" /\ ~Ambiguous(r)
  /\ run' = [run EXCEPT ![r].at = "flush",
                        ![r].loaded = IF Own(r) THEN NoRow ELSE row[Kind(r)]]
  /\ UNCHANGED <<meta, listed, row, status, created, overlooked, twins>>

AccountRow(r)  == [ver |-> run[r].raw, stamp |-> r, linked |-> TRUE]
CampaignRow(r) == [ver |-> run[r].raw, stamp |-> r, linked |-> TRUE]

\* The links come from the maps of this run: a parent the listing left out is lost
\* even if its row exists.
AdSetRow(r)    == [ver |-> run[r].raw, stamp |-> r, linked |-> Wrote(r, "campaign")]
AdRow(r)       == [ver |-> run[r].raw, stamp |-> r, linked |-> Wrote(r, "adset")]
\* Mutant: the row is stamped with the status of its run.
AssetRowStatus(r) == [ver |-> run[r].raw, stamp |-> status[r], linked |-> TRUE]

AssetRow(r)    == [ver |-> run[r].raw, stamp |-> NoRun, linked |-> TRUE]
SnapshotRow(r) == [ver |-> run[r].raw, stamp |-> r, linked |-> TRUE]

Assigned(r) ==
  CASE Kind(r) = "account"  -> AccountRow(r)
    [] Kind(r) = "campaign" -> CampaignRow(r)
    [] Kind(r) = "adset"    -> AdSetRow(r)
    [] Kind(r) = "ad"       -> AdRow(r)
    [] Kind(r) = "asset"    -> AssetRow(r)
    [] Kind(r) = "snapshot" -> SnapshotRow(r)

IsInsert(r) == run[r].loaded = NoRow
Unshared(r) == Own(r) \/ (Kind(r) = "ad" /\ IsInsert(r))

\* The row is counted as created if the select found none.
Flushed(r) ==
  run' = [run EXCEPT ![r] =
    [Advanced(r) EXCEPT
       !.change[Kind(r)] = [old |-> run[r].loaded, new |-> Assigned(r)],
       !.made = IF IsInsert(r) /\ Kind(r) # "account" THEN @ \cup {Kind(r)} ELSE @]]

\* Mutant: INSERT ... ON CONFLICT DO UPDATE, counted by what the select found.
FlushOnConflictUpdate(r) ==
  /\ run[r].at = "flush" /\ ~Unshared(r)
  /\ ~Locked(r, Kind(r))
  /\ Flushed(r)
  /\ UNCHANGED <<meta, listed, row, status, created, overlooked, twins>>

\* An INSERT or UPDATE waits for the transaction that holds the row.
FlushRow(r) ==
  /\ run[r].at = "flush" /\ ~Unshared(r)
  /\ Assigned(r) # run[r].loaded => ~Locked(r, Kind(r))
  /\ IsInsert(r) => row[Kind(r)].ver = 0
  /\ Flushed(r)
  /\ UNCHANGED <<meta, listed, row, status, created, overlooked, twins>>

\* The INSERT of an ad, or of the snapshot of an inserted ad, meets no one.
FlushOwn(r) ==
  /\ run[r].at = "flush" /\ Unshared(r)
  /\ run' = [run EXCEPT ![r] = [Advanced(r) EXCEPT !.own[Kind(r)] = Assigned(r),
                                                   !.made = @ \cup {Kind(r)}]]
  /\ UNCHANGED <<meta, listed, row, status, created, overlooked, twins>>

\* Someone else has inserted the row since the select.  The failed flush rolls the
\* transaction back and deactivates the session, so that the commit of _fail_run
\* raises too: the MetaSyncRun row keeps saying running.
FlushConflict(r) ==
  /\ run[r].at = "flush" /\ ~Unshared(r)
  /\ ~Locked(r, Kind(r))
  /\ IsInsert(r) /\ row[Kind(r)].ver > 0
  /\ run' = [run EXCEPT ![r] = Ended(r, "dead")]
  /\ UNCHANGED <<meta, listed, row, status, created, overlooked, twins>>

-----------------------------------------------------------------------------
(* The end of a run.                                                        *)

\* The ad that the sync has inserted is the first row of the ad.
IsFirst(r) == OwnsAd(r) /\ row["ad"] = NoRow

\* The transaction commits: the rows, the counters and the status of the run.
Commit(r, result) ==
  /\ row' = [k \in Kinds |-> IF IsFirst(r) /\ k \in AdKinds THEN run[r].own[k]
                            ELSE Written(row[k], run[r].change[k])]
  /\ twins' = IF OwnsAd(r) /\ ~IsFirst(r) THEN twins \cup {r} ELSE twins
  /\ created' = [created EXCEPT ![r] = run[r].made]
  /\ status' = [status EXCEPT ![r] = result]
  /\ run' = [run EXCEPT ![r] = Ended(r, "done")]
  /\ UNCHANGED <<meta, listed, overlooked>>

CompleteRun(r) == run[r].at = "complete" /\ Commit(r, "success")

\* Mutant: a failure is handled like the end of the listing.
FailRunAsSuccess(r) == run[r].at = "failing" /\ Commit(r, "success")

\* Mutant: the status is assigned after the commit.
FailRunLate(r) == run[r].at = "failing" /\ Commit(r, "running")

\* The handler of an exception of the client does not roll back.
FailRun(r) == run[r].at = "failing" /\ Commit(r, "failed")

\* The process dies or the request is cancelled.
Crash(r) ==
  /\ run[r].at \notin {"new", "done", "dead"}
  /\ run' = [run EXCEPT ![r] = Ended(r, "dead")]
  /\ UNCHANGED <<meta, listed, row, status, created, overlooked, twins>>

MetaChanges ==
  /\ meta < MaxVersion
  /\ meta' = meta + 1
  /\ UNCHANGED <<listed, row, status, created, overlooked, twins, run>>

-----------------------------------------------------------------------------

\* What the earlier sync left behind: it died and wrote nothing, or it imported all.
Imported(k) ==
  IF k = "account" /\ ~listed THEN NoRow
  ELSE [ver |-> 1, stamp |-> IF k = "asset" THEN NoRun ELSE Earlier, linked |-> TRUE]

Start(place) ==
  [at |-> place, step |-> 1, began |-> 0, raw |-> 0, loaded |-> NoRow,
   change |-> [k \in Kinds |-> NoChange], own |-> NoOwn, made |-> {}]

Init ==
  /\ meta = 1
  /\ listed \in BOOLEAN
  /\ overlooked = [r \in Runs |-> {}]
  /\ twins = {}
  /\ \E imported \in BOOLEAN :
       /\ row = [k \in Kinds |-> IF imported THEN Imported(k) ELSE NoRow]
       /\ status = [r \in Runs |-> IF r # Earlier THEN "none"
                                    ELSE IF imported THEN "success" ELSE "running"]
       /\ created = [r \in Runs |-> IF r = Earlier /\ imported THEN Kinds \ {"account"} ELSE {}]
       /\ run = [r \in Runs |-> Start(IF r # Earlier THEN "new"
                                       ELSE IF imported THEN "done" ELSE "dead")]

\* What an execution does by itself.
Work(r) ==
  \/ ReadAccount(r) \/ ReadPage(r) \/ ReadFails(r) \/ FindsTwins(r)
  \/ Select(r) \/ FlushRow(r) \/ FlushOwn(r) \/ FlushConflict(r)
  \/ CompleteRun(r) \/ FailRun(r)

Next == \/ \E r \in Runs : CreateRun(r) \/ Work(r) \/ Overlook(r) \/ Crash(r)
        \/ MetaChanges

Spec == Init /\ [][Next]_vars

\* Every GET has a timeout and finitely many retries, and a row lock is freed when its
\* owner ends, so an execution goes on unless it dies.
FairSpec == Spec /\ \A r \in Runs : WF_vars(Work(r))

-----------------------------------------------------------------------------
(* Properties.                                                              *)

\* Every variable has its type.
TypeOK ==
  /\ meta \in 1..MaxVersion
  /\ listed \in BOOLEAN
  /\ row \in [Kinds -> Row]
  /\ status \in [Runs -> Statuses]
  /\ created \in [Runs -> SUBSET Kinds]
  /\ overlooked \in [Runs -> SUBSET Kinds]
  /\ twins \subseteq Runs
  /\ run \in [Runs -> Local]

\* The syncs that count the row of kind k, and not another row of the same object.
Creators(k) == {r \in Runs : k \in created[r] /\ ~(k \in AdKinds /\ r \in twins)}

\* Every row but the account's is counted as created by exactly one sync, and that
\* sync has finished: a partial import is never without the run that reports it, and
\* a run that stays running has written nothing.  An ad has no other row as long as
\* the account is listed, because every sync then waits for the account's row.
RowsAccounted ==
  /\ \A k \in Kinds \ {"account"} :
       /\ \A r, q \in Creators(k) : r = q
       /\ row[k].ver > 0 <=> Creators(k) # {}
       /\ row[k].stamp # NoRun => status[row[k].stamp] \in {"success", "failed"}
  /\ listed => twins = {}

\* A sync that ended with success has imported what Meta had when it began, with the
\* links between its rows, as far as Meta's listings showed it.  Without the lock of
\* the account's row, another sync may put older data in between, or take a link away
\* that this one, having loaded it, does not write again, or have inserted the ad first.
SuccessIsComplete ==
  \A r \in Runs : status[r] = "success" =>
    \A k \in Kinds \ ({"account"} \cup overlooked[r]) :
      /\ k # "snapshot" \/ "ad" \notin overlooked[r] =>
           \/ row[k].ver >= (IF listed THEN run[r].began ELSE 1)
           \/ r \in twins /\ k \in AdKinds /\ k \in created[r]
      /\ listed /\ row[k].stamp = r /\ overlooked[r] = {} => row[k].linked

\* A later commit never brings older data back while the account is listed: every
\* sync then updates the account first, and its row lock lets one through at a time.
\* The account itself is read before the lock and can go back.
NeverBackwards ==
  [][listed => \A k \in Kinds \ {"account"} : row'[k].ver >= row[k].ver]_vars

\* A sync that has begun ends with success or failure in its row unless it died.
RunsSettle ==
  \A r \in Runs :
    status[r] = "running" ~> (status[r] \in {"success", "failed"} \/ run[r].at = "dead")
=============================================================================
