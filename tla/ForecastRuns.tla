---- MODULE ForecastRuns ----
(* Runs of the forecast engine under the lock of EngineLock. A run reads the
   marts in several statements, writes its three tables in three more, and
   closes its row of forecast_runs. *)
EXTENDS EngineLock, FiniteSets, Sequences

CONSTANTS
    MaxRuns,   \* bound of the model: rows of forecast_runs
    MaxMarts,  \* bound of the model: full ETL runs that commit
    MaxRefreshes   \* bound of the model: refreshes of a mart that commit

ASSUME ForecastAssumption ==
    MaxRuns \in Nat \ {0} /\ MaxMarts \in Nat /\ MaxRefreshes \in Nat

Runs == 1..MaxRuns
\* ETL runs that commit, in the order of committed_at.
EtlCommits == 1..(MaxMarts + MaxRefreshes)

\* What the ETL leaves to be read (see MartVersions and EtlRuns).
VARIABLES
    marts,     \* the full ETL run whose rows the marts hold, 0 for empty marts
    etlKind,   \* etl_runs.kind of the runs that have committed
    disowned,  \* those marked failed since, as the answer to the commit was lost
    status,    \* forecast_runs.status
    snapshot,  \* snapshot_etl_run_id, 0 for NULL
    tables,    \* the tables a run has written
    counts,    \* the tables with a count in the row
    draft,     \* runs with draft plans
    approved,  \* runs with approved plans
    work       \* what a session has in memory

runVars == <<status, snapshot, tables, counts, draft, approved>>
martVars == <<marts, etlKind, disowned>>
forecastVars == <<martVars, runVars, work>>

Statuses == {"none", "running", "committed", "failed"}
ForecastStages == {"begun", "inserted", "calc", "demand", "scores",
                   "forecasts", "lines", "plans", "failing"}
Tables == {"forecasts", "lines", "plans"}
NoWork == [run |-> 0, snap |-> 0, saw |-> <<>>, made |-> {}]

CommitEtl(v, kind, bound) ==
    /\ etlKind[v] = "none"
    /\ Cardinality({w \in EtlCommits : etlKind[w] = kind}) < bound
    /\ etlKind' = [etlKind EXCEPT ![v] = kind]
    /\ UNCHANGED <<disowned, lockVars, runVars, work>>

\* A full ETL run commits all marts. Full runs build one after the other and
\* take their committed_at as they do.
FlipMarts ==
    \E v \in EtlCommits :
        /\ marts < v
        /\ CommitEtl(v, "full", MaxMarts)
        /\ marts' = v

\* The refresh of the supplier scorecard commits without a row (see EtlRuns). It
\* may have taken its committed_at before a full run that committed first.
RefreshMart ==
    \E v \in EtlCommits :
        CommitEtl(v, "mart_refresh", MaxRefreshes) /\ UNCHANGED marts

\* An ETL run whose rows are there is marked failed.
DisownRun ==
    \E v \in EtlCommits \ disowned :
        /\ etlKind[v] # "none"
        /\ disowned' = disowned \cup {v}
        /\ Fault
        /\ UNCHANGED <<marts, etlKind, lock, stage, orphaned, lost, runVars, work>>

\* The committed row of etl_runs with the latest committed_at, of whatever kind.
LatestCommitted(v) ==
    LET committed == {w \in EtlCommits : etlKind[w] # "none"} \ disowned
    IN  /\ v \in committed \/ (v = 0 /\ committed = {})
        /\ \A w \in committed : w <= v

\* A step of a session that touches neither the lock nor the marts.
Step(s, from, to) ==
    /\ At(s, from)
    /\ GoTo(s, to)
    /\ UNCHANGED <<lock, orphaned, lost, martVars>>

Fresh(r) == status[r] = "none" /\ \A q \in 1..(r - 1) : status[q] # "none"

InsertRow(s, r, snap) ==
    /\ Fresh(r)
    /\ status' = [status EXCEPT ![r] = "running"]
    /\ snapshot' = [snapshot EXCEPT ![r] = snap]
    /\ work' = [work EXCEPT ![s].run = r]
    /\ UNCHANGED <<tables, counts, draft, approved, faults>>

\* The request inserts the row first, without a snapshot, and answers with it;
\* its goroutine goes on.
InsertPreset(s) ==
    /\ s \in Triggers
    /\ Step(s, "locked", "begun")
    /\ \E r \in Runs : InsertRow(s, r, 0)

\* GetLatestCommittedEtlRunID. For a preset row nothing is done with the answer.
GetSnapshotId(s) ==
    /\ IF s \in Ticks
       THEN /\ Step(s, "locked", "begun")
            /\ \E v \in EtlCommits \cup {0} :
                  LatestCommitted(v) /\ work' = [work EXCEPT ![s].snap = v]
       ELSE Step(s, "begun", "inserted") /\ UNCHANGED work
    /\ UNCHANGED <<runVars, faults>>

\* The row of a tick has the snapshot.
InsertRun(s) ==
    /\ s \in Ticks
    /\ Step(s, "begun", "inserted")
    /\ \E r \in Runs : InsertRow(s, r, work[s].snap)

\* A statement of its own for each mart, of whatever rows are there by then: none
\* of them asks for the ETL run recorded.
Read(s, from, to) ==
    /\ Step(s, from, to)
    /\ work' = [work EXCEPT ![s].saw = Append(@, marts)]
    /\ UNCHANGED <<runVars, faults>>
ReadCalcInput(s) == Read(s, "inserted", "calc")
ReadDemandWindow(s) == work[s].saw # <<0>> /\ Read(s, "calc", "demand")

\* With the third mart everything is computed in memory: a line for each row of
\* the input, forecasts where there is a history, plans where there is a need.
ReadSupplierScores(s) ==
    /\ Step(s, "demand", "scores")
    /\ \E some \in SUBSET {"forecasts", "plans"} :
          work' = [work EXCEPT ![s] = [work[s] EXCEPT !.saw = Append(work[s].saw, marts),
                                                      !.made = some \cup {"lines"}]]
    /\ UNCHANGED <<runVars, faults>>

\* No calculation input: nothing else is read or written.
SkipEmptyMarts(s) ==
    /\ work[s].saw = <<0>>
    /\ Step(s, "calc", "plans")
    /\ UNCHANGED <<runVars, work, faults>>

Write(s, table) ==
    LET r == work[s].run
    IN  /\ tables' = [tables EXCEPT ![r] = @ \cup {table}]
        /\ draft' = IF table = "plans" THEN draft \cup {r} ELSE draft
        /\ UNCHANGED <<status, snapshot, counts, approved, work, faults>>

\* One INSERT of all the rows of a table, in a transaction of its own.
WriteTable(s, from, to) ==
    /\ to \in work[s].made
    /\ Step(s, from, to)
    /\ Write(s, to)
BulkInsertForecasts(s) == WriteTable(s, "scores", "forecasts")
BulkInsertCalculationLines(s) == WriteTable(s, "forecasts", "lines")
BulkInsertPlans(s) == WriteTable(s, "lines", "plans")

\* Nothing of the kind: no statement.
SkipTable(s, from, to) ==
    /\ to \notin work[s].made
    /\ Step(s, from, to)
    /\ UNCHANGED <<runVars, work, faults>>
SkipForecasts(s) == SkipTable(s, "scores", "forecasts")
SkipPlans(s) == SkipTable(s, "lines", "plans")

Close(s, result) ==
    /\ status' = [status EXCEPT ![work[s].run] = result]
    /\ UNCHANGED <<tables, draft, approved, work, faults>>

\* The counts of the run, before its plans are there.
UpdateRunCommittedEarly(s) ==
    /\ Step(s, "lines", "unlock")
    /\ Close(s, "committed")
    /\ counts' = [counts EXCEPT ![work[s].run] = work[s].made]
    /\ UNCHANGED snapshot

\* The snapshot as it is when the run commits.
UpdateRunCommittedLate(s) ==
    /\ Step(s, "plans", "unlock")
    /\ Close(s, "committed")
    /\ counts' = [counts EXCEPT ![work[s].run] = work[s].made]
    /\ \E v \in EtlCommits \cup {0} :
          LatestCommitted(v) /\ snapshot' = [snapshot EXCEPT ![work[s].run] = v]

\* An update by id, whatever the row says.
UpdateRunCommitted(s) ==
    /\ Step(s, "plans", "unlock")
    /\ Close(s, "committed")
    /\ counts' = [counts EXCEPT ![work[s].run] = work[s].made]
    /\ UNCHANGED snapshot

\* Started over until it succeeds.
UpdateRunFailedRetry(s) ==
    /\ Step(s, "failing", "inserted")
    /\ UNCHANGED <<runVars, work, faults>>

\* Another update by id.
UpdateRunFailed(s) ==
    /\ Step(s, "failing", "unlock")
    /\ Close(s, "failed")
    /\ UNCHANGED <<counts, snapshot>>

\* A read or an insert of the run fails: what it has in memory is gone, what it
\* has written stays.
FailRun(s) ==
    /\ \E from \in ForecastStages \ {"begun", "plans", "failing"} :
          Step(s, from, "failing")
    /\ work' = [work EXCEPT ![s] = [NoWork EXCEPT !.run = work[s].run]]
    /\ UNCHANGED <<runVars, faults>>

\* Before there is a row.
FailEarly(s) ==
    /\ \/ Step(s, "locked", "unlock")
       \/ s \in Ticks /\ Step(s, "begun", "unlock")
    /\ UNCHANGED <<runVars, work, faults>>

\* The row stays 'running': the snapshot of a preset run cannot be read, the
\* last update fails, or (a timeout of the tick) the update of a failed run.
FailUnmarked(s) ==
    /\ \/ s \in Triggers /\ Step(s, "begun", "unlock")
       \/ \E from \in {"plans", "failing"} : Step(s, from, "unlock")
    /\ Fault
    /\ UNCHANGED <<runVars, work>>

\* A draft plan may be approved while its run is under way, or after it failed.
ApprovePlan(r) ==
    /\ r \in draft
    /\ draft' = draft \ {r}
    /\ approved' = approved \cup {r}
    /\ UNCHANGED <<lockVars, martVars, status, snapshot, tables, counts, work>>

ForecastInit ==
    /\ marts = 0
    /\ etlKind = [v \in EtlCommits |-> "none"]
    /\ disowned = {}
    /\ status = [r \in Runs |-> "none"]
    /\ snapshot = [r \in Runs |-> 0]
    /\ tables = [r \in Runs |-> {}]
    /\ counts = [r \in Runs |-> {}]
    /\ draft = {}
    /\ approved = {}
    /\ work = [s \in Sessions |-> NoWork]

\* The memory of a session ends with it.
ForecastLockStep(s) ==
    /\ LockStep(s)
    /\ work' = IF stage'[s] = "idle" THEN [work EXCEPT ![s] = NoWork] ELSE work
    /\ UNCHANGED <<martVars, runVars>>

\* What a session that has the lock does by itself.
ForecastGoesOn(s) ==
    \/ InsertPreset(s)
    \/ GetSnapshotId(s)
    \/ InsertRun(s)
    \/ ReadCalcInput(s)
    \/ ReadDemandWindow(s)
    \/ ReadSupplierScores(s)
    \/ SkipEmptyMarts(s)
    \/ BulkInsertForecasts(s)
    \/ BulkInsertCalculationLines(s)
    \/ BulkInsertPlans(s)
    \/ SkipForecasts(s)
    \/ SkipPlans(s)
    \/ UpdateRunCommitted(s)
    \/ UpdateRunFailed(s)
    \/ FailRun(s)
    \/ FailEarly(s)
    \/ Unlock(s) /\ ForecastLockStep(s)

ForecastStep ==
    \/ FlipMarts \/ RefreshMart \/ DisownRun
    \/ \E s \in Sessions :
          ForecastGoesOn(s) \/ ForecastLockStep(s) \/ FailUnmarked(s)
    \/ \E r \in Runs : ApprovePlan(r)

---------------------------------------------------------------------------
Abandoned(r) ==
    /\ status[r] = "running"
    /\ \A s \in Sessions : work[s].run # r \/ ~Engaged(s)

(* A committed run has every table its counts speak of, and a failed or an
   abandoned one has no counts.  No plan can be seen, approved or ordered before
   the lines it is made of: the order builder reads them by the run of the plan.
   A row stays 'running' without a session only for a failure nobody could clean
   up after, and each such failure leaves one at most. *)
RunsWhole ==
    /\ \A r \in Runs :
         counts[r] = IF status[r] = "committed" THEN tables[r] ELSE {}
    /\ \A r \in draft \cup approved : "lines" \in tables[r]
    /\ Cardinality({r \in Runs : Abandoned(r)}) <= faults

(* A run never computes from rows older than the full ETL run it records, nor
   from a later mart that is older than an earlier one. A run that records the
   refresh of a mart may: the latest committed run is taken whatever its kind,
   and its rows are not asked for. *)
ReadsForward ==
    \A s \in Sessions :
        LET saw == work[s].saw
            recorded == snapshot[work[s].run]
        IN  /\ \A i, j \in DOMAIN saw : i <= j => saw[i] <= saw[j]
            /\ saw # <<>> /\ recorded # 0 =>
                  recorded <= saw[1] \/ etlKind[recorded] = "mart_refresh"

(* The id a client was given to poll comes to an end: no run is under way for
   ever, it commits, fails, or is abandoned. *)
RunsEnd == \A r \in Runs : []<>(status[r] # "running" \/ Abandoned(r))
====
