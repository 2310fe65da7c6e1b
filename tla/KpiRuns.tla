---- MODULE KpiRuns ----
(* Runs of the KPI engine under the lock of EngineLock: delete the snapshots of
   the day, load the calibrations, then compute one KPI after another and insert
   its snapshots row by row, all in autocommit. *)
EXTENDS EngineLock, Sequences, SequencesExt

CONSTANTS
    MaxKpiRuns,      \* bound of the model: runs of the engine
    MaxCalibrations  \* bound of the model: updates of a calibration

ASSUME KpiAssumption == MaxKpiRuns \in Nat \ {0} /\ MaxCalibrations \in Nat

\* Two of the three: the third, otif, runs like them.
KpiNames == {"osa", "stock_days"}
\* The scopes (product and location, supplier) a mart has rows for.
Scopes == 1..2
\* The order of a tick; a request names the KPIs it wants.
AllKpis == <<"osa", "stock_days">>
Requests == {AllKpis, <<"osa">>}

VARIABLES
    rows,          \* kpi_snapshots of the day
    kpiRun,        \* runs of the engine so far
    calibration,   \* the version of kpi_calibrations
    kpiWork,       \* what a session has in memory
    refreshed      \* the run that last completed a KPI, 0 once it is deleted

kpiVars == <<rows, kpiRun, calibration, kpiWork, refreshed>>

NoKpiWork == [run |-> 0, names |-> <<>>, calib |-> 0, todo |-> {}]

KpiMove(s, from, to) ==
    /\ At(s, from)
    /\ GoTo(s, to)
    /\ UNCHANGED <<lock, orphaned, lost, faults>>

\* The delete of the day comes before everything else.
DeleteSnapshotsForDate(s) ==
    /\ kpiRun < MaxKpiRuns
    /\ KpiMove(s, "locked", "deleted")
    /\ kpiRun' = kpiRun + 1
    /\ \E names \in IF s \in Ticks THEN {AllKpis} ELSE Requests :
          /\ rows' = {row \in rows : row.kpi \notin ToSet(names)}
          /\ refreshed' = [k \in KpiNames |->
                IF k \in ToSet(names) THEN 0 ELSE refreshed[k]]
          /\ kpiWork' = [kpiWork EXCEPT ![s] =
                [run |-> kpiRun + 1, names |-> names, calib |-> 0, todo |-> {}]]
    /\ UNCHANGED calibration

\* All calibrations, once for the run.
ListCalibrations(s) ==
    /\ KpiMove(s, "deleted", "calibrated")
    /\ kpiWork' = [kpiWork EXCEPT ![s].calib = calibration]
    /\ UNCHANGED <<rows, kpiRun, calibration, refreshed>>

\* The mart of the next KPI and its snapshots, in memory.
ComputeKpi(s) ==
    /\ kpiWork[s].names # <<>>
    /\ KpiMove(s, "calibrated", "computed")
    /\ kpiWork' = [kpiWork EXCEPT ![s].todo = Scopes]
    /\ UNCHANGED <<rows, kpiRun, calibration, refreshed>>

NewRow(s, scope) ==
    [kpi |-> Head(kpiWork[s].names), scope |-> scope, run |-> kpiWork[s].run,
     calib |-> kpiWork[s].calib]

\* One row, one statement, in the order of the mart.
InsertSnapshot(s) ==
    /\ At(s, "computed")
    /\ kpiWork[s].todo # {}
    /\ LET scope == Min(kpiWork[s].todo)
       IN  /\ rows' = rows \cup {NewRow(s, scope)}
           /\ kpiWork' = [kpiWork EXCEPT ![s].todo = @ \ {scope}]
    /\ UNCHANGED <<lockVars, kpiRun, calibration, refreshed>>

\* The next KPI.
NextKpi(s) == kpiWork' = [kpiWork EXCEPT ![s].names = Tail(@), ![s].todo = {}]

KpiDone(s) ==
    /\ kpiWork[s].todo = {}
    /\ KpiMove(s, "computed", "calibrated")
    /\ refreshed' = [refreshed EXCEPT ![Head(kpiWork[s].names)] = kpiWork[s].run]
    /\ NextKpi(s)
    /\ UNCHANGED <<rows, kpiRun, calibration>>

\* Reported with the KPIs that are done.
KpiFailsDone(s) ==
    /\ kpiWork[s].names # <<>>
    /\ \E from \in {"calibrated", "computed"} : KpiMove(s, from, "calibrated")
    /\ refreshed' = [refreshed EXCEPT ![Head(kpiWork[s].names)] = kpiWork[s].run]
    /\ NextKpi(s)
    /\ UNCHANGED <<rows, kpiRun, calibration>>

\* A read, the budget of errors or an insert: the rows of this KPI that are
\* there stay, and the next KPI is tried.
KpiFails(s) ==
    /\ kpiWork[s].names # <<>>
    /\ \E from \in {"calibrated", "computed"} : KpiMove(s, from, "calibrated")
    /\ NextKpi(s)
    /\ UNCHANGED <<rows, kpiRun, calibration, refreshed>>

\* The delete or the calibrations fail: nothing is computed.
KpiRunFails(s) ==
    /\ \E from \in {"locked", "deleted"} : KpiMove(s, from, "unlock")
    /\ UNCHANGED kpiVars

EndKpiRun(s) ==
    /\ kpiWork[s].names = <<>>
    /\ KpiMove(s, "calibrated", "unlock")
    /\ UNCHANGED kpiVars

\* PUT /v1/kpi/calibrations/:id, at any time.
UpdateCalibration ==
    /\ calibration < MaxCalibrations
    /\ calibration' = calibration + 1
    /\ UNCHANGED <<lockVars, rows, kpiRun, kpiWork, refreshed>>

KpiInit ==
    /\ rows = {}
    /\ kpiRun = 0
    /\ calibration = 0
    /\ kpiWork = [s \in Sessions |-> NoKpiWork]
    /\ refreshed = [k \in KpiNames |-> 0]

KpiLockStep(s) ==
    /\ LockStep(s)
    /\ kpiWork' = IF stage'[s] = "idle" THEN [kpiWork EXCEPT ![s] = NoKpiWork]
                  ELSE kpiWork
    /\ UNCHANGED <<rows, kpiRun, calibration, refreshed>>

\* What a session that has the lock does by itself.
KpiGoesOn(s) ==
    \/ DeleteSnapshotsForDate(s)
    \/ ListCalibrations(s)
    \/ ComputeKpi(s)
    \/ InsertSnapshot(s)
    \/ KpiDone(s)
    \/ KpiFails(s)
    \/ KpiRunFails(s)
    \/ EndKpiRun(s)
    \/ Unlock(s) /\ KpiLockStep(s)

KpiStep ==
    \/ UpdateCalibration
    \/ \E s \in Sessions : KpiGoesOn(s) \/ KpiLockStep(s)

---------------------------------------------------------------------------
(* Unless the lock was once lost under a run: a refresh leaves no rows of the
   run before, and all rows of a KPI name the calibrations of one moment, whatever
   is updated meanwhile; and a KPI that was reported computed has a row for every
   scope, all of the run that reported it, until a later run deletes them. *)
RefreshedWhole ==
    ~lost =>
        /\ \A x, y \in rows : x.kpi = y.kpi => x.run = y.run /\ x.calib = y.calib
        /\ \A k \in KpiNames : refreshed[k] # 0 =>
             \A scope \in Scopes : \E row \in rows :
                 row.kpi = k /\ row.scope = scope /\ row.run = refreshed[k]
====
