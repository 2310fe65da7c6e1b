--------------------------- MODULE PlanningProofs ---------------------------
(***************************************************************************)
(* Proofs about PlanningRuns, for every set of sessions and every bound:   *)
(* runs of an engine exclude each other, a forecast is computed from rows  *)
(* no older than its run records and its run is whole, and so is a         *)
(* refreshed KPI.                                                          *)
(***************************************************************************)
EXTENDS PlanningRuns, FiniteSetTheorems, TLAPS

-----------------------------------------------------------------------------
(***************************************************************************)
(* The lock.  A session that is engaged and has kept its connection is the *)
(* one the server has the lock for.                                        *)
(***************************************************************************)
AllStages ==
    ForecastStages \cup
    {"idle", "locked", "unlock", "deleted", "calibrated", "computed"}

LockTypeOK ==
    /\ lock \in Sessions \cup {NoSession}
    /\ stage \in [Sessions -> AllStages]
    /\ orphaned \in SUBSET Sessions
    /\ lost \in BOOLEAN

HeldWhileEngaged ==
    /\ \A s \in Sessions \ orphaned : Engaged(s) => lock = s
    /\ ~lost => orphaned = {}

LockInv == LockTypeOK /\ HeldWhileEngaged

LEMMA LockInitially ==
  ASSUME LockInit
  PROVE  LockInv
BY SessionsAssumption
   DEF LockInit, LockInv, LockTypeOK, HeldWhileEngaged, Engaged, Sessions, AllStages

LEMMA LockSteps ==
  ASSUME LockInv, NEW s \in Sessions, LockStep(s)
  PROVE  LockInv'
<1> USE SessionsAssumption
    DEF LockInv, LockTypeOK, HeldWhileEngaged, Engaged, Sessions, At, GoTo, AllStages
<1>1. ASSUME TryLock(s) PROVE LockInv'
  BY <1>1 DEF TryLock
<1>2. ASSUME Unlock(s) PROVE LockInv'
  BY <1>2 DEF Unlock
<1>3. ASSUME LoseLock(s) PROVE LockInv'
  BY <1>3 DEF LoseLock, Fault
<1>4. ASSUME LoseProcess(s) PROVE LockInv'
  BY <1>4 DEF LoseProcess, Fault
<1> QED
  BY <1>1, <1>2, <1>3, <1>4 DEF LockStep

(***************************************************************************)
(* Every other step starts in a session that is engaged already.           *)
(***************************************************************************)
LEMMA EngagedMoves ==
  ASSUME LockInv, NEW s \in Sessions, NEW from, NEW to \in AllStages,
         from \notin {"idle", "unlock"}, At(s, from), GoTo(s, to),
         UNCHANGED <<lock, orphaned, lost>>
  PROVE  LockInv'
BY DEF LockInv, LockTypeOK, HeldWhileEngaged, Engaged, At, GoTo

LEMMA LockStays ==
  ASSUME LockInv, UNCHANGED <<lock, stage, orphaned, lost>>
  PROVE  LockInv'
BY DEF LockInv, LockTypeOK, HeldWhileEngaged, Engaged

LEMMA ForecastKeepsLock ==
  ASSUME LockInv, ForecastStep
  PROVE  LockInv'
<1> USE DEF AllStages, ForecastStages
<1>1. CASE FlipMarts \/ RefreshMart \/ DisownRun
  BY <1>1, LockStays DEF FlipMarts, RefreshMart, DisownRun, CommitEtl, lockVars
<1>2. ASSUME NEW r \in Runs, ApprovePlan(r) PROVE LockInv'
  BY <1>2, LockStays DEF ApprovePlan, lockVars
<1>3. ASSUME NEW s \in Sessions, ForecastGoesOn(s) \/ ForecastLockStep(s) \/ FailUnmarked(s)
      PROVE  LockInv'
  <2> DEFINE Moves == \E from \in AllStages \ {"idle", "unlock"}, to \in AllStages : Step(s, from, to)
  <2>0. ASSUME Moves PROVE LockInv'
    BY <2>0, EngagedMoves DEF Step
  <2> HIDE DEF Moves
  <2>1. ASSUME InsertPreset(s) \/ GetSnapshotId(s) \/ InsertRun(s) PROVE Moves
    BY <2>1 DEF Moves, InsertPreset, GetSnapshotId, InsertRun
  <2>2. ASSUME ReadCalcInput(s) \/ ReadDemandWindow(s) \/ ReadSupplierScores(s) PROVE Moves
    BY <2>2 DEF Moves, ReadCalcInput, ReadDemandWindow, ReadSupplierScores, Read
  <2>3. ASSUME SkipEmptyMarts(s) \/ SkipForecasts(s) \/ SkipPlans(s) PROVE Moves
    BY <2>3 DEF Moves, SkipEmptyMarts, SkipForecasts, SkipPlans, SkipTable
  <2>4. ASSUME BulkInsertForecasts(s) \/ BulkInsertCalculationLines(s) \/ BulkInsertPlans(s)
        PROVE  Moves
    BY <2>4 DEF Moves, BulkInsertForecasts, BulkInsertCalculationLines, BulkInsertPlans, WriteTable
  <2>5. ASSUME UpdateRunCommitted(s) \/ UpdateRunFailed(s) PROVE Moves
    BY <2>5 DEF Moves, UpdateRunCommitted, UpdateRunFailed
  <2>6. ASSUME FailRun(s) \/ FailEarly(s) \/ FailUnmarked(s) PROVE Moves
    BY <2>6 DEF Moves, FailRun, FailEarly, FailUnmarked
  <2>7. ASSUME ForecastLockStep(s) PROVE LockInv'
    BY <2>7, LockSteps DEF ForecastLockStep
  <2> QED
    BY <1>3, <2>0, <2>1, <2>2, <2>3, <2>4, <2>5, <2>6, <2>7 DEF ForecastGoesOn
<1> QED
  BY <1>1, <1>2, <1>3 DEF ForecastStep

LEMMA KpiKeepsLock ==
  ASSUME LockInv, KpiStep
  PROVE  LockInv'
<1> USE DEF AllStages
<1>1. CASE UpdateCalibration
  BY <1>1, LockStays DEF UpdateCalibration, lockVars
<1>2. ASSUME NEW s \in Sessions, KpiGoesOn(s) \/ KpiLockStep(s)
      PROVE  LockInv'
  <2> DEFINE Moves == \E from \in AllStages \ {"idle", "unlock"}, to \in AllStages : KpiMove(s, from, to)
  <2>0. ASSUME Moves PROVE LockInv'
    BY <2>0, EngagedMoves DEF KpiMove
  <2> HIDE DEF Moves
  <2>1. ASSUME DeleteSnapshotsForDate(s) \/ ListCalibrations(s) \/ ComputeKpi(s) PROVE Moves
    BY <2>1 DEF Moves, DeleteSnapshotsForDate, ListCalibrations, ComputeKpi
  <2>2. ASSUME InsertSnapshot(s) PROVE LockInv'
    BY <2>2, LockStays DEF InsertSnapshot, lockVars
  <2>3. ASSUME KpiDone(s) \/ KpiFails(s) \/ KpiRunFails(s) \/ EndKpiRun(s) PROVE Moves
    BY <2>3 DEF Moves, KpiDone, KpiFails, KpiRunFails, EndKpiRun
  <2>4. ASSUME KpiLockStep(s) PROVE LockInv'
    BY <2>4, LockSteps DEF KpiLockStep
  <2> QED
    BY <1>2, <2>0, <2>1, <2>2, <2>3, <2>4 DEF KpiGoesOn
<1> QED
  BY <1>1, <1>2 DEF KpiStep

LEMMA NextKeepsLock ==
  ASSUME LockInv, [Next]_vars
  PROVE  LockInv'
BY ForecastKeepsLock, KpiKeepsLock, LockStays DEF Next, vars, lockVars

(***************************************************************************)
(* Two runs of an engine overlap only when the connection with the lock    *)
(* was lost under one of them (forecast/scheduler, kpi/scheduler).         *)
(***************************************************************************)
THEOREM RunsExclude == Spec => []LockExcludes
<1>1. Init => LockInv
  BY LockInitially DEF Init
<1>2. LockInv /\ [Next]_vars => LockInv'
  BY NextKeepsLock
<1>3. LockInv => LockExcludes
  BY DEF LockInv, HeldWhileEngaged, LockExcludes
<1> QED
  BY <1>1, <1>2, <1>3, PTL DEF Spec
-----------------------------------------------------------------------------
(***************************************************************************)
(* What the sessions of the forecast engine have read.  The rows of the    *)
(* marts only move forward, and a committed full ETL run is never later    *)
(* than they are; the snapshot of a row is written once, before its        *)
(* session reads, and no other session works on the row.                   *)
(***************************************************************************)
Recorded == {"inserted", "calc", "demand", "scores", "forecasts", "lines", "plans", "failing"}

Memory == [run : Runs \cup {0}, snap : Nat, saw : Seq(Nat), made : SUBSET Tables]

WorkTypeOK ==
    /\ marts \in Nat
    /\ etlKind \in [EtlCommits -> {"none", "full", "mart_refresh"}]
    /\ status \in [Runs -> Statuses]
    /\ snapshot \in [Runs -> Nat]
    /\ work \in [Sessions -> Memory]

\* An ETL run has rows no later than those of m, or it is a refresh.
NoLaterThan(m, v) == v <= m \/ (v \in EtlCommits /\ etlKind[v] = "mart_refresh")

\* What a session has in memory fits the marts and its row.
Ascending(saw) ==
    /\ \A i \in DOMAIN saw : saw[i] <= marts
    /\ \A i, j \in DOMAIN saw : i <= j => saw[i] <= saw[j]
WorkOf(s) ==
    LET w == work[s]
    IN  /\ NoLaterThan(marts, w.snap)
        /\ w.run # 0 => status[w.run] # "none"
        /\ stage[s] \in Recorded \/ (s \in Triggers /\ stage[s] = "begun") => w.run # 0
        /\ stage[s] \in {"idle", "locked", "begun"} => w.saw = <<>>
        /\ w.saw # <<>> => w.run # 0 /\ NoLaterThan(w.saw[1], snapshot[w.run])
        /\ Ascending(w.saw)

ReadsInOrder ==
    /\ \A v \in EtlCommits : etlKind[v] = "full" => v <= marts
    /\ \A r \in Runs : NoLaterThan(marts, snapshot[r])
    /\ \A s \in Sessions : WorkOf(s)

ReadsInv == LockTypeOK /\ WorkTypeOK /\ ReadsInOrder

LEMMA RunsAreNumbers ==
  /\ Runs \in SUBSET Nat
  /\ 0 \notin Runs
BY ForecastAssumption DEF Runs

LEMMA NoWorkTyped == NoWork \in Memory
BY DEF NoWork, Memory

LEMMA EtlCommitsAreNumbers == EtlCommits \in SUBSET Nat /\ 0 \notin EtlCommits
BY ForecastAssumption DEF EtlCommits

LEMMA LatestIsNoLater ==
  ASSUME WorkTypeOK, ReadsInOrder, NEW v \in EtlCommits \cup {0}, LatestCommitted(v)
  PROVE  v \in Nat /\ NoLaterThan(marts, v)
BY EtlCommitsAreNumbers DEF WorkTypeOK, ReadsInOrder, LatestCommitted, NoLaterThan

LEMMA RunEdited ==
  ASSUME NEW w \in Memory, NEW r \in Runs
  PROVE  /\ [w EXCEPT !.run = r] \in Memory
         /\ [w EXCEPT !.run = r].run = r
         /\ [w EXCEPT !.run = r].saw = w.saw
         /\ [w EXCEPT !.run = r].snap = w.snap
         /\ [w EXCEPT !.run = r].made = w.made
BY DEF Memory

LEMMA RunLeft ==
  ASSUME NEW run \in Runs \cup {0}
  PROVE  /\ [NoWork EXCEPT !.run = run] \in Memory
         /\ [NoWork EXCEPT !.run = run].run = run
         /\ [NoWork EXCEPT !.run = run].snap = 0
         /\ [NoWork EXCEPT !.run = run].saw = <<>>
         /\ [NoWork EXCEPT !.run = run].made = {}
<1>1. PICK w \in Memory : w = NoWork
  BY NoWorkTyped
<1>2. w.snap = 0 /\ w.saw = <<>> /\ w.made = {}
  BY <1>1 DEF NoWork
<1>3. [w EXCEPT !.run = run] \in Memory
  BY DEF Memory
<1>4. /\ [w EXCEPT !.run = run].run = run /\ [w EXCEPT !.run = run].snap = w.snap
      /\ [w EXCEPT !.run = run].saw = w.saw /\ [w EXCEPT !.run = run].made = w.made
  BY DEF Memory
<1> QED
  BY <1>1, <1>2, <1>3, <1>4

LEMMA ReadEdited ==
  ASSUME WorkTypeOK, NEW s \in Sessions, NEW made \in SUBSET Tables
  PROVE  LET new == [work[s] EXCEPT !.saw = Append(work[s].saw, marts)]
             all == [work[s] EXCEPT !.saw = Append(work[s].saw, marts), !.made = made]
         IN  /\ new \in Memory /\ new.run = work[s].run /\ new.snap = work[s].snap
             /\ new.saw = Append(work[s].saw, marts) /\ new.made = work[s].made
             /\ all \in Memory /\ all.run = work[s].run /\ all.snap = work[s].snap
             /\ all.saw = Append(work[s].saw, marts) /\ all.made = made
<1>1. work[s] \in Memory /\ Append(work[s].saw, marts) \in Seq(Nat)
  BY DEF WorkTypeOK, Memory
<1>2. PICK w \in Memory, q \in Seq(Nat) : w = work[s] /\ q = Append(work[s].saw, marts)
  BY <1>1
<1>3. /\ [w EXCEPT !.saw = q] \in Memory
      /\ [w EXCEPT !.saw = q].run = w.run
      /\ [w EXCEPT !.saw = q].snap = w.snap
      /\ [w EXCEPT !.saw = q].saw = q
      /\ [w EXCEPT !.saw = q].made = w.made
  BY DEF Memory
<1>4. /\ [w EXCEPT !.saw = q, !.made = made] \in Memory
      /\ [w EXCEPT !.saw = q, !.made = made].run = w.run
      /\ [w EXCEPT !.saw = q, !.made = made].snap = w.snap
      /\ [w EXCEPT !.saw = q, !.made = made].saw = q
      /\ [w EXCEPT !.saw = q, !.made = made].made = made
  BY DEF Memory
<1> QED
  BY <1>2, <1>3, <1>4

LEMMA SawGrows ==
  ASSUME NEW q \in Seq(Nat), marts \in Nat, Ascending(q)
  PROVE  /\ Append(q, marts) \in Seq(Nat)
         /\ Append(q, marts) # <<>>
         /\ Append(q, marts)[1] = IF q = <<>> THEN marts ELSE q[1]
         /\ Ascending(Append(q, marts))
<1>1. Append(q, marts) \in Seq(Nat) /\ Len(Append(q, marts)) = Len(q) + 1
  OBVIOUS
<1>2. DOMAIN Append(q, marts) = 1..(Len(q) + 1) /\ Append(q, marts)[Len(q) + 1] = marts
  BY <1>1
<1>3. \A i \in 1..Len(q) : Append(q, marts)[i] = q[i]
  OBVIOUS
<1>4. \A i \in 1..Len(q) : q[i] <= marts /\ q[i] \in Nat
  BY DEF Ascending
<1>5. Append(q, marts) # <<>>
  BY <1>1
<1>6. q # <<>> => 1 \in 1..Len(q)
  OBVIOUS
<1>7. q = <<>> => Len(q) = 0
  OBVIOUS
<1>8. Ascending(Append(q, marts))
  <2>1. \A i, j \in 1..Len(q) : i <= j => q[i] <= q[j]
    BY DEF Ascending
  <2> QED BY <1>2, <1>3, <1>4, <2>1 DEF Ascending
<1> QED
  BY <1>1, <1>2, <1>3, <1>5, <1>6, <1>7, <1>8

LEMMA ReadsInitially ==
  ASSUME LockInit, ForecastInit
  PROVE  WorkTypeOK /\ ReadsInOrder
BY RunsAreNumbers
   DEF LockInit, ForecastInit, WorkTypeOK, Memory, ReadsInOrder, WorkOf, Ascending, NoWork,
       NoLaterThan, Statuses, Recorded, Tables

(***************************************************************************)
(* A session moves on, its memory and the rows as they are.                *)
(***************************************************************************)
LEMMA QuietMove ==
  ASSUME ReadsInv, NEW s \in Sessions, NEW from, NEW to \in AllStages, At(s, from), GoTo(s, to),
         UNCHANGED <<marts, etlKind, snapshot, work>>,
         status' \in [Runs -> Statuses],
         \A r \in Runs : status[r] # "none" => status'[r] # "none",
         to \in Recorded => from \in Recorded,
         to \in {"idle", "begun"} => FALSE,
         to = "locked" => from = "idle"
  PROVE  WorkTypeOK' /\ ReadsInOrder'
BY DEF ReadsInv, LockTypeOK, WorkTypeOK, Memory, ReadsInOrder, WorkOf, Ascending, NoLaterThan, At, GoTo, Recorded

(***************************************************************************)
(* The ETL commits a run: its number is of no run so far.                  *)
(***************************************************************************)
LEMMA EtlGoesOn ==
  ASSUME ReadsInv, UNCHANGED <<stage, snapshot, status, work>>,
         marts' \in Nat, marts <= marts',
         etlKind' \in [EtlCommits -> {"none", "full", "mart_refresh"}],
         \A v \in EtlCommits : etlKind[v] # "none" => etlKind'[v] = etlKind[v],
         \A v \in EtlCommits : etlKind[v] = "none" /\ etlKind'[v] = "full" => v <= marts'
  PROVE  WorkTypeOK' /\ ReadsInOrder'
<1> USE EtlCommitsAreNumbers
<1>1. WorkTypeOK'
  BY DEF ReadsInv, WorkTypeOK, Memory
<1>2. ASSUME NEW v \in Nat, NEW m \in Nat, NEW n \in Nat, m <= n, NoLaterThan(m, v)
      PROVE  NoLaterThan(n, v)'
  BY <1>2 DEF NoLaterThan
<1>3. ASSUME NEW s \in Sessions PROVE WorkOf(s)'
  <2>1. /\ work[s].snap \in Nat /\ work[s].saw \in Seq(Nat) /\ work[s].run \in Runs \cup {0}
        /\ marts \in Nat
    BY DEF ReadsInv, WorkTypeOK, Memory
  <2>2. \A i \in DOMAIN work[s].saw : work[s].saw[i] \in Nat
    BY <2>1
  <2>3. WorkOf(s)
    BY DEF ReadsInv, ReadsInOrder
  <2>4. NoLaterThan(marts, work[s].snap)'
    BY <1>2, <2>1, <2>3 DEF WorkOf
  <2>5. Ascending(work[s].saw)'
    BY <2>1, <2>2, <2>3 DEF WorkOf, Ascending
  <2>6. ASSUME work[s].saw # <<>>
        PROVE  NoLaterThan(work[s].saw[1], snapshot[work[s].run])'
    <3>1. work[s].saw[1] \in Nat /\ work[s].run \in Runs /\ snapshot[work[s].run] \in Nat
      BY <2>1, <2>2, <2>3, <2>6 DEF WorkOf, ReadsInv, WorkTypeOK
    <3> QED
      BY <1>2, <2>3, <2>6, <3>1 DEF WorkOf
  <2> QED
    BY <2>3, <2>4, <2>5, <2>6 DEF WorkOf
<1>4. \A r \in Runs : NoLaterThan(marts, snapshot[r])'
  BY <1>2 DEF ReadsInv, WorkTypeOK, ReadsInOrder
<1>5. \A v \in EtlCommits : etlKind'[v] = "full" => v <= marts'
  BY DEF ReadsInv, WorkTypeOK, ReadsInOrder
<1> QED
  BY <1>1, <1>3, <1>4, <1>5 DEF ReadsInOrder

LEMMA Rests ==
  ASSUME ReadsInv, UNCHANGED <<stage, snapshot, status, work, marts, etlKind>>
  PROVE  WorkTypeOK' /\ ReadsInOrder'
BY DEF ReadsInv, WorkTypeOK, Memory, ReadsInOrder, WorkOf, Ascending, NoLaterThan

(***************************************************************************)
(* A row of forecast_runs is inserted, and belongs to its session.         *)
(***************************************************************************)
LEMMA InsertKeepsReads ==
  ASSUME ReadsInv, NEW s \in Sessions, NEW r \in Runs, NEW snap \in Nat, NoLaterThan(marts, snap),
         InsertRow(s, r, snap), NEW from \in {"locked", "begun"}, NEW to \in {"begun", "inserted"},
         Step(s, from, to)
  PROVE  WorkTypeOK' /\ ReadsInOrder'
<1> USE RunsAreNumbers DEF ReadsInv, LockTypeOK, WorkTypeOK, Step, At, GoTo, InsertRow, Fresh, martVars
<1>1. status' = [status EXCEPT ![r] = "running"] /\ status[r] = "none"
  OBVIOUS
<1>2. snapshot' = [snapshot EXCEPT ![r] = snap]
  OBVIOUS
<1>3. work' = [work EXCEPT ![s] = [work[s] EXCEPT !.run = r]]
  OBVIOUS
<1>0. /\ [work[s] EXCEPT !.run = r] \in Memory
      /\ [work[s] EXCEPT !.run = r].run = r
      /\ [work[s] EXCEPT !.run = r].saw = work[s].saw
      /\ [work[s] EXCEPT !.run = r].snap = work[s].snap
  BY RunEdited
<1>4. WorkTypeOK'
  BY <1>0, <1>1, <1>2, <1>3 DEF Statuses
<1>5. ASSUME NEW t \in Sessions, t # s PROVE WorkOf(t)'
  <2>1. work'[t] = work[t] /\ stage'[t] = stage[t] /\ UNCHANGED <<marts, etlKind>>
    BY <1>3, <1>5
  <2>2. work[t].run # 0 => work[t].run \in Runs /\ work[t].run # r
    BY <1>1 DEF ReadsInOrder, WorkOf, Memory
  <2>3. work[t].run # 0 => /\ status'[work[t].run] = status[work[t].run]
                           /\ snapshot'[work[t].run] = snapshot[work[t].run]
    BY <1>1, <1>2, <2>2
  <2> QED
    BY <2>1, <2>3 DEF ReadsInOrder, WorkOf, Ascending, NoLaterThan
<1>6. WorkOf(s)'
  <2>1. work'[s].run = r /\ work'[s].saw = work[s].saw /\ work'[s].snap = work[s].snap
    BY <1>0, <1>3
  <2>2. work[s].saw = <<>>
    BY DEF ReadsInOrder, WorkOf
  <2>3. status'[r] = "running"
    BY <1>1
  <2> QED
    BY <2>1, <2>2, <2>3 DEF ReadsInOrder, WorkOf, Ascending, NoLaterThan
<1>7. \A q \in Runs : NoLaterThan(marts, snapshot[q])'
  BY <1>2 DEF ReadsInOrder, NoLaterThan
<1> QED
  BY <1>4, <1>5, <1>6, <1>7 DEF ReadsInOrder

(***************************************************************************)
(* A mart is read: the memory of the session gains the version there is.   *)
(***************************************************************************)
LEMMA ReadKeepsReads ==
  ASSUME ReadsInv, NEW s \in Sessions, NEW from \in Recorded, NEW to \in Recorded,
         Step(s, from, to), NEW new \in Memory, work' = [work EXCEPT ![s] = new],
         new.run = work[s].run, new.snap = work[s].snap, new.saw = Append(work[s].saw, marts),
         UNCHANGED <<status, snapshot>>
  PROVE  WorkTypeOK' /\ ReadsInOrder'
<1> USE DEF ReadsInv, LockTypeOK, WorkTypeOK, Step, At, GoTo, martVars
<1> DEFINE saw == work[s].saw
<1>1. work[s] \in Memory /\ saw \in Seq(Nat) /\ Ascending(saw) /\ marts \in Nat
  BY DEF ReadsInOrder, WorkOf, Memory
<1>2. /\ Append(saw, marts) \in Seq(Nat)
      /\ Append(saw, marts)[1] = IF saw = <<>> THEN marts ELSE saw[1]
      /\ Ascending(Append(saw, marts))
  BY <1>1, SawGrows
<1>3. /\ work'[s] \in Memory
      /\ work'[s].run = work[s].run
      /\ work'[s].saw = Append(saw, marts)
      /\ work'[s].snap = work[s].snap
  OBVIOUS
<1>4. WorkTypeOK'
  <2>1. \A t \in Sessions : t # s => work'[t] = work[t]
    OBVIOUS
  <2>2. work' \in [Sessions -> Memory]
    BY <1>3, <2>1
  <2> QED
    BY <2>2
<1>5. ASSUME NEW t \in Sessions, t # s PROVE WorkOf(t)'
  <2>1. work'[t] = work[t] /\ stage'[t] = stage[t] /\ UNCHANGED <<marts, etlKind>>
    BY <1>5
  <2> QED
    BY <2>1 DEF ReadsInOrder, WorkOf, Ascending, NoLaterThan
<1>6. WorkOf(s)'
  <2>1. /\ work'[s].run = work[s].run
        /\ work'[s].saw = Append(saw, marts)
        /\ work'[s].snap = work[s].snap
    BY <1>3
  <2>2. work[s].run # 0 /\ work[s].run \in Runs
    BY <1>1 DEF ReadsInOrder, WorkOf, Memory
  <2>3. NoLaterThan(Append(saw, marts)[1], snapshot[work[s].run])
    BY <1>2, <2>2 DEF ReadsInOrder, WorkOf
  <2>4. Ascending(work[s].saw)'
    <3>1. work'[s].saw = Append(saw, marts) /\ marts' = marts
      BY <1>3
    <3> QED
      BY <1>2, <3>1 DEF Ascending
  <2>5. stage'[s] = to
    OBVIOUS
  <2> QED
    BY <2>1, <2>2, <2>3, <2>4, <2>5 DEF ReadsInOrder, WorkOf, NoLaterThan, Recorded
<1> QED
  BY <1>4, <1>5, <1>6 DEF ReadsInOrder, NoLaterThan

LEMMA SessionKeepsReads ==
  ASSUME ReadsInv, NEW s \in Sessions,
         ForecastGoesOn(s) \/ ForecastLockStep(s) \/ FailUnmarked(s)
  PROVE  WorkTypeOK' /\ ReadsInOrder'
<1> USE DEF AllStages, ForecastStages, Recorded
<1>1. ASSUME InsertPreset(s) PROVE WorkTypeOK' /\ ReadsInOrder'
  BY <1>1, InsertKeepsReads DEF InsertPreset, ReadsInv, WorkTypeOK, Memory, NoLaterThan
<1>2. ASSUME GetSnapshotId(s) PROVE WorkTypeOK' /\ ReadsInOrder'
  <2>1. PICK from \in {"locked", "begun"}, to \in {"begun", "inserted"} :
          /\ Step(s, from, to)
          /\ s \in Ticks => from = "locked" /\ to = "begun"
          /\ s \notin Ticks => from = "begun" /\ to = "inserted"
    BY <1>2 DEF GetSnapshotId
  <2>2. PICK v \in Nat : /\ NoLaterThan(marts, v)
                         /\ \/ work' = [work EXCEPT ![s] = [@ EXCEPT !.snap = v]]
                            \/ v = work[s].snap /\ work' = work
    <3>1. CASE s \in Ticks
      BY <1>2, <3>1, LatestIsNoLater DEF GetSnapshotId, ReadsInv
    <3>2. CASE s \notin Ticks
      BY <1>2, <3>2 DEF GetSnapshotId, ReadsInv, WorkTypeOK, Memory, ReadsInOrder, WorkOf
    <3> QED
      BY <3>1, <3>2
  <2>3. UNCHANGED <<marts, etlKind, status, snapshot>>
    BY <1>2, <2>1 DEF GetSnapshotId, Step, runVars, martVars
  <2>4. WorkTypeOK'
    BY <2>2, <2>3 DEF ReadsInv, WorkTypeOK, Memory
  <2>5. ASSUME NEW t \in Sessions, t # s PROVE WorkOf(t)'
    <3>1. work'[t] = work[t] /\ stage'[t] = stage[t]
      BY <2>1, <2>2, <2>5 DEF Step, GoTo, ReadsInv, LockTypeOK, WorkTypeOK, Memory
    <3> QED
      BY <2>3, <3>1 DEF ReadsInv, ReadsInOrder, WorkOf, Ascending, NoLaterThan
  <2>6. WorkOf(s)'
    <3>1. /\ work'[s].run = work[s].run /\ work'[s].saw = work[s].saw
          /\ work'[s].snap = v
      BY <2>2 DEF ReadsInv, WorkTypeOK, Memory
    <3>2. stage'[s] = to /\ stage[s] = from
      BY <2>1 DEF Step, At, GoTo, ReadsInv, LockTypeOK
    <3>3. s \notin Ticks => s \in Triggers
      BY DEF Sessions
    <3>4. Ticks \cap Triggers = {}
      BY SessionsAssumption
    <3>5. work[s].saw = <<>> /\ marts \in Nat
      BY <2>1, <3>2 DEF ReadsInv, WorkTypeOK, Memory, ReadsInOrder, WorkOf
    <3>6. stage'[s] \in Recorded => work[s].run # 0
      BY <2>1, <3>2, <3>3 DEF ReadsInv, ReadsInOrder, WorkOf
    <3>7. s \in Triggers => to = "inserted"
      BY <2>1, <3>4
    <3> QED
      BY <2>2, <2>3, <3>1, <3>2, <3>5, <3>6, <3>7 DEF ReadsInv, ReadsInOrder, WorkOf, Ascending, NoLaterThan
  <2> QED
    BY <2>3, <2>4, <2>5, <2>6 DEF ReadsInv, ReadsInOrder, NoLaterThan
<1>3. ASSUME InsertRun(s) PROVE WorkTypeOK' /\ ReadsInOrder'
  <2>1. work[s].snap \in Nat /\ NoLaterThan(marts, work[s].snap)
    BY DEF ReadsInv, WorkTypeOK, Memory, ReadsInOrder, WorkOf
  <2> QED
    BY <1>3, <2>1, InsertKeepsReads DEF InsertRun
<1>4. ASSUME ReadCalcInput(s) \/ ReadDemandWindow(s) PROVE WorkTypeOK' /\ ReadsInOrder'
  <2>1. PICK from \in Recorded, to \in Recorded : Read(s, from, to)
    BY <1>4 DEF ReadCalcInput, ReadDemandWindow
  <2>2. /\ Step(s, from, to)
        /\ work' = [work EXCEPT ![s] = [work[s] EXCEPT !.saw = Append(work[s].saw, marts)]]
        /\ UNCHANGED <<status, snapshot>>
    BY <2>1 DEF Read, runVars
  <2> DEFINE new == [work[s] EXCEPT !.saw = Append(work[s].saw, marts)]
  <2>3. new \in Memory /\ new.run = work[s].run /\ new.snap = work[s].snap
        /\ new.saw = Append(work[s].saw, marts)
    BY ReadEdited DEF ReadsInv
  <2> QED
    BY <2>2, <2>3, ReadKeepsReads, ZenonT(30)
<1>5. ASSUME ReadSupplierScores(s) PROVE WorkTypeOK' /\ ReadsInOrder'
  <2>1. PICK some \in SUBSET {"forecasts", "plans"} :
          work' = [work EXCEPT ![s] = [work[s] EXCEPT !.saw = Append(work[s].saw, marts),
                                                      !.made = some \cup {"lines"}]]
    BY <1>5 DEF ReadSupplierScores
  <2> DEFINE new == [work[s] EXCEPT !.saw = Append(work[s].saw, marts), !.made = some \cup {"lines"}]
  <2>2. work' = [work EXCEPT ![s] = new]
    BY <2>1
  <2>3. some \cup {"lines"} \in SUBSET Tables
    BY DEF Tables
  <2>4. new \in Memory /\ new.run = work[s].run /\ new.snap = work[s].snap
        /\ new.saw = Append(work[s].saw, marts)
    BY <2>3, ReadEdited DEF ReadsInv
  <2>5. Step(s, "demand", "scores") /\ UNCHANGED <<status, snapshot>>
    BY <1>5 DEF ReadSupplierScores, runVars
  <2> HIDE DEF new
  <2> QED
    BY <2>2, <2>4, <2>5, ReadKeepsReads
<1>6. ASSUME SkipEmptyMarts(s) \/ SkipForecasts(s) \/ SkipPlans(s)
      PROVE  WorkTypeOK' /\ ReadsInOrder'
  BY <1>6, QuietMove
     DEF SkipEmptyMarts, SkipForecasts, SkipPlans, SkipTable, Step, runVars, martVars, ReadsInv,
         WorkTypeOK, Memory
<1>7. ASSUME BulkInsertForecasts(s) \/ BulkInsertCalculationLines(s) \/ BulkInsertPlans(s)
      PROVE  WorkTypeOK' /\ ReadsInOrder'
  BY <1>7, QuietMove
     DEF BulkInsertForecasts, BulkInsertCalculationLines, BulkInsertPlans, WriteTable, Write,
         Step, martVars, ReadsInv, WorkTypeOK
<1>8. ASSUME UpdateRunCommitted(s) \/ UpdateRunFailed(s) PROVE WorkTypeOK' /\ ReadsInOrder'
  <2>1. PICK from \in Recorded, result \in {"committed", "failed"} :
          Step(s, from, "unlock") /\ Close(s, result) /\ UNCHANGED snapshot
    BY <1>8 DEF UpdateRunCommitted, UpdateRunFailed
  <2>2. /\ status' \in [Runs -> Statuses]
        /\ \A r \in Runs : status[r] # "none" => status'[r] # "none"
    BY <2>1 DEF Close, ReadsInv, WorkTypeOK, Memory, Statuses
  <2> QED
    BY <2>1, <2>2, QuietMove DEF Close, Step, martVars
<1>9. ASSUME FailEarly(s) \/ FailUnmarked(s) PROVE WorkTypeOK' /\ ReadsInOrder'
  BY <1>9, QuietMove DEF FailEarly, FailUnmarked, Step, runVars, martVars, ReadsInv, WorkTypeOK, Memory
<1>10. ASSUME ForecastLockStep(s) PROVE WorkTypeOK' /\ ReadsInOrder'
  <2>1. UNCHANGED <<marts, etlKind, status, snapshot>>
    BY <1>10 DEF ForecastLockStep, runVars, martVars
  <2>2. CASE TryLock(s)
    <3>1. stage' = [stage EXCEPT ![s] = "locked"] /\ stage[s] = "idle"
      BY <2>2 DEF TryLock, At, GoTo
    <3>2. UNCHANGED work
      BY <1>10, <3>1 DEF ForecastLockStep, ReadsInv, LockTypeOK
    <3> QED
      BY <2>1, <3>1, <3>2, QuietMove DEF At, GoTo, ReadsInv, WorkTypeOK, Memory
  <2>3. CASE Unlock(s) \/ LoseProcess(s)
    <3>1. stage' = [stage EXCEPT ![s] = "idle"]
      BY <2>3 DEF Unlock, LoseProcess, GoTo
    <3>2. work' = [work EXCEPT ![s] = NoWork]
      BY <1>10, <3>1 DEF ForecastLockStep, ReadsInv, LockTypeOK
    <3>3. WorkTypeOK'
      BY <2>1, <3>2 DEF ReadsInv, WorkTypeOK, Memory, NoWork, Tables
    <3>4. ASSUME NEW t \in Sessions PROVE WorkOf(t)'
      BY <2>1, <3>1, <3>2 DEF ReadsInv, LockTypeOK, WorkTypeOK, Memory, ReadsInOrder, WorkOf, Ascending,
             NoLaterThan, NoWork
    <3> QED
      BY <2>1, <3>3, <3>4 DEF ReadsInv, ReadsInOrder, NoLaterThan
  <2>4. CASE LoseLock(s)
    <3>1. UNCHANGED stage
      BY <2>4 DEF LoseLock
    <3>2. UNCHANGED work \/ (stage[s] = "idle" /\ work' = [work EXCEPT ![s] = NoWork])
      BY <1>10, <3>1 DEF ForecastLockStep
    <3>3. WorkTypeOK'
      BY <2>1, <3>2, NoWorkTyped DEF ReadsInv, WorkTypeOK
    <3>4. CASE UNCHANGED work
      BY <2>1, <3>1, <3>4, Rests DEF ReadsInv, WorkTypeOK
    <3>5. ASSUME stage[s] = "idle", work' = [work EXCEPT ![s] = NoWork], NEW t \in Sessions
          PROVE  WorkOf(t)'
      BY <2>1, <3>1, <3>5
         DEF ReadsInv, LockTypeOK, WorkTypeOK, Memory, ReadsInOrder, WorkOf, Ascending,
             NoLaterThan, NoWork
    <3> QED
      BY <2>1, <3>2, <3>3, <3>4, <3>5 DEF ReadsInv, ReadsInOrder, NoLaterThan
  <2> QED
    BY <1>10, <2>2, <2>3, <2>4 DEF ForecastLockStep, LockStep
<1>11. ASSUME FailRun(s) PROVE WorkTypeOK' /\ ReadsInOrder'
  <2>1. PICK from \in Recorded : stage[s] = from
    BY <1>11 DEF FailRun, Step, At
  <2>2. /\ stage' = [stage EXCEPT ![s] = "failing"]
        /\ UNCHANGED <<marts, etlKind, status, snapshot>>
    BY <1>11 DEF FailRun, Step, GoTo, runVars, martVars
  <2> DEFINE new == [NoWork EXCEPT !.run = work[s].run]
  <2>3. work' = [work EXCEPT ![s] = new]
    BY <1>11 DEF FailRun
  <2>4. /\ new \in Memory /\ new.run = work[s].run
        /\ new.snap = 0 /\ new.saw = <<>>
    <3>1. work[s].run \in Runs \cup {0}
      BY DEF ReadsInv, WorkTypeOK, Memory
    <3> QED
      BY <3>1, RunLeft
  <2> HIDE DEF new
  <2>5. WorkTypeOK'
    BY <2>2, <2>3, <2>4 DEF ReadsInv, WorkTypeOK
  <2>6. ASSUME NEW t \in Sessions, t # s PROVE WorkOf(t)'
    <3>1. work'[t] = work[t] /\ stage'[t] = stage[t]
      BY <2>2, <2>3, <2>6 DEF ReadsInv, LockTypeOK, WorkTypeOK
    <3> QED
      BY <2>2, <3>1 DEF ReadsInv, ReadsInOrder, WorkOf, Ascending, NoLaterThan
  <2>7. WorkOf(s)'
    <3>1. work'[s] = new /\ marts \in Nat /\ stage'[s] = "failing"
      BY <2>2, <2>3 DEF ReadsInv, LockTypeOK, WorkTypeOK
    <3>2. work'[s].run = work[s].run /\ work'[s].snap = 0 /\ work'[s].saw = <<>>
      BY <2>4, <3>1
    <3>3. NoLaterThan(marts, work[s].snap)' /\ Ascending(work[s].saw)'
      BY <2>2, <3>1, <3>2 DEF NoLaterThan, Ascending
    <3>4. work[s].run # 0 /\ status[work[s].run] # "none"
      BY <2>1 DEF ReadsInv, ReadsInOrder, WorkOf, Recorded
    <3> QED
      BY <2>2, <3>1, <3>2, <3>3, <3>4 DEF WorkOf
  <2> QED
    BY <2>2, <2>5, <2>6, <2>7 DEF ReadsInv, ReadsInOrder, NoLaterThan
<1> QED
  BY <1>1, <1>2, <1>3, <1>4, <1>5, <1>6, <1>7, <1>8, <1>9, <1>10, <1>11 DEF ForecastGoesOn

LEMMA ForecastKeepsReads ==
  ASSUME ReadsInv, ForecastStep
  PROVE  WorkTypeOK' /\ ReadsInOrder'
<1>1. ASSUME NEW v \in EtlCommits, NEW kind \in {"full", "mart_refresh"}, NEW bound,
             CommitEtl(v, kind, bound), marts' \in Nat, marts <= marts', kind = "full" => v <= marts'
      PROVE  WorkTypeOK' /\ ReadsInOrder'
  <2>1. /\ etlKind[v] = "none" /\ etlKind' = [etlKind EXCEPT ![v] = kind]
        /\ etlKind \in [EtlCommits -> {"none", "full", "mart_refresh"}]
    BY <1>1 DEF CommitEtl, ReadsInv, WorkTypeOK
  <2>2. UNCHANGED <<stage, snapshot, status, work>>
    BY <1>1 DEF CommitEtl, lockVars, runVars
  <2> QED
    BY <1>1, <2>1, <2>2, EtlGoesOn
<1>2. ASSUME FlipMarts PROVE WorkTypeOK' /\ ReadsInOrder'
  <2>1. PICK v \in EtlCommits : marts < v /\ CommitEtl(v, "full", MaxMarts) /\ marts' = v
    BY <1>2 DEF FlipMarts
  <2>2. marts \in Nat /\ v \in Nat
    BY EtlCommitsAreNumbers DEF ReadsInv, WorkTypeOK
  <2> QED
    BY <1>1, <2>1, <2>2
<1>3. ASSUME RefreshMart PROVE WorkTypeOK' /\ ReadsInOrder'
  <2>1. PICK v \in EtlCommits : CommitEtl(v, "mart_refresh", MaxRefreshes) /\ marts' = marts
    BY <1>3 DEF RefreshMart
  <2>2. marts \in Nat
    BY DEF ReadsInv, WorkTypeOK
  <2> QED
    BY <1>1, <2>1, <2>2
<1>4. ASSUME DisownRun PROVE WorkTypeOK' /\ ReadsInOrder'
  BY <1>4, Rests DEF DisownRun, runVars
<1>5. ASSUME NEW r \in Runs, ApprovePlan(r) PROVE WorkTypeOK' /\ ReadsInOrder'
  BY <1>5, Rests DEF ApprovePlan, lockVars, martVars
<1> QED
  BY <1>2, <1>3, <1>4, <1>5, SessionKeepsReads DEF ForecastStep

(***************************************************************************)
(* A behaviour of the KPI engine leaves all of this as it starts.          *)
(***************************************************************************)
ReadsIInv ==
    /\ LockInv
    /\ engine = "forecast" => WorkTypeOK /\ ReadsInOrder
    /\ engine # "forecast" => work = [s \in Sessions |-> NoWork]

LEMMA ReadsIInvKept == ReadsIInv /\ [Next]_vars => ReadsIInv'
<1> SUFFICES ASSUME ReadsIInv, [Next]_vars PROVE ReadsIInv'
  OBVIOUS
<1>1. LockInv'
  BY NextKeepsLock DEF ReadsIInv
<1>2. CASE ForecastStep /\ OfForecast
  BY <1>1, <1>2, ForecastKeepsReads DEF ReadsIInv, ReadsInv, LockInv, OfForecast
<1>3. CASE KpiStep /\ OfKpi
  BY <1>1, <1>3 DEF ReadsIInv, OfKpi, forecastVars
<1>4. CASE UNCHANGED vars
  BY <1>1, <1>4 DEF ReadsIInv, vars, lockVars, forecastVars, martVars, runVars, WorkTypeOK, Memory,
                    ReadsInOrder, WorkOf, Ascending, NoLaterThan
<1> QED
  BY <1>2, <1>3, <1>4 DEF Next

(***************************************************************************)
(* A run never computes from rows older than the full ETL run it records,  *)
(* nor from a later mart that is older than an earlier one; it may when it *)
(* records the refresh of one mart (forecast/engine: the latest committed  *)
(* run of any kind is recorded, and three statements read what is there).  *)
(***************************************************************************)
THEOREM ReadsNeverBack == Spec => []ReadsForward
<1>1. Init => ReadsIInv
  BY LockInitially, ReadsInitially DEF Init, ReadsIInv, ForecastInit
<1>2. ReadsIInv /\ [Next]_vars => ReadsIInv'
  BY ReadsIInvKept
<1>3. ReadsIInv => ReadsForward
  BY DEF ReadsIInv, ReadsInOrder, WorkOf, Ascending, NoLaterThan, ReadsForward, NoWork
<1> QED
  BY <1>1, <1>2, <1>3, PTL DEF Spec

-----------------------------------------------------------------------------
(***************************************************************************)
(* The rows of the forecast engine.  A session alone writes the row it     *)
(* inserted, and what is in the tables is what the stage of the session    *)
(* says; so a run is closed over the tables it wrote.                      *)
(***************************************************************************)
RowsTypeOK ==
    /\ tables \in [Runs -> SUBSET Tables]
    /\ counts \in [Runs -> SUBSET Tables]
    /\ draft \in SUBSET Runs
    /\ approved \in SUBSET Runs
    /\ faults \in Nat

\* What a session with work w has written at a stage.
WrittenAt(here, w, t) ==
    /\ here \in {"idle", "locked", "begun", "inserted", "calc", "demand"} => w.made = {} /\ t = {}
    /\ here \in {"scores", "forecasts", "lines"} => "lines" \in w.made
    /\ here = "scores" => t = {}
    /\ here = "forecasts" => t = w.made \ {"lines", "plans"}
    /\ here = "lines" => t = w.made \ {"plans"}
    /\ here = "plans" => t = w.made

TablesOf(r) == IF r = 0 THEN {} ELSE tables[r]

\* Until a session unlocks, the row it has inserted is running.
RowOf(s) ==
    /\ Engaged(s) /\ work[s].run # 0 => status[work[s].run] = "running"
    /\ stage[s] \in {"idle", "locked"} \/ (s \in Ticks /\ stage[s] = "begun") => work[s].run = 0
    /\ WrittenAt(stage[s], work[s], TablesOf(work[s].run))

AbandonedRuns == {r \in Runs : Abandoned(r)}

RowsOwned ==
    /\ \A s, t \in Sessions : work[s].run = work[t].run => s = t \/ work[s].run = 0
    /\ \A r \in Runs : status[r] = "none" => tables[r] = {}
    /\ \A s \in Sessions : RowOf(s)

RowsMatch ==
    /\ \A r \in Runs : counts[r] = IF status[r] = "committed" THEN tables[r] ELSE {}
    /\ \A r \in draft \cup approved : "lines" \in tables[r]

RowsGood == RowsTypeOK /\ RowsOwned /\ RowsMatch /\ Cardinality(AbandonedRuns) <= faults
RowsInv == ReadsInv /\ RowsGood

LEMMA AbandonedFinite ==
  /\ IsFiniteSet(AbandonedRuns)
  /\ Cardinality(AbandonedRuns) \in Nat
<1>1. IsFiniteSet(Runs) /\ AbandonedRuns \in SUBSET Runs
  BY ForecastAssumption, FS_Interval DEF Runs, AbandonedRuns
<1> QED
  BY <1>1, FS_Subset, FS_CardinalityType

LEMMA AbandonedCounted ==
  ASSUME Cardinality(AbandonedRuns) <= faults, faults \in Nat, NEW r,
         \/ AbandonedRuns' \in SUBSET AbandonedRuns /\ faults' \in {faults, faults + 1}
         \/ AbandonedRuns' \in SUBSET (AbandonedRuns \cup {r}) /\ faults' = faults + 1
  PROVE  Cardinality(AbandonedRuns') <= faults'
<1>0. /\ IsFiniteSet(AbandonedRuns \cup {r})
      /\ Cardinality(AbandonedRuns \cup {r})
           \in {Cardinality(AbandonedRuns), Cardinality(AbandonedRuns) + 1}
  BY AbandonedFinite, FS_AddElement
<1>1. /\ IsFiniteSet(AbandonedRuns \cup {r})
      /\ Cardinality(AbandonedRuns \cup {r}) \in Nat
      /\ Cardinality(AbandonedRuns \cup {r}) <= Cardinality(AbandonedRuns) + 1
  BY <1>0, AbandonedFinite
<1>2. ASSUME NEW S, IsFiniteSet(S), AbandonedRuns' \in SUBSET S
      PROVE  Cardinality(AbandonedRuns') <= Cardinality(S) /\ Cardinality(AbandonedRuns') \in Nat
  BY <1>2, FS_Subset, FS_CardinalityType
<1>3. CASE AbandonedRuns' \in SUBSET AbandonedRuns /\ faults' \in {faults, faults + 1}
  <2>1. Cardinality(AbandonedRuns') <= Cardinality(AbandonedRuns) /\ Cardinality(AbandonedRuns') \in Nat
    BY <1>2, <1>3, AbandonedFinite
  <2> QED
    BY <1>3, <2>1, AbandonedFinite
<1>4. CASE AbandonedRuns' \in SUBSET (AbandonedRuns \cup {r}) /\ faults' = faults + 1
  <2>1. Cardinality(AbandonedRuns') <= Cardinality(AbandonedRuns \cup {r}) /\ Cardinality(AbandonedRuns') \in Nat
    BY <1>1, <1>2, <1>4
  <2> QED
    BY <1>1, <1>4, <2>1, AbandonedFinite
<1> QED
  BY <1>3, <1>4

(***************************************************************************)
(* A step of session s, which goes to a stage with memory new: what is to  *)
(* be shown of it concerns the session and its row alone.                  *)
(***************************************************************************)
LEMMA OwnStepKeeps ==
  ASSUME RowsInv, NEW s \in Sessions, NEW to, NEW new \in Memory,
         stage' = [stage EXCEPT ![s] = to], work' = [work EXCEPT ![s] = new],
         \/ new.run \in {work[s].run, 0}
         \/ work[s].run = 0 /\ status[new.run] = "none",
         \A q \in Runs : q # new.run => /\ status'[q] = status[q]
                                        /\ tables'[q] = tables[q]
                                        /\ counts'[q] = counts[q],
         RowsTypeOK', RowOf(s)',
         draft' \cup approved' \in SUBSET (draft \cup approved \cup {new.run}),
         new.run # 0 =>
            LET r == new.run
            IN  /\ status'[r] # "none"
                /\ tables[r] \in SUBSET tables'[r]
                /\ counts'[r] = IF status'[r] = "committed" THEN tables'[r] ELSE {}
                /\ r \in draft' \cup approved' => r \in draft \cup approved \/ "lines" \in tables'[r]
  PROVE  RowsOwned' /\ RowsMatch'
<1> USE RunsAreNumbers DEF RowsInv, RowsGood, RowsTypeOK
<1>1. work'[s] = new /\ stage'[s] = to /\ new.run \in Runs \cup {0}
  BY DEF ReadsInv, LockTypeOK, WorkTypeOK, Memory
<1>2. \A t \in Sessions : t # s => work'[t] = work[t] /\ stage'[t] = stage[t]
  BY DEF ReadsInv, LockTypeOK, WorkTypeOK
<1>3. \A t \in Sessions : work[t].run \in Runs \cup {0}
  BY DEF ReadsInv, WorkTypeOK, Memory
<1>4. ASSUME NEW t \in Sessions, t # s, work[t].run # 0
      PROVE  work[t].run # new.run
  <2>1. status[work[t].run] # "none"
    BY <1>4 DEF ReadsInv, ReadsInOrder, WorkOf
  <2> QED
    BY <1>4, <2>1 DEF RowsOwned
<1>5. \A p, t \in Sessions : work'[p].run = work'[t].run => p = t \/ work'[p].run = 0
  BY <1>1, <1>2, <1>4 DEF RowsOwned
<1>6. \A r \in Runs : status'[r] = "none" => tables'[r] = {}
  BY DEF RowsOwned
<1>7. ASSUME NEW t \in Sessions PROVE RowOf(t)'
  <2>1. CASE t = s
    BY <2>1
  <2>2. CASE t # s
    <3>1. work'[t] = work[t] /\ stage'[t] = stage[t]
      BY <1>2, <2>2
    <3>2. work[t].run # 0 => /\ status'[work[t].run] = status[work[t].run]
                             /\ tables'[work[t].run] = tables[work[t].run]
      BY <1>3, <1>4, <2>2
    <3>3. TablesOf(work[t].run)' = TablesOf(work[t].run)
      BY <3>1, <3>2 DEF TablesOf
    <3>4. RowOf(t)
      BY DEF RowsOwned
    <3>5. WrittenAt(stage[t], work[t], TablesOf(work[t].run))'
      BY <3>1, <3>3, <3>4 DEF RowOf, WrittenAt
    <3> QED
      BY <3>1, <3>2, <3>4, <3>5 DEF RowOf, Engaged
  <2> QED
    BY <2>1, <2>2
<1>8. RowsMatch'
  <2>1. \A r \in Runs : counts'[r] = IF status'[r] = "committed" THEN tables'[r] ELSE {}
    BY <1>1 DEF RowsMatch
  <2>2. ASSUME NEW r \in draft' \cup approved' PROVE "lines" \in tables'[r]
    <3>1. r \in Runs
      OBVIOUS
    <3>2. CASE r = new.run
      BY <1>1, <2>2, <3>1, <3>2, ZenonT(30) DEF RowsMatch
    <3>3. CASE r # new.run
      BY <2>2, <3>1, <3>3 DEF RowsMatch
    <3> QED
      BY <3>2, <3>3
  <2> QED
    BY <2>1, <2>2 DEF RowsMatch
<1> QED
  BY <1>5, <1>6, <1>7, <1>8 DEF RowsOwned

(***************************************************************************)
(* The same step abandons a run only when it leaves one running, which     *)
(* takes a fault.                                                          *)
(***************************************************************************)
LEMMA OwnStepAbandons ==
  ASSUME RowsInv, NEW s \in Sessions, NEW to, NEW new \in Memory,
         stage' = [stage EXCEPT ![s] = to], work' = [work EXCEPT ![s] = new],
         \A q \in Runs : q # new.run => status'[q] = status[q],
         \/ new.run \in {work[s].run, 0}
         \/ work[s].run = 0 /\ status[new.run] = "none"
  PROVE  /\ AbandonedRuns' \in SUBSET (AbandonedRuns \cup {work[s].run, new.run})
         /\ to \notin {"idle", "unlock"} /\ work[s].run \in {0, new.run}
               => AbandonedRuns' \in SUBSET AbandonedRuns
         /\ new.run = work[s].run /\ (new.run # 0 => status'[new.run] # "running")
               => AbandonedRuns' \in SUBSET AbandonedRuns
         /\ new.run = 0 /\ ~Engaged(s)
               => AbandonedRuns' \in SUBSET AbandonedRuns
<1> USE RunsAreNumbers DEF RowsInv, RowsGood
<1> DEFINE r == work[s].run
<1>1. work'[s] = new /\ stage'[s] = to /\ new.run \in Runs \cup {0}
  BY DEF ReadsInv, LockTypeOK, WorkTypeOK, Memory
<1>2. \A t \in Sessions : t # s => work'[t] = work[t] /\ stage'[t] = stage[t]
  BY DEF ReadsInv, LockTypeOK, WorkTypeOK
<1>3. AbandonedRuns' \in SUBSET Runs /\ \A q \in AbandonedRuns' : Abandoned(q)'
  BY DEF AbandonedRuns
<1>4. ASSUME NEW q \in AbandonedRuns', q # new.run, q # r
      PROVE  q \in AbandonedRuns
  <2>1. q \in Runs /\ status[q] = "running"
    BY <1>3, <1>4 DEF Abandoned
  <2>2. ASSUME NEW t \in Sessions, work[t].run = q PROVE ~Engaged(t)
    <3>1. t # s
      BY <1>4, <2>2
    <3>2. ~Engaged(t)'
      BY <1>2, <1>3, <2>2, <3>1 DEF Abandoned
    <3> QED
      BY <1>2, <3>1, <3>2 DEF Engaged
  <2> QED
    BY <2>1, <2>2 DEF AbandonedRuns, Abandoned
<1>5. ASSUME to \notin {"idle", "unlock"}
      PROVE  new.run \notin AbandonedRuns'
  <2>1. Engaged(s)' /\ work'[s].run = new.run
    BY <1>1, <1>5 DEF Engaged
  <2> QED
    BY <1>3, <2>1 DEF Abandoned
<1>6. \A q \in AbandonedRuns' : status'[q] = "running" /\ q # 0
  BY <1>3 DEF Abandoned
<1>7. ASSUME r # 0, new.run = 0, ~Engaged(s), r \in AbandonedRuns'
      PROVE  r \in AbandonedRuns
  <2>1. r \in Runs /\ status[r] = "running"
    BY <1>6, <1>7 DEF ReadsInv, WorkTypeOK, Memory
  <2>2. \A t \in Sessions : work[t].run = r => t = s
    BY <1>7 DEF RowsOwned
  <2> QED
    BY <1>7, <2>1, <2>2 DEF AbandonedRuns, Abandoned
<1> HIDE DEF r
<1>8. AbandonedRuns' \in SUBSET (AbandonedRuns \cup {r, new.run})
  BY <1>4
<1>9. ASSUME to \notin {"idle", "unlock"}, r \in {0, new.run}
      PROVE  AbandonedRuns' \in SUBSET AbandonedRuns
  BY <1>4, <1>5, <1>6, <1>9
<1>10. ASSUME new.run = r, new.run # 0 => status'[new.run] # "running"
       PROVE  AbandonedRuns' \in SUBSET AbandonedRuns
  BY <1>4, <1>6, <1>10
<1>11. ASSUME new.run = 0, ~Engaged(s)
       PROVE  AbandonedRuns' \in SUBSET AbandonedRuns
  BY <1>4, <1>6, <1>7, <1>11
<1> QED
  BY <1>8, <1>9, <1>10, <1>11 DEF r

(***************************************************************************)
(* Moves that write no table.                                              *)
(***************************************************************************)
LEMMA QuietRows ==
  ASSUME RowsInv, NEW s \in Sessions, NEW to \in AllStages, NEW new \in Memory,
         stage' = [stage EXCEPT ![s] = to], work' = [work EXCEPT ![s] = new],
         new.run = work[s].run, UNCHANGED runVars,
         to \notin {"idle", "unlock"} => Engaged(s) \/ new.run = 0,
         to \in {"idle", "locked"} \/ (s \in Ticks /\ to = "begun") => new.run = 0,
         WrittenAt(to, new, TablesOf(new.run)),
         \/ faults' = faults + 1
         \/ faults' = faults /\ (to \notin {"idle", "unlock"} \/ new.run = 0)
  PROVE  RowsGood'
<1> USE DEF RowsInv, RowsGood
<1>1. UNCHANGED <<status, tables, counts, draft, approved>> /\ faults' \in {faults, faults + 1}
  BY DEF runVars
<1>2. faults \in Nat /\ RowsTypeOK'
  BY <1>1 DEF RowsTypeOK
<1>3. work'[s] = new /\ stage'[s] = to
  BY DEF ReadsInv, LockTypeOK, WorkTypeOK
<1>4. new.run # 0 => new.run \in Runs /\ status[new.run] # "none"
  BY DEF ReadsInv, ReadsInOrder, WorkOf, WorkTypeOK, Memory
<1>5. RowOf(s)'
  <2>1. Engaged(s)' /\ new.run # 0 => status'[new.run] = "running"
    BY <1>1, <1>3 DEF RowsOwned, RowOf, Engaged
  <2>2. TablesOf(new.run)' = TablesOf(new.run)
    BY <1>1 DEF TablesOf
  <2> QED
    BY <1>3, <2>1, <2>2 DEF RowOf
<1>6. RowsOwned' /\ RowsMatch'
  BY <1>1, <1>2, <1>4, <1>5, OwnStepKeeps DEF RowsMatch
<1>7. /\ AbandonedRuns' \in SUBSET (AbandonedRuns \cup {new.run})
      /\ to \notin {"idle", "unlock"} \/ new.run = 0 => AbandonedRuns' \in SUBSET AbandonedRuns
  BY <1>1, OwnStepAbandons
<1> QED
  BY <1>1, <1>2, <1>6, <1>7, AbandonedCounted

(***************************************************************************)
(* Moves that write the row of a session that is engaged.                  *)
(***************************************************************************)
LEMMA WritingRows ==
  ASSUME RowsInv, NEW s \in Sessions, NEW to \in AllStages, Engaged(s), to # "idle",
         stage' = [stage EXCEPT ![s] = to], UNCHANGED <<work, approved, faults>>,
         NEW r \in Runs, r = work[s].run,
         \A q \in Runs : q # r => /\ status'[q] = status[q]
                                  /\ tables'[q] = tables[q]
                                  /\ counts'[q] = counts[q],
         status'[r] # "none", to # "unlock" => status'[r] = "running",
         to = "unlock" => status'[r] # "running", 
         tables[r] \in SUBSET tables'[r],
         counts'[r] = IF status'[r] = "committed" THEN tables'[r] ELSE {},
         draft' \in SUBSET (draft \cup {r}), r \in draft' => r \in draft \/ "lines" \in tables'[r],
         to \notin {"locked", "begun"},
         WrittenAt(to, work[s], tables'[r]),
         RowsTypeOK'
  PROVE  RowsGood'
<1> USE RunsAreNumbers DEF RowsInv, RowsGood
<1>1. work[s] \in Memory /\ work' = [work EXCEPT ![s] = work[s]]
  BY DEF ReadsInv, WorkTypeOK
<1>2. stage'[s] = to /\ work'[s] = work[s] /\ TablesOf(work[s].run)' = tables'[r]
  BY DEF ReadsInv, LockTypeOK, TablesOf
<1>3. RowOf(s)'
  BY <1>2 DEF RowOf, Engaged
<1>4. RowsOwned' /\ RowsMatch'
  <2> DEFINE new == work[s]
  <2>1. new.run = r /\ new \in Memory /\ work' = [work EXCEPT ![s] = new]
    BY <1>1
  <2> HIDE DEF new
  <2> QED
    BY <1>3, <2>1, OwnStepKeeps, ZenonT(30)
<1>5. AbandonedRuns' \in SUBSET AbandonedRuns
  BY <1>1, OwnStepAbandons, ZenonT(30)
<1> QED
  BY <1>4, <1>5, AbandonedCounted DEF RowsTypeOK

LEMMA InsertKeepsRows ==
  ASSUME RowsInv, NEW s \in Sessions, InsertPreset(s) \/ InsertRun(s)
  PROVE  RowsGood'
<1> USE RunsAreNumbers DEF RowsInv, RowsGood, AllStages, ForecastStages
<1>1. PICK r \in Runs, snap \in Nat, from \in {"locked", "begun"}, to \in {"begun", "inserted"} :
        /\ Step(s, from, to)
        /\ InsertRow(s, r, snap)
        /\ s \in Ticks => from = "begun" /\ to = "inserted"
        /\ s \in Triggers => from = "locked"
  <2>1. CASE InsertPreset(s)
    BY <2>1, SessionsAssumption DEF InsertPreset
  <2>2. CASE InsertRun(s)
    <3>1. work[s].snap \in Nat
      BY DEF ReadsInv, WorkTypeOK, Memory
    <3> QED
      BY <2>2, <3>1, SessionsAssumption DEF InsertRun
  <2> QED
    BY <2>1, <2>2
<1> DEFINE new == [work[s] EXCEPT !.run = r]
<1>2. /\ stage' = [stage EXCEPT ![s] = to] /\ stage[s] = from
      /\ status[r] = "none" /\ status' = [status EXCEPT ![r] = "running"]
      /\ work' = [work EXCEPT ![s] = new]
      /\ UNCHANGED <<tables, counts, draft, approved, faults>>
  BY <1>1 DEF Step, At, GoTo, InsertRow, Fresh
<1>3. new \in Memory /\ new.run = r /\ new.made = work[s].made
  BY RunEdited DEF ReadsInv, WorkTypeOK
<1> HIDE DEF new
<1>4. work[s].run = 0
  BY <1>1, <1>2 DEF RowsOwned, RowOf, Sessions
<1>5. work[s].made = {} /\ tables[r] = {} /\ counts[r] = {}
  BY <1>2 DEF RowsOwned, RowOf, RowsMatch, WrittenAt
<1>6. status'[r] = "running" /\ \A q \in Runs : q # r => status'[q] = status[q]
  BY <1>2 DEF ReadsInv, WorkTypeOK
<1>7. RowsTypeOK' /\ faults \in Nat
  BY <1>2 DEF RowsTypeOK
<1>8. work'[s] = new /\ stage'[s] = to
  BY <1>2 DEF ReadsInv, LockTypeOK, WorkTypeOK
<1>9. TablesOf(work[s].run)' = {}
  BY <1>2, <1>3, <1>5, <1>8 DEF TablesOf
<1>10. RowOf(s)'
  <2>1. WrittenAt(stage[s], work[s], TablesOf(work[s].run))'
    BY <1>3, <1>5, <1>8, <1>9 DEF WrittenAt
  <2>2. ~(s \in Ticks /\ to = "begun")
    BY <1>1
  <2> QED
    BY <1>3, <1>6, <1>8, <2>1, <2>2 DEF RowOf
<1>11. RowsOwned' /\ RowsMatch'
  BY <1>2, <1>3, <1>4, <1>5, <1>6, <1>7, <1>10, OwnStepKeeps
<1>12. AbandonedRuns' \in SUBSET AbandonedRuns
  <2>1. /\ to \notin {"idle", "unlock"} /\ work[s].run \in {0, new.run}
        /\ work[s].run = 0 /\ status[new.run] = "none"
        /\ \A q \in Runs : q # new.run => status'[q] = status[q]
    BY <1>1, <1>2, <1>3, <1>4, <1>6
  <2> QED
    BY <1>2, <1>3, <2>1, OwnStepAbandons, ZenonT(30)
<1> QED
  BY <1>2, <1>7, <1>11, <1>12, AbandonedCounted

LEMMA MovesKeepRows ==
  ASSUME RowsInv, NEW s \in Sessions,
         \/ GetSnapshotId(s)
         \/ ReadCalcInput(s) \/ ReadDemandWindow(s) \/ ReadSupplierScores(s)
         \/ SkipEmptyMarts(s) \/ SkipForecasts(s) \/ SkipPlans(s)
         \/ FailRun(s) \/ FailEarly(s) \/ FailUnmarked(s)
  PROVE  RowsGood'
<1> USE RunsAreNumbers DEF RowsInv, AllStages, ForecastStages
<1>0. /\ work[s] \in Memory /\ work = [work EXCEPT ![s] = work[s]]
      /\ RowOf(s) /\ work[s].made \in SUBSET Tables
  BY DEF ReadsInv, WorkTypeOK, RowsGood, RowsOwned, Memory
<1>1. ASSUME GetSnapshotId(s) PROVE RowsGood'
  <2>0. PICK v \in Nat : work' = [work EXCEPT ![s] = [work[s] EXCEPT !.snap = v]]
    <3>1. CASE s \in Ticks
      BY <1>1, <3>1, EtlCommitsAreNumbers DEF GetSnapshotId
    <3>2. CASE s \notin Ticks
      BY <1>0, <1>1, <3>2 DEF GetSnapshotId, Memory
    <3> QED
      BY <3>1, <3>2
  <2> DEFINE new == [work[s] EXCEPT !.snap = v]
  <2>1. PICK from \in {"locked", "begun"}, to \in {"begun", "inserted"} :
          /\ Step(s, from, to)
          /\ s \in Ticks => from = "locked" /\ to = "begun"
          /\ s \notin Ticks => from = "begun" /\ to = "inserted"
    BY <1>1 DEF GetSnapshotId
  <2>2. /\ stage[s] = from /\ stage' = [stage EXCEPT ![s] = to]
        /\ work' = [work EXCEPT ![s] = new] /\ UNCHANGED <<runVars, faults>>
    BY <1>1, <2>0, <2>1 DEF GetSnapshotId, Step, At, GoTo
  <2>3. new \in Memory /\ new.run = work[s].run /\ new.made = work[s].made
    BY <1>0 DEF Memory, ReadsInv, WorkTypeOK
  <2> HIDE DEF new
  <2>4. WrittenAt(to, new, TablesOf(new.run))
    BY <1>0, <2>2, <2>3 DEF RowOf, WrittenAt
  <2>5. s \in Ticks => new.run = 0
    BY <1>0, <2>1, <2>2, <2>3 DEF RowOf
  <2>6. Engaged(s)
    BY <2>2 DEF Engaged
  <2> QED
    BY <2>1, <2>2, <2>3, <2>4, <2>5, <2>6, QuietRows
<1>2. ASSUME ReadCalcInput(s) \/ ReadDemandWindow(s) PROVE RowsGood'
  <2> DEFINE new == [work[s] EXCEPT !.saw = Append(work[s].saw, marts)]
  <2>1. PICK from \in {"inserted", "calc"}, to \in {"calc", "demand"} :
          stage[s] = from /\ stage' = [stage EXCEPT ![s] = to]
    BY <1>2 DEF ReadCalcInput, ReadDemandWindow, Read, Step, At, GoTo
  <2>2. work' = [work EXCEPT ![s] = new] /\ UNCHANGED <<runVars, faults>>
    BY <1>2 DEF ReadCalcInput, ReadDemandWindow, Read
  <2>3. new \in Memory /\ new.run = work[s].run /\ new.made = work[s].made
    BY ReadEdited DEF ReadsInv, Tables
  <2> HIDE DEF new
  <2>4. WrittenAt(to, new, TablesOf(new.run)) /\ Engaged(s)
    BY <1>0, <2>1, <2>3 DEF RowOf, WrittenAt, Engaged
  <2> QED
    BY <2>1, <2>2, <2>3, <2>4, QuietRows
<1>3. ASSUME ReadSupplierScores(s) PROVE RowsGood'
  <2>1. PICK some \in SUBSET {"forecasts", "plans"} :
          work' = [work EXCEPT ![s] = [work[s] EXCEPT !.saw = Append(work[s].saw, marts),
                                                      !.made = some \cup {"lines"}]]
    BY <1>3 DEF ReadSupplierScores
  <2> DEFINE new == [work[s] EXCEPT !.saw = Append(work[s].saw, marts), !.made = some \cup {"lines"}]
  <2>2. work' = [work EXCEPT ![s] = new]
    BY <2>1
  <2>3. some \cup {"lines"} \in SUBSET Tables
    BY DEF Tables
  <2>4. new \in Memory /\ new.run = work[s].run /\ new.made = some \cup {"lines"}
    BY <2>3, ReadEdited DEF ReadsInv
  <2>5. /\ stage[s] = "demand" /\ stage' = [stage EXCEPT ![s] = "scores"]
        /\ UNCHANGED <<runVars, faults>>
    BY <1>3 DEF ReadSupplierScores, Step, At, GoTo
  <2> HIDE DEF new
  <2>6. WrittenAt("scores", new, TablesOf(new.run)) /\ Engaged(s)
    BY <1>0, <2>4, <2>5 DEF RowOf, WrittenAt, Engaged
  <2> QED
    BY <2>2, <2>4, <2>5, <2>6, QuietRows
<1>4. ASSUME NEW to \in AllStages \ {"idle", "locked", "begun"}, GoTo(s, to), UNCHANGED <<work, runVars>>,
             WrittenAt(to, work[s], TablesOf(work[s].run)), Engaged(s),
             faults' = faults + 1 \/ (faults' = faults /\ (to # "unlock" \/ work[s].run = 0))
      PROVE  RowsGood'
  <2> DEFINE new == work[s]
  <2>1. new \in Memory /\ work' = [work EXCEPT ![s] = new] /\ new.run = work[s].run
    BY <1>0, <1>4
  <2>2. /\ WrittenAt(to, new, TablesOf(new.run))
        /\ faults' = faults + 1 \/ (faults' = faults /\ (to # "unlock" \/ new.run = 0))
    BY <1>4
  <2> HIDE DEF new
  <2> QED
    BY <1>4, <2>1, <2>2, QuietRows DEF GoTo
<1>5. ASSUME SkipEmptyMarts(s) PROVE RowsGood'
  <2>1. stage[s] = "calc" /\ GoTo(s, "plans") /\ UNCHANGED <<work, runVars, faults>>
    BY <1>5 DEF SkipEmptyMarts, Step, At
  <2>2. WrittenAt("plans", work[s], TablesOf(work[s].run)) /\ Engaged(s)
    BY <1>0, <2>1 DEF RowOf, WrittenAt, Engaged
  <2> QED
    BY <1>4, <2>1, <2>2
<1>6. ASSUME SkipForecasts(s) \/ SkipPlans(s) PROVE RowsGood'
  <2>1. PICK from \in {"scores", "lines"}, to \in {"forecasts", "plans"} :
          /\ stage[s] = from /\ GoTo(s, to) /\ UNCHANGED <<work, runVars, faults>>
          /\ to \notin work[s].made /\ (from = "scores" <=> to = "forecasts")
    BY <1>6 DEF SkipForecasts, SkipPlans, SkipTable, Step, At
  <2>2. WrittenAt(to, work[s], TablesOf(work[s].run)) /\ Engaged(s)
    BY <1>0, <2>1 DEF RowOf, WrittenAt, Engaged, Tables
  <2> QED
    BY <1>4, <2>1, <2>2
<1>7. ASSUME FailRun(s) PROVE RowsGood'
  <2> DEFINE new == [NoWork EXCEPT !.run = work[s].run]
  <2>1. PICK from \in ForecastStages : stage[s] = from /\ stage' = [stage EXCEPT ![s] = "failing"]
    BY <1>7 DEF FailRun, Step, At, GoTo
  <2>2. work' = [work EXCEPT ![s] = new] /\ UNCHANGED <<runVars, faults>>
    BY <1>7 DEF FailRun
  <2>3. new \in Memory /\ new.run = work[s].run
    <3>1. work[s].run \in Runs \cup {0}
      BY <1>0 DEF Memory
    <3> QED
      BY <3>1, RunLeft
  <2> HIDE DEF new
  <2>4. WrittenAt("failing", new, TablesOf(new.run)) /\ Engaged(s)
    BY <2>1 DEF WrittenAt, Engaged
  <2> QED
    BY <2>1, <2>2, <2>3, <2>4, QuietRows
<1>8. ASSUME FailEarly(s) PROVE RowsGood'
  <2>1. /\ stage[s] = "locked" \/ (s \in Ticks /\ stage[s] = "begun")
        /\ GoTo(s, "unlock") /\ UNCHANGED <<work, runVars, faults>>
    BY <1>8 DEF FailEarly, Step, At
  <2>2. WrittenAt("unlock", work[s], TablesOf(work[s].run)) /\ Engaged(s) /\ work[s].run = 0
    BY <1>0, <2>1 DEF RowOf, WrittenAt, Engaged
  <2> QED
    BY <1>4, <2>1, <2>2
<1>9. ASSUME FailUnmarked(s) PROVE RowsGood'
  <2>1. /\ stage[s] \in {"begun", "plans", "failing"} /\ GoTo(s, "unlock")
        /\ UNCHANGED <<work, runVars>> /\ faults' = faults + 1
    BY <1>9 DEF FailUnmarked, Step, At, Fault
  <2>2. WrittenAt("unlock", work[s], TablesOf(work[s].run)) /\ Engaged(s)
    BY <2>1 DEF WrittenAt, Engaged
  <2>3. PICK to \in AllStages \ {"idle", "locked", "begun"} : to = "unlock"
    OBVIOUS
  <2>4. GoTo(s, to) /\ UNCHANGED <<work, runVars>> /\ WrittenAt(to, work[s], TablesOf(work[s].run))
    BY <2>1, <2>2, <2>3
  <2> QED
    BY <1>4, <2>1, <2>2, <2>4
<1> QED
  BY <1>1, <1>2, <1>3, <1>5, <1>6, <1>7, <1>8, <1>9

LEMMA WritesKeepRows ==
  ASSUME RowsInv, NEW s \in Sessions,
         \/ BulkInsertForecasts(s) \/ BulkInsertCalculationLines(s) \/ BulkInsertPlans(s)
         \/ UpdateRunCommitted(s) \/ UpdateRunFailed(s)
  PROVE  RowsGood'
<1> USE RunsAreNumbers DEF AllStages, ForecastStages
<1>0. work[s] \in Memory /\ RowOf(s) /\ work[s].made \in SUBSET Tables
  BY DEF RowsInv, ReadsInv, WorkTypeOK, RowsGood, RowsOwned, Memory
<1>1. stage[s] \in {"scores", "forecasts", "lines", "plans", "failing"}
  BY DEF BulkInsertForecasts, BulkInsertCalculationLines, BulkInsertPlans, WriteTable,
         UpdateRunCommitted, UpdateRunFailed, Step, At
<1>2. work[s].run \in Runs
  BY <1>0, <1>1 DEF RowsInv, ReadsInv, ReadsInOrder, WorkOf, Recorded, Memory
<1>9. PICK r \in Runs : r = work[s].run
  BY <1>2
<1>10. /\ status[r] = "running" /\ counts[r] = {} /\ TablesOf(r) = tables[r]
      /\ tables[r] \in SUBSET Tables /\ Engaged(s)
  BY <1>0, <1>1, <1>9
     DEF RowsInv, RowOf, Engaged, RowsGood, RowsMatch, RowsTypeOK,
         TablesOf
<1>3. ASSUME BulkInsertForecasts(s) \/ BulkInsertCalculationLines(s) \/ BulkInsertPlans(s)
      PROVE  RowsGood'
  <2>1. PICK from \in {"scores", "forecasts", "lines"}, to \in Tables :
          /\ to \in work[s].made /\ Step(s, from, to) /\ Write(s, to)
          /\ from = "scores" <=> to = "forecasts"
          /\ from = "forecasts" <=> to = "lines"
    BY <1>3 DEF BulkInsertForecasts, BulkInsertCalculationLines, BulkInsertPlans, WriteTable, Tables
  <2>2. /\ stage[s] = from /\ stage' = [stage EXCEPT ![s] = to]
        /\ tables' = [tables EXCEPT ![r] = tables[r] \cup {to}]
        /\ draft' = IF to = "plans" THEN draft \cup {r} ELSE draft
        /\ UNCHANGED <<status, counts, approved, work, faults>>
    BY <1>9, <2>1 DEF Step, At, GoTo, Write
  <2>3. tables'[r] = tables[r] \cup {to} /\ \A q \in Runs : q # r => tables'[q] = tables[q]
    BY <1>9, <1>10, <2>2 DEF RowsInv, RowsGood, RowsTypeOK
  <2>4. RowsTypeOK'
    BY <1>9, <1>10, <2>1, <2>2 DEF RowsInv, RowsGood, RowsTypeOK
  <2>5. WrittenAt(from, work[s], tables[r])
    BY <1>0, <1>9, <1>10, <2>2 DEF RowOf
  <2>6. WrittenAt(to, work[s], tables'[r])
    BY <1>0, <2>1, <2>3, <2>5 DEF WrittenAt, Tables
  <2>7. to = "plans" => "lines" \in tables'[r]
    BY <2>1, <2>3, <2>5 DEF WrittenAt, Tables
  <2>8. r = work[s].run /\ to \in AllStages \ {"idle", "locked", "begun", "unlock"}
    BY <1>9, <2>1 DEF Tables
  <2>9. /\ tables[r] \in SUBSET tables'[r]
        /\ draft' \in SUBSET (draft \cup {r})
        /\ r \in draft' => r \in draft \/ "lines" \in tables'[r]
        /\ status'[r] = "running" /\ counts'[r] = {}
        /\ \A q \in Runs : q # r =>
              /\ status'[q] = status[q]
              /\ tables'[q] = tables[q]
              /\ counts'[q] = counts[q]
    BY <1>9, <1>10, <2>2, <2>3, <2>7
  <2> QED
    BY <1>9, <1>10, <2>2, <2>4, <2>6, <2>8, <2>9, WritingRows
<1>4. ASSUME UpdateRunCommitted(s) \/ UpdateRunFailed(s) PROVE RowsGood'
  <2>1. PICK result \in {"committed", "failed"} :
          /\ Step(s, IF result = "committed" THEN "plans" ELSE "failing", "unlock")
          /\ Close(s, result)
          /\ counts' = IF result = "committed" THEN [counts EXCEPT ![r] = work[s].made] ELSE counts
    BY <1>4, <1>9 DEF UpdateRunCommitted, UpdateRunFailed
  <2>2. /\ stage[s] = IF result = "committed" THEN "plans" ELSE "failing"
        /\ stage' = [stage EXCEPT ![s] = "unlock"]
        /\ status' = [status EXCEPT ![r] = result]
        /\ UNCHANGED <<tables, draft, approved, work, faults>>
    BY <1>9, <2>1 DEF Step, At, GoTo, Close
  <2>3. status'[r] = result /\ \A q \in Runs : q # r => status'[q] = status[q] /\ counts'[q] = counts[q]
    BY <1>9, <1>10, <2>1, <2>2 DEF RowsInv, RowsGood, RowsTypeOK, ReadsInv, WorkTypeOK
  <2>4. counts'[r] = IF result = "committed" THEN work[s].made ELSE {}
    BY <1>9, <1>10, <2>1 DEF RowsInv, RowsGood, RowsTypeOK
  <2>5. result = "committed" => tables[r] = work[s].made
    BY <1>0, <1>9, <1>10, <2>2 DEF RowOf, WrittenAt
  <2>6. RowsTypeOK'
    BY <1>0, <1>9, <1>10, <2>1, <2>2 DEF RowsInv, RowsGood, RowsTypeOK
  <2>7. WrittenAt("unlock", work[s], tables'[r]) /\ r = work[s].run
    BY <1>9 DEF WrittenAt
  <2>8. /\ tables'[r] = tables[r] /\ draft' = draft
        /\ status'[r] # "none" /\ status'[r] # "running"
        /\ counts'[r] = IF status'[r] = "committed" THEN tables'[r] ELSE {}
        /\ \A q \in Runs : q # r =>
              /\ status'[q] = status[q]
              /\ tables'[q] = tables[q]
              /\ counts'[q] = counts[q]
    BY <1>9, <1>10, <2>2, <2>3, <2>4, <2>5
  <2>9. PICK to \in AllStages \ {"idle", "locked", "begun"} : to = "unlock"
    OBVIOUS
  <2> QED
    BY <1>9, <1>10, <2>2, <2>6, <2>7, <2>8, <2>9, WritingRows
<1> QED
  BY <1>3, <1>4

LEMMA LocksKeepRows ==
  ASSUME RowsInv, NEW s \in Sessions, ForecastLockStep(s)
  PROVE  RowsGood'
<1> USE RunsAreNumbers DEF AllStages
<1>0. /\ work[s] \in Memory /\ work = [work EXCEPT ![s] = work[s]]
      /\ RowOf(s) /\ faults \in Nat
      /\ stage \in [Sessions -> AllStages]
      /\ NoWork \in Memory /\ NoWork.run = 0 /\ NoWork.made = {}
  BY NoWorkTyped DEF RowsInv, ReadsInv, LockTypeOK, WorkTypeOK, RowsGood, RowsOwned, RowsTypeOK, NoWork
<1>1. UNCHANGED runVars
  BY DEF ForecastLockStep
<1>2. ASSUME TryLock(s) PROVE RowsGood'
  <2>1. /\ stage[s] = "idle" /\ stage' = [stage EXCEPT ![s] = "locked"] /\ faults' = faults
    BY <1>2 DEF TryLock, At, GoTo
  <2>2. UNCHANGED work
    BY <1>0, <2>1 DEF ForecastLockStep
  <2>3. work[s].run = 0
    BY <1>0, <2>1 DEF RowOf
  <2>4. WrittenAt("locked", work[s], TablesOf(work[s].run))
    BY <1>0, <2>1, <2>3 DEF RowOf, WrittenAt, TablesOf
  <2>5. PICK to \in AllStages, new \in Memory : to = "locked" /\ new = work[s]
    BY <1>0
  <2> QED
    BY <1>0, <1>1, <2>1, <2>2, <2>3, <2>4, <2>5, QuietRows
<1>3. ASSUME Unlock(s) \/ LoseProcess(s) \/ (LoseLock(s) /\ stage[s] = "idle" /\ work' # work)
      PROVE  RowsGood'
  <2>1. /\ stage' = [stage EXCEPT ![s] = "idle"]
        /\ faults' = faults + 1 \/ (faults' = faults /\ ~Engaged(s))
    BY <1>0, <1>3 DEF Unlock, LoseProcess, LoseLock, Fault, At, GoTo, Engaged
  <2>2. work' = [work EXCEPT ![s] = NoWork]
    BY <1>0, <1>3, <2>1 DEF ForecastLockStep
  <2>3. PICK to \in AllStages, new \in Memory : to = "idle" /\ new = NoWork
    BY <1>0
  <2>4. /\ stage' = [stage EXCEPT ![s] = to] /\ work' = [work EXCEPT ![s] = new]
        /\ new.run = 0
    BY <1>0, <2>1, <2>2, <2>3
  <2>5. UNCHANGED <<status, tables, counts, draft, approved>> /\ faults' \in {faults, faults + 1}
    BY <1>1, <2>1 DEF runVars
  <2>6. RowsTypeOK'
    BY <1>0, <2>5 DEF RowsInv, RowsGood, RowsTypeOK
  <2>7. RowOf(s)'
    <3>1. work'[s] = NoWork /\ stage'[s] = "idle"
      BY <1>0, <2>1, <2>2 DEF RowsInv, ReadsInv, WorkTypeOK
    <3> QED
      BY <1>0, <3>1 DEF RowOf, Engaged, WrittenAt, TablesOf
  <2>8. RowsOwned' /\ RowsMatch'
    BY <2>4, <2>5, <2>6, <2>7, OwnStepKeeps
  <2>9. /\ AbandonedRuns' \in SUBSET (AbandonedRuns \cup {work[s].run, 0})
        /\ ~Engaged(s) => AbandonedRuns' \in SUBSET AbandonedRuns
    BY <2>4, <2>5, OwnStepAbandons
  <2>10. AbandonedRuns' \in SUBSET (AbandonedRuns \cup {work[s].run})
    BY <2>9 DEF AbandonedRuns
  <2>11. Cardinality(AbandonedRuns) <= faults
    BY DEF RowsInv, RowsGood
  <2> QED
    BY <1>0, <2>1, <2>5, <2>6, <2>8, <2>9, <2>10, <2>11, AbandonedCounted DEF RowsGood
<1>4. ASSUME LoseLock(s), work' = work PROVE RowsGood'
  <2>1. UNCHANGED stage /\ faults' = faults + 1
    BY <1>4 DEF LoseLock, Fault
  <2>2. PICK to \in AllStages, new \in Memory : to = stage[s] /\ new = work[s]
    BY <1>0
  <2>3. stage' = [stage EXCEPT ![s] = to] /\ work' = [work EXCEPT ![s] = new]
    BY <1>0, <1>4, <2>1, <2>2
  <2>4. /\ to \notin {"idle", "unlock"} => Engaged(s) \/ new.run = 0
        /\ to \in {"idle", "locked"} \/ (s \in Ticks /\ to = "begun") => new.run = 0
        /\ WrittenAt(to, new, TablesOf(new.run))
    BY <1>0, <2>2 DEF RowOf, Engaged
  <2> QED
    BY <1>1, <2>1, <2>2, <2>3, <2>4, QuietRows
<1>5. LoseLock(s) => work' = work \/ stage[s] = "idle"
  BY DEF ForecastLockStep, LoseLock
<1> QED
  BY <1>2, <1>3, <1>4, <1>5 DEF ForecastLockStep, LockStep

LEMMA ForecastKeepsRows ==
  ASSUME RowsInv, ForecastStep
  PROVE  RowsGood'
<1>0. faults \in Nat /\ RowsTypeOK /\ RowsOwned /\ RowsMatch /\ Cardinality(AbandonedRuns) <= faults
  BY DEF RowsInv, RowsGood, RowsTypeOK
<1>1. ASSUME UNCHANGED <<stage, work, status, tables, counts>>, faults' \in {faults, faults + 1},
             draft' \in SUBSET Runs, approved' \in SUBSET Runs,
             draft' \cup approved' \in SUBSET (draft \cup approved)
      PROVE  RowsGood'
  <2>1. AbandonedRuns' = AbandonedRuns
    BY <1>1 DEF AbandonedRuns, Abandoned, Engaged
  <2>2. RowsTypeOK' /\ RowsMatch'
    BY <1>0, <1>1 DEF RowsTypeOK, RowsMatch
  <2>3. RowsOwned'
    BY <1>0, <1>1 DEF RowsOwned, RowOf, TablesOf, WrittenAt, Engaged
  <2>4. Cardinality(AbandonedRuns') <= faults'
    BY <1>0, <1>1, <2>1, AbandonedFinite
  <2> QED
    BY <2>2, <2>3, <2>4 DEF RowsGood
<1>2. ASSUME FlipMarts \/ RefreshMart \/ DisownRun PROVE RowsGood'
  BY <1>0, <1>1, <1>2
     DEF FlipMarts, RefreshMart, DisownRun, CommitEtl, Fault, lockVars, runVars, RowsTypeOK
<1>3. ASSUME NEW r \in Runs, ApprovePlan(r) PROVE RowsGood'
  BY <1>0, <1>1, <1>3 DEF ApprovePlan, lockVars, RowsTypeOK
<1>4. ASSUME NEW s \in Sessions, ForecastGoesOn(s) \/ ForecastLockStep(s) \/ FailUnmarked(s)
      PROVE  RowsGood'
  BY <1>4, InsertKeepsRows, MovesKeepRows, WritesKeepRows, LocksKeepRows DEF ForecastGoesOn
<1> QED
  BY <1>2, <1>3, <1>4 DEF ForecastStep

LEMMA KpiKeepsFaults ==
  ASSUME faults \in Nat, KpiStep
  PROVE  faults' \in Nat
BY DEF KpiStep, UpdateCalibration, lockVars, KpiGoesOn, DeleteSnapshotsForDate, ListCalibrations,
       ComputeKpi, InsertSnapshot, KpiDone, KpiFails, KpiRunFails, EndKpiRun, KpiMove, KpiLockStep,
       LockStep, TryLock, Unlock, LoseLock, LoseProcess, Fault

(***************************************************************************)
(* A behaviour of the KPI engine has no runs of the forecast.              *)
(***************************************************************************)
RowsIInv ==
    /\ ReadsIInv
    /\ faults \in Nat
    /\ engine = "forecast" => RowsGood
    /\ engine # "forecast" => /\ status = [r \in Runs |-> "none"]
                              /\ counts = [r \in Runs |-> {}]
                              /\ draft = {}
                              /\ approved = {}

(***************************************************************************)
(* A committed run has every table its counts speak of, a plan never comes *)
(* before its lines, and each failure nobody could clean up after leaves   *)
(* one abandoned run at most (forecast/engine, forecast/scheduler).        *)
(***************************************************************************)
THEOREM RunsAlwaysWhole == Spec => []RunsWhole
<1>1. Init => RowsIInv
  <2> SUFFICES ASSUME Init PROVE RowsIInv
    OBVIOUS
  <2>1. ReadsIInv
    BY LockInitially, ReadsInitially DEF Init, ReadsIInv, ForecastInit
  <2>2. AbandonedRuns = {}
    BY DEF Init, ForecastInit, AbandonedRuns, Abandoned
  <2>3. Cardinality(AbandonedRuns) = 0 /\ faults = 0
    BY <2>2, FS_EmptySet DEF Init, LockInit
  <2>4. RowsTypeOK /\ RowsMatch
    BY <2>3 DEF Init, ForecastInit, RowsTypeOK, RowsMatch
  <2>5. RowsOwned
    BY DEF Init, ForecastInit, LockInit, RowsOwned, RowOf, NoWork, TablesOf, WrittenAt, Engaged
  <2> QED
    BY <2>1, <2>3, <2>4, <2>5 DEF RowsIInv, RowsGood, Init, ForecastInit
<1>2. RowsIInv /\ [Next]_vars => RowsIInv'
  <2> SUFFICES ASSUME RowsIInv, [Next]_vars PROVE RowsIInv'
    OBVIOUS
  <2>1. ReadsIInv'
    BY ReadsIInvKept DEF RowsIInv
  <2>2. CASE ForecastStep /\ OfForecast
    <3>1. RowsGood'
      BY <2>2, ForecastKeepsRows DEF RowsIInv, ReadsIInv, LockInv, ReadsInv, RowsInv, OfForecast
    <3> QED
      BY <2>1, <2>2, <3>1 DEF RowsIInv, RowsGood, RowsTypeOK, OfForecast
  <2>3. CASE KpiStep /\ OfKpi
    BY <2>1, <2>3, KpiKeepsFaults DEF RowsIInv, OfKpi, forecastVars, runVars
  <2>4. CASE UNCHANGED vars
    <3>1. AbandonedRuns' = AbandonedRuns
      BY <2>4 DEF AbandonedRuns, Abandoned, Engaged, vars, lockVars, forecastVars, runVars
    <3>2. RowsGood => RowsGood'
      BY <2>4, <3>1 DEF RowsGood, RowsTypeOK, RowsMatch, RowsOwned, RowOf, TablesOf, WrittenAt,
                        Engaged, vars, lockVars, forecastVars, runVars
    <3> QED
      BY <2>1, <2>4, <3>2 DEF RowsIInv, vars, lockVars, forecastVars, runVars
  <2> QED
    BY <2>2, <2>3, <2>4 DEF Next
<1>3. RowsIInv => RunsWhole
  <2> SUFFICES ASSUME RowsIInv PROVE RunsWhole
    OBVIOUS
  <2>1. CASE engine = "forecast"
    BY <2>1 DEF RowsIInv, RowsGood, RowsMatch, AbandonedRuns, RunsWhole
  <2>2. CASE engine # "forecast"
    <3>1. {r \in Runs : Abandoned(r)} = {}
      BY <2>2 DEF RowsIInv, Abandoned
    <3>2. Cardinality({r \in Runs : Abandoned(r)}) = 0
      BY <3>1, FS_EmptySet
    <3> QED
      BY <2>2, <3>2 DEF RowsIInv, RunsWhole
  <2> QED
    BY <2>1, <2>2
<1> QED
  BY <1>1, <1>2, <1>3, PTL DEF Spec

-----------------------------------------------------------------------------
(***************************************************************************)
(* The day of a KPI.  While no lock was lost, the session of a run is the  *)
(* only one, and the rows of a KPI it has still to compute are its own.    *)
(***************************************************************************)
NameLists == {<<>>, <<"osa">>, <<"stock_days">>, <<"osa", "stock_days">>}
KpiMemory == [run : Nat, names : NameLists, calib : Nat, todo : SUBSET Scopes]
KpiRow == [kpi : KpiNames, scope : Scopes, run : Nat, calib : Nat]

KpiTypeOK ==
    /\ rows \in SUBSET KpiRow
    /\ kpiRun \in Nat
    /\ calibration \in Nat
    /\ kpiWork \in [Sessions -> KpiMemory]
    /\ refreshed \in [KpiNames -> Nat]
    /\ \A s \in Sessions : stage[s] = "computed" => kpiWork[s].names # <<>>

RowsAlike ==
    \A x, y \in rows : x.kpi = y.kpi => x.run = y.run /\ x.calib = y.calib
Complete(k) ==
    \A scope \in Scopes : \E row \in rows :
        row.kpi = k /\ row.scope = scope /\ row.run = refreshed[k]

RowsOf(s) == {row \in rows : row.kpi \in ToSet(kpiWork[s].names)}
OwnRow(s, row) ==
    /\ row.kpi = Head(kpiWork[s].names)
    /\ row.run = kpiWork[s].run
    /\ row.calib = kpiWork[s].calib
UnderWay(s) ==
    stage[s] \in {"deleted", "calibrated", "computed"} =>
        /\ kpiWork[s].run # 0
        /\ \A k \in ToSet(kpiWork[s].names) : refreshed[k] = 0
        /\ \A row \in RowsOf(s) : stage[s] = "computed" /\ OwnRow(s, row)
        /\ stage[s] = "computed" =>
             /\ kpiWork[s].names # <<>>
             /\ \A scope \in Scopes \ kpiWork[s].todo : \E row \in rows :
                    OwnRow(s, row) /\ row.scope = scope

DayInOrder ==
    /\ RowsAlike
    /\ \A k \in KpiNames : refreshed[k] # 0 => Complete(k)
    /\ \A s \in Sessions : UnderWay(s)

DayInv == LockInv /\ KpiTypeOK /\ (~lost => DayInOrder)

LEMMA NameListFacts ==
  ASSUME NEW names \in NameLists
  PROVE  /\ ToSet(names) \in SUBSET KpiNames
         /\ ToSet(<<>>) = {}
         /\ names # <<>> =>
              /\ Head(names) \in KpiNames
              /\ Head(names) \in ToSet(names)
              /\ Tail(names) \in NameLists
              /\ ToSet(Tail(names)) = ToSet(names) \ {Head(names)}
<1>1. CASE names = <<>>
  BY <1>1 DEF ToSet
<1>2. ASSUME NEW k \in KpiNames, names = <<k>>
      PROVE  ToSet(names) = {k} /\ Head(names) = k /\ Tail(names) = <<>>
  BY <1>2 DEF ToSet
<1>3. CASE names = <<"osa", "stock_days">>
  <2>1. ToSet(names) = {"osa", "stock_days"}
    BY <1>3 DEF ToSet
  <2>2. Head(names) = "osa" /\ Tail(names) = <<"stock_days">>
    BY <1>3
  <2>3. ToSet(<<"stock_days">>) = {"stock_days"}
    BY DEF ToSet
  <2> QED
    BY <2>1, <2>2, <2>3 DEF NameLists, KpiNames, ToSet
<1>4. ToSet(<<>>) = {}
  BY DEF ToSet
<1> QED
  BY <1>1, <1>2, <1>3, <1>4 DEF NameLists, KpiNames

LEMMA OnlyOneEngaged ==
  ASSUME LockInv, ~lost, NEW s \in Sessions, Engaged(s), NEW t \in Sessions, t # s
  PROVE  ~Engaged(t)
BY DEF LockInv, LockTypeOK, HeldWhileEngaged

(***************************************************************************)
(* So a step of the session of a run touches nobody else's rows.           *)
(***************************************************************************)
LEMMA OthersIdle ==
  ASSUME LockInv, ~lost, NEW s \in Sessions, Engaged(s), NEW t \in Sessions, t # s,
         stage'[t] = stage[t]
  PROVE  UnderWay(t)'
BY OnlyOneEngaged DEF Engaged, UnderWay

LEMMA KpiMoves ==
  ASSUME KpiTypeOK, LockInv, NEW s \in Sessions, NEW from, NEW to, KpiMove(s, from, to),
         from \notin {"idle", "unlock"}
  PROVE  /\ Engaged(s) /\ stage[s] = from /\ stage'[s] = to
         /\ \A t \in Sessions : t # s => stage'[t] = stage[t]
         /\ lost' = lost
BY DEF KpiMove, At, GoTo, Engaged, LockInv, LockTypeOK

LEMMA DeleteKeepsDay ==
  ASSUME DayInv, NEW s \in Sessions, DeleteSnapshotsForDate(s)
  PROVE  KpiTypeOK' /\ (~lost' => DayInOrder')
<1>1. PICK names \in NameLists \ {<<>>} :
        /\ rows' = {row \in rows : row.kpi \notin ToSet(names)}
        /\ refreshed' = [k \in KpiNames |-> IF k \in ToSet(names) THEN 0 ELSE refreshed[k]]
        /\ kpiWork' = [kpiWork EXCEPT ![s] =
             [run |-> kpiRun + 1, names |-> names, calib |-> 0, todo |-> {}]]
  BY DEF DeleteSnapshotsForDate, AllKpis, Requests, NameLists
<1>2. kpiRun' = kpiRun + 1 /\ calibration' = calibration /\ KpiMove(s, "locked", "deleted")
  BY DEF DeleteSnapshotsForDate
<1>3. /\ Engaged(s) /\ stage'[s] = "deleted" /\ lost' = lost
      /\ \A t \in Sessions : t # s => stage'[t] = stage[t]
  BY <1>2, KpiMoves DEF DayInv
<1> DEFINE new == [run |-> kpiRun + 1, names |-> names, calib |-> 0, todo |-> {}]
<1>4. new \in KpiMemory /\ new.run = kpiRun + 1 /\ new.names = names
  <2>2. kpiRun + 1 \in Nat /\ names \in NameLists /\ {} \in SUBSET Scopes
    BY DEF DayInv, KpiTypeOK
  <2> QED
    BY <2>2 DEF KpiMemory
<1>5. kpiWork'[s] = new
  BY <1>1 DEF DayInv, KpiTypeOK
<1>6. KpiTypeOK'
  <2>1. rows' \in SUBSET KpiRow /\ refreshed' \in [KpiNames -> Nat]
    BY <1>1 DEF DayInv, KpiTypeOK
  <2>2. kpiWork' \in [Sessions -> KpiMemory]
    BY <1>1, <1>4 DEF DayInv, KpiTypeOK
  <2> QED
    BY <1>1, <1>2, <1>3, <2>1, <2>2 DEF DayInv, KpiTypeOK
<1>7. ASSUME ~lost PROVE DayInOrder'
  <2>1. RowsAlike'
    BY <1>1, <1>7 DEF DayInv, DayInOrder, RowsAlike
  <2>2. ASSUME NEW k \in KpiNames, refreshed'[k] # 0 PROVE Complete(k)'
    <3>1. k \notin ToSet(names) /\ refreshed'[k] = refreshed[k] /\ refreshed[k] # 0
      BY <1>1, <2>2
    <3>2. Complete(k)
      BY <1>7, <3>1 DEF DayInv, DayInOrder
    <3> QED
      BY <1>1, <3>1, <3>2 DEF Complete
  <2>3. UnderWay(s)'
    <3>1. kpiRun + 1 # 0
      BY DEF DayInv, KpiTypeOK
    <3>2. ToSet(names) \in SUBSET KpiNames
      BY NameListFacts
    <3>3. \A k \in ToSet(names) : refreshed'[k] = 0
      BY <1>1, <3>2
    <3>4. RowsOf(s)' = {}
      BY <1>1, <1>4, <1>5 DEF RowsOf
    <3> QED
      BY <1>3, <1>4, <1>5, <3>1, <3>3, <3>4 DEF UnderWay
  <2>4. ASSUME NEW t \in Sessions, t # s PROVE UnderWay(t)'
    BY <1>3, <1>7, <2>4, OthersIdle DEF DayInv
  <2> QED
    BY <2>1, <2>2, <2>3, <2>4 DEF DayInOrder
<1> QED
  BY <1>3, <1>6, <1>7

LEMMA CalibrateKeepsDay ==
  ASSUME DayInv, NEW s \in Sessions, ListCalibrations(s)
  PROVE  KpiTypeOK' /\ (~lost' => DayInOrder')
<1>1. /\ KpiMove(s, "deleted", "calibrated")
      /\ kpiWork' = [kpiWork EXCEPT ![s] = [kpiWork[s] EXCEPT !.calib = calibration]]
      /\ UNCHANGED <<rows, kpiRun, calibration, refreshed>>
  BY DEF ListCalibrations
<1>2. /\ Engaged(s) /\ stage[s] = "deleted" /\ stage'[s] = "calibrated" /\ lost' = lost
      /\ \A t \in Sessions : t # s => stage'[t] = stage[t]
  BY <1>1, KpiMoves DEF DayInv
<1> DEFINE new == [kpiWork[s] EXCEPT !.calib = calibration]
<1>3. new \in KpiMemory /\ new.run = kpiWork[s].run /\ new.names = kpiWork[s].names
  BY DEF KpiMemory, DayInv, KpiTypeOK
<1>4. kpiWork'[s] = new /\ kpiWork' \in [Sessions -> KpiMemory]
  BY <1>1, <1>3 DEF DayInv, KpiTypeOK
<1>5. KpiTypeOK'
  BY <1>1, <1>2, <1>3, <1>4 DEF DayInv, KpiTypeOK
<1>6. ASSUME ~lost PROVE DayInOrder'
  <2>1. RowsAlike' /\ \A k \in KpiNames : refreshed'[k] # 0 => Complete(k)'
    BY <1>1, <1>6 DEF DayInv, DayInOrder, RowsAlike, Complete
  <2>2. UnderWay(s)'
    <3>1. RowsOf(s)' = RowsOf(s)
      BY <1>1, <1>3, <1>4 DEF RowsOf
    <3>2. RowsOf(s) = {} /\ UnderWay(s)
      BY <1>2, <1>6 DEF DayInv, DayInOrder, UnderWay
    <3> QED
      BY <1>1, <1>2, <1>3, <1>4, <3>1, <3>2 DEF UnderWay
  <2>3. ASSUME NEW t \in Sessions, t # s PROVE UnderWay(t)'
    BY <1>2, <1>6, <2>3, OthersIdle DEF DayInv
  <2> QED
    BY <2>1, <2>2, <2>3 DEF DayInOrder
<1> QED
  BY <1>2, <1>5, <1>6

LEMMA ComputeKeepsDay ==
  ASSUME DayInv, NEW s \in Sessions, ComputeKpi(s)
  PROVE  KpiTypeOK' /\ (~lost' => DayInOrder')
<1>1. /\ KpiMove(s, "calibrated", "computed")
      /\ kpiWork' = [kpiWork EXCEPT ![s] = [kpiWork[s] EXCEPT !.todo = Scopes]]
      /\ UNCHANGED <<rows, kpiRun, calibration, refreshed>>
      /\ kpiWork[s].names # <<>>
  BY DEF ComputeKpi
<1>2. /\ Engaged(s) /\ stage[s] = "calibrated" /\ stage'[s] = "computed" /\ lost' = lost
      /\ \A t \in Sessions : t # s => stage'[t] = stage[t]
  BY <1>1, KpiMoves DEF DayInv
<1> DEFINE new == [kpiWork[s] EXCEPT !.todo = Scopes]
<1>3. /\ new \in KpiMemory /\ new.run = kpiWork[s].run /\ new.names = kpiWork[s].names
      /\ new.todo = Scopes
  BY DEF KpiMemory, DayInv, KpiTypeOK
<1>4. kpiWork'[s] = new /\ kpiWork' \in [Sessions -> KpiMemory]
  BY <1>1, <1>3 DEF DayInv, KpiTypeOK
<1>5. KpiTypeOK'
  BY <1>1, <1>2, <1>3, <1>4 DEF DayInv, KpiTypeOK
<1>6. ASSUME ~lost PROVE DayInOrder'
  <2>1. RowsAlike' /\ \A k \in KpiNames : refreshed'[k] # 0 => Complete(k)'
    BY <1>1, <1>6 DEF DayInv, DayInOrder, RowsAlike, Complete
  <2>2. UnderWay(s)'
    <3>1. RowsOf(s)' = RowsOf(s)
      BY <1>1, <1>3, <1>4 DEF RowsOf
    <3>2. RowsOf(s) = {} /\ UnderWay(s)
      BY <1>2, <1>6 DEF DayInv, DayInOrder, UnderWay
    <3> QED
      BY <1>1, <1>2, <1>3, <1>4, <3>1, <3>2 DEF UnderWay
  <2>3. ASSUME NEW t \in Sessions, t # s PROVE UnderWay(t)'
    BY <1>2, <1>6, <2>3, OthersIdle DEF DayInv
  <2> QED
    BY <2>1, <2>2, <2>3 DEF DayInOrder
<1> QED
  BY <1>2, <1>5, <1>6

LEMMA FirstOfScopes ==
  ASSUME NEW todo \in SUBSET Scopes, todo # {}
  PROVE  Min(todo) \in todo
<1>1. \A x \in todo : x = 1 \/ x = 2
  BY DEF Scopes
<1>2. \E x \in todo : \A y \in todo : x <= y
  <2>1. CASE 1 \in todo
    BY <1>1, <2>1
  <2>2. CASE 1 \notin todo
    BY <1>1, <2>2
  <2> QED
    BY <2>1, <2>2
<1> QED
  BY <1>2 DEF Min

LEMMA InsertKeepsDay ==
  ASSUME DayInv, NEW s \in Sessions, InsertSnapshot(s)
  PROVE  KpiTypeOK' /\ (~lost' => DayInOrder')
<1> DEFINE scope == Min(kpiWork[s].todo)
           new == [kpiWork[s] EXCEPT !.todo = kpiWork[s].todo \ {scope}]
           row == NewRow(s, scope)
<1>0. kpiWork[s] \in KpiMemory /\ kpiWork[s].names \in NameLists
  BY DEF DayInv, KpiTypeOK, KpiMemory
<1>1. /\ stage[s] = "computed" /\ scope \in kpiWork[s].todo /\ scope \in Scopes
      /\ kpiWork[s].names # <<>>
      /\ UNCHANGED <<stage, lost, kpiRun, calibration, refreshed>>
  BY <1>0, FirstOfScopes DEF InsertSnapshot, At, lockVars, KpiMemory, DayInv, KpiTypeOK
<1>2. rows' = rows \cup {row}
  BY DEF InsertSnapshot
<1>3. kpiWork' = [kpiWork EXCEPT ![s] = new]
  BY DEF InsertSnapshot
<1>4. /\ new \in KpiMemory /\ new.run = kpiWork[s].run /\ new.names = kpiWork[s].names
      /\ new.calib = kpiWork[s].calib /\ new.todo = kpiWork[s].todo \ {scope}
  BY <1>0 DEF KpiMemory
<1>5. kpiWork'[s] = new /\ kpiWork' \in [Sessions -> KpiMemory]
  BY <1>3, <1>4 DEF DayInv, KpiTypeOK
<1>6. Engaged(s)
  BY <1>1 DEF Engaged
<1>7. KpiTypeOK'
  <2>1. row \in KpiRow
    <3>1. Head(kpiWork[s].names) \in KpiNames /\ kpiWork[s].run \in Nat /\ kpiWork[s].calib \in Nat
      BY <1>0, <1>1, NameListFacts DEF KpiMemory
    <3> QED
      BY <1>1, <3>1 DEF NewRow, KpiRow
  <2> QED
    BY <1>1, <1>2, <1>3, <1>4, <1>5, <2>1 DEF DayInv, KpiTypeOK
<1>8. ASSUME ~lost PROVE DayInOrder'
  <2>1. UnderWay(s)
    BY <1>8 DEF DayInv, DayInOrder
  <2>2. kpiWork[s].names # <<>> /\ kpiWork[s].run # 0
    BY <1>1, <2>1 DEF UnderWay
  <2>3. /\ row.kpi = Head(kpiWork[s].names) /\ row.run = kpiWork[s].run
        /\ row.calib = kpiWork[s].calib /\ row.scope = scope
    BY DEF NewRow
  <2>4. Head(kpiWork[s].names) \in ToSet(kpiWork[s].names) /\ Head(kpiWork[s].names) \in KpiNames
    BY <1>0, <2>2, NameListFacts
  <2>5. \A x \in rows : x.kpi = row.kpi => OwnRow(s, x)
    BY <1>1, <2>1, <2>3, <2>4 DEF UnderWay, RowsOf
  <2>6. RowsAlike'
    BY <1>2, <1>8, <2>3, <2>5 DEF DayInv, DayInOrder, RowsAlike, OwnRow
  <2>7. \A k \in KpiNames : refreshed'[k] # 0 => Complete(k)'
    BY <1>1, <1>2, <1>8 DEF DayInv, DayInOrder, Complete
  <2>8. UnderWay(s)'
    <3>1. \A x : OwnRow(s, x)' <=> OwnRow(s, x)
      BY <1>4, <1>5 DEF OwnRow
    <3>2. OwnRow(s, row)
      BY <2>3 DEF OwnRow
    <3>3. \A x \in RowsOf(s)' : OwnRow(s, x)
      BY <1>1, <1>2, <1>4, <1>5, <2>1, <3>2 DEF RowsOf, UnderWay
    <3>4. \A z \in Scopes \ new.todo : \E x \in rows' : OwnRow(s, x) /\ x.scope = z
      <4>1. TAKE z \in Scopes \ new.todo
      <4>2. CASE z = scope
        BY <1>2, <2>3, <3>2, <4>2
      <4>3. CASE z # scope
        <5>1. z \in Scopes \ kpiWork[s].todo
          BY <1>4, <4>3
        <5> QED
          BY <1>1, <1>2, <2>1, <5>1 DEF UnderWay
      <4> QED
        BY <4>2, <4>3
    <3>5. \A k \in ToSet(kpiWork[s].names) : refreshed[k] = 0
      BY <1>1, <2>1 DEF UnderWay
    <3>6. /\ kpiWork'[s].names = kpiWork[s].names /\ kpiWork'[s].run = kpiWork[s].run
          /\ kpiWork'[s].todo = new.todo /\ stage'[s] = "computed" /\ refreshed' = refreshed
      BY <1>1, <1>4, <1>5
    <3> HIDE DEF new, row
    <3> QED
      BY <2>2, <3>1, <3>3, <3>4, <3>5, <3>6 DEF UnderWay
  <2>9. ASSUME NEW t \in Sessions, t # s PROVE UnderWay(t)'
    BY <1>1, <1>6, <1>8, <2>9, OthersIdle DEF DayInv
  <2> QED
    BY <2>6, <2>7, <2>8, <2>9 DEF DayInOrder
<1> QED
  BY <1>1, <1>7, <1>8

(***************************************************************************)
(* The next KPI, after one that was computed or that failed.               *)
(***************************************************************************)
LEMMA NextKpiFacts ==
  ASSUME KpiTypeOK, NEW s \in Sessions, kpiWork[s].names # <<>>, NextKpi(s)
  PROVE  /\ kpiWork' \in [Sessions -> KpiMemory]
         /\ \A t \in Sessions : t # s => kpiWork'[t] = kpiWork[t]
         /\ kpiWork'[s].names = Tail(kpiWork[s].names)
         /\ kpiWork'[s].run = kpiWork[s].run
<1> DEFINE new == [kpiWork[s] EXCEPT !.names = Tail(kpiWork[s].names), !.todo = {}]
<1>1. kpiWork[s] \in KpiMemory /\ Tail(kpiWork[s].names) \in NameLists
  BY NameListFacts DEF KpiTypeOK, KpiMemory
<1>2. kpiWork' = [kpiWork EXCEPT ![s] = new]
  BY DEF NextKpi
<1>3. /\ new \in KpiMemory /\ new.run = kpiWork[s].run
      /\ new.names = Tail(kpiWork[s].names)
  BY <1>1 DEF KpiMemory
<1>4. kpiWork'[s] = new /\ \A t \in Sessions : t # s => kpiWork'[t] = kpiWork[t]
  BY <1>2 DEF KpiTypeOK
<1>5. kpiWork' \in [Sessions -> KpiMemory]
  BY <1>2, <1>3 DEF KpiTypeOK
<1> QED
  BY <1>3, <1>4, <1>5

LEMMA NextKpiKeepsDay ==
  ASSUME DayInv, NEW s \in Sessions, kpiWork[s].names # <<>>, NextKpi(s),
         NEW from \in {"calibrated", "computed"}, KpiMove(s, from, "calibrated"),
         UNCHANGED <<rows, kpiRun, calibration>>,
         \/ UNCHANGED refreshed
         \/ /\ from = "computed" /\ kpiWork[s].todo = {}
            /\ refreshed' = [refreshed EXCEPT ![Head(kpiWork[s].names)] = kpiWork[s].run]
  PROVE  KpiTypeOK' /\ (~lost' => DayInOrder')
<1> DEFINE names == kpiWork[s].names
<1>1. /\ kpiWork' \in [Sessions -> KpiMemory]
      /\ \A t \in Sessions : t # s => kpiWork'[t] = kpiWork[t]
      /\ kpiWork'[s].names = Tail(names)
      /\ kpiWork'[s].run = kpiWork[s].run
  BY NextKpiFacts DEF DayInv
<1>2. /\ Engaged(s) /\ stage[s] = from /\ stage'[s] = "calibrated" /\ lost' = lost
      /\ \A t \in Sessions : t # s => stage'[t] = stage[t]
  BY KpiMoves DEF DayInv
<1>3. /\ Head(names) \in KpiNames /\ Head(names) \in ToSet(names)
      /\ ToSet(Tail(names)) = ToSet(names) \ {Head(names)}
      /\ kpiWork[s].run \in Nat /\ ToSet(names) \in SUBSET KpiNames
  BY NameListFacts DEF DayInv, KpiTypeOK, KpiMemory
<1>4. KpiTypeOK'
  <2>1. refreshed' \in [KpiNames -> Nat]
    BY <1>3 DEF DayInv, KpiTypeOK
  <2> QED
    BY <1>1, <1>2, <2>1 DEF DayInv, KpiTypeOK
<1>5. ASSUME ~lost PROVE DayInOrder'
  <2>1. UnderWay(s) /\ RowsAlike
    BY <1>5 DEF DayInv, DayInOrder
  <2>2. RowsAlike'
    BY <2>1 DEF RowsAlike
  <2>3. ASSUME NEW k \in KpiNames, refreshed'[k] # 0 PROVE Complete(k)'
    <3>1. CASE refreshed'[k] = refreshed[k]
      BY <1>5, <2>3, <3>1 DEF DayInv, DayInOrder, Complete
    <3>2. CASE refreshed'[k] # refreshed[k]
      <4>1. /\ k = Head(names) /\ stage[s] = "computed" /\ kpiWork[s].todo = {}
            /\ refreshed'[k] = kpiWork[s].run
        BY <1>2, <1>3, <3>2 DEF DayInv, KpiTypeOK
      <4>2. \A scope \in Scopes : \E row \in rows : OwnRow(s, row) /\ row.scope = scope
        BY <2>1, <4>1 DEF UnderWay
      <4> QED
        BY <4>1, <4>2 DEF Complete, OwnRow
    <3> QED
      BY <3>1, <3>2
  <2>4. UnderWay(s)'
    <3>1. \A k \in ToSet(Tail(names)) : refreshed'[k] = 0
      BY <1>2, <1>3, <2>1 DEF UnderWay, DayInv, KpiTypeOK
    <3>2. RowsOf(s)' = {}
      <4>1. ASSUME NEW row \in rows, row.kpi \in ToSet(Tail(names)) PROVE FALSE
        <5>1. row \in RowsOf(s) /\ row.kpi # Head(names)
          BY <1>3, <4>1 DEF RowsOf
        <5> QED
          BY <1>2, <2>1, <5>1 DEF UnderWay, OwnRow
      <4> QED
        BY <1>1, <4>1 DEF RowsOf
    <3>3. kpiWork[s].run # 0
      BY <1>2, <2>1 DEF UnderWay
    <3> QED
      BY <1>1, <1>2, <3>1, <3>2, <3>3 DEF UnderWay
  <2>5. ASSUME NEW t \in Sessions, t # s PROVE UnderWay(t)'
    BY <1>2, <1>5, <2>5, OthersIdle DEF DayInv
  <2> QED
    BY <2>2, <2>3, <2>4, <2>5 DEF DayInOrder
<1> QED
  BY <1>2, <1>4, <1>5

(***************************************************************************)
(* A session that leaves, or comes, and the tables as they are.            *)
(***************************************************************************)
LEMMA LeavesDay ==
  ASSUME DayInv, NEW s \in Sessions,
         \A t \in Sessions : t # s => stage'[t] = stage[t] /\ kpiWork'[t] = kpiWork[t],
         stage'[s] \notin {"deleted", "calibrated", "computed"},
         kpiWork' \in [Sessions -> KpiMemory], lost' = lost,
         UNCHANGED <<rows, kpiRun, calibration, refreshed>>
  PROVE  KpiTypeOK' /\ (~lost' => DayInOrder')
<1>1. KpiTypeOK'
  BY DEF DayInv, KpiTypeOK
<1>2. ASSUME ~lost PROVE DayInOrder'
  <2>1. RowsAlike' /\ \A k \in KpiNames : refreshed'[k] # 0 => Complete(k)'
    BY <1>2 DEF DayInv, DayInOrder, RowsAlike, Complete
  <2>2. UnderWay(s)'
    BY DEF UnderWay
  <2>3. ASSUME NEW t \in Sessions, t # s PROVE UnderWay(t)'
    BY <1>2, <2>3 DEF DayInv, DayInOrder, UnderWay, RowsOf, OwnRow
  <2> QED
    BY <2>1, <2>2, <2>3 DEF DayInOrder
<1> QED
  BY <1>1, <1>2

LEMMA LockKeepsDay ==
  ASSUME DayInv, NEW s \in Sessions, KpiLockStep(s)
  PROVE  KpiTypeOK' /\ (~lost' => DayInOrder')
<1>1. UNCHANGED <<rows, kpiRun, calibration, refreshed>>
  BY DEF KpiLockStep
<1>2. NoKpiWork \in KpiMemory
  BY DEF NoKpiWork, KpiMemory, NameLists
<1>3. CASE TryLock(s) \/ Unlock(s) \/ LoseProcess(s)
  <2>1. /\ stage'[s] \in {"locked", "idle"} /\ lost' = lost
        /\ \A t \in Sessions : t # s => stage'[t] = stage[t]
    BY <1>3 DEF TryLock, Unlock, LoseProcess, GoTo, DayInv, LockInv, LockTypeOK
  <2>2. /\ kpiWork' \in [Sessions -> KpiMemory]
        /\ \A t \in Sessions : t # s => kpiWork'[t] = kpiWork[t]
    BY <1>2 DEF KpiLockStep, DayInv, KpiTypeOK
  <2> QED
    BY <1>1, <2>1, <2>2, LeavesDay
<1>4. CASE LoseLock(s)
  <2>1. stage' = stage /\ lost' = TRUE
    BY <1>4 DEF LoseLock
  <2>2. /\ kpiWork' \in [Sessions -> KpiMemory]
        /\ \A t \in Sessions : stage[t] = "computed" => kpiWork'[t] = kpiWork[t]
    BY <1>2, <2>1 DEF KpiLockStep, DayInv, KpiTypeOK
  <2> QED
    BY <1>1, <2>1, <2>2 DEF DayInv, KpiTypeOK
<1> QED
  BY <1>3, <1>4 DEF KpiLockStep, LockStep

LEMMA SessionKeepsDay ==
  ASSUME DayInv, NEW s \in Sessions, KpiGoesOn(s) \/ KpiLockStep(s)
  PROVE  KpiTypeOK' /\ (~lost' => DayInOrder')
<1>1. ASSUME KpiDone(s) PROVE KpiTypeOK' /\ (~lost' => DayInOrder')
  <2>1. At(s, "computed")
    BY <1>1 DEF KpiDone, KpiMove
  <2>2. kpiWork[s].names # <<>>
    BY <2>1 DEF At, DayInv, KpiTypeOK
  <2> QED
    BY <1>1, <2>2, NextKpiKeepsDay DEF KpiDone
<1>2. ASSUME KpiFails(s) PROVE KpiTypeOK' /\ (~lost' => DayInOrder')
  BY <1>2, NextKpiKeepsDay DEF KpiFails
<1>3. ASSUME KpiRunFails(s) \/ EndKpiRun(s) PROVE KpiTypeOK' /\ (~lost' => DayInOrder')
  <2>1. PICK from \in {"locked", "deleted", "calibrated"} : KpiMove(s, from, "unlock")
    BY <1>3 DEF KpiRunFails, EndKpiRun
  <2>2. /\ stage'[s] = "unlock" /\ lost' = lost
        /\ \A t \in Sessions : t # s => stage'[t] = stage[t]
    BY <2>1, KpiMoves DEF DayInv
  <2>3. UNCHANGED kpiVars
    BY <1>3 DEF KpiRunFails, EndKpiRun
  <2>4. kpiWork' = kpiWork /\ kpiWork \in [Sessions -> KpiMemory]
        /\ UNCHANGED <<rows, kpiRun, calibration, refreshed>>
    BY <2>3 DEF kpiVars, DayInv, KpiTypeOK
  <2> QED
    BY <2>2, <2>4, LeavesDay
<1> QED
  BY <1>1, <1>2, <1>3, DeleteKeepsDay, CalibrateKeepsDay, ComputeKeepsDay, InsertKeepsDay,
     LockKeepsDay DEF KpiGoesOn

LEMMA KpiKeepsDay ==
  ASSUME DayInv, KpiStep
  PROVE  KpiTypeOK' /\ (~lost' => DayInOrder')
<1>1. ASSUME UpdateCalibration PROVE KpiTypeOK' /\ (~lost' => DayInOrder')
  <2>1. UNCHANGED <<stage, lost, rows, kpiRun, kpiWork, refreshed>> /\ calibration' = calibration + 1
    BY <1>1 DEF UpdateCalibration, lockVars
  <2> QED
    BY <2>1 DEF DayInv, KpiTypeOK, DayInOrder, RowsAlike, Complete, UnderWay, RowsOf, OwnRow
<1> QED
  BY <1>1, SessionKeepsDay DEF KpiStep

(***************************************************************************)
(* A behaviour of the forecast engine leaves all of this as it starts.     *)
(***************************************************************************)
DayIInv ==
    /\ LockInv
    /\ engine = "kpi" => KpiTypeOK /\ (~lost => DayInOrder)
    /\ engine # "kpi" => rows = {} /\ refreshed = [k \in KpiNames |-> 0]

(***************************************************************************)
(* Unless the lock was lost under a run, the rows of a KPI are of one run  *)
(* and one reading of the calibrations, and a KPI reported computed has    *)
(* them all (kpi/engine: delete and insert without a transaction).         *)
(***************************************************************************)
THEOREM DayNeverTorn == Spec => []RefreshedWhole
<1>1. Init => DayIInv
  <2> SUFFICES ASSUME Init PROVE DayIInv
    OBVIOUS
  <2>1. LockInv /\ KpiInit /\ stage = [s \in Sessions |-> "idle"]
    BY LockInitially DEF Init, LockInit
  <2>2. NoKpiWork \in KpiMemory
    BY DEF NoKpiWork, KpiMemory, NameLists
  <2>3. KpiTypeOK
    BY <2>1, <2>2 DEF KpiInit, KpiTypeOK
  <2>4. DayInOrder
    BY <2>1 DEF KpiInit, DayInOrder, RowsAlike, UnderWay
  <2> QED
    BY <2>1, <2>3, <2>4 DEF DayIInv, KpiInit
<1>2. DayIInv /\ [Next]_vars => DayIInv'
  <2> SUFFICES ASSUME DayIInv, [Next]_vars PROVE DayIInv'
    OBVIOUS
  <2>1. LockInv'
    BY NextKeepsLock DEF DayIInv
  <2>2. CASE KpiStep /\ OfKpi
    BY <2>1, <2>2, KpiKeepsDay DEF DayIInv, DayInv, OfKpi
  <2>3. CASE ForecastStep /\ OfForecast
    BY <2>1, <2>3 DEF DayIInv, OfForecast, kpiVars
  <2>4. CASE UNCHANGED vars
    BY <2>1, <2>4 DEF DayIInv, vars, lockVars, kpiVars, KpiTypeOK, DayInOrder, RowsAlike, Complete,
                      UnderWay, RowsOf, OwnRow
  <2> QED
    BY <2>2, <2>3, <2>4 DEF Next
<1>3. DayIInv => RefreshedWhole
  BY DEF DayIInv, DayInOrder, RowsAlike, Complete, RefreshedWhole
<1> QED
  BY <1>1, <1>2, <1>3, PTL DEF Spec
=============================================================================
