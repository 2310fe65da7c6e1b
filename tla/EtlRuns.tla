---- MODULE EtlRuns ----
(* Runs of the ETL: the full run of cron, admin or retry, and the refresh of
   one mart. A run goes from a row of etl_runs through extraction to one
   transaction that builds the marts. *)
EXTENDS Naturals, FiniteSets

CONSTANTS
    MaxRuns,     \* bound of the model: rows of etl_runs
    MaxLoads,    \* bound of the model: loads the source publishes, one a day
    MaxFaults,   \* bound of the model: crashes, timeouts, lost answers
    WindowDays   \* days of facts a run asks for

ASSUME ConstantsAssumption ==
    /\ MaxRuns \in Nat \ {0}
    /\ MaxLoads \in Nat \ {0}
    /\ MaxFaults \in Nat
    /\ WindowDays \in Nat \ {0}

Runs == 1..MaxRuns
Loads == 1..MaxLoads
Days == 1..MaxLoads
Rebuilt == 0            \* the marts a full run truncates and rebuilds
Cells == Days \cup {Rebuilt}

Statuses == {"none", "running", "committed", "failed"}
Stages == {"none", "inserted", "snapshot", "masters", "facts", "built",
           "failing", "done", "lost"}
\* The stages with a goroutine or a request behind them.
Live == {"inserted", "snapshot", "masters", "facts", "built", "failing"}

VARIABLES
    sourceLoad,   \* the load the pointer of the source adapter names
    kind,         \* etl_runs.kind
    runStatus,    \* etl_runs.status
    committedAt,  \* etl_runs.committed_at, 0 for NULL
    stage,        \* how far the goroutine of the run is
    runLoad,      \* source_load_id, read once at the start
    staged,       \* the load the extracted rows really are of
    stamp,        \* the time a build took for committed_at
    martLock,     \* the full run that holds the truncated marts, 0 for none
    martRun,      \* the etl_run_id of the rows of a cell
    faults

etlVars == <<sourceLoad, kind, runStatus, committedAt, stage, runLoad, staged,
             stamp, martLock, martRun, faults>>
runVars == <<kind, runStatus, committedAt, stage, runLoad, staged, stamp>>

Fault == faults < MaxFaults /\ faults' = faults + 1

\* The days of facts a run sees when the source is at a load.
Window(load) == {d \in Days : d <= load /\ load < d + WindowDays}

\* Without the condition on status.
Started == {r \in Runs : kind[r] # "none"}

Committed == {r \in Runs : runStatus[r] = "committed"}

\* Ordered by the start of the runs instead.
CurrentByStart ==
    IF Committed = {} THEN 0
    ELSE CHOOSE r \in Committed : \A s \in Committed : s <= r

\* current_version: the committed run with the latest committed_at.
Current ==
    IF Committed = {} THEN 0
    ELSE CHOOSE r \in Committed :
            \A s \in Committed : committedAt[s] <= committedAt[r]

\* No clock runs backwards: a stamp is later than every stamp before it.
Now == Cardinality({r \in Runs : stamp[r] # 0}) + 1

FirstFree(r) == kind[r] = "none" /\ \A s \in 1..(r - 1) : kind[s] # "none"

\* The source adapter publishes its next load (see SourceLoads).
PublishLoad ==
    /\ sourceLoad < MaxLoads
    /\ sourceLoad' = sourceLoad + 1
    /\ UNCHANGED <<runVars, martLock, martRun, faults>>

Insert(r, k, load, to) ==
    /\ FirstFree(r)
    /\ kind' = [kind EXCEPT ![r] = k]
    /\ runStatus' = [runStatus EXCEPT ![r] = "running"]
    /\ runLoad' = [runLoad EXCEPT ![r] = load]
    /\ stage' = [stage EXCEPT ![r] = to]
    /\ UNCHANGED <<sourceLoad, committedAt, staged, stamp, martLock, martRun>>

\* A tick of cron or a request of an admin: the advisory lock covers the
\* insert alone, so a run that is still running stops nobody.
StartRun(r) == Insert(r, "full", 0, "inserted") /\ UNCHANGED faults

\* A retry asks for a failed run first.
Retryable == {r \in Runs : runStatus[r] = "failed"}
RetryRun(r) == Retryable # {} /\ StartRun(r)

\* The row is inserted through the pool; the transaction with the lock does
\* not commit and no goroutine is started.
StartLost(r) == Insert(r, "full", 0, "lost") /\ Fault

\* The refresh of the supplier scorecard reads the snapshot before it inserts.
StartRefresh(r) ==
    /\ sourceLoad # 0
    /\ Insert(r, "mart_refresh", sourceLoad, "inserted")
    /\ UNCHANGED faults

Advance(r, from, to) ==
    /\ kind[r] = "full"
    /\ stage[r] = from
    /\ stage' = [stage EXCEPT ![r] = to]

ReadSnapshot(r) ==
    /\ sourceLoad # 0
    /\ Advance(r, "inserted", "snapshot")
    /\ runLoad' = [runLoad EXCEPT ![r] = sourceLoad]
    /\ UNCHANGED <<sourceLoad, kind, runStatus, committedAt, staged, stamp,
                   martLock, martRun, faults>>

\* Every page of every entity is of the load the source has by then: the
\* snapshot_id of the query is ignored there.
Extract(r, from, to) ==
    /\ Advance(r, from, to)
    /\ staged' = [staged EXCEPT ![r][to] = sourceLoad]
    /\ UNCHANGED <<sourceLoad, kind, runStatus, committedAt, runLoad, stamp,
                   martLock, martRun, faults>>
ExtractMasters(r) == Extract(r, "snapshot", "masters")
ExtractFacts(r) == Extract(r, "masters", "facts")

\* A builder that writes past the transaction.
BuildMartsOutside(r) ==
    /\ Advance(r, "facts", "built")
    /\ martLock = 0
    /\ martLock' = r
    /\ stamp' = [stamp EXCEPT ![r] = Now]
    /\ martRun' = [martRun EXCEPT ![Rebuilt] = r]
    /\ UNCHANGED <<sourceLoad, kind, runStatus, committedAt, runLoad, staged,
                   faults>>

\* The transaction of the loader up to the update of etl_runs. The first
\* builder truncates a mart, and the lock of TRUNCATE is held to the end.
BuildMarts(r) ==
    /\ Advance(r, "facts", "built")
    /\ martLock = 0
    /\ martLock' = r
    /\ stamp' = [stamp EXCEPT ![r] = Now]
    /\ UNCHANGED <<sourceLoad, kind, runStatus, committedAt, runLoad, staged,
                   martRun, faults>>

\* A refresh builds from staging tables nobody filled: no rows, no lock.
BuildRefresh(r) ==
    /\ kind[r] = "mart_refresh"
    /\ stage[r] = "inserted"
    /\ stage' = [stage EXCEPT ![r] = "built"]
    /\ stamp' = [stamp EXCEPT ![r] = Now]
    /\ UNCHANGED <<sourceLoad, kind, runStatus, committedAt, runLoad, staged,
                   martLock, martRun, faults>>

\* An upsert that leaves the newest day to the next run.
WrittenButLast(r) ==
    IF kind[r] = "full"
    THEN (Window(staged[r].facts) \ {staged[r].facts}) \cup {Rebuilt} ELSE {}

\* What a run writes: TRUNCATE and INSERT, and an upsert of the days it saw.
Written(r) ==
    IF kind[r] = "full" THEN Window(staged[r].facts) \cup {Rebuilt} ELSE {}

ReleaseMarts(r) == martLock' = IF martLock = r THEN 0 ELSE martLock

CommitRows(r) ==
    /\ stage[r] = "built"
    /\ martRun' = [c \in Cells |-> IF c \in Written(r) THEN r ELSE martRun[c]]
    /\ runStatus' = [runStatus EXCEPT ![r] = "committed"]
    /\ committedAt' = [committedAt EXCEPT ![r] = stamp[r]]
    /\ ReleaseMarts(r)
    /\ UNCHANGED <<sourceLoad, kind, runLoad, staged, stamp>>

Apply(r) ==
    /\ CommitRows(r)
    /\ stage' = [stage EXCEPT ![r] = "done"]
    /\ UNCHANGED faults

\* The commit takes effect and its answer is lost: the caller sees an error.
ApplyUnanswered(r) ==
    /\ CommitRows(r)
    /\ stage' = [stage EXCEPT ![r] = "failing"]
    /\ Fault

\* Any stage may fail: no snapshot yet, the source, the quality gate, a
\* builder. The transaction, if there is one, is rolled back.
FailRun(r) ==
    /\ stage[r] \in Live \ {"failing"}
    /\ stage' = [stage EXCEPT ![r] = "failing"]
    /\ ReleaseMarts(r)
    /\ UNCHANGED <<sourceLoad, kind, runStatus, committedAt, runLoad, staged,
                   stamp, martRun, faults>>

\* A patch without a status.
MarkFailedNoStatus(r) ==
    /\ stage[r] = "failing"
    /\ stage' = [stage EXCEPT ![r] = "done"]
    /\ UNCHANGED <<sourceLoad, kind, runStatus, committedAt, runLoad, staged,
                   stamp, martLock, martRun, faults>>

\* A status the readers of etl_runs do not know.
MarkFailedAborted(r) ==
    /\ stage[r] = "failing"
    /\ runStatus' = [runStatus EXCEPT ![r] = "aborted"]
    /\ stage' = [stage EXCEPT ![r] = "done"]
    /\ UNCHANGED <<sourceLoad, kind, committedAt, runLoad, staged, stamp,
                   martLock, martRun, faults>>

\* markFailed: an update by id, whatever the row says.
MarkFailed(r) ==
    /\ stage[r] = "failing"
    /\ runStatus' = [runStatus EXCEPT ![r] = "failed"]
    /\ stage' = [stage EXCEPT ![r] = "done"]
    /\ UNCHANGED <<sourceLoad, kind, committedAt, runLoad, staged, stamp,
                   martLock, martRun, faults>>

\* markFailed fails too (after a timeout its context has expired as well), or
\* the process dies: nobody will touch the row again.
LoseRun(r) ==
    /\ stage[r] \in Live
    /\ Fault
    /\ stage' = [stage EXCEPT ![r] = "lost"]
    /\ ReleaseMarts(r)
    /\ UNCHANGED <<sourceLoad, kind, runStatus, committedAt, runLoad, staged,
                   stamp, martRun>>

EtlInit ==
    /\ sourceLoad = 0
    /\ kind = [r \in Runs |-> "none"]
    /\ runStatus = [r \in Runs |-> "none"]
    /\ committedAt = [r \in Runs |-> 0]
    /\ stage = [r \in Runs |-> "none"]
    /\ runLoad = [r \in Runs |-> 0]
    /\ staged = [r \in Runs |-> [masters |-> 0, facts |-> 0]]
    /\ stamp = [r \in Runs |-> 0]
    /\ martLock = 0
    /\ martRun = [c \in Cells |-> 0]
    /\ faults = 0

\* What the goroutine or the request of a run does by itself.
RunGoesOn(r) ==
    \/ ReadSnapshot(r)
    \/ ExtractMasters(r)
    \/ ExtractFacts(r)
    \/ BuildMarts(r)
    \/ BuildRefresh(r)
    \/ Apply(r)
    \/ FailRun(r)
    \/ MarkFailed(r)

RunStep(r) ==
    \/ StartRun(r)
    \/ RetryRun(r)
    \/ StartLost(r)
    \/ StartRefresh(r)
    \/ RunGoesOn(r)
    \/ ApplyUnanswered(r)
    \/ LoseRun(r)

EtlStep == PublishLoad \/ \E r \in Runs : RunStep(r)

\* A goroutine or a request runs to its end; nobody has to start one.
EtlFairness == \A r \in Runs : WF_etlVars(RunGoesOn(r))
EtlSpec == EtlInit /\ [][EtlStep]_etlVars /\ EtlFairness

---------------------------------------------------------------------------
(* Types of the state; the fields of staged are named after the stages that
   fill them. *)
EtlTypeOK ==
    /\ sourceLoad \in 0..MaxLoads
    /\ kind \in [Runs -> {"none", "full", "mart_refresh"}]
    /\ runStatus \in [Runs -> Statuses]
    /\ committedAt \in [Runs -> Nat]
    /\ stage \in [Runs -> Stages]
    /\ runLoad \in [Runs -> 0..MaxLoads]
    /\ staged \in [Runs -> [masters : 0..MaxLoads, facts : 0..MaxLoads]]
    /\ stamp \in [Runs -> Nat]
    /\ martLock \in 0..MaxRuns
    /\ martRun \in [Cells -> 0..MaxRuns]
    /\ faults \in 0..MaxFaults

(* Marts flip together: the run of the rebuilt marts also has every day it
   saw, and no day holds rows of a run that committed after it. *)
MartsFlipTogether ==
    LET last == martRun[Rebuilt]
    IN  \A d \in Days :
          /\ last # 0 /\ d \in Window(staged[last].facts) => martRun[d] = last
          /\ martRun[d] # 0 =>
               last # 0 /\ committedAt[martRun[d]] <= committedAt[last]

(* The version readers are told is the run whose rows the marts hold, unless
   the refresh of a mart committed after it or the answer to its own commit
   was lost and it was marked failed. *)
VersionOfTheRows ==
    LET last == martRun[Rebuilt]
    IN  \/ last = Current
        \/ last # 0 /\ runStatus[last] = "failed"
        \/ Current # 0 /\ kind[Current] = "mart_refresh"

(* A run that is not lost (crash, timeout, failed insert) leaves 'running'. *)
RunsEnd == \A r \in Runs : []<>(runStatus[r] # "running" \/ stage[r] = "lost")

(* The runs and the version the readers are told implement MartVersions: the
   tables change in the step in which a run becomes visible and in no other. *)
Versions == INSTANCE MartVersions WITH
    table <- martRun,
    current <- Current,
    flipped <- {r \in Runs : committedAt[r] # 0}
ImplementsVersions == Versions!Spec

(* "one full-run fills all five marts", so the one version serves them all:
   the version the readers are told has rows. *)
ReaderSeesMart == Current # 0 => martRun[Rebuilt] = Current
====
