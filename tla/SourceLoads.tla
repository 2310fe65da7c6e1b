---------------------------- MODULE SourceLoads ----------------------------
(***************************************************************************)
(* The loads of the source adapter (data_export): a tick of the scheduler  *)
(* or an operator's trigger takes the advisory lock, aborts stale loads    *)
(* and copies the tables of the source ERP, batch by batch, each batch in  *)
(* a transaction of its own; at the end one transaction moves the snapshot *)
(* pointer and marks the load committed.                                   *)
(*                                                                         *)
(* A row belongs to the load that wrote it last.  Rows of most tables are  *)
(* upserted in place; those of receipt_line and stock_movement are         *)
(* inserted, and a row that is there already fails the load.  Journals are *)
(* appended under new ids, never clash and are left out.  Every load of a  *)
(* process reads the same window of facts, fixed when it starts.  A row of *)
(* the model stands for a batch of rows, so that rejecting it may or may   *)
(* not pass the quality threshold.                                         *)
(***************************************************************************)
EXTENDS Naturals, FiniteSets

CONSTANTS
  Ticks,      \* sessions that run a load: replicas, triggers and retries
  Masters,    \* upserted rows of the source, numbered in the order of EntityOrder
  Facts,      \* inserted rows of the source
  MaxLoads,   \* bound: how many loads a behaviour starts
  MaxFaults,  \* bound: crashes, lost connections and failed statements
  NoTick      \* the holder of the advisory lock when nobody holds it

ASSUME LoadsAssumption ==
  /\ Masters \cup Facts \subseteq Nat \ {0}
  /\ Masters \cap Facts = {}
  /\ MaxLoads \in Nat
  /\ MaxFaults \in Nat
  /\ NoTick \notin Ticks

VARIABLES
  loadStatus,  \* loads.status, "none" before the row is inserted
  lastLoad,    \* number of rows of loads
  aged,        \* loads up to this one started longer than StaleAfter ago
  current,     \* snapshot_pointer.current_load_id, 0 for NULL
  previous,    \* snapshot_pointer.previous_load_id
  rowLoad,     \* load_id of each row, 0 while it is absent
  tickPc,      \* "idle", "reap", "insert", "copy", "publish" or "fail"
  tickLoad,    \* the load the session runs, 0 before
  todo,        \* rows of the source still to copy
  rejected,    \* the validator has rejected rows of the load
  loadLock,    \* holder of pg_try_advisory_lock(daily load)
  lockLost,    \* history: a session has lost the lock and gone on
  faults       \* how many of the MaxFaults faults have happened

loadTables == <<loadStatus, lastLoad, current, previous, rowLoad>>
tickVars == <<tickPc, tickLoad, todo, rejected>>
loadVars == <<loadTables, aged, tickVars, loadLock, lockLost, faults>>

LoadIds == 1..MaxLoads
Source == Masters \cup Facts
LoadStatuses == {"none", "running", "committed", "failed", "aborted"}
Fault == faults < MaxFaults /\ faults' = faults + 1

(***************************************************************************)
(* Tick and TryTrigger: a busy lock changes nothing.  PostLoads looks for  *)
(* a running load before, and PostLoadsRetry for a failed one, but         *)
(* whatever they saw may have changed when the lock is taken.              *)
(***************************************************************************)
StartTickUnlocked(t) ==
  /\ tickPc[t] = "idle"
  /\ loadLock' = t
  /\ tickPc' = [tickPc EXCEPT ![t] = "reap"]
  /\ UNCHANGED <<loadTables, aged, tickLoad, todo, rejected, lockLost, faults>>

StartTick(t) ==
  /\ tickPc[t] = "idle"
  /\ loadLock = NoTick
  /\ loadLock' = t
  /\ tickPc' = [tickPc EXCEPT ![t] = "reap"]
  /\ UNCHANGED <<loadTables, aged, tickLoad, todo, rejected, lockLost, faults>>

(***************************************************************************)
(* The end of a tick in any way: the deferred pg_advisory_unlock, or the   *)
(* end of the connection.                                                  *)
(***************************************************************************)
EndTick(t) ==
  /\ tickPc' = [tickPc EXCEPT ![t] = "idle"]
  /\ tickLoad' = [tickLoad EXCEPT ![t] = 0]
  /\ todo' = [todo EXCEPT ![t] = {}]
  /\ rejected' = [rejected EXCEPT ![t] = FALSE]
  /\ loadLock' = IF loadLock = t THEN NoTick ELSE loadLock
  /\ UNCHANGED <<aged, lockLost>>

(***************************************************************************)
(* MarkAborted, whose failure is only logged.                              *)
(***************************************************************************)
NoneStale == {}
Stale == {n \in LoadIds : loadStatus[n] = "running" /\ n <= aged}

ReapStale(t) ==
  /\ tickPc[t] = "reap"
  /\ \/ /\ loadStatus' = [n \in LoadIds |->
             IF n \in Stale THEN "aborted" ELSE loadStatus[n]]
        /\ UNCHANGED faults
     \/ Fault /\ UNCHANGED loadStatus
  /\ tickPc' = [tickPc EXCEPT ![t] = "insert"]
  /\ UNCHANGED <<lastLoad, current, previous, rowLoad, aged>>
  /\ UNCHANGED <<tickLoad, todo, rejected, loadLock, lockLost>>

InsertRunning(t) ==
  /\ tickPc[t] = "insert"
  /\ lastLoad < MaxLoads
  /\ lastLoad' = lastLoad + 1
  /\ loadStatus' = [loadStatus EXCEPT ![lastLoad + 1] = "running"]
  /\ tickLoad' = [tickLoad EXCEPT ![t] = lastLoad + 1]
  /\ todo' = [todo EXCEPT ![t] = Source]
  /\ tickPc' = [tickPc EXCEPT ![t] = "copy"]
  /\ UNCHANGED <<current, previous, rowLoad, aged>>
  /\ UNCHANGED <<rejected, loadLock, lockLost, faults>>

(***************************************************************************)
(* The partitions cannot be created or the row of loads not inserted: the  *)
(* tick ends without a load, as it does at the bound MaxLoads.             *)
(***************************************************************************)
FailTick(t) ==
  /\ \/ tickPc[t] \in {"reap", "insert"} /\ Fault
     \/ tickPc[t] = "insert" /\ lastLoad = MaxLoads /\ UNCHANGED faults
  /\ EndTick(t)
  /\ UNCHANGED loadTables

NextRow(t, e) ==
  /\ tickPc[t] = "copy"
  /\ e \in todo[t]
  /\ \A d \in todo[t] : e <= d
  /\ todo' = [todo EXCEPT ![t] = @ \ {e}]

CopyRow(t, e) ==
  /\ NextRow(t, e)
  /\ e \in Masters \/ rowLoad[e] = 0
  /\ rowLoad' = [rowLoad EXCEPT ![e] = tickLoad[t]]
  /\ UNCHANGED <<loadStatus, lastLoad, current, previous, aged>>
  /\ UNCHANGED <<tickPc, tickLoad, rejected, loadLock, lockLost, faults>>

RejectRow(t, e) ==
  /\ NextRow(t, e)
  /\ rejected' = [rejected EXCEPT ![t] = TRUE]
  /\ UNCHANGED <<loadTables, aged, tickPc, tickLoad, loadLock, lockLost, faults>>

(***************************************************************************)
(* The source cannot be read, a statement of a batch fails, an inserted    *)
(* row is there already, or more than one percent of the rows was          *)
(* rejected.                                                               *)
(***************************************************************************)
FailLoad(t) ==
  /\ \/ tickPc[t] \in {"copy", "publish"} /\ Fault
     \/ /\ tickPc[t] = "copy"
        /\ \E e \in todo[t] \cap Facts : rowLoad[e] # 0 /\ \A d \in todo[t] : e <= d
        /\ UNCHANGED faults
     \/ tickPc[t] = "copy" /\ todo[t] = {} /\ rejected[t] /\ UNCHANGED faults
  /\ tickPc' = [tickPc EXCEPT ![t] = "fail"]
  /\ UNCHANGED <<loadTables, aged, tickLoad, todo, rejected, loadLock, lockLost>>

PassThreshold(t) ==
  /\ tickPc[t] = "copy"
  /\ todo[t] = {}
  /\ tickPc' = [tickPc EXCEPT ![t] = "publish"]
  /\ UNCHANGED <<loadTables, aged, tickLoad, todo, rejected>>
  /\ UNCHANGED <<loadLock, lockLost, faults>>

(***************************************************************************)
(* The guard of MarkCommitted and MarkFailed: WHERE status = 'running'.    *)
(***************************************************************************)
NotAborted(n) == loadStatus[n] \in {"running", "committed"}
IsRunning(n) == loadStatus[n] = "running"

(***************************************************************************)
(* Flip and MarkCommitted in one transaction, rolled back when the load is *)
(* no longer running.                                                      *)
(***************************************************************************)
FlipBeforeMark(t) ==
  /\ tickPc[t] = "publish"
  /\ current' = tickLoad[t]
  /\ previous' = current
  /\ loadStatus' = [loadStatus EXCEPT ![tickLoad[t]] =
       IF IsRunning(tickLoad[t]) THEN "committed" ELSE @]
  /\ UNCHANGED <<lastLoad, rowLoad>>

Flip(t) ==
  /\ tickPc[t] = "publish"
  /\ IsRunning(tickLoad[t])
  /\ current' = tickLoad[t]
  /\ previous' = current
  /\ loadStatus' = [loadStatus EXCEPT ![tickLoad[t]] = "committed"]
  /\ UNCHANGED <<lastLoad, rowLoad>>

Publish(t) ==
  /\ Flip(t)
  /\ EndTick(t)
  /\ UNCHANGED faults

(***************************************************************************)
(* The transaction commits and its answer is lost: the loader takes it for *)
(* a failure and goes on to MarkFailed.                                    *)
(***************************************************************************)
PublishUnanswered(t) ==
  /\ Flip(t)
  /\ Fault
  /\ tickPc' = [tickPc EXCEPT ![t] = "fail"]
  /\ UNCHANGED <<aged, tickLoad, todo, rejected, loadLock, lockLost>>

PublishTooLate(t) ==
  /\ tickPc[t] = "publish"
  /\ ~IsRunning(tickLoad[t])
  /\ tickPc' = [tickPc EXCEPT ![t] = "fail"]
  /\ UNCHANGED <<loadTables, aged, tickLoad, todo, rejected>>
  /\ UNCHANGED <<loadLock, lockLost, faults>>

(***************************************************************************)
(* MarkFailed; its own failure is ignored.                                 *)
(***************************************************************************)
MarkFailed(t) ==
  /\ tickPc[t] = "fail"
  /\ \/ /\ loadStatus' = [loadStatus EXCEPT ![tickLoad[t]] =
             IF IsRunning(tickLoad[t]) THEN "failed" ELSE @]
        /\ UNCHANGED faults
     \/ Fault /\ UNCHANGED loadStatus
  /\ EndTick(t)
  /\ UNCHANGED <<lastLoad, current, previous, rowLoad>>

CrashTick(t) ==
  /\ tickPc[t] # "idle"
  /\ Fault
  /\ EndTick(t)
  /\ UNCHANGED loadTables

(***************************************************************************)
(* The connection that holds the advisory lock breaks; the load works on   *)
(* other connections and does not notice.                                  *)
(***************************************************************************)
LoseLock(t) ==
  /\ loadLock = t
  /\ Fault
  /\ loadLock' = NoTick
  /\ lockLost' = TRUE
  /\ UNCHANGED <<loadTables, aged, tickVars>>

(***************************************************************************)
(* The oldest load that is not stale yet becomes so.                       *)
(***************************************************************************)
TimePasses ==
  /\ aged < lastLoad
  /\ aged' = aged + 1
  /\ UNCHANGED <<loadTables, tickVars, loadLock, lockLost, faults>>

LoadsInit ==
  /\ loadStatus = [n \in LoadIds |-> "none"]
  /\ lastLoad = 0
  /\ aged = 0
  /\ current = 0
  /\ previous = 0
  /\ rowLoad = [e \in Source |-> 0]
  /\ tickPc = [t \in Ticks |-> "idle"]
  /\ tickLoad = [t \in Ticks |-> 0]
  /\ todo = [t \in Ticks |-> {}]
  /\ rejected = [t \in Ticks |-> FALSE]
  /\ loadLock = NoTick
  /\ lockLost = FALSE
  /\ faults = 0

TickGoesOn(t) ==
  \/ ReapStale(t) \/ InsertRunning(t)
  \/ \E e \in Source : CopyRow(t, e) \/ RejectRow(t, e)
  \/ PassThreshold(t) \/ Publish(t) \/ PublishTooLate(t) \/ MarkFailed(t)

TickStep(t) ==
  \/ StartTick(t)
  \/ TickGoesOn(t)
  \/ FailTick(t) \/ FailLoad(t) \/ PublishUnanswered(t) \/ CrashTick(t) \/ LoseLock(t)

LoadsTypeOK ==
  /\ loadStatus \in [LoadIds -> LoadStatuses]
  /\ lastLoad \in 0..MaxLoads
  /\ aged \in 0..lastLoad
  /\ current \in 0..MaxLoads
  /\ previous \in 0..MaxLoads
  /\ rowLoad \in [Source -> 0..MaxLoads]
  /\ tickPc \in [Ticks -> {"idle", "reap", "insert", "copy", "publish", "fail"}]
  /\ tickLoad \in [Ticks -> 0..MaxLoads]
  /\ todo \in [Ticks -> SUBSET Source]
  /\ rejected \in [Ticks -> BOOLEAN]
  /\ loadLock \in Ticks \cup {NoTick}
  /\ lockLost \in BOOLEAN
  /\ faults \in 0..MaxFaults

=============================================================================
