---- MODULE EngineLock ----
(* The schedulers of the forecast and the KPI engine, which are alike: a tick of
   cron or a request takes the advisory lock of the engine on a connection of
   its own, runs the engine on other connections, and unlocks at the end. *)
EXTENDS Naturals

CONSTANTS
    Ticks,      \* the cron job of each replica
    Triggers,   \* the requests for a run
    NoSession,
    MaxFaults   \* bound of the model: failures nobody cleans up after

ASSUME SessionsAssumption ==
    /\ Ticks \cap Triggers = {}
    /\ NoSession \notin Ticks \cup Triggers
    /\ MaxFaults \in Nat

Sessions == Ticks \cup Triggers

VARIABLES
    lock,      \* the session the server has the advisory lock for
    stage,     \* how far a session is
    orphaned,  \* sessions that go on although the connection with the lock is lost
    lost,      \* such a loss has happened
    faults

lockVars == <<lock, stage, orphaned, lost, faults>>

At(s, here) == stage[s] = here
GoTo(s, there) == stage' = [stage EXCEPT ![s] = there]
Fault == faults < MaxFaults /\ faults' = faults + 1
\* From the advisory lock to the end of the run.
Engaged(s) == stage[s] \notin {"idle", "unlock"}

\* pg_try_advisory_lock: a session that does not get it is done.
TryLock(s) ==
    /\ At(s, "idle")
    /\ lock = NoSession
    /\ lock' = s
    /\ GoTo(s, "locked")
    /\ orphaned' = orphaned \ {s}
    /\ UNCHANGED <<lost, faults>>

\* Whatever session the lock is held for.
UnlockAny(s) ==
    /\ At(s, "unlock")
    /\ lock' = NoSession
    /\ GoTo(s, "idle")
    /\ UNCHANGED <<orphaned, lost, faults>>

\* pg_advisory_unlock, on the connection that took the lock.
Unlock(s) ==
    /\ At(s, "unlock")
    /\ lock' = IF lock = s THEN NoSession ELSE lock
    /\ GoTo(s, "idle")
    /\ UNCHANGED <<orphaned, lost, faults>>

\* The connection that holds the lock breaks; the run goes on without it.
LoseLock(s) ==
    /\ lock = s
    /\ Fault
    /\ lock' = NoSession
    /\ orphaned' = orphaned \cup {s}
    /\ lost' = TRUE
    /\ UNCHANGED stage

\* The process ends: Stop does not wait for a run a request has started.
LoseProcess(s) ==
    /\ ~At(s, "idle")
    /\ Fault
    /\ lock' = IF lock = s THEN NoSession ELSE lock
    /\ GoTo(s, "idle")
    /\ UNCHANGED <<orphaned, lost>>

LockInit ==
    /\ lock = NoSession
    /\ stage = [s \in Sessions |-> "idle"]
    /\ orphaned = {}
    /\ lost = FALSE
    /\ faults = 0

LockStep(s) == TryLock(s) \/ Unlock(s) \/ LoseLock(s) \/ LoseProcess(s)

---------------------------------------------------------------------------
(* "two ticks cannot run at once": two runs of an engine overlap only when the
   connection with the lock was lost under one of them. *)
LockExcludes ==
    \A s, t \in Sessions \ orphaned : Engaged(s) /\ Engaged(t) => s = t

(* The lock comes back: no failure keeps the next tick out for ever. *)
LockComesBack == []<>(lock = NoSession)
====
