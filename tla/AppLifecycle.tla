---- MODULE AppLifecycle ----
(* The processes of the system from main to the end: New builds the pool, the
   scheduler and the routes, Run serves until a signal comes, Shutdown stops the
   scheduler, drains the HTTP server and closes the pool.  Runs that an operator
   triggered are goroutines of their own that nobody waits for: closing the pool
   ends them, and the next run finds what they left, which EtlRuns, SourceLoads
   and EngineLock model as a crash. *)
EXTENDS Naturals

CONSTANT MaxRequests   \* bound: requests in flight at once

ASSUME AppLifecycleAssumption == MaxRequests \in Nat \ {0}

VARIABLES
    app,        \* the process
    stage,      \* how far it has come
    sched,      \* its scheduler
    requests,   \* requests in flight
    pool,       \* the pool of database connections
    gaveUp      \* what the shutdown did not wait for to the end

appVars == <<app, stage, sched, requests, pool, gaveUp>>

(* What New may come to: a process with a scheduler, one without, or an error
   that ends main.  A pool that cannot be configured is one for all. *)
NewSourceAdapter == {"idle", "none", "error"}   \* none without a reader of the ERP
NewEtl == {"idle", "error"}
NewMarts == {"none", "error"}
NewForecast == {"idle", "none", "error"}        \* a scheduler that fails is left out
NewKpi == {"idle", "none", "error"}
NewOrders == {"idle", "none", "error"}
NewChannels == {"idle", "none", "error"}
Apps == [source_adapter |-> NewSourceAdapter, etl |-> NewEtl, marts |-> NewMarts,
         forecast |-> NewForecast, kpi |-> NewKpi, orders |-> NewOrders,
         channels |-> NewChannels]

NewApp ==
    /\ stage = "new"
    /\ \E result \in Apps[app] :
         IF result = "error"
         THEN stage' = "ended" /\ UNCHANGED <<sched, pool>>
         ELSE stage' = "built" /\ sched' = result /\ pool' = "open"
    /\ UNCHANGED <<app, requests, gaveUp>>

(* The scheduler starts first; only the ETL does not run without it. *)
Run ==
    /\ stage = "built"
    /\ \/ stage' = "serving" /\ UNCHANGED sched
       \/ /\ sched = "idle"
          /\ sched' = "none"
          /\ stage' = IF app = "etl" THEN "ended" ELSE "serving"
    /\ UNCHANGED <<app, requests, pool, gaveUp>>

(* The listener fails: main ends, and nothing is shut down. *)
ListenFails ==
    /\ stage = "serving"
    /\ stage' = "ended"
    /\ requests' = 0
    /\ UNCHANGED <<app, sched, pool, gaveUp>>

(* The server accepts requests until it is drained. *)
Request ==
    /\ stage \in {"serving", "stop scheduler"}
    /\ requests < MaxRequests
    /\ requests' = requests + 1
    /\ UNCHANGED <<app, stage, sched, pool, gaveUp>>
Answer ==
    /\ requests > 0
    /\ requests' = requests - 1
    /\ UNCHANGED <<app, stage, sched, pool, gaveUp>>

Tick ==
    /\ sched \in {"idle", "ticking"}
    /\ stage \in {"serving", "stop scheduler"}
    /\ sched' = IF sched = "idle" THEN "ticking" ELSE "idle"
    /\ UNCHANGED <<app, stage, requests, pool, gaveUp>>

Signal ==
    /\ stage = "serving"
    /\ stage' = "stop scheduler"
    /\ UNCHANGED <<app, sched, requests, pool, gaveUp>>

(* gocron waits for a running tick, for a while; its error is logged. *)
StopScheduler ==
    /\ stage = "stop scheduler"
    /\ \/ sched # "ticking" /\ sched' = "none" /\ UNCHANGED gaveUp
       \/ sched = "ticking" /\ gaveUp' = gaveUp \cup {"tick"} /\ UNCHANGED sched
    /\ stage' = "drain"
    /\ UNCHANGED <<app, requests, pool>>

(* A tick the scheduler has given up goes on. *)
StrayTickEnds ==
    /\ stage \in {"drain", "close"}
    /\ sched = "ticking"
    /\ sched' = "none"
    /\ UNCHANGED <<app, stage, requests, pool, gaveUp>>

DrainAtOnce ==
    /\ stage = "drain"
    /\ stage' = "close"
    /\ UNCHANGED <<app, sched, requests, pool, gaveUp>>

(* ShutdownWithContext returns when the last request is answered, or with an
   error after shutdownTimeout.  Then the process ends with the pool open; the
   ETL closes it in any case. *)
Drain ==
    /\ stage = "drain"
    /\ \/ requests = 0 /\ stage' = "close" /\ UNCHANGED <<requests, gaveUp>>
       \/ /\ requests > 0
          /\ gaveUp' = gaveUp \cup {"request"}
          /\ IF app = "etl"
             THEN stage' = "close" /\ UNCHANGED requests
             ELSE stage' = "ended" /\ requests' = 0
    /\ UNCHANGED <<app, sched, pool>>

ClosePool ==
    /\ stage = "close"
    /\ pool' = "closed"
    /\ stage' = "closed"
    /\ UNCHANGED <<app, sched, requests, gaveUp>>

AppInit ==
    /\ app \in DOMAIN Apps
    /\ stage = "new" /\ sched = "none" /\ requests = 0 /\ pool = "none" /\ gaveUp = {}
AppIdle ==
    /\ app = "none"
    /\ stage = "ended" /\ sched = "none" /\ requests = 0 /\ pool = "none" /\ gaveUp = {}

AppNext ==
    \/ NewApp \/ Run \/ ListenFails \/ Request \/ Answer \/ Tick \/ Signal
    \/ StopScheduler \/ StrayTickEnds \/ Drain \/ ClosePool

(* No request and no scheduled tick meets a closed pool, unless the shutdown
   gave up waiting for one; and for a request it does so in the ETL alone, where
   a failed drain is followed by closing the pool all the same. *)
PoolOutlivesRequests ==
    pool = "closed" =>
        /\ requests = 0 \/ (app = "etl" /\ "request" \in gaveUp)
        /\ sched = "ticking" => "tick" \in gaveUp
====
