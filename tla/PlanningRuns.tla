---- MODULE PlanningRuns ----
(* The engines of the planning services. Each has a lock, a schedule and tables
   of its own, and their schedulers are alike: a behaviour is one of either. *)
EXTENDS ForecastRuns, KpiRuns

VARIABLE engine   \* the engine this behaviour is about

vars == <<engine, lockVars, forecastVars, kpiVars>>

Init ==
    /\ engine \in {"forecast", "kpi"}
    /\ LockInit
    /\ ForecastInit
    /\ KpiInit

OfForecast == engine = "forecast" /\ UNCHANGED <<engine, kpiVars>>
OfKpi == engine = "kpi" /\ UNCHANGED <<engine, forecastVars>>

Next ==
    \/ ForecastStep /\ OfForecast
    \/ KpiStep /\ OfKpi

GoesOn(s) ==
    \/ ForecastGoesOn(s) /\ OfForecast
    \/ KpiGoesOn(s) /\ OfKpi

\* A run that has the lock runs to its end. Nobody has to start one.
Fairness == \A s \in Sessions : WF_vars(GoesOn(s))
Spec == Init /\ [][Next]_vars /\ Fairness

---------------------------------------------------------------------------
(* Runs end, and the lock comes back: no failure keeps a client polling a run
   that nobody works on, or the next tick out for ever. *)
EnginesEnd == RunsEnd /\ LockComesBack
====
