---- MODULE Parts ----
(* The parts of the system that share no variable with the rest: the pipeline
   of loads, the pages of the tables, the readers that follow them, the exports
   and the life of the processes; and the arithmetic of the planning services,
   one run from its sales to its orders, or one snapshot of a KPI.  A behaviour
   is one of one part, while the others have nothing to do. *)
EXTENDS EntityLoads, EntityPages, PagedFetch, Exports, AppLifecycle, DemandToOrder, KpiCalc

adapterVars == <<entityVars, pageVars, fetchVars, exportVars, appVars>>
calculationVars == <<demandVars, kpiCalcVars>>
vars == <<adapterVars, calculationVars>>

AdapterIdle == EntityLoadsOver /\ PagesIdle /\ FetchIdle /\ ExportsIdle /\ AppIdle

Init ==
    \/ /\ DemandIdle /\ KpiCalcIdle
       /\ \/ EntityLoadsInit /\ PagesIdle /\ FetchIdle /\ ExportsIdle /\ AppIdle
          \/ EntityLoadsOver /\ PagesInit /\ FetchIdle /\ ExportsIdle /\ AppIdle
          \/ EntityLoadsOver /\ PagesIdle /\ FetchInit /\ ExportsIdle /\ AppIdle
          \/ EntityLoadsOver /\ PagesIdle /\ FetchIdle /\ ExportsInit /\ AppIdle
          \/ EntityLoadsOver /\ PagesIdle /\ FetchIdle /\ ExportsIdle /\ AppInit
    \/ AdapterIdle /\ DemandInit /\ KpiCalcIdle
    \/ AdapterIdle /\ DemandIdle /\ KpiCalcInit

Next ==
    \/ EntityLoadsNext /\ UNCHANGED <<pageVars, fetchVars, exportVars, appVars, calculationVars>>
    \/ ServePage /\ UNCHANGED <<entityVars, fetchVars, exportVars, appVars, calculationVars>>
    \/ FetchNext /\ UNCHANGED <<entityVars, pageVars, exportVars, appVars, calculationVars>>
    \/ ExportsNext /\ UNCHANGED <<entityVars, pageVars, fetchVars, appVars, calculationVars>>
    \/ AppNext /\ UNCHANGED <<entityVars, pageVars, fetchVars, exportVars, calculationVars>>
    \/ CalculationStep /\ UNCHANGED <<adapterVars, kpiCalcVars>>
    \/ Calculate /\ UNCHANGED <<adapterVars, demandVars>>

Spec == Init /\ [][Next]_vars
====
