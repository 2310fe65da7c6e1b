--------------------------- MODULE OrderContract ---------------------------
(***************************************************************************)
(* What order-builder and channel-routing promise together, without        *)
(* sessions, locks or transactions: a plan becomes at most one live        *)
(* purchase order, a live order may be voided or replaced, and it counts   *)
(* as sent only when the supplier's ERP holds it.                          *)
(***************************************************************************)
EXTENDS FiniteSets

CONSTANTS Plans, NoPlan, Orders

VARIABLES
  order,   \* "none", "open", "sent" or "void"
  planOf,  \* the plan an order is for
  held     \* orders the ERP holds

contractVars == <<order, planOf, held>>

Live(n) == order[n] \in {"open", "sent"}

(***************************************************************************)
(* New orders are placed together, each for a plan that never had one.     *)
(***************************************************************************)
Place(New, plan) ==
  /\ \A n \in New : order[n] = "none" /\ plan[n] \in Plans
  /\ \A n \in New, m \in Orders : order[m] # "none" => planOf[m] # plan[n]
  /\ \A m, n \in New : plan[m] = plan[n] => m = n
  /\ order' = [n \in Orders |-> IF n \in New THEN "open" ELSE order[n]]
  /\ planOf' = [n \in Orders |-> IF n \in New THEN plan[n] ELSE planOf[n]]
  /\ UNCHANGED held

Void(n) ==
  /\ Live(n)
  /\ order' = [order EXCEPT ![n] = "void"]
  /\ UNCHANGED <<planOf, held>>

Replace(old, new) ==
  /\ Live(old)
  /\ order[new] = "none"
  /\ order' = [order EXCEPT ![old] = "void", ![new] = "open"]
  /\ planOf' = [planOf EXCEPT ![new] = planOf[old]]
  /\ UNCHANGED held

ErpTakes(n) ==
  /\ order[n] # "none"
  /\ held' = held \cup {n}
  /\ UNCHANGED <<order, planOf>>

Dispatch(n) ==
  /\ order[n] = "open"
  /\ n \in held
  /\ order' = [order EXCEPT ![n] = "sent"]
  /\ UNCHANGED <<planOf, held>>

ContractInit ==
  /\ order = [n \in Orders |-> "none"]
  /\ planOf = [n \in Orders |-> NoPlan]
  /\ held = {}

ContractNext ==
  \/ \E New \in SUBSET Orders : \E plan \in [Orders -> Plans \cup {NoPlan}] :
       Place(New, plan)
  \/ \E n \in Orders : Void(n) \/ ErpTakes(n) \/ Dispatch(n)
  \/ \E old, new \in Orders : Replace(old, new)

ContractSpec == ContractInit /\ [][ContractNext]_contractVars

=============================================================================
