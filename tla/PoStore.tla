------------------------------ MODULE PoStore ------------------------------
(***************************************************************************)
(* The PostgreSQL tables that the Order Builder (module 6) and the Channel *)
(* Router (module 7) share: forecast.replenishment_plans,                  *)
(* orders.purchase_orders, orders.po_status_history and the sequence       *)
(* orders.po_number_seq, in their COMMITTED state.                         *)
(*                                                                         *)
(* A database transaction is modelled at READ COMMITTED: a statement reads *)
(* the committed tables, what an open transaction writes stays in its      *)
(* session until the commit step, and a row it has updated is locked, so   *)
(* that another UPDATE of the row waits and then sees the committed row.   *)
(***************************************************************************)
EXTENDS Naturals, Sequences, FiniteSets

CONSTANTS
  Plans,      \* replenishment plans, numbered in the order (plan_date, id)
  NoPlan,     \* the plan of an order number that has no row
  MaxPo,      \* bound: how many values of po_number_seq a behaviour draws
  NoSession,  \* the holder of a lock nobody holds
  MaxFaults   \* bound: crashes, lost connections and failed calls

ASSUME StoreAssumption ==
  /\ Plans \subseteq Nat
  /\ IsFiniteSet(Plans)
  /\ NoPlan \notin Plans
  /\ MaxPo \in Nat
  /\ MaxFaults \in Nat

VARIABLES
  planStatus,  \* replenishment_plans.status
  seq,         \* last value of po_number_seq; nextval is never rolled back
  poStatus,    \* purchase_orders.status; "none" while no such row is committed
  poPlan,      \* purchase_orders.plan_id
  history,     \* po_status_history: per order, its rows in commit order
  poLock,      \* the session whose transaction has updated the row
  faults       \* how many of the MaxFaults faults have happened

poTables == <<poStatus, poPlan, history>>
storeVars == <<planStatus, seq, poTables, poLock, faults>>

(***************************************************************************)
(* A purchase order is identified by the sequence value its number is      *)
(* formatted from; its uuid is as unique.                                  *)
(***************************************************************************)
PoIds == 1..MaxPo

PlanStatuses == {"draft", "approved", "converted"}
IsCancellableTwice(s) == s \notin {"none", "received"}
IsCancellable(s) == s \in {"draft", "ready_to_send", "sent", "confirmed_by_erp"}
IsRegeneratable(s) == s \in {"draft", "ready_to_send"}
PoStatuses == {"none", "draft", "ready_to_send", "sent", "confirmed_by_erp",
               "received", "cancelled"}

Entry(from, to) == [from |-> from, to |-> to]
Entries == [from : PoStatuses, to : PoStatuses]

Exists(n) == poStatus[n] # "none"

(***************************************************************************)
(* ORDER BY ... LIMIT k: the k smallest elements of S.  (Operators like    *)
(* FirstOfLimitLess, which no action uses, are the faulty variants that    *)
(* the checked properties are shown to refute.)                            *)
(***************************************************************************)
FirstOfLimitLess(S, k) == {x \in S : Cardinality({y \in S : y < x}) < k - 1}
FirstOf(S, k) == {x \in S : Cardinality({y \in S : y < x}) < k}

(***************************************************************************)
(* The committed effect of INSERT INTO purchase_orders for the numbers in  *)
(* New, of plan[n] and in the status the statement fixes, and of the       *)
(* UPDATE to 'cancelled' of the numbers in Void, each with the             *)
(* po_status_history row the code writes beside it.                        *)
(***************************************************************************)
WriteOrders(New, plan, Void, from) ==
  /\ poStatus' = [n \in PoIds |-> IF n \in New THEN "ready_to_send"
                                  ELSE IF n \in Void THEN "cancelled"
                                  ELSE poStatus[n]]
  /\ poPlan' = [n \in PoIds |-> IF n \in New THEN plan[n] ELSE poPlan[n]]
  /\ history' = [n \in PoIds |->
       IF n \in New THEN Append(history[n], Entry("none", "ready_to_send"))
       ELSE IF n \in Void THEN Append(history[n], Entry(from, "cancelled"))
       ELSE history[n]]

(***************************************************************************)
(* The transaction of session s ends and its row locks with it.            *)
(***************************************************************************)
KeepRows(s) == UNCHANGED poLock
ReleaseRows(s) ==
  poLock' = [n \in PoIds |-> IF poLock[n] = s THEN NoSession ELSE poLock[n]]

(***************************************************************************)
(* What may go wrong at any time: a crashed process, a broken connection,  *)
(* a statement or a call that fails.                                       *)
(***************************************************************************)
Fault == faults < MaxFaults /\ faults' = faults + 1

StoreInit ==
  /\ planStatus = [p \in Plans |-> "draft"]
  /\ seq = 0
  /\ poStatus = [n \in PoIds |-> "none"]
  /\ poPlan = [n \in PoIds |-> NoPlan]
  /\ history = [n \in PoIds |-> <<>>]
  /\ poLock = [n \in PoIds |-> NoSession]
  /\ faults = 0

StoreTypeOK ==
  /\ planStatus \in [Plans -> PlanStatuses]
  /\ seq \in 0..MaxPo
  /\ poStatus \in [PoIds -> PoStatuses]
  /\ poPlan \in [PoIds -> Plans \cup {NoPlan}]
  /\ history \in [PoIds -> Seq(Entries)]
  /\ faults \in 0..MaxFaults

=============================================================================
