-------------------------- MODULE OrderFulfilment --------------------------
(***************************************************************************)
(* From an approved replenishment plan to an order the supplier's ERP      *)
(* holds: the Order Builder's runs, the operators' cancel and regenerate   *)
(* requests and the Channel Router's runs and retries, interleaved on the  *)
(* tables they share.                                                      *)
(***************************************************************************)
EXTENDS OrderBuilder, OrderAdmin, ChannelRouter

ASSUME SessionsDisjoint ==
  /\ Builders \cap Admins = {}
  /\ Builders \cap Routers = {}
  /\ Admins \cap Routers = {}

vars == <<storeVars, builderVars, adminVars, routerVars>>

Init == StoreInit /\ BuilderInit /\ AdminInit /\ RouterInit

Next ==
  \/ /\ \/ \E p \in Plans : ApprovePlan(p)
        \/ \E b \in Builders : BuilderStep(b)
     /\ UNCHANGED <<adminVars, routerVars>>
  \/ /\ \E a \in Admins : AdminStep(a)
     /\ UNCHANGED <<builderVars, routerVars>>
  \/ /\ \/ \E s \in Suppliers : UpsertConfig(s)
        \/ \E r \in Routers : RouterStep(r)
     /\ UNCHANGED <<builderVars, adminVars>>

Spec == Init /\ [][Next]_vars

(***************************************************************************)
(* Fairness.  The cron jobs keep ticking, a run or a request that is under *)
(* way goes on, and the ERP answers a call in the end: its client has a    *)
(* timeout, and faults are finitely many.  No operator has to ask for      *)
(* anything.                                                               *)
(***************************************************************************)
BuilderGoesOn(b) ==
  /\ \/ \E p \in Plans : SkipEmptyPlan(b, p) \/ BuildOne(b, p)
     \/ CommitBuild(b)
     \/ buildPc[b] = "doomed" /\ RollbackBuild(b)
  /\ UNCHANGED <<adminVars, routerVars>>

AdminGoesOn(a) ==
  /\ \/ CancelRow(a) \/ CancelNoRow(a) \/ CommitCancel(a)
     \/ Rebuild(a) \/ CommitRegenerate(a)
     \/ adminPc[a] = "locked" /\ seq = MaxPo /\ UNCHANGED faults /\ AbortRequest(a)
  /\ UNCHANGED <<builderVars, routerVars>>

RouterGoesOn(r) ==
  /\ \/ EndSendLoop(r)
     \/ \E n \in PoIds : LookupSuccess(r, n) \/ SkipUnroutable(r, n) \/ BeginSend(r, n)
     \/ ErpAccepts(r) \/ RecordFailure(r)
     \/ MarkSent(r) \/ MarkNoRow(r) \/ CommitSend(r)
  /\ UNCHANGED <<builderVars, adminVars>>

Fairness ==
  /\ \A b \in Builders : WF_vars(StartBuild(b) /\ UNCHANGED <<adminVars, routerVars>>)
  /\ \A b \in Builders : WF_vars(BuilderGoesOn(b))
  /\ \A a \in Admins : WF_vars(AdminGoesOn(a))
  /\ \A r \in Senders : WF_vars(StartSendAll(r) /\ UNCHANGED <<builderVars, adminVars>>)
  /\ \A r \in Routers : WF_vars(RouterGoesOn(r))

FairSpec == Spec /\ Fairness

-----------------------------------------------------------------------------
(***************************************************************************)
(* Type invariant of the composed system.                                  *)
(***************************************************************************)
TypeOK ==
  /\ StoreTypeOK /\ BuilderTypeOK /\ AdminTypeOK /\ RouterTypeOK
  /\ poLock \in [PoIds -> Admins \cup Routers \cup {NoSession}]

(***************************************************************************)
(* 4001_orders_schema.up.sql:47 promises "1:1 plan to PO for non-cancelled"*)
(* orders, but its index includes created_at and cannot enforce it: the    *)
(* row locks and the order of the statements have to.                      *)
(***************************************************************************)
OneLiveOrderPerPlan ==
  \A m, n \in PoIds :
    /\ Exists(m) /\ poStatus[m] # "cancelled"
    /\ Exists(n) /\ poStatus[n] # "cancelled"
    /\ poPlan[m] = poPlan[n]
    => m = n

(***************************************************************************)
(* A plan is 'converted' exactly when an order was ever written for it:    *)
(* no failed or rolled-back run loses a plan or leaves it to be ordered a  *)
(* second time, and no order is without its plan.                          *)
(***************************************************************************)
ConvertedIffOrdered ==
  /\ \A p \in Plans :
       planStatus[p] = "converted" <=> \E n \in PoIds : Exists(n) /\ poPlan[n] = p
  /\ \A n \in PoIds : Exists(n) <=> poPlan[n] \in Plans

(***************************************************************************)
(* 5001_channels_schema.up.sql:67 "at most one successful attempt per      *)
(* po_id", which no index enforces; and a successful attempt, the status   *)
(* 'sent' and the ERP agree, whatever races, crashes and lost answers      *)
(* there were.                                                             *)
(***************************************************************************)
SuccessMatchesSent ==
  \A n \in PoIds :
    /\ attempts[n].success <= 1
    /\ poStatus[n] = "sent" => attempts[n].success = 1
    /\ attempts[n].success = 1 => poStatus[n] \in {"sent", "cancelled"} /\ n \in erp

(***************************************************************************)
(* The audit log of an order starts with its creation and records its      *)
(* cancellation once, never twice, however many cancel and regenerate      *)
(* requests name it.                                                       *)
(***************************************************************************)
CancelAuditedOnce ==
  \A n \in PoIds :
    /\ Exists(n) <=> history[n] # <<>>
    /\ Exists(n) => /\ history[n][1] = Entry("none", "ready_to_send")
                    /\ Len(history[n]) = IF poStatus[n] = "cancelled" THEN 2 ELSE 1

(***************************************************************************)
(* Two runs of the builder never work on the same plan, even after the     *)
(* connection with the advisory lock of one of them was lost.              *)
(***************************************************************************)
ClaimsDisjoint ==
  \A b, c \in Builders : b # c => claimed[b] \cap claimed[c] = {}

(***************************************************************************)
(* How often the ERP is called for one order: once per session that read   *)
(* it as ready, and once more for every fault.  Races and stale lists do   *)
(* not make calls without bound.                                           *)
(***************************************************************************)
SendsBounded ==
  \A n \in PoIds : sends[n] <= faults + Cardinality(Routers)

(***************************************************************************)
(* The status of an order only moves along the documented workflow, an     *)
(* order never disappears, changes its plan, or has its number reused.     *)
(***************************************************************************)
StatusForward ==
  [][\A n \in PoIds :
       /\ poStatus'[n] # poStatus[n] =>
            <<poStatus[n], poStatus'[n]>> \in
              {<<"none", "ready_to_send">>, <<"ready_to_send", "sent">>,
               <<"ready_to_send", "cancelled">>, <<"sent", "cancelled">>}
       /\ Exists(n) => poPlan'[n] = poPlan[n]]_vars

(***************************************************************************)
(* Every approved plan with lines is converted in the end, provided plans  *)
(* without lines, which stay approved for ever, cannot fill the batch.     *)
(***************************************************************************)
PlansOrdered ==
  \A p \in Plans \ EmptyPlans :
    planStatus[p] = "approved" ~> planStatus[p] = "converted"

(***************************************************************************)
(* Every order is sent or cancelled in the end if its supplier's channel   *)
(* stays configured.                                                       *)
(***************************************************************************)
OrdersSettled ==
  <>[](routable = Suppliers) =>
    \A n \in PoIds :
      poStatus[n] = "ready_to_send" ~> poStatus[n] \in {"sent", "cancelled"}

(***************************************************************************)
(* Every cancel, regenerate and retry request and every run comes to an    *)
(* end: waiting for row locks never turns into waiting for ever.           *)
(***************************************************************************)
SessionsEnd ==
  /\ \A b \in Builders : buildPc[b] # "idle" ~> buildPc[b] = "idle"
  /\ \A a \in Admins : adminPc[a] # "idle" ~> adminPc[a] = "idle"
  /\ \A r \in Routers : routePc[r] # "idle" ~> routePc[r] = "idle"

-----------------------------------------------------------------------------
(***************************************************************************)
(* The system implements OrderContract: the committed status of an order   *)
(* is its place in the contract, and every other step is invisible there.  *)
(***************************************************************************)
ContractStatus(s) ==
  IF s = "none" THEN "none"
  ELSE IF s = "cancelled" THEN "void"
  ELSE IF s \in {"draft", "ready_to_send"} THEN "open"
  ELSE "sent"

Contract == INSTANCE OrderContract WITH
  Orders <- PoIds,
  order <- [n \in PoIds |-> ContractStatus(poStatus[n])],
  planOf <- poPlan,
  held <- erp

ImplementsContract == Contract!ContractSpec

-----------------------------------------------------------------------------
(***************************************************************************)
(* Statements of the repository that the code does not keep.               *)
(***************************************************************************)

(***************************************************************************)
(* orders/constants/constants.go:45: regenerate is forbidden once an order *)
(* is sent.  Two orders of one plan then never both reach the supplier.    *)
(***************************************************************************)
SentOrderNotReplaced ==
  \A m, n \in PoIds :
    m < n /\ Exists(m) /\ Exists(n) /\ poPlan[m] = poPlan[n]
      => attempts[m].success = 0

=============================================================================
