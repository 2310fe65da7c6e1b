---------------------------- MODULE OrderBuilder ----------------------------
(***************************************************************************)
(* The Order Builder's batch run (orders/service/build.go), started by the *)
(* cron tick or by POST /v1/orders/purchase-orders/build, and the approval *)
(* of a plan that feeds it (forecast/repository/plans.go).                 *)
(*                                                                         *)
(* One outer transaction claims the approved plans with FOR UPDATE SKIP    *)
(* LOCKED, writes a purchase order per plan and commits them together.     *)
(* The scheduler's advisory lock lives on a connection of its own, so that *)
(* it can be lost while the run goes on.                                   *)
(***************************************************************************)
EXTENDS PoStore

CONSTANTS
  Builders,    \* sessions that run BuildAll: replicas and triggers
  MaxPlans,    \* LIMIT of one batch
  EmptyPlans   \* plans with no calculation line of positive quantity

ASSUME BuilderAssumption ==
  /\ NoSession \notin Builders
  /\ MaxPlans \in Nat \ {0}
  /\ EmptyPlans \subseteq Plans

VARIABLES
  buildPc,    \* "idle", "build", or "doomed": a statement of the tx failed
  claimed,    \* plans whose rows the outer transaction has locked
  batch,      \* claimed plans that the loop has still to process
  inserted,   \* plan_id of the orders the open transaction has inserted
  buildLock   \* holder of pg_try_advisory_lock(OBDRLDV)

builderVars == <<buildPc, claimed, batch, inserted, buildLock>>

NothingInserted == [n \in PoIds |-> NoPlan]
NewOrders(b) == {n \in PoIds : inserted[b][n] # NoPlan}
PlanLocked(p) == \E b \in Builders : p \in claimed[b]
ClaimableIfLocked == {p \in Plans : planStatus[p] = "approved"}
Claimable == {p \in Plans : planStatus[p] = "approved" /\ ~PlanLocked(p)}

(***************************************************************************)
(* UPDATE ... SET status = 'approved' WHERE status = 'draft'.              *)
(***************************************************************************)
ApproveAnyPlan(p) ==
  /\ planStatus' = [planStatus EXCEPT ![p] = "approved"]
  /\ UNCHANGED <<seq, poTables, poLock, faults, builderVars>>

ApprovePlan(p) ==
  /\ planStatus[p] = "draft"
  /\ planStatus' = [planStatus EXCEPT ![p] = "approved"]
  /\ UNCHANGED <<seq, poTables, poLock, faults, builderVars>>

(***************************************************************************)
(* The lock is taken and the batch is selected.  A busy lock or an empty   *)
(* batch changes nothing.                                                  *)
(***************************************************************************)
StartBuild(b) ==
  /\ buildPc[b] = "idle"
  /\ buildLock = NoSession
  /\ Claimable # {}
  /\ buildLock' = b
  /\ buildPc' = [buildPc EXCEPT ![b] = "build"]
  /\ claimed' = [claimed EXCEPT ![b] = FirstOf(Claimable, MaxPlans)]
  /\ batch' = [batch EXCEPT ![b] = FirstOf(Claimable, MaxPlans)]
  /\ UNCHANGED <<storeVars, inserted>>

NextInBatch(b, p) ==
  /\ buildPc[b] = "build"
  /\ p \in batch[b]
  /\ \A q \in batch[b] : p <= q
  /\ batch' = [batch EXCEPT ![b] = @ \ {p}]

(***************************************************************************)
(* buildOne returns before its first write: the plan has no lines (nil, so *)
(* the run counts an order that does not exist), or a read of the lines or *)
(* of the masters fails on the pool.                                       *)
(***************************************************************************)
SkipEmptyPlan(b, p) ==
  /\ NextInBatch(b, p)
  /\ p \in EmptyPlans
  /\ UNCHANGED <<storeVars, buildPc, claimed, inserted, buildLock>>

FailPlanRead(b, p) ==
  /\ NextInBatch(b, p)
  /\ Fault
  /\ UNCHANGED <<planStatus, seq, poTables, poLock>>
  /\ UNCHANGED <<buildPc, claimed, inserted, buildLock>>

(***************************************************************************)
(* nextval, the three INSERTs and MarkPlanConverted succeed.               *)
(***************************************************************************)
BuildOne(b, p) ==
  /\ NextInBatch(b, p)
  /\ p \notin EmptyPlans
  /\ seq < MaxPo
  /\ seq' = seq + 1
  /\ inserted' = [inserted EXCEPT ![b][seq + 1] = p]
  /\ UNCHANGED <<planStatus, poTables, poLock, faults>>
  /\ UNCHANGED <<buildPc, claimed, buildLock>>

(***************************************************************************)
(* A statement of the outer transaction fails, before or after nextval:    *)
(* PostgreSQL refuses every later statement, and COMMIT rolls back.  (At   *)
(* the bound MaxPo it is nextval that fails.)                              *)
(***************************************************************************)
FailStatement(b, p) ==
  /\ NextInBatch(b, p)
  /\ p \notin EmptyPlans
  /\ \/ Fault
     \/ seq = MaxPo /\ UNCHANGED faults
  /\ seq' \in {seq, seq + 1} \cap 0..MaxPo
  /\ buildPc' = [buildPc EXCEPT ![b] = "doomed"]
  /\ UNCHANGED <<planStatus, poTables, poLock>>
  /\ UNCHANGED <<claimed, inserted, buildLock>>

(***************************************************************************)
(* The outer transaction ends: its row locks are released, and the         *)
(* deferred pg_advisory_unlock runs if this run still holds the lock.      *)
(***************************************************************************)
EndBuild(b) ==
  /\ buildPc' = [buildPc EXCEPT ![b] = "idle"]
  /\ claimed' = [claimed EXCEPT ![b] = {}]
  /\ batch' = [batch EXCEPT ![b] = {}]
  /\ inserted' = [inserted EXCEPT ![b] = NothingInserted]
  /\ buildLock' = IF buildLock = b THEN NoSession ELSE buildLock
  /\ UNCHANGED <<seq, poLock>>

(***************************************************************************)
(* The plans that MarkPlanConverted has updated in the transaction.        *)
(***************************************************************************)
WholeBatch(b) == claimed[b]
Ordered(b) == {p \in claimed[b] : \E n \in PoIds : inserted[b][n] = p}

CommitBuild(b) ==
  /\ buildPc[b] = "build"
  /\ batch[b] = {}
  /\ WriteOrders(NewOrders(b), inserted[b], {}, "none")
  /\ planStatus' = [p \in Plans |->
       IF p \in Ordered(b) THEN "converted" ELSE planStatus[p]]
  /\ EndBuild(b)
  /\ UNCHANGED faults

(***************************************************************************)
(* COMMIT of the doomed transaction, or the deferred Rollback after the    *)
(* context has expired, or a crash of the process or of its connection.    *)
(***************************************************************************)
RollbackBuild(b) ==
  /\ \/ buildPc[b] = "doomed" /\ UNCHANGED faults
     \/ buildPc[b] = "build" /\ Fault
  /\ EndBuild(b)
  /\ UNCHANGED <<planStatus, poTables>>

(***************************************************************************)
(* The connection that holds the session-level lock breaks; the run, which *)
(* works on another connection, does not notice.                           *)
(***************************************************************************)
LoseBuildLock(b) ==
  /\ buildLock = b
  /\ Fault
  /\ buildLock' = NoSession
  /\ UNCHANGED <<planStatus, seq, poTables, poLock>>
  /\ UNCHANGED <<buildPc, claimed, batch, inserted>>

BuilderInit ==
  /\ buildPc = [b \in Builders |-> "idle"]
  /\ claimed = [b \in Builders |-> {}]
  /\ batch = [b \in Builders |-> {}]
  /\ inserted = [b \in Builders |-> NothingInserted]
  /\ buildLock = NoSession

BuilderStep(b) ==
  \/ StartBuild(b)
  \/ \E p \in Plans : \/ SkipEmptyPlan(b, p)
                      \/ FailPlanRead(b, p)
                      \/ BuildOne(b, p)
                      \/ FailStatement(b, p)
  \/ CommitBuild(b)
  \/ RollbackBuild(b)
  \/ LoseBuildLock(b)

BuilderTypeOK ==
  /\ buildPc \in [Builders -> {"idle", "build", "doomed"}]
  /\ claimed \in [Builders -> SUBSET Plans]
  /\ batch \in [Builders -> SUBSET Plans]
  /\ inserted \in [Builders -> [PoIds -> Plans \cup {NoPlan}]]
  /\ buildLock \in Builders \cup {NoSession}

=============================================================================
