----------------------- MODULE OrderFulfilmentProofs -----------------------
(***************************************************************************)
(* Proofs about OrderFulfilment, for every set of plans and sessions and   *)
(* every bound.  IndInv of OrderInvariant is inductive; TypeOK and the     *)
(* safety properties follow from it.                                       *)
(***************************************************************************)
EXTENDS OrderInvariant, FiniteSetTheorems, TLAPS

USE StoreAssumption, BuilderAssumption, AdminAssumption, RouterAssumption,
    SessionsDisjoint

-----------------------------------------------------------------------------
(***************************************************************************)
(* Typing.                                                                 *)
(***************************************************************************)

LEMMA InitTyping == Init => Typing
  BY DEF Init, StoreInit, BuilderInit, AdminInit, RouterInit, Typing,
         StoreTypeOK, BuilderTypeOK, AdminTyping, AdminTypeOK, RouterTyping,
         RouterTypeOK, LockTyping, Sending, NothingInserted, PlanStatuses,
         PoStatuses, PoIds

LEMMA WriteOrdersTyping ==
  ASSUME StoreTypeOK, NEW New, NEW plan, NEW Void, NEW from,
         WriteOrders(New, plan, Void, from),
         from \in PoStatuses,
         \A n \in New : plan[n] \in Plans \cup {NoPlan}
  PROVE  /\ poStatus' \in [PoIds -> PoStatuses]
         /\ poPlan' \in [PoIds -> Plans \cup {NoPlan}]
         /\ history' \in [PoIds -> Seq(Entries)]
<1>1. poStatus' \in [PoIds -> PoStatuses]
  BY DEF WriteOrders, StoreTypeOK, PoStatuses
<1>2. poPlan' \in [PoIds -> Plans \cup {NoPlan}]
  BY DEF WriteOrders, StoreTypeOK
<1>3. history' \in [PoIds -> Seq(Entries)]
  <2>1. Entry("none", "ready_to_send") \in Entries /\ Entry(from, "cancelled") \in Entries
    BY DEF Entry, Entries, PoStatuses
  <2> QED BY <2>1 DEF WriteOrders, StoreTypeOK
<1> QED BY <1>1, <1>2, <1>3

LEMMA BuilderStepTyping ==
  ASSUME Typing, NEW b \in Builders, BuilderStep(b)
  PROVE  BuilderTypeOK'
<1> USE DEF Typing, BuilderTypeOK, builderVars
<1>1. ASSUME StartBuild(b) PROVE BuilderTypeOK'
  BY <1>1 DEF StartBuild, Claimable, FirstOf
<1>2. ASSUME NEW p \in Plans, SkipEmptyPlan(b, p) PROVE BuilderTypeOK'
  BY <1>2 DEF SkipEmptyPlan, NextInBatch
<1>3. ASSUME NEW p \in Plans, FailPlanRead(b, p) PROVE BuilderTypeOK'
  BY <1>3 DEF FailPlanRead, NextInBatch
<1>4. ASSUME NEW p \in Plans, BuildOne(b, p) PROVE BuilderTypeOK'
  BY <1>4 DEF BuildOne, NextInBatch
<1>5. ASSUME NEW p \in Plans, FailStatement(b, p) PROVE BuilderTypeOK'
  BY <1>5 DEF FailStatement, NextInBatch
<1>6. ASSUME CommitBuild(b) PROVE BuilderTypeOK'
  BY <1>6 DEF CommitBuild, EndBuild, NothingInserted
<1>7. ASSUME RollbackBuild(b) PROVE BuilderTypeOK'
  BY <1>7 DEF RollbackBuild, EndBuild, NothingInserted
<1>8. ASSUME LoseBuildLock(b) PROVE BuilderTypeOK'
  BY <1>8 DEF LoseBuildLock
<1> QED
  BY <1>1, <1>2, <1>3, <1>4, <1>5, <1>6, <1>7, <1>8 DEF BuilderStep

LEMMA AdminStepTyping ==
  ASSUME Typing, NEW a \in Admins, AdminStep(a)
  PROVE  AdminTyping'
<1> USE DEF Typing, AdminTyping, AdminTypeOK, adminVars
<1>1. ASSUME NEW n \in PoIds, NEW kind \in {"cancel", "regenerate"},
             ReadOrder(a, kind, n)
      PROVE  AdminTyping'
  BY <1>1 DEF ReadOrder, PoIds, StoreTypeOK
<1>2. ASSUME CancelRow(a) PROVE AdminTyping'
  BY <1>2 DEF CancelRow
<1>3. ASSUME EndRequest(a) PROVE AdminTyping'
  BY <1>3 DEF EndRequest, PoStatuses
<1>4. ASSUME Rebuild(a) PROVE AdminTyping'
  BY <1>4 DEF Rebuild, StoreTypeOK
<1> QED
  BY <1>1, <1>2, <1>3, <1>4
     DEF AdminStep, CancelNoRow, CommitCancel, CommitRegenerate, AbortRequest

LEMMA EndSendTyping ==
  ASSUME RouterTyping, NEW r \in Routers, EndSend(r)
  PROVE  /\ current' \in [Routers -> 0..MaxPo]
         /\ tries' \in [Routers -> 0..RetryMax]
         /\ outcome' \in [Routers -> {"pending", "success", "failed"}]
         /\ \A c \in Routers : c # r => current'[c] = current[c]
  BY DEF RouterTyping, RouterTypeOK, EndSend

LEMMA RouterStepTyping ==
  ASSUME Typing, NEW r \in Routers, RouterStep(r)
  PROVE  RouterTyping'
<1> USE DEF Typing, RouterTyping, RouterTypeOK, Sending
<1>1. ASSUME StartSendAll(r) PROVE RouterTyping'
  <2>1. PICK S \in SUBSET PoIds : todo' = [todo EXCEPT ![r] = S]
    BY <1>1 DEF StartSendAll, ReadyUnlocked
  <2> QED BY <1>1, <2>1 DEF StartSendAll
<1>2. ASSUME EndSendLoop(r) PROVE RouterTyping'
  BY <1>2 DEF EndSendLoop, ReleaseRouteLock
<1>3. ASSUME NEW n \in PoIds, ReadForRetry(r, n) PROVE RouterTyping'
  BY <1>3 DEF ReadForRetry, StoreTypeOK
<1>4. ASSUME NEW n \in PoIds, LookupSuccess(r, n) PROVE RouterTyping'
  <2>1. routePc' \in [Routers -> {"idle", "lookup", "loop", "http", "finish", "marked"}]
    BY <1>4 DEF LookupSuccess
  <2>2. \A c \in Routers : Sending(c)' => Sending(c)
    BY <1>4 DEF LookupSuccess
  <2>3. todo' \in [Routers -> SUBSET PoIds] /\ readStatus' \in [Routers -> PoStatuses]
    BY <1>4 DEF LookupSuccess, PoStatuses
  <2> QED BY <1>4, <2>1, <2>2, <2>3 DEF LookupSuccess
<1>5. ASSUME NEW n \in PoIds, SkipUnroutable(r, n) PROVE RouterTyping'
  BY <1>5 DEF SkipUnroutable
<1>6. ASSUME NEW n \in PoIds, FailBeforeSend(r, n) PROVE RouterTyping'
  BY <1>6 DEF FailBeforeSend
<1>7. ASSUME NEW n \in PoIds, BeginSend(r, n) PROVE RouterTyping'
  <2>1. sends' \in [PoIds -> Nat]
    BY <1>7 DEF BeginSend
  <2>0. \A c \in Routers : c # r => Sending(c)' = Sending(c) /\ current'[c] = current[c]
    BY <1>7 DEF BeginSend
  <2>2. /\ current' \in [Routers -> 0..MaxPo]
        /\ \A c \in Routers : Sending(c)' => current'[c] \in PoIds
    <3>1. current' \in [Routers -> 0..MaxPo] /\ current'[r] = n
      BY <1>7 DEF BeginSend, PoIds
    <3> QED BY <2>0, <3>1
  <2>3. /\ tries' \in [Routers -> 0..RetryMax]
        /\ todo' \in [Routers -> SUBSET PoIds]
    BY <1>7 DEF BeginSend
  <2> QED BY <1>7, <2>1, <2>2, <2>3 DEF BeginSend
<1>8. ASSUME ErpAccepts(r) PROVE RouterTyping'
  BY <1>8 DEF ErpAccepts, SendReturns
<1>9. ASSUME ErpRejects(r) PROVE RouterTyping'
  BY <1>9 DEF ErpRejects, SendReturns
<1>10. ASSUME ErpUncertain(r) PROVE RouterTyping'
  <2>1. CASE RetriesLeft(tries[r])
    BY <1>10, <2>1 DEF ErpUncertain, RetriesLeft
  <2>2. CASE ~RetriesLeft(tries[r])
    BY <1>10, <2>2 DEF ErpUncertain, SendReturns
  <2> QED BY <2>1, <2>2
<1>11. ASSUME RecordFailure(r) PROVE RouterTyping'
  <2>1. attempts' \in [PoIds -> [success : Nat, failed : Nat]]
    BY <1>11 DEF RecordFailure
  <2> QED BY <1>11, <2>1, EndSendTyping DEF RecordFailure, NextOrder
<1>12. ASSUME MarkSent(r) PROVE RouterTyping'
  BY <1>12 DEF MarkSent
<1>13. ASSUME MarkNoRow(r) PROVE RouterTyping'
  BY <1>13, EndSendTyping DEF MarkNoRow, NextOrder
<1>14. ASSUME CommitSend(r) PROVE RouterTyping'
  <2>1. attempts' \in [PoIds -> [success : Nat, failed : Nat]]
    BY <1>14 DEF CommitSend
  <2> QED BY <1>14, <2>1, EndSendTyping DEF CommitSend, NextOrder
<1>15. ASSUME FailSend(r) PROVE RouterTyping'
  BY <1>15, EndSendTyping DEF FailSend, NextOrder
<1>16. ASSUME CrashRouter(r) PROVE RouterTyping'
  BY <1>16, EndSendTyping DEF CrashRouter, ReleaseRouteLock, PoStatuses
<1>17. ASSUME LoseRouteLock(r) PROVE RouterTyping'
  BY <1>17 DEF LoseRouteLock, SendSession
<1> QED
  BY <1>1, <1>2, <1>3, <1>4, <1>5, <1>6, <1>7, <1>8, <1>9, <1>10, <1>11, <1>12,
     <1>13, <1>14, <1>15, <1>16, <1>17 DEF RouterStep

(***************************************************************************)
(* The tables and the locks stay typed whoever takes the step.             *)
(***************************************************************************)
LEMMA BuilderKeepsStore ==
  ASSUME Typing, NEW b \in Builders, BuilderStep(b)
  PROVE  StoreTypeOK' /\ LockTyping'
<1> USE DEF Typing, StoreTypeOK, LockTyping, poTables, Fault
<1>1. ASSUME StartBuild(b) PROVE StoreTypeOK' /\ LockTyping'
  BY <1>1 DEF StartBuild, storeVars
<1>2. ASSUME NEW p \in Plans, SkipEmptyPlan(b, p) PROVE StoreTypeOK' /\ LockTyping'
  BY <1>2 DEF SkipEmptyPlan, storeVars
<1>3. ASSUME NEW p \in Plans, FailPlanRead(b, p) PROVE StoreTypeOK' /\ LockTyping'
  BY <1>3 DEF FailPlanRead
<1>4. ASSUME NEW p \in Plans, BuildOne(b, p) PROVE StoreTypeOK' /\ LockTyping'
  BY <1>4 DEF BuildOne
<1>5. ASSUME NEW p \in Plans, FailStatement(b, p) PROVE StoreTypeOK' /\ LockTyping'
  BY <1>5 DEF FailStatement
<1>6. ASSUME CommitBuild(b) PROVE StoreTypeOK' /\ LockTyping'
  <2>1. \A n \in NewOrders(b) : inserted[b][n] \in Plans \cup {NoPlan}
    BY DEF NewOrders, BuilderTypeOK
  <2>2. /\ poStatus' \in [PoIds -> PoStatuses]
        /\ poPlan' \in [PoIds -> Plans \cup {NoPlan}]
        /\ history' \in [PoIds -> Seq(Entries)]
    BY <1>6, <2>1, WriteOrdersTyping DEF CommitBuild, PoStatuses
  <2>3. planStatus' \in [Plans -> PlanStatuses]
    BY <1>6 DEF CommitBuild, PlanStatuses
  <2> QED BY <1>6, <2>2, <2>3 DEF CommitBuild, EndBuild
<1>7. ASSUME RollbackBuild(b) PROVE StoreTypeOK' /\ LockTyping'
  BY <1>7 DEF RollbackBuild, EndBuild
<1>8. ASSUME LoseBuildLock(b) PROVE StoreTypeOK' /\ LockTyping'
  BY <1>8 DEF LoseBuildLock
<1> QED
  BY <1>1, <1>2, <1>3, <1>4, <1>5, <1>6, <1>7, <1>8 DEF BuilderStep

LEMMA AdminKeepsStore ==
  ASSUME Typing, NEW a \in Admins, AdminStep(a)
  PROVE  StoreTypeOK' /\ LockTyping'
<1> USE DEF Typing, StoreTypeOK, LockTyping, poTables, Fault, EndRequest, ReleaseRows
<1>1. ASSUME NEW n \in PoIds, NEW kind \in {"cancel", "regenerate"},
             ReadOrder(a, kind, n)
      PROVE  StoreTypeOK' /\ LockTyping'
  BY <1>1 DEF ReadOrder, storeVars
<1>2. ASSUME CancelRow(a) PROVE StoreTypeOK' /\ LockTyping'
  BY <1>2 DEF CancelRow
<1>3. ASSUME CancelNoRow(a) PROVE StoreTypeOK' /\ LockTyping'
  BY <1>3 DEF CancelNoRow
<1>4. ASSUME CommitCancel(a) PROVE StoreTypeOK' /\ LockTyping'
  <2>1. /\ poStatus' \in [PoIds -> PoStatuses]
        /\ poPlan' \in [PoIds -> Plans \cup {NoPlan}]
        /\ history' \in [PoIds -> Seq(Entries)]
    BY <1>4, WriteOrdersTyping DEF CommitCancel, AdminTyping, AdminTypeOK
  <2> QED BY <1>4, <2>1 DEF CommitCancel
<1>5. ASSUME Rebuild(a) PROVE StoreTypeOK' /\ LockTyping'
  BY <1>5 DEF Rebuild
<1>6. ASSUME CommitRegenerate(a) PROVE StoreTypeOK' /\ LockTyping'
  <2> DEFINE plan == [n \in PoIds |-> poPlan[target[a]]]
  <2>1. target[a] \in PoIds /\ seen[a] \in PoStatuses
    BY <1>6 DEF CommitRegenerate, AdminTyping, AdminTypeOK
  <2>2. \A n \in {newNumber[a]} \cap PoIds : plan[n] \in Plans \cup {NoPlan}
    BY <2>1
  <2>3. WriteOrders({newNumber[a]} \cap PoIds, plan, {target[a]}, seen[a])
    BY <1>6 DEF CommitRegenerate, WriteOrders
  <2>4. /\ poStatus' \in [PoIds -> PoStatuses]
        /\ poPlan' \in [PoIds -> Plans \cup {NoPlan}]
        /\ history' \in [PoIds -> Seq(Entries)]
    <3> HIDE DEF plan
    <3> QED BY <2>1, <2>2, <2>3, WriteOrdersTyping
  <2> QED BY <1>6, <2>4 DEF CommitRegenerate
<1>7. ASSUME AbortRequest(a) PROVE StoreTypeOK' /\ LockTyping'
  BY <1>7 DEF AbortRequest
<1> QED
  BY <1>1, <1>2, <1>3, <1>4, <1>5, <1>6, <1>7 DEF AdminStep

LEMMA RouterKeepsStore ==
  ASSUME Typing, NEW r \in Routers, RouterStep(r)
  PROVE  StoreTypeOK' /\ LockTyping'
<1> USE DEF Typing, StoreTypeOK, LockTyping, poTables, storeVars, Fault
<1>1. ASSUME UNCHANGED storeVars PROVE StoreTypeOK' /\ LockTyping'
  BY <1>1
<1>2. ASSUME Fault, UNCHANGED <<planStatus, seq, poTables, poLock>>
      PROVE  StoreTypeOK' /\ LockTyping'
  BY <1>2
<1>3. ASSUME EndSend(r), UNCHANGED <<planStatus, seq, poTables>>,
             UNCHANGED faults \/ Fault
      PROVE  StoreTypeOK' /\ LockTyping'
  BY <1>3 DEF EndSend, ReleaseRows
<1>4. ASSUME MarkSent(r) PROVE StoreTypeOK' /\ LockTyping'
  BY <1>4 DEF MarkSent
<1>5. ASSUME CommitSend(r) PROVE StoreTypeOK' /\ LockTyping'
  BY <1>5 DEF CommitSend, NextOrder, EndSend, ReleaseRows, PoStatuses
<1>6. ASSUME ErpRejects(r) \/ ErpUncertain(r) \/ LoseRouteLock(r)
             \/ \E n \in PoIds : FailBeforeSend(r, n)
      PROVE  StoreTypeOK' /\ LockTyping'
  BY <1>2, <1>6 DEF ErpRejects, ErpUncertain, LoseRouteLock, FailBeforeSend
<1>7. ASSUME RecordFailure(r) \/ MarkNoRow(r) \/ FailSend(r) \/ CrashRouter(r)
      PROVE  StoreTypeOK' /\ LockTyping'
  BY <1>3, <1>7 DEF RecordFailure, MarkNoRow, FailSend, CrashRouter, NextOrder
<1> QED
  BY <1>1, <1>4, <1>5, <1>6, <1>7
     DEF RouterStep, StartSendAll, EndSendLoop, ReadForRetry, LookupSuccess,
         SkipUnroutable, BeginSend, ErpAccepts

LEMMA NextTyping == Typing /\ [Next]_vars => Typing'
<1> SUFFICES ASSUME Typing, [Next]_vars PROVE Typing'
  OBVIOUS
<1>1. ASSUME NEW p \in Plans, ApprovePlan(p), UNCHANGED <<adminVars, routerVars>>
      PROVE  Typing'
  <2>1. StoreTypeOK' /\ LockTyping'
    BY <1>1 DEF ApprovePlan, Typing, StoreTypeOK, LockTyping, PlanStatuses, poTables
  <2>2. BuilderTypeOK'
    BY <1>1 DEF ApprovePlan, Typing, BuilderTypeOK, builderVars
  <2> QED
    BY <1>1, <2>1, <2>2 DEF Typing, AdminTyping, AdminTypeOK, RouterTyping,
      RouterTypeOK, Sending, adminVars, routerVars
<1>2. ASSUME NEW b \in Builders, BuilderStep(b), UNCHANGED <<adminVars, routerVars>>
      PROVE  Typing'
  <2>1. AdminTyping' /\ RouterTyping'
    BY <1>2 DEF Typing, AdminTyping, AdminTypeOK, RouterTyping, RouterTypeOK,
                Sending, adminVars, routerVars
  <2> QED BY <1>2, <2>1, BuilderStepTyping, BuilderKeepsStore DEF Typing
<1>3. ASSUME NEW a \in Admins, AdminStep(a), UNCHANGED <<builderVars, routerVars>>
      PROVE  Typing'
  <2>1. BuilderTypeOK' /\ RouterTyping'
    BY <1>3 DEF Typing, BuilderTypeOK, RouterTyping, RouterTypeOK,
                Sending, builderVars, routerVars
  <2> QED BY <1>3, <2>1, AdminStepTyping, AdminKeepsStore DEF Typing
<1>4. ASSUME NEW s \in Suppliers, UpsertConfig(s), UNCHANGED <<builderVars, adminVars>>
      PROVE  Typing'
  <2>1. BuilderTypeOK' /\ AdminTyping'
    BY <1>4 DEF Typing, BuilderTypeOK, AdminTyping, AdminTypeOK, builderVars, adminVars
  <2>2. StoreTypeOK' /\ LockTyping'
    BY <1>4 DEF UpsertConfig, Typing, StoreTypeOK, LockTyping, storeVars, poTables
  <2>3. RouterTyping'
    BY <1>4 DEF UpsertConfig, Typing, RouterTyping, RouterTypeOK, Sending, SendSession
  <2> QED BY <2>1, <2>2, <2>3 DEF Typing
<1>5. ASSUME NEW r \in Routers, RouterStep(r), UNCHANGED <<builderVars, adminVars>>
      PROVE  Typing'
  <2>1. BuilderTypeOK' /\ AdminTyping'
    BY <1>5 DEF Typing, BuilderTypeOK, AdminTyping, AdminTypeOK, builderVars, adminVars
  <2> QED BY <1>5, <2>1, RouterStepTyping, RouterKeepsStore DEF Typing
<1>6. ASSUME UNCHANGED vars PROVE Typing'
  BY <1>6 DEF Typing, StoreTypeOK, BuilderTypeOK, AdminTyping, AdminTypeOK,
              RouterTyping, RouterTypeOK, LockTyping, Sending, vars, storeVars,
              poTables, builderVars, adminVars, routerVars
<1> QED BY <1>1, <1>2, <1>3, <1>4, <1>5, <1>6 DEF Next

(***************************************************************************)
(* Every reachable state is typed, whatever the number of plans, sessions, *)
(* faults and retries.                                                     *)
(***************************************************************************)
THEOREM TypeCorrect == Spec => []TypeOK
<1>1. Typing => TypeOK
  BY DEF Typing, TypeOK, AdminTyping, RouterTyping, LockTyping
<1> QED BY <1>1, InitTyping, NextTyping, PTL DEF Spec

-----------------------------------------------------------------------------
(***************************************************************************)
(* Which steps write what.  Only four steps write the order tables, and    *)
(* each of them writes rows that its session holds.                        *)
(***************************************************************************)
WritesOrders ==
  \/ \E b \in Builders : CommitBuild(b) /\ UNCHANGED <<adminVars, routerVars>>
  \/ \E a \in Admins : /\ CommitCancel(a) \/ CommitRegenerate(a)
                       /\ UNCHANGED <<builderVars, routerVars>>
  \/ \E r \in Routers : CommitSend(r) /\ UNCHANGED <<builderVars, adminVars>>

LEMMA OrderWriters ==
  ASSUME [Next]_vars
  PROVE  WritesOrders \/ UNCHANGED poTables
<1> USE DEF storeVars, poTables
<1>1. ASSUME NEW p \in Plans, ApprovePlan(p) PROVE UNCHANGED poTables
  BY <1>1 DEF ApprovePlan
<1>2. ASSUME NEW b \in Builders, BuilderStep(b)
      PROVE  CommitBuild(b) \/ UNCHANGED poTables
  BY <1>2 DEF BuilderStep, StartBuild, SkipEmptyPlan, FailPlanRead, BuildOne,
              FailStatement, RollbackBuild, LoseBuildLock
<1>3. ASSUME NEW a \in Admins, AdminStep(a)
      PROVE  CommitCancel(a) \/ CommitRegenerate(a) \/ UNCHANGED poTables
  BY <1>3 DEF AdminStep, ReadOrder, CancelRow, CancelNoRow, Rebuild, AbortRequest
<1>4. ASSUME NEW r \in Routers, RouterStep(r)
      PROVE  CommitSend(r) \/ UNCHANGED poTables
  BY <1>4 DEF RouterStep, StartSendAll, EndSendLoop, ReadForRetry, LookupSuccess,
              SkipUnroutable, FailBeforeSend, BeginSend, ErpAccepts, ErpRejects,
              ErpUncertain, RecordFailure, MarkSent, MarkNoRow, FailSend,
              CrashRouter, LoseRouteLock
<1>5. ASSUME NEW s \in Suppliers, UpsertConfig(s) PROVE UNCHANGED poTables
  BY <1>5 DEF UpsertConfig
<1> QED BY <1>1, <1>2, <1>3, <1>4, <1>5 DEF Next, WritesOrders, vars

-----------------------------------------------------------------------------
(***************************************************************************)
(* Numbers.                                                                *)
(***************************************************************************)

LEMMA NumbersKept ==
  ASSUME NumbersUnique, Typing, Typing',
         seq' >= seq,
         \A n \in PoIds : Exists(n)' <=> Exists(n),
         \A b \in Builders : inserted'[b] = inserted[b] \/ inserted'[b] = NothingInserted,
         \A a \in Admins : adminPc'[a] = "rebuilt" =>
           adminPc[a] = "rebuilt" /\ newNumber'[a] = newNumber[a]
  PROVE  NumbersUnique'
<1>1. seq \in Nat /\ seq' \in Nat /\ \A n \in PoIds : n \in Nat
  BY DEF Typing, StoreTypeOK, PoIds
<1>2. \A b \in Builders, n \in PoIds : Drawn(b, n)' => Drawn(b, n)
  BY DEF Drawn, NothingInserted
<1>3. \A n \in PoIds : Exists(n)' => n <= seq'
  BY <1>1 DEF NumbersUnique
<1>4. \A b \in Builders, n \in PoIds : Drawn(b, n)' => n <= seq' /\ ~Exists(n)'
  BY <1>1, <1>2 DEF NumbersUnique
<1>5. \A b, c \in Builders, n \in PoIds : Drawn(b, n)' /\ Drawn(c, n)' => b = c
  BY <1>2 DEF NumbersUnique
<1>6. \A a \in Admins : adminPc'[a] = "rebuilt" =>
        /\ newNumber'[a] \in PoIds
        /\ newNumber'[a] <= seq'
        /\ ~Exists(newNumber[a])'
        /\ \A b \in Builders : ~Drawn(b, newNumber[a])'
  <2> SUFFICES ASSUME NEW a \in Admins, adminPc'[a] = "rebuilt"
               PROVE  /\ newNumber'[a] \in PoIds
                      /\ newNumber'[a] <= seq'
                      /\ ~Exists(newNumber[a])'
                      /\ \A b \in Builders : ~Drawn(b, newNumber[a])'
    OBVIOUS
  <2>1. newNumber'[a] = newNumber[a] /\ newNumber[a] \in PoIds /\ newNumber[a] <= seq
    BY DEF NumbersUnique
  <2>2. ~Exists(newNumber[a]) /\ \A b \in Builders : ~Drawn(b, newNumber[a])
    BY DEF NumbersUnique
  <2> QED BY <1>1, <1>2, <2>1, <2>2 DEF Exists, Drawn
<1>7. \A a, c \in Admins :
        adminPc'[a] = "rebuilt" /\ adminPc'[c] = "rebuilt" /\ newNumber'[a] = newNumber'[c]
          => a = c
  BY DEF NumbersUnique
<1> QED BY <1>3, <1>4, <1>5, <1>6, <1>7 DEF NumbersUnique, Exists, Drawn

(***************************************************************************)
(* What a commit leaves in the order tables, row by row.                   *)
(***************************************************************************)
LEMMA WrittenRows ==
  ASSUME NEW New, NEW plan, NEW Void, NEW from, WriteOrders(New, plan, Void, from),
         NEW n \in PoIds
  PROVE  /\ n \in New => poStatus'[n] = "ready_to_send" /\ poPlan'[n] = plan[n]
         /\ n \notin New => poPlan'[n] = poPlan[n]
         /\ n \in Void \ New => poStatus'[n] = "cancelled"
         /\ n \notin New \cup Void => poStatus'[n] = poStatus[n]
  BY DEF WriteOrders

LEMMA BuiltRows ==
  ASSUME NEW b \in Builders, CommitBuild(b), NEW n \in PoIds
  PROVE  /\ Drawn(b, n) => poStatus'[n] = "ready_to_send" /\ poPlan'[n] = inserted[b][n]
         /\ ~Drawn(b, n) => poStatus'[n] = poStatus[n] /\ poPlan'[n] = poPlan[n]
  BY WrittenRows DEF CommitBuild, NewOrders, Drawn

LEMMA CancelledRows ==
  ASSUME NEW a \in Admins, CommitCancel(a), NEW n \in PoIds
  PROVE  /\ poPlan'[n] = poPlan[n]
         /\ n = target[a] => poStatus'[n] = "cancelled"
         /\ n # target[a] => poStatus'[n] = poStatus[n]
  BY WrittenRows DEF CommitCancel

LEMMA RegeneratedRows ==
  ASSUME NEW a \in Admins, CommitRegenerate(a), NEW n \in PoIds
  PROVE  /\ n = newNumber[a] =>
              poStatus'[n] = "ready_to_send" /\ poPlan'[n] = poPlan[target[a]]
         /\ n # newNumber[a] => poPlan'[n] = poPlan[n]
         /\ n = target[a] /\ n # newNumber[a] => poStatus'[n] = "cancelled"
         /\ n \notin {target[a], newNumber[a]} => poStatus'[n] = poStatus[n]
<1> DEFINE plan == [m \in PoIds |-> poPlan[target[a]]]
<1>1. WriteOrders({newNumber[a]}, plan, {target[a]}, seen[a])
  BY DEF CommitRegenerate
<1>2. plan[n] = poPlan[target[a]]
  OBVIOUS
<1> HIDE DEF plan
<1> QED BY <1>1, <1>2, WrittenRows

LEMMA SentRows ==
  ASSUME Typing, NEW r \in Routers, CommitSend(r), NEW n \in PoIds
  PROVE  /\ poPlan'[n] = poPlan[n]
         /\ n = current[r] => poStatus'[n] = "sent"
         /\ n # current[r] => poStatus'[n] = poStatus[n]
  BY DEF CommitSend, Typing, StoreTypeOK

-----------------------------------------------------------------------------
(***************************************************************************)
(* A session that is about to commit still finds its rows as it left them. *)
(***************************************************************************)
LEMMA AdminAboutToWrite ==
  ASSUME IndInv, NEW a \in Admins, CommitCancel(a) \/ CommitRegenerate(a)
  PROVE  /\ adminPc[a] \in {"locked", "rebuilt"}
         /\ target[a] \in PoIds
         /\ poStatus[target[a]] \in {"ready_to_send", "sent"}
         /\ poLock[target[a]] = a
  BY DEF IndInv, RowsHeld, CommitCancel, CommitRegenerate, Typing, AdminTyping

LEMMA RegenerateAboutToWrite ==
  ASSUME IndInv, NEW a \in Admins, CommitRegenerate(a)
  PROVE  /\ adminPc[a] = "rebuilt"
         /\ newNumber[a] \in PoIds
         /\ ~Exists(newNumber[a])
         /\ newNumber[a] # target[a]
  BY AdminAboutToWrite DEF IndInv, NumbersUnique, CommitRegenerate, Exists

LEMMA RouterAboutToWrite ==
  ASSUME IndInv, NEW r \in Routers, CommitSend(r)
  PROVE  /\ routePc[r] = "marked"
         /\ current[r] \in PoIds
         /\ poStatus[current[r]] = "ready_to_send"
         /\ poLock[current[r]] = r
  BY DEF IndInv, RowsHeld, CommitSend, Typing, RouterTyping, Sending

-----------------------------------------------------------------------------
LEMMA BuilderNumbers ==
  ASSUME IndInv, Typing', NEW b \in Builders, BuilderStep(b), UNCHANGED adminVars
  PROVE  NumbersUnique'
<1> USE DEF adminVars
<1>0. Typing /\ NumbersUnique /\ seq \in Nat /\ \A n \in PoIds : n \in Nat
  BY DEF IndInv, Typing, StoreTypeOK, PoIds
<1>1. ASSUME NEW p \in Plans, BuildOne(b, p) PROVE NumbersUnique'
  <2>1. /\ seq + 1 \in PoIds
        /\ seq' = seq + 1
        /\ inserted' = [inserted EXCEPT ![b][seq + 1] = p]
        /\ UNCHANGED <<poStatus, adminPc, newNumber>>
    BY <1>0, <1>1 DEF BuildOne, PoIds, poTables
  <2>2. ~Exists(seq + 1) /\ \A c \in Builders : ~Drawn(c, seq + 1)
    BY <1>0, <2>1 DEF NumbersUnique
  <2>3. \A c \in Builders, n \in PoIds :
          Drawn(c, n)' <=> Drawn(c, n) \/ (c = b /\ n = seq + 1)
    BY <1>0, <1>1, <2>1 DEF Drawn, Typing, BuilderTypeOK
  <2>4. \A n \in PoIds : Exists(n)' <=> Exists(n)
    BY <2>1 DEF Exists
  <2>5. \A a \in Admins : adminPc[a] = "rebuilt" => newNumber[a] # seq + 1
    BY <1>0 DEF NumbersUnique
  <2>6. \A c \in Builders, n \in PoIds : Drawn(c, n)' => n <= seq' /\ ~Exists(n)'
    BY <1>0, <2>1, <2>2, <2>3, <2>4 DEF NumbersUnique
  <2>7. \A c, d \in Builders, n \in PoIds : Drawn(c, n)' /\ Drawn(d, n)' => c = d
    BY <2>2, <2>3 DEF NumbersUnique, IndInv
  <2>8. \A a \in Admins : adminPc[a] = "rebuilt" =>
          /\ newNumber[a] <= seq'
          /\ ~Exists(newNumber[a])'
          /\ \A c \in Builders : ~Drawn(c, newNumber[a])'
    BY <1>0, <2>1, <2>3, <2>4, <2>5 DEF NumbersUnique
  <2>9. \A n \in PoIds : Exists(n)' => n <= seq'
    BY <1>0, <2>1, <2>4 DEF NumbersUnique
  <2> QED BY <1>0, <2>1, <2>6, <2>7, <2>8, <2>9 DEF NumbersUnique, Exists, Drawn
<1>2. ASSUME CommitBuild(b) PROVE NumbersUnique'
  <2>1. UNCHANGED <<seq, adminPc, newNumber>> /\ inserted' = [inserted EXCEPT ![b] = NothingInserted]
    BY <1>2 DEF CommitBuild, EndBuild
  <2>2. \A n \in PoIds : Exists(n)' <=> Exists(n) \/ Drawn(b, n)
    BY <1>2, BuiltRows DEF Exists
  <2>3. \A c \in Builders, n \in PoIds : Drawn(c, n)' <=> Drawn(c, n) /\ c # b
    BY <1>0, <2>1 DEF Drawn, NothingInserted, Typing, BuilderTypeOK
  <2>4. \A n \in PoIds : Exists(n)' => n <= seq'
    BY <1>0, <2>1, <2>2 DEF NumbersUnique
  <2>5. \A c \in Builders, n \in PoIds : Drawn(c, n)' => n <= seq' /\ ~Exists(n)'
    BY <1>0, <2>1, <2>2, <2>3 DEF NumbersUnique
  <2>6. \A c, d \in Builders, n \in PoIds : Drawn(c, n)' /\ Drawn(d, n)' => c = d
    BY <1>0, <2>3 DEF NumbersUnique
  <2>7. \A a \in Admins : adminPc[a] = "rebuilt" =>
          /\ newNumber[a] <= seq'
          /\ ~Exists(newNumber[a])'
          /\ \A c \in Builders : ~Drawn(c, newNumber[a])'
    BY <1>0, <2>1, <2>2, <2>3 DEF NumbersUnique
  <2> QED BY <1>0, <2>1, <2>4, <2>5, <2>6, <2>7 DEF NumbersUnique, Exists, Drawn
<1>3. ASSUME seq' >= seq, UNCHANGED poTables,
             \A c \in Builders : inserted'[c] = inserted[c] \/ inserted'[c] = NothingInserted
      PROVE  NumbersUnique'
  BY <1>0, <1>3, NumbersKept DEF Exists, poTables
<1>4. ASSUME RollbackBuild(b) PROVE NumbersUnique'
  BY <1>0, <1>3, <1>4 DEF RollbackBuild, EndBuild, Typing, BuilderTypeOK
<1>5. ASSUME NEW p \in Plans, FailStatement(b, p) PROVE NumbersUnique'
  BY <1>0, <1>3, <1>5 DEF FailStatement
<1>6. ASSUME UNCHANGED <<seq, poTables, inserted>> PROVE NumbersUnique'
  BY <1>0, <1>3, <1>6
<1> QED
  BY <1>1, <1>2, <1>4, <1>5, <1>6
     DEF BuilderStep, StartBuild, SkipEmptyPlan, FailPlanRead, LoseBuildLock, storeVars

LEMMA AdminNumbers ==
  ASSUME IndInv, Typing', NEW a \in Admins, AdminStep(a), UNCHANGED builderVars
  PROVE  NumbersUnique'
<1> USE DEF builderVars
<1>0. Typing /\ NumbersUnique /\ seq \in Nat /\ \A n \in PoIds : n \in Nat
  BY DEF IndInv, Typing, StoreTypeOK, PoIds
<1>1. ASSUME Rebuild(a) PROVE NumbersUnique'
  <2>1. /\ seq + 1 \in PoIds
        /\ seq' = seq + 1
        /\ newNumber' = [newNumber EXCEPT ![a] = seq + 1]
        /\ adminPc' = [adminPc EXCEPT ![a] = "rebuilt"]
        /\ UNCHANGED <<poStatus, inserted>>
    BY <1>0, <1>1 DEF Rebuild, PoIds, poTables
  <2>2. ~Exists(seq + 1) /\ \A b \in Builders : ~Drawn(b, seq + 1)
    BY <1>0, <2>1 DEF NumbersUnique
  <2>3. \A c \in Admins : adminPc[c] = "rebuilt" => newNumber[c] # seq + 1
    BY <1>0 DEF NumbersUnique
  <2>4. newNumber'[a] = seq + 1 /\ \A c \in Admins : c # a =>
          newNumber'[c] = newNumber[c] /\ adminPc'[c] = adminPc[c]
    BY <1>0, <2>1 DEF Typing, AdminTyping, AdminTypeOK
  <2>5. \A n \in PoIds : /\ Exists(n)' => n <= seq' /\ Exists(n)
                         /\ \A b \in Builders : Drawn(b, n)' =>
                              n <= seq' /\ Drawn(b, n) /\ ~Exists(n)'
    BY <1>0, <2>1 DEF NumbersUnique, Exists, Drawn
  <2>6. \A c \in Admins : adminPc'[c] = "rebuilt" =>
          /\ newNumber'[c] \in PoIds
          /\ newNumber'[c] <= seq'
          /\ ~Exists(newNumber'[c])
          /\ \A b \in Builders : ~Drawn(b, newNumber'[c])
    BY <1>0, <2>1, <2>2, <2>4 DEF NumbersUnique
  <2>7. \A c, d \in Admins :
          adminPc'[c] = "rebuilt" /\ adminPc'[d] = "rebuilt" /\ newNumber'[c] = newNumber'[d]
            => c = d
    BY <1>0, <2>3, <2>4 DEF NumbersUnique
  <2> QED BY <1>0, <2>1, <2>5, <2>6, <2>7 DEF NumbersUnique, Exists, Drawn
<1>2. ASSUME EndRequest(a) PROVE \A c \in Admins : adminPc'[c] = "rebuilt" =>
             adminPc[c] = "rebuilt" /\ newNumber'[c] = newNumber[c] /\ c # a
  BY <1>0, <1>2 DEF EndRequest, Typing, AdminTyping, AdminTypeOK
<1>3. ASSUME CommitRegenerate(a) PROVE NumbersUnique'
  <2>1. /\ newNumber[a] \in PoIds
        /\ newNumber[a] <= seq
        /\ adminPc[a] = "rebuilt"
        /\ Exists(target[a])
    BY <1>0, <1>3, RegenerateAboutToWrite, AdminAboutToWrite DEF NumbersUnique, Exists
  <2>2. \A n \in PoIds : Exists(n)' <=> Exists(n) \/ n = newNumber[a]
    BY <1>3, <2>1, RegeneratedRows DEF Exists
  <2>3. UNCHANGED <<seq, inserted>>
    BY <1>3 DEF CommitRegenerate
  <2>4. \A c \in Admins : adminPc'[c] = "rebuilt" =>
          adminPc[c] = "rebuilt" /\ newNumber'[c] = newNumber[c] /\ c # a
    BY <1>2, <1>3 DEF CommitRegenerate
  <2>5. \A n \in PoIds : /\ Exists(n)' => n <= seq'
                         /\ \A b \in Builders : Drawn(b, n) => n <= seq' /\ ~Exists(n)'
    BY <1>0, <2>1, <2>2, <2>3 DEF NumbersUnique
  <2>6. \A c \in Admins : adminPc'[c] = "rebuilt" =>
          /\ newNumber'[c] \in PoIds
          /\ newNumber'[c] <= seq'
          /\ ~Exists(newNumber[c])'
          /\ \A b \in Builders : ~Drawn(b, newNumber[c])
    BY <1>0, <2>1, <2>2, <2>3, <2>4 DEF NumbersUnique
  <2>7. \A c, d \in Admins :
          adminPc'[c] = "rebuilt" /\ adminPc'[d] = "rebuilt" /\ newNumber'[c] = newNumber'[d]
            => c = d
    BY <1>0, <2>4 DEF NumbersUnique
  <2> QED BY <1>0, <2>3, <2>4, <2>5, <2>6, <2>7 DEF NumbersUnique, Exists, Drawn
<1>4. ASSUME UNCHANGED seq, \A n \in PoIds : Exists(n)' <=> Exists(n),
             \A c \in Admins : adminPc'[c] = "rebuilt" =>
               adminPc[c] = "rebuilt" /\ newNumber'[c] = newNumber[c]
      PROVE  NumbersUnique'
  BY <1>0, <1>4, NumbersKept
<1>5. ASSUME CommitCancel(a) PROVE NumbersUnique'
  <2>1. \A n \in PoIds : Exists(n)' <=> Exists(n)
    BY <1>5, CancelledRows, AdminAboutToWrite DEF Exists
  <2> QED BY <1>2, <1>4, <1>5, <2>1 DEF CommitCancel
<1>6. ASSUME CancelNoRow(a) \/ AbortRequest(a) PROVE NumbersUnique'
  BY <1>2, <1>4, <1>6 DEF CancelNoRow, AbortRequest, poTables, Exists
<1>7. ASSUME NEW n \in PoIds, NEW kind \in {"cancel", "regenerate"},
             ReadOrder(a, kind, n)
      PROVE  NumbersUnique'
  BY <1>0, <1>4, <1>7 DEF ReadOrder, storeVars, poTables, Exists, Typing, AdminTyping, AdminTypeOK
<1>8. ASSUME CancelRow(a) PROVE NumbersUnique'
  BY <1>0, <1>4, <1>8 DEF CancelRow, poTables, Exists, Typing, AdminTyping, AdminTypeOK
<1> QED
  BY <1>1, <1>3, <1>5, <1>6, <1>7, <1>8 DEF AdminStep

LEMMA RouterNumbers ==
  ASSUME IndInv, Typing', UNCHANGED <<builderVars, adminVars, seq>>,
         UNCHANGED poTables \/ \E r \in Routers : CommitSend(r)
  PROVE  NumbersUnique'
<1>1. Typing /\ NumbersUnique /\ seq \in Nat
  BY DEF IndInv, Typing, StoreTypeOK
<1>2. \A n \in PoIds : Exists(n)' <=> Exists(n)
  BY <1>1, SentRows, RouterAboutToWrite DEF Exists, poTables
<1> QED BY <1>1, <1>2, NumbersKept DEF builderVars, adminVars

LEMMA NextNumbers ==
  ASSUME IndInv, Typing', [Next]_vars
  PROVE  NumbersUnique'
<1>1. ASSUME UNCHANGED <<builderVars, adminVars, seq>>,
             UNCHANGED poTables \/ \E r \in Routers : CommitSend(r)
      PROVE  NumbersUnique'
  BY <1>1, RouterNumbers
<1>2. ASSUME NEW r \in Routers, RouterStep(r), UNCHANGED <<builderVars, adminVars>>
      PROVE  NumbersUnique'
  <2>1. UNCHANGED seq /\ (UNCHANGED poTables \/ CommitSend(r))
    BY <1>2 DEF RouterStep, StartSendAll, EndSendLoop, ReadForRetry, LookupSuccess,
                SkipUnroutable, FailBeforeSend, BeginSend, ErpAccepts, ErpRejects,
                ErpUncertain, RecordFailure, MarkSent, MarkNoRow, CommitSend, FailSend,
                CrashRouter, LoseRouteLock, storeVars
  <2> QED BY <1>1, <1>2, <2>1
<1>3. ASSUME NEW p \in Plans, ApprovePlan(p), UNCHANGED adminVars PROVE NumbersUnique'
  BY <1>1, <1>3 DEF ApprovePlan
<1>4. ASSUME NEW s \in Suppliers, UpsertConfig(s), UNCHANGED <<builderVars, adminVars>>
      PROVE  NumbersUnique'
  BY <1>1, <1>4 DEF UpsertConfig, storeVars
<1>5. ASSUME UNCHANGED vars PROVE NumbersUnique'
  BY <1>1, <1>5 DEF vars, storeVars
<1> QED
  BY <1>2, <1>3, <1>4, <1>5, BuilderNumbers, AdminNumbers DEF Next

-----------------------------------------------------------------------------
(***************************************************************************)
(* Claims.                                                                 *)
(***************************************************************************)
LEMMA ClaimsKept ==
  ASSUME ClaimsHold, UNCHANGED builderVars,
         \A p \in Plans : planStatus[p] = "approved" => planStatus'[p] = "approved",
         Typing
  PROVE  ClaimsHold'
<1>1. /\ UNCHANGED <<claimed, batch, buildPc, inserted>>
      /\ \A b \in Builders, n \in PoIds : Drawn(b, n)' <=> Drawn(b, n)
  BY DEF builderVars, Drawn
<1>2. \A b \in Builders : \A p \in claimed'[b] : planStatus'[p] = "approved"
  BY <1>1 DEF ClaimsHold, Typing, BuilderTypeOK
<1> QED BY <1>1, <1>2, ZenonT(30) DEF ClaimsHold

LEMMA EndBuildClaims ==
  ASSUME ClaimsHold, Typing, NEW b \in Builders, EndBuild(b),
         \A p \in Plans : planStatus'[p] = planStatus[p] \/ p \in claimed[b]
  PROVE  ClaimsHold'
<1> USE DEF Typing, BuilderTypeOK
<1>1. /\ claimed'[b] = {} /\ batch'[b] = {}
      /\ \A c \in Builders : c # b => /\ claimed'[c] = claimed[c]
                                      /\ batch'[c] = batch[c]
                                      /\ buildPc'[c] = buildPc[c]
                                      /\ inserted'[c] = inserted[c]
      /\ \A n \in PoIds : ~Drawn(b, n)'
  BY DEF EndBuild, NothingInserted, Drawn
<1>2. \A c, d \in Builders, p \in Plans : p \in claimed'[c] /\ p \in claimed'[d] => c = d
  BY <1>1 DEF ClaimsHold
<1>3. ASSUME NEW c \in Builders, NEW p \in claimed'[c]
      PROVE  planStatus'[p] = "approved"
  <2>1. c # b /\ p \in claimed[c] /\ p \in Plans
    BY <1>1, <1>3
  <2>2. p \notin claimed[b] /\ planStatus[p] = "approved"
    BY <2>1 DEF ClaimsHold
  <2> QED BY <2>1, <2>2
<1>4. \A c \in Builders : batch'[c] \subseteq claimed'[c] /\ (buildPc'[c] = "idle" => claimed'[c] = {})
  BY <1>1 DEF ClaimsHold
<1>5. \A c \in Builders, n \in PoIds : Drawn(c, n)' => Drawn(c, n) /\ c # b
  BY <1>1 DEF Drawn
<1>6. \A c \in Builders, n \in PoIds :
        Drawn(c, n)' => inserted'[c][n] \in claimed'[c] \ batch'[c]
  BY <1>1, <1>5 DEF ClaimsHold
<1>7. \A c \in Builders, m, n \in PoIds :
        Drawn(c, n)' /\ inserted'[c][m] = inserted'[c][n] => m = n
  BY <1>1, <1>5 DEF ClaimsHold
<1> QED BY <1>2, <1>3, <1>4, <1>6, <1>7 DEF ClaimsHold, Drawn

LEMMA NextClaims ==
  ASSUME IndInv, Typing', [Next]_vars
  PROVE  ClaimsHold'
<1>0. Typing /\ ClaimsHold /\ NumbersUnique
  BY DEF IndInv
<1>1. ASSUME NEW p \in Plans, ApprovePlan(p) PROVE ClaimsHold'
  BY <1>0, <1>1, ClaimsKept DEF ApprovePlan, Typing, StoreTypeOK
<1>2. ASSUME UNCHANGED <<builderVars, planStatus>> PROVE ClaimsHold'
  BY <1>0, <1>2, ClaimsKept
<1>3. ASSUME NEW b \in Builders, StartBuild(b) PROVE ClaimsHold'
  <2> DEFINE Taken == FirstOf(Claimable, MaxPlans)
  <2>1. /\ Taken \subseteq Plans
        /\ \A p \in Taken : planStatus[p] = "approved" /\ \A c \in Builders : p \notin claimed[c]
    BY DEF FirstOf, Claimable, PlanLocked
  <2>2. /\ claimed' = [claimed EXCEPT ![b] = Taken]
        /\ batch' = [batch EXCEPT ![b] = Taken]
        /\ buildPc' = [buildPc EXCEPT ![b] = "build"]
        /\ UNCHANGED <<inserted, planStatus>>
        /\ claimed[b] = {}
    BY <1>0, <1>3 DEF StartBuild, ClaimsHold, storeVars
  <2> HIDE DEF Taken
  <2>3. \A n \in PoIds : ~Drawn(b, n)
    BY <1>0, <2>2 DEF ClaimsHold
  <2> QED BY <1>0, <2>1, <2>2, <2>3 DEF ClaimsHold, Drawn, Typing, BuilderTypeOK
<1>4. ASSUME NEW b \in Builders, NEW p \in Plans, NextInBatch(b, p),
             UNCHANGED <<planStatus, claimed, inserted>>,
             buildPc' \in {buildPc, [buildPc EXCEPT ![b] = "doomed"]}
      PROVE  ClaimsHold'
  <2>1. \A c \in Builders : batch'[c] \subseteq batch[c]
    BY <1>0, <1>4 DEF NextInBatch, Typing, BuilderTypeOK
  <2>2. \A c \in Builders : buildPc'[c] = "idle" => buildPc[c] = "idle"
    BY <1>0, <1>4 DEF Typing, BuilderTypeOK
  <2> QED BY <1>0, <1>4, <2>1, <2>2 DEF ClaimsHold, Drawn
<1>5. ASSUME NEW b \in Builders, NEW p \in Plans, BuildOne(b, p) PROVE ClaimsHold'
  <2>1. /\ seq + 1 \in PoIds
        /\ ~Drawn(b, seq + 1)
    BY <1>0, <1>5 DEF BuildOne, NumbersUnique, PoIds, Typing, StoreTypeOK
  <2>2. /\ p \in batch[b]
        /\ batch' = [batch EXCEPT ![b] = @ \ {p}]
        /\ inserted' = [inserted EXCEPT ![b][seq + 1] = p]
        /\ UNCHANGED <<planStatus, buildPc, claimed>>
    BY <1>5 DEF BuildOne, NextInBatch
  <2>3. \A n \in PoIds : Drawn(b, n) => inserted[b][n] # p
    BY <1>0, <2>2 DEF ClaimsHold
  <2>4. \A n \in PoIds : inserted'[b][n] = IF n = seq + 1 THEN p ELSE inserted[b][n]
    BY <1>0, <2>1, <2>2 DEF Typing, BuilderTypeOK
  <2>5. \A c \in Builders : c # b => inserted'[c] = inserted[c] /\ batch'[c] = batch[c]
    BY <1>0, <2>2 DEF Typing, BuilderTypeOK
  <2>6. batch'[b] = batch[b] \ {p}
    BY <1>0, <2>2 DEF Typing, BuilderTypeOK
  <2>7. \A c \in Builders : batch'[c] \subseteq claimed[c]
    BY <1>0, <2>5, <2>6 DEF ClaimsHold
  <2>8. \A c \in Builders, n \in PoIds :
          Drawn(c, n)' => inserted'[c][n] \in claimed[c] \ batch'[c]
    BY <1>0, <2>2, <2>4, <2>5, <2>6 DEF ClaimsHold, Drawn
  <2>9. \A c \in Builders, m, n \in PoIds :
          Drawn(c, n)' /\ inserted'[c][m] = inserted'[c][n] => m = n
    <3> SUFFICES ASSUME NEW c \in Builders, NEW m \in PoIds, NEW n \in PoIds,
                        inserted'[c][n] # NoPlan, inserted'[c][m] = inserted'[c][n]
                 PROVE  m = n
      BY DEF Drawn
    <3>1. CASE c # b
      BY <1>0, <3>1, <2>5 DEF ClaimsHold, Drawn
    <3>2. CASE c = b
      BY <1>0, <3>2, <2>3, <2>4 DEF ClaimsHold, Drawn
    <3> QED BY <3>1, <3>2
  <2> QED BY <1>0, <2>2, <2>7, <2>8, <2>9 DEF ClaimsHold, Drawn
<1>6. ASSUME NEW b \in Builders, CommitBuild(b) PROVE ClaimsHold'
  <2>1. \A p \in Plans : planStatus'[p] = planStatus[p] \/ p \in claimed[b]
    BY <1>6 DEF CommitBuild, Ordered
  <2> QED BY <1>0, <1>6, <2>1, EndBuildClaims DEF CommitBuild
<1>7. ASSUME NEW b \in Builders, RollbackBuild(b) PROVE ClaimsHold'
  BY <1>0, <1>7, EndBuildClaims DEF RollbackBuild
<1>8. ASSUME NEW b \in Builders, LoseBuildLock(b) PROVE ClaimsHold'
  BY <1>0, <1>8 DEF LoseBuildLock, ClaimsHold, Drawn
<1>9. ASSUME NEW b \in Builders, BuilderStep(b) PROVE ClaimsHold'
  BY <1>3, <1>4, <1>5, <1>6, <1>7, <1>8, <1>9
     DEF BuilderStep, SkipEmptyPlan, FailPlanRead, FailStatement, storeVars
<1>10. ASSUME NEW a \in Admins, AdminStep(a) PROVE UNCHANGED planStatus
  BY <1>10 DEF AdminStep, ReadOrder, CancelRow, CancelNoRow, CommitCancel, Rebuild,
               CommitRegenerate, AbortRequest, storeVars
<1>11. ASSUME NEW r \in Routers, RouterStep(r) PROVE UNCHANGED planStatus
  BY <1>11 DEF RouterStep, StartSendAll, EndSendLoop, ReadForRetry, LookupSuccess,
               SkipUnroutable, FailBeforeSend, BeginSend, ErpAccepts, ErpRejects,
               ErpUncertain, RecordFailure, MarkSent, MarkNoRow, CommitSend, FailSend,
               CrashRouter, LoseRouteLock, storeVars
<1>12. ASSUME NEW s \in Suppliers, UpsertConfig(s) PROVE UNCHANGED planStatus
  BY <1>12 DEF UpsertConfig, storeVars
<1> QED
  BY <1>1, <1>2, <1>9, <1>10, <1>11, <1>12 DEF Next, vars, storeVars

-----------------------------------------------------------------------------
(***************************************************************************)
(* Plans and their orders.                                                 *)
(***************************************************************************)

(***************************************************************************)
(* Without a new order, and without a conversion, nothing is lost.         *)
(***************************************************************************)
LEMMA PlansKept ==
  ASSUME ConvertedIffOrdered, OneLiveOrderPerPlan, Typing,
         \A p \in Plans : planStatus'[p] = "converted" <=> planStatus[p] = "converted",
         \A n \in PoIds : /\ poPlan'[n] = poPlan[n]
                          /\ Exists(n)' <=> Exists(n)
                          /\ poStatus[n] = "cancelled" => poStatus'[n] = "cancelled"
  PROVE  ConvertedIffOrdered' /\ OneLiveOrderPerPlan'
<1>1. ConvertedIffOrdered'
  BY DEF ConvertedIffOrdered, Exists
<1>2. OneLiveOrderPerPlan'
  BY DEF OneLiveOrderPerPlan, Exists
<1> QED BY <1>1, <1>2

LEMMA PlanWriters ==
  ASSUME Typing, [Next]_vars, NEW p \in Plans
  PROVE  \/ planStatus'[p] = "converted" <=> planStatus[p] = "converted"
         \/ \E b \in Builders : CommitBuild(b)
<1> USE DEF storeVars
<1>1. ASSUME NEW q \in Plans, ApprovePlan(q)
      PROVE  planStatus'[p] = "converted" <=> planStatus[p] = "converted"
  BY <1>1 DEF ApprovePlan, Typing, StoreTypeOK
<1>2. ASSUME NEW b \in Builders, BuilderStep(b)
      PROVE  CommitBuild(b) \/ UNCHANGED planStatus
  BY <1>2 DEF BuilderStep, StartBuild, SkipEmptyPlan, FailPlanRead, BuildOne,
              FailStatement, RollbackBuild, LoseBuildLock
<1>3. ASSUME NEW a \in Admins, AdminStep(a) PROVE UNCHANGED planStatus
  BY <1>3 DEF AdminStep, ReadOrder, CancelRow, CancelNoRow, CommitCancel, Rebuild,
              CommitRegenerate, AbortRequest
<1>4. ASSUME NEW r \in Routers, RouterStep(r) PROVE UNCHANGED planStatus
  BY <1>4 DEF RouterStep, StartSendAll, EndSendLoop, ReadForRetry, LookupSuccess,
              SkipUnroutable, FailBeforeSend, BeginSend, ErpAccepts, ErpRejects,
              ErpUncertain, RecordFailure, MarkSent, MarkNoRow, CommitSend, FailSend,
              CrashRouter, LoseRouteLock
<1>5. ASSUME NEW s \in Suppliers, UpsertConfig(s) PROVE UNCHANGED planStatus
  BY <1>5 DEF UpsertConfig
<1> QED BY <1>1, <1>2, <1>3, <1>4, <1>5 DEF Next, vars

LEMMA NextPlans ==
  ASSUME IndInv, Typing', [Next]_vars
  PROVE  ConvertedIffOrdered' /\ OneLiveOrderPerPlan'
<1>0. Typing /\ ConvertedIffOrdered /\ OneLiveOrderPerPlan /\ NumbersUnique /\ ClaimsHold
  BY DEF IndInv
<1>1. ASSUME NEW b \in Builders, CommitBuild(b)
      PROVE  ConvertedIffOrdered' /\ OneLiveOrderPerPlan'
  <2>1. \A n \in PoIds : Drawn(b, n) =>
          /\ inserted[b][n] \in Plans
          /\ inserted[b][n] \in claimed[b]
          /\ planStatus[inserted[b][n]] = "approved"
          /\ ~Exists(n)
    <3>1. \A n \in PoIds : Drawn(b, n) => inserted[b][n] \in claimed[b]
      BY <1>0 DEF ClaimsHold
    <3>2. claimed[b] \subseteq Plans /\ \A p \in claimed[b] : planStatus[p] = "approved"
      BY <1>0 DEF ClaimsHold, Typing, BuilderTypeOK
    <3> QED BY <1>0, <3>1, <3>2 DEF NumbersUnique
  <2>2. \A p \in claimed[b], n \in PoIds : Exists(n) => poPlan[n] # p
    <3>1. \A p \in claimed[b] : p \in Plans /\ planStatus[p] # "converted"
      BY <1>0 DEF ClaimsHold, Typing, BuilderTypeOK
    <3> QED BY <1>0, <3>1 DEF ConvertedIffOrdered
  <2>3. \A p \in Plans :
          planStatus'[p] = IF \E n \in PoIds : inserted[b][n] = p THEN "converted"
                                                                  ELSE planStatus[p]
    BY <1>1, <2>1, StoreAssumption DEF CommitBuild, Ordered, Drawn
  <2>4. \A n \in PoIds :
          /\ Exists(n)' <=> Exists(n) \/ Drawn(b, n)
          /\ poPlan'[n] = IF Drawn(b, n) THEN inserted[b][n] ELSE poPlan[n]
    BY <1>1, BuiltRows DEF Exists
  <2>5. ASSUME NEW p \in Plans
        PROVE  planStatus'[p] = "converted" <=> \E n \in PoIds : Exists(n)' /\ poPlan'[n] = p
    <3>1. CASE \E n \in PoIds : inserted[b][n] = p
      BY <3>1, <2>3, <2>4, StoreAssumption DEF Drawn
    <3>2. CASE ~ \E n \in PoIds : inserted[b][n] = p
      <4>1. \A n \in PoIds : Exists(n)' /\ poPlan'[n] = p <=> Exists(n) /\ poPlan[n] = p
        BY <3>2, <2>1, <2>4
      <4> QED BY <1>0, <3>2, <4>1, <2>3 DEF ConvertedIffOrdered
    <3> QED BY <3>1, <3>2
  <2>6. \A n \in PoIds : Exists(n)' <=> poPlan'[n] \in Plans
    BY <1>0, <2>1, <2>4 DEF ConvertedIffOrdered
  <2>7. ASSUME NEW m \in PoIds, NEW n \in PoIds,
               Exists(m)', poStatus'[m] # "cancelled",
               Exists(n)', poStatus'[n] # "cancelled",
               poPlan'[m] = poPlan'[n]
        PROVE  m = n
    <3>1. CASE Drawn(b, m) /\ Drawn(b, n)
      BY <1>0, <2>4, <2>7, <3>1 DEF ClaimsHold
    <3>2. CASE Drawn(b, m) /\ ~Drawn(b, n)
      BY <2>1, <2>2, <2>4, <2>7, <3>2
    <3>3. CASE ~Drawn(b, m) /\ Drawn(b, n)
      BY <2>1, <2>2, <2>4, <2>7, <3>3
    <3>4. CASE ~Drawn(b, m) /\ ~Drawn(b, n)
      BY <1>0, <1>1, <2>4, <2>7, <3>4, BuiltRows DEF OneLiveOrderPerPlan
    <3> QED BY <3>1, <3>2, <3>3, <3>4
  <2> QED BY <2>5, <2>6, <2>7 DEF ConvertedIffOrdered, OneLiveOrderPerPlan, Exists
<1>2. ASSUME NEW a \in Admins, CommitRegenerate(a)
      PROVE  ConvertedIffOrdered' /\ OneLiveOrderPerPlan'
  <2> DEFINE old == target[a]
             new == newNumber[a]
  <2>1. /\ old \in PoIds /\ new \in PoIds /\ old # new
        /\ Exists(old) /\ ~Exists(new) /\ poStatus[old] # "cancelled"
    BY <1>2, AdminAboutToWrite, RegenerateAboutToWrite DEF Exists
  <2>2. UNCHANGED planStatus
    BY <1>2 DEF CommitRegenerate
  <2>3. \A n \in PoIds :
          /\ Exists(n)' <=> Exists(n) \/ n = new
          /\ poPlan'[n] = IF n = new THEN poPlan[old] ELSE poPlan[n]
          /\ n = old => poStatus'[n] = "cancelled"
          /\ n \notin {old, new} => poStatus'[n] = poStatus[n]
    BY <1>2, <2>1, RegeneratedRows DEF Exists
  <2> HIDE DEF old, new
  <2>4. ConvertedIffOrdered'
    BY <1>0, <2>1, <2>2, <2>3 DEF ConvertedIffOrdered, Exists
  <2>5. \A n \in PoIds : Exists(n) /\ poStatus[n] # "cancelled" /\ poPlan[n] = poPlan[old]
          => n = old
    BY <1>0, <2>1 DEF OneLiveOrderPerPlan
  <2>6. OneLiveOrderPerPlan'
    BY <1>0, <2>1, <2>3, <2>5 DEF OneLiveOrderPerPlan, Exists
  <2> QED BY <2>4, <2>6
<1>3. ASSUME NEW a \in Admins, CommitCancel(a)
      PROVE  ConvertedIffOrdered' /\ OneLiveOrderPerPlan'
  <2>1. \A n \in PoIds : /\ poPlan'[n] = poPlan[n]
                         /\ Exists(n)' <=> Exists(n)
                         /\ poStatus[n] = "cancelled" => poStatus'[n] = "cancelled"
    BY <1>3, AdminAboutToWrite, CancelledRows DEF Exists
  <2>2. UNCHANGED planStatus
    BY <1>3 DEF CommitCancel
  <2> QED BY <1>0, <2>1, <2>2, PlansKept
<1>4. ASSUME NEW r \in Routers, CommitSend(r)
      PROVE  ConvertedIffOrdered' /\ OneLiveOrderPerPlan'
  <2>1. \A n \in PoIds : /\ poPlan'[n] = poPlan[n]
                         /\ Exists(n)' <=> Exists(n)
                         /\ poStatus[n] = "cancelled" => poStatus'[n] = "cancelled"
    BY <1>0, <1>4, RouterAboutToWrite, SentRows DEF Exists
  <2>2. UNCHANGED planStatus
    BY <1>4 DEF CommitSend
  <2> QED BY <1>0, <2>1, <2>2, PlansKept
<1>5. ASSUME UNCHANGED poTables, ~ \E b \in Builders : CommitBuild(b)
      PROVE  ConvertedIffOrdered' /\ OneLiveOrderPerPlan'
  BY <1>0, <1>5, PlansKept, PlanWriters DEF poTables, Exists
<1> QED BY <1>1, <1>2, <1>3, <1>4, <1>5, OrderWriters DEF WritesOrders

-----------------------------------------------------------------------------
(***************************************************************************)
(* Rows and their locks.                                                   *)
(***************************************************************************)
LEMMA OrdersStay ==
  ASSUME IndInv, [Next]_vars, NEW n \in PoIds, Exists(n)
  PROVE  Exists(n)'
<1>0. Typing
  BY DEF IndInv
<1> QED
  BY <1>0, OrderWriters, BuiltRows, CancelledRows, RegeneratedRows, SentRows
     DEF WritesOrders, Exists, poTables

(***************************************************************************)
(* The status of an order changes only by the hand that holds its row.     *)
(***************************************************************************)
LEMMA OnlyHolderWrites ==
  ASSUME IndInv, [Next]_vars, NEW n \in PoIds, Exists(n), poStatus'[n] # poStatus[n]
  PROVE  \/ \E a \in Admins : /\ poLock[n] = a
                              /\ EndRequest(a)
                              /\ poStatus'[n] = "cancelled"
         \/ \E r \in Routers : poLock[n] = r /\ n = current[r] /\ CommitSend(r)
<1>0. Typing /\ NumbersUnique
  BY DEF IndInv
<1>1. ASSUME NEW b \in Builders, CommitBuild(b) PROVE FALSE
  BY <1>0, <1>1, BuiltRows DEF NumbersUnique
<1>2. ASSUME NEW a \in Admins, CommitCancel(a)
      PROVE  poLock[n] = a /\ EndRequest(a) /\ poStatus'[n] = "cancelled"
  BY <1>2, CancelledRows, AdminAboutToWrite DEF CommitCancel
<1>3. ASSUME NEW a \in Admins, CommitRegenerate(a)
      PROVE  poLock[n] = a /\ EndRequest(a) /\ poStatus'[n] = "cancelled"
  <2>1. n # newNumber[a]
    BY <1>3, RegenerateAboutToWrite
  <2>2. n = target[a] /\ poStatus'[n] = "cancelled"
    BY <1>3, <2>1, RegeneratedRows
  <2> QED BY <1>3, <2>2, AdminAboutToWrite DEF CommitRegenerate
<1>4. ASSUME NEW r \in Routers, CommitSend(r) PROVE poLock[n] = r /\ n = current[r]
  BY <1>0, <1>4, SentRows, RouterAboutToWrite
<1> QED BY <1>1, <1>2, <1>3, <1>4, OrderWriters DEF WritesOrders, poTables

(***************************************************************************)
(* A row lock is released only by the session that holds it.               *)
(***************************************************************************)
LEMMA OnlyHolderReleases ==
  ASSUME Typing, [Next]_vars, NEW n \in PoIds,
         poLock[n] # NoSession, poLock'[n] # poLock[n]
  PROVE  \/ \E a \in Admins : poLock[n] = a /\ EndRequest(a)
         \/ \E r \in Routers : poLock[n] = r /\ EndSend(r)
<1> USE DEF storeVars
<1>1. ASSUME NEW p \in Plans, ApprovePlan(p) PROVE UNCHANGED poLock
  BY <1>1 DEF ApprovePlan
<1>2. ASSUME NEW b \in Builders, BuilderStep(b) PROVE UNCHANGED poLock
  BY <1>2 DEF BuilderStep, StartBuild, SkipEmptyPlan, FailPlanRead, BuildOne,
              FailStatement, CommitBuild, RollbackBuild, LoseBuildLock, EndBuild
<1>3. ASSUME NEW a \in Admins, AdminStep(a)
      PROVE  UNCHANGED poLock \/ EndRequest(a) \/ CancelRow(a)
  BY <1>3 DEF AdminStep, ReadOrder, CancelNoRow, CommitCancel, Rebuild,
              CommitRegenerate, AbortRequest
<1>4. ASSUME NEW a \in Admins, EndRequest(a) PROVE poLock[n] = a
  BY <1>4 DEF EndRequest, ReleaseRows
<1>5. ASSUME NEW a \in Admins, CancelRow(a) PROVE FALSE
  BY <1>5 DEF CancelRow, Typing, LockTyping
<1>6. ASSUME NEW r \in Routers, RouterStep(r)
      PROVE  UNCHANGED poLock \/ EndSend(r) \/ MarkSent(r)
  BY <1>6 DEF RouterStep, StartSendAll, EndSendLoop, ReadForRetry, LookupSuccess,
              SkipUnroutable, FailBeforeSend, BeginSend, ErpAccepts, ErpRejects,
              ErpUncertain, RecordFailure, MarkNoRow, CommitSend, FailSend,
              CrashRouter, LoseRouteLock, NextOrder
<1>7. ASSUME NEW r \in Routers, EndSend(r) PROVE poLock[n] = r
  BY <1>7 DEF EndSend, ReleaseRows
<1>8. ASSUME NEW r \in Routers, MarkSent(r) PROVE FALSE
  BY <1>8 DEF MarkSent, Typing, LockTyping
<1>9. ASSUME NEW s \in Suppliers, UpsertConfig(s) PROVE UNCHANGED poLock
  BY <1>9 DEF UpsertConfig
<1> QED
  BY <1>1, <1>2, <1>3, <1>4, <1>5, <1>6, <1>7, <1>8, <1>9 DEF Next, vars

(***************************************************************************)
(* How a request comes to where it is.                                     *)
(***************************************************************************)
LEMMA AdminProgress ==
  ASSUME Typing, [Next]_vars, NEW a \in Admins
  PROVE  /\ adminPc'[a] # "idle" =>
              \/ \E kind \in {"cancel", "regenerate"}, n \in PoIds : ReadOrder(a, kind, n)
              \/ adminPc[a] # "idle" /\ target'[a] = target[a]
         /\ adminPc'[a] \in {"locked", "rebuilt"} =>
              \/ CancelRow(a)
              \/ adminPc[a] \in {"locked", "rebuilt"} /\ target'[a] = target[a]
<1> DEFINE Goal ==
         /\ adminPc'[a] # "idle" =>
              \/ \E kind \in {"cancel", "regenerate"}, n \in PoIds : ReadOrder(a, kind, n)
              \/ adminPc[a] # "idle" /\ target'[a] = target[a]
         /\ adminPc'[a] \in {"locked", "rebuilt"} =>
              \/ CancelRow(a)
              \/ adminPc[a] \in {"locked", "rebuilt"} /\ target'[a] = target[a]
<1>0. adminPc \in [Admins -> {"idle", "update", "locked", "rebuilt"}]
      /\ target \in [Admins -> 0..MaxPo]
  BY DEF Typing, AdminTyping, AdminTypeOK
<1>1. ASSUME UNCHANGED adminVars PROVE Goal
  BY <1>1 DEF adminVars
<1>2. ASSUME NEW c \in Admins, NEW n \in PoIds, NEW kind \in {"cancel", "regenerate"},
             ReadOrder(c, kind, n)
      PROVE  Goal
  BY <1>0, <1>2 DEF ReadOrder
<1>3. ASSUME NEW c \in Admins, CancelRow(c) PROVE Goal
  BY <1>0, <1>3 DEF CancelRow
<1>4. ASSUME NEW c \in Admins, EndRequest(c) PROVE Goal
  BY <1>0, <1>4 DEF EndRequest
<1>5. ASSUME NEW c \in Admins, Rebuild(c) PROVE Goal
  BY <1>0, <1>5 DEF Rebuild
<1>6. ASSUME NEW c \in Admins, AdminStep(c) PROVE Goal
  BY <1>2, <1>3, <1>4, <1>5, <1>6
     DEF AdminStep, CancelNoRow, CommitCancel, CommitRegenerate, AbortRequest
<1> QED BY <1>1, <1>6 DEF Next, vars

LEMMA RouterProgress ==
  ASSUME Typing, [Next]_vars, NEW r \in Routers
  PROVE  /\ Sending(r)' =>
              \/ \E n \in PoIds : BeginSend(r, n)
              \/ Sending(r) /\ current'[r] = current[r]
         /\ routePc'[r] = "marked" =>
              \/ MarkSent(r)
              \/ routePc[r] = "marked" /\ current'[r] = current[r]
         /\ todo'[r] \subseteq todo[r] \cup {n \in PoIds : Exists(n)}
<1> DEFINE Goal ==
         /\ Sending(r)' =>
              \/ \E n \in PoIds : BeginSend(r, n)
              \/ Sending(r) /\ current'[r] = current[r]
         /\ routePc'[r] = "marked" =>
              \/ MarkSent(r)
              \/ routePc[r] = "marked" /\ current'[r] = current[r]
         /\ todo'[r] \subseteq todo[r] \cup {n \in PoIds : Exists(n)}
<1>0. /\ routePc \in [Routers -> {"idle", "lookup", "loop", "http", "finish", "marked"}]
      /\ current \in [Routers -> 0..MaxPo]
      /\ todo \in [Routers -> SUBSET PoIds]
  BY DEF Typing, RouterTyping, RouterTypeOK
<1> USE <1>0 DEF Sending
<1>1. ASSUME UNCHANGED <<routePc, current, todo>> PROVE Goal
  BY <1>1
<1>2. ASSUME NEW q \in Routers, StartSendAll(q) PROVE Goal
  <2>1. PICK S \in SUBSET ReadyUnlocked : todo' = [todo EXCEPT ![q] = S]
    BY <1>2 DEF StartSendAll
  <2>2. todo'[r] \subseteq todo[r] \cup {n \in PoIds : Exists(n)}
    BY <2>1 DEF ReadyUnlocked, Exists
  <2>3. routePc' = [routePc EXCEPT ![q] = "loop"] /\ UNCHANGED current
    BY <1>2 DEF StartSendAll
  <2> QED BY <2>2, <2>3
<1>3. ASSUME NEW q \in Routers, NEW n \in PoIds, ReadForRetry(q, n) PROVE Goal
  BY <1>3 DEF ReadForRetry
<1>4. ASSUME NEW q \in Routers, NEW n \in PoIds, LookupSuccess(q, n) PROVE Goal
  BY <1>4 DEF LookupSuccess
<1>5. ASSUME NEW q \in Routers, NEW n \in PoIds, BeginSend(q, n) PROVE Goal
  <2>1. CASE q = r
    BY <1>5, <2>1 DEF BeginSend
  <2>2. CASE q # r
    BY <1>5, <2>2 DEF BeginSend
  <2> QED BY <2>1, <2>2
<1>6. ASSUME NEW q \in Routers, NEW n \in PoIds, SkipUnroutable(q, n) \/ FailBeforeSend(q, n)
      PROVE  Goal
  BY <1>6 DEF SkipUnroutable, FailBeforeSend
<1>7. ASSUME NEW q \in Routers, routePc[q] = "http", UNCHANGED <<todo, current>>,
             routePc' \in {routePc, [routePc EXCEPT ![q] = "finish"]}
      PROVE  Goal
  BY <1>7
<1>8. ASSUME NEW q \in Routers, EndSend(q),
             routePc' \in {[routePc EXCEPT ![q] = "loop"], [routePc EXCEPT ![q] = "idle"]},
             todo' \in {todo, [todo EXCEPT ![q] = {}]}
      PROVE  Goal
  BY <1>8 DEF EndSend
<1>9. ASSUME NEW q \in Routers, MarkSent(q) PROVE Goal
  BY <1>9 DEF MarkSent
<1>10. ASSUME NEW q \in Routers, EndSendLoop(q) PROVE Goal
  BY <1>10 DEF EndSendLoop
<1>11. ASSUME NEW q \in Routers, ErpAccepts(q) \/ ErpRejects(q) \/ ErpUncertain(q)
       PROVE  Goal
  BY <1>7, <1>11 DEF ErpAccepts, ErpRejects, ErpUncertain, SendReturns
<1>12. ASSUME NEW q \in Routers, RecordFailure(q) \/ MarkNoRow(q) \/ CommitSend(q) \/ FailSend(q)
       PROVE  Goal
  BY <1>8, <1>12 DEF RecordFailure, MarkNoRow, CommitSend, FailSend, NextOrder
<1>13. ASSUME NEW q \in Routers, CrashRouter(q) PROVE Goal
  BY <1>8, <1>13 DEF CrashRouter
<1>14. ASSUME NEW q \in Routers, LoseRouteLock(q) PROVE Goal
  BY <1>1, <1>14 DEF LoseRouteLock, SendSession
<1>15. ASSUME NEW q \in Routers, RouterStep(q) PROVE Goal
  <2> HIDE DEF Goal
  <2> QED
    BY <1>2, <1>3, <1>4, <1>5, <1>6, <1>9, <1>10, <1>11, <1>12, <1>13, <1>14, <1>15
       DEF RouterStep
<1>16. ASSUME NEW s \in Suppliers, UpsertConfig(s) PROVE Goal
  BY <1>1, <1>16 DEF UpsertConfig, SendSession
<1>17. ASSUME UNCHANGED routerVars PROVE Goal
  BY <1>1, <1>17 DEF routerVars
<1> HIDE DEF Goal
<1>18. Goal
  BY <1>15, <1>16, <1>17 DEF Next, vars
<1> QED BY <1>18 DEF Goal

LEMMA NextRows ==
  ASSUME IndInv, Typing', [Next]_vars
  PROVE  RowsHeld'
<1>0. Typing /\ RowsHeld /\ AttemptsAgree
  BY DEF IndInv
<1>1. ASSUME NEW a \in Admins, adminPc'[a] # "idle"
      PROVE  Exists(target[a])'
  <2>1. ASSUME NEW kind \in {"cancel", "regenerate"}, NEW n \in PoIds, ReadOrder(a, kind, n)
        PROVE  Exists(target[a])'
    BY <1>0, <2>1 DEF ReadOrder, storeVars, poTables, Exists, Typing, AdminTyping, AdminTypeOK
  <2>2. CASE adminPc[a] # "idle" /\ target'[a] = target[a]
    <3>1. target[a] \in PoIds /\ Exists(target[a])
      BY <1>0, <2>2 DEF RowsHeld, Typing, AdminTyping
    <3> QED BY <2>2, <3>1, OrdersStay DEF Exists
  <2> QED BY <1>0, <1>1, <2>1, <2>2, AdminProgress
<1>2. ASSUME NEW a \in Admins, adminPc'[a] \in {"locked", "rebuilt"}
      PROVE  /\ poLock'[target'[a]] = a
             /\ poStatus'[target'[a]] \in {"ready_to_send", "sent"}
  <2>1. CASE CancelRow(a)
    <3>1. target[a] \in PoIds /\ poStatus[target[a]] \in {"ready_to_send", "sent"}
      BY <1>0, <2>1 DEF CancelRow, IsCancellable, AttemptsAgree, Typing, AdminTyping
    <3> QED BY <1>0, <2>1, <3>1 DEF CancelRow, poTables, Typing, LockTyping
  <2>2. CASE adminPc[a] \in {"locked", "rebuilt"} /\ target'[a] = target[a]
    <3> DEFINE n == target[a]
    <3>1. /\ n \in PoIds /\ Exists(n) /\ poLock[n] = a /\ poLock[n] # NoSession
          /\ poStatus[n] \in {"ready_to_send", "sent"}
      BY <1>0, <2>2, AdminAssumption DEF RowsHeld, Typing, AdminTyping
    <3>2. ~EndRequest(a)
      BY <1>0, <1>2 DEF EndRequest, Typing, AdminTyping, AdminTypeOK
    <3>3. \A r \in Routers : r # a
      BY SessionsDisjoint
    <3> HIDE DEF n
    <3>4. poLock'[n] = a
      BY <1>0, <3>1, <3>2, <3>3, OnlyHolderReleases
    <3>5. poStatus'[n] = poStatus[n]
      BY <3>1, <3>2, <3>3, OnlyHolderWrites
    <3> QED BY <2>2, <3>1, <3>4, <3>5 DEF n
  <2> QED BY <1>0, <1>2, <2>1, <2>2, AdminProgress
<1>3. ASSUME NEW r \in Routers, Sending(r)'
      PROVE  Exists(current[r])'
  <2>1. ASSUME NEW n \in PoIds, BeginSend(r, n) PROVE Exists(current[r])'
    BY <1>0, <2>1 DEF BeginSend, storeVars, poTables, Exists, RowsHeld, Typing,
                      RouterTyping, RouterTypeOK
  <2>2. CASE Sending(r) /\ current'[r] = current[r]
    <3>1. current[r] \in PoIds /\ Exists(current[r])
      BY <1>0, <2>2 DEF RowsHeld, Typing, RouterTyping
    <3> QED BY <2>2, <3>1, OrdersStay DEF Exists
  <2> QED BY <1>0, <1>3, <2>1, <2>2, RouterProgress
<1>4. ASSUME NEW r \in Routers, routePc'[r] = "marked"
      PROVE  poLock'[current'[r]] = r /\ poStatus'[current'[r]] = "ready_to_send"
  <2>1. CASE MarkSent(r)
    <3>1. current[r] \in PoIds
      BY <1>0, <2>1 DEF MarkSent, Typing, RouterTyping, Sending
    <3> QED BY <1>0, <2>1, <3>1 DEF MarkSent, MayBeMarkedSent, poTables, Typing, LockTyping
  <2>2. CASE routePc[r] = "marked" /\ current'[r] = current[r]
    <3> DEFINE n == current[r]
    <3>1. /\ n \in PoIds /\ Exists(n) /\ poLock[n] = r /\ poLock[n] # NoSession
          /\ poStatus[n] = "ready_to_send"
      BY <1>0, <2>2, RouterAssumption DEF RowsHeld, Typing, RouterTyping, Sending
    <3>2. ~EndSend(r) /\ ~CommitSend(r)
      BY <1>0, <1>4, <2>2, <3>1 DEF EndSend, CommitSend, NextOrder, Typing,
         RouterTyping, RouterTypeOK, PoIds
    <3>3. \A a \in Admins : a # r
      BY SessionsDisjoint
    <3> HIDE DEF n
    <3>4. poLock'[n] = r
      BY <1>0, <3>1, <3>2, <3>3, OnlyHolderReleases
    <3>5. poStatus'[n] = poStatus[n]
      BY <3>1, <3>2, <3>3, OnlyHolderWrites
    <3> QED BY <2>2, <3>1, <3>4, <3>5 DEF n
  <2> QED BY <1>0, <1>4, <2>1, <2>2, RouterProgress
<1>5. ASSUME NEW r \in Routers
      PROVE  todo'[r] \subseteq {n \in PoIds : Exists(n)'}
  <2>1. todo'[r] \subseteq {n \in PoIds : Exists(n)}
    BY <1>0, RouterProgress DEF RowsHeld
  <2> QED BY <2>1, OrdersStay
<1> QED
  BY <1>1, <1>2, <1>3, <1>4, <1>5 DEF RowsHeld, Exists

-----------------------------------------------------------------------------
(***************************************************************************)
(* Attempts and the ERP.                                                   *)
(***************************************************************************)
LEMMA AttemptWriters ==
  ASSUME Typing, [Next]_vars
  PROVE  /\ erp \subseteq erp'
         /\ \/ \E r \in Routers : CommitSend(r)
            \/ \A n \in PoIds : attempts'[n].success = attempts[n].success
<1> DEFINE Same == \A n \in PoIds : attempts'[n].success = attempts[n].success
<1>1. ASSUME NEW r \in Routers, RecordFailure(r)
      PROVE  erp' = erp /\ Same
  BY <1>1 DEF RecordFailure, Typing, RouterTyping, RouterTypeOK
<1>2. ASSUME NEW r \in Routers, RouterStep(r)
      PROVE  /\ erp \subseteq erp'
             /\ CommitSend(r) \/ RecordFailure(r) \/ attempts' = attempts
  BY <1>2 DEF RouterStep, StartSendAll, EndSendLoop, ReadForRetry, LookupSuccess,
              SkipUnroutable, FailBeforeSend, BeginSend, ErpAccepts, ErpRejects,
              ErpUncertain, RecordFailure, MarkSent, MarkNoRow, CommitSend, FailSend,
              CrashRouter, LoseRouteLock
<1>3. ASSUME NEW s \in Suppliers, UpsertConfig(s)
      PROVE  erp' = erp /\ attempts' = attempts
  BY <1>3 DEF UpsertConfig
<1> QED BY <1>1, <1>2, <1>3 DEF Next, vars, routerVars

(***************************************************************************)
(* Success is known only from an answer of the ERP.                        *)
(***************************************************************************)
Succeeded(r) == routePc[r] = "finish" /\ outcome[r] = "success"

LEMMA SuccessProgress ==
  ASSUME Typing, [Next]_vars, NEW r \in Routers, Succeeded(r)'
  PROVE  ErpAccepts(r) \/ (Succeeded(r) /\ current'[r] = current[r])
<1> DEFINE Goal == ErpAccepts(r) \/ (Succeeded(r) /\ current'[r] = current[r])
<1>0. /\ routePc \in [Routers -> {"idle", "lookup", "loop", "http", "finish", "marked"}]
      /\ outcome \in [Routers -> {"pending", "success", "failed"}]
      /\ current \in [Routers -> 0..MaxPo]
      /\ routePc'[r] = "finish" /\ outcome'[r] = "success"
  BY DEF Typing, RouterTyping, RouterTypeOK, Succeeded
<1>1. ASSUME UNCHANGED <<outcome, current>>, NEW q \in Routers, NEW pc,
             pc # "finish", routePc' \in {routePc, [routePc EXCEPT ![q] = pc]}
      PROVE  Goal
  BY <1>0, <1>1 DEF Succeeded
<1>2. ASSUME NEW q \in Routers, EndSend(q), NEW pc, pc # "finish",
             routePc' = [routePc EXCEPT ![q] = pc]
      PROVE  Goal
  BY <1>0, <1>2 DEF EndSend, Succeeded
<1>3. ASSUME NEW q \in Routers, ErpAccepts(q) PROVE Goal
  BY <1>0, <1>3 DEF ErpAccepts, SendReturns, Succeeded
<1>4. ASSUME NEW q \in Routers, UNCHANGED current, SendReturns(q, "failed") PROVE Goal
  BY <1>0, <1>4 DEF SendReturns, Succeeded
<1>5. ASSUME NEW q \in Routers, NEW n \in PoIds, BeginSend(q, n) PROVE Goal
  BY <1>0, <1>5 DEF BeginSend, Succeeded
<1>6. ASSUME NEW q \in Routers, RouterStep(q) PROVE Goal
  <2>1. ASSUME ErpRejects(q) \/ ErpUncertain(q) PROVE Goal
    BY <1>1, <1>4, <2>1 DEF ErpRejects, ErpUncertain
  <2>2. ASSUME RecordFailure(q) \/ MarkNoRow(q) \/ CommitSend(q) \/ FailSend(q)
               \/ CrashRouter(q)
        PROVE  Goal
    BY <1>2, <2>2 DEF RecordFailure, MarkNoRow, CommitSend, FailSend, CrashRouter, NextOrder
  <2>3. ASSUME StartSendAll(q) \/ EndSendLoop(q) \/ MarkSent(q) \/ LoseRouteLock(q)
        PROVE  Goal
    BY <1>1, <2>3 DEF StartSendAll, EndSendLoop, MarkSent, LoseRouteLock, SendSession
  <2>4. ASSUME NEW n \in PoIds, ReadForRetry(q, n) \/ LookupSuccess(q, n)
                                \/ SkipUnroutable(q, n) \/ FailBeforeSend(q, n)
        PROVE  Goal
    BY <1>1, <2>4 DEF ReadForRetry, LookupSuccess, SkipUnroutable, FailBeforeSend
  <2> HIDE DEF Goal
  <2> QED BY <1>3, <1>5, <1>6, <2>1, <2>2, <2>3, <2>4 DEF RouterStep
<1>7. ASSUME UNCHANGED <<routePc, outcome, current>> PROVE Goal
  BY <1>0, <1>7 DEF Succeeded
<1> QED BY <1>6, <1>7 DEF Next, vars, routerVars, UpsertConfig, SendSession

LEMMA NextAttempts ==
  ASSUME IndInv, Typing', [Next]_vars
  PROVE  AttemptsAgree'
<1>0. Typing /\ AttemptsAgree /\ NumbersUnique
  BY DEF IndInv
<1>1. ASSUME NEW r \in Routers, Succeeded(r)'
      PROVE  current'[r] \in erp'
  <2>1. CASE ErpAccepts(r)
    BY <2>1 DEF ErpAccepts
  <2>2. CASE Succeeded(r) /\ current'[r] = current[r]
    BY <1>0, <2>2, AttemptWriters DEF AttemptsAgree, Succeeded
  <2> QED BY <1>0, <1>1, <2>1, <2>2, SuccessProgress
<1>2. ASSUME NEW r \in Routers, routePc'[r] = "marked"
      PROVE  current'[r] \in erp'
  <2>1. CASE MarkSent(r)
    BY <1>0, <2>1 DEF MarkSent, AttemptsAgree
  <2>2. CASE routePc[r] = "marked" /\ current'[r] = current[r]
    BY <1>0, <2>2, AttemptWriters DEF AttemptsAgree
  <2> QED BY <1>0, <1>2, <2>1, <2>2, RouterProgress
<1> DEFINE Agree(n) ==
         /\ poStatus'[n] \in {"none", "ready_to_send", "sent", "cancelled"}
         /\ attempts'[n].success <= 1
         /\ poStatus'[n] \in {"none", "ready_to_send"} => attempts'[n].success = 0
         /\ poStatus'[n] = "sent" => attempts'[n].success = 1
         /\ attempts'[n].success = 1 => n \in erp'
<1>3. ASSUME NEW n \in PoIds, ~ \E r \in Routers : CommitSend(r) PROVE Agree(n)
  <2>1. attempts'[n].success = attempts[n].success /\ (n \in erp => n \in erp')
    BY <1>0, <1>3, AttemptWriters
  <2>2. ASSUME poStatus'[n] = poStatus[n] PROVE Agree(n)
    BY <1>0, <2>1, <2>2 DEF AttemptsAgree
  <2>3. ASSUME Exists(n), poStatus'[n] # poStatus[n] PROVE Agree(n)
    <3>1. poStatus'[n] = "cancelled"
      BY <1>3, <2>3, OnlyHolderWrites
    <3> QED BY <1>0, <2>1, <3>1 DEF AttemptsAgree
  <2>4. ASSUME ~Exists(n), poStatus'[n] # poStatus[n] PROVE Agree(n)
    <3>1. poStatus'[n] = "ready_to_send"
      <4>1. ASSUME NEW b \in Builders, CommitBuild(b) PROVE poStatus'[n] = "ready_to_send"
        BY <2>4, <4>1, BuiltRows
      <4>2. ASSUME NEW a \in Admins, CommitCancel(a) PROVE poStatus'[n] = "ready_to_send"
        BY <2>4, <4>2, CancelledRows, AdminAboutToWrite DEF Exists
      <4>3. ASSUME NEW a \in Admins, CommitRegenerate(a) PROVE poStatus'[n] = "ready_to_send"
        BY <2>4, <4>3, RegeneratedRows, AdminAboutToWrite DEF Exists
      <4> QED BY <1>3, <2>4, <4>1, <4>2, <4>3, OrderWriters DEF WritesOrders, poTables
    <3>2. attempts[n].success = 0
      BY <1>0, <2>4 DEF AttemptsAgree, Exists
    <3> QED BY <2>1, <3>1, <3>2
  <2> QED BY <2>2, <2>3, <2>4
<1>4. ASSUME NEW n \in PoIds, NEW r \in Routers, CommitSend(r) PROVE Agree(n)
  <2>1. /\ attempts' = [attempts EXCEPT ![current[r]].success = @ + 1]
        /\ erp' = erp
    BY <1>4 DEF CommitSend
  <2>2. attempts \in [PoIds -> [success : Nat, failed : Nat]] /\ current[r] \in PoIds
    BY <1>0, <1>4, RouterAboutToWrite DEF Typing, RouterTyping, RouterTypeOK
  <2>3. CASE n = current[r]
    <3>1. poStatus'[n] = "sent" /\ attempts[n].success = 0 /\ n \in erp
      BY <1>0, <1>4, <2>3, RouterAboutToWrite, SentRows DEF AttemptsAgree
    <3>2. attempts'[n].success = 1
      BY <2>1, <2>2, <2>3, <3>1
    <3> QED BY <2>1, <3>1, <3>2
  <2>4. CASE n # current[r]
    <3>1. poStatus'[n] = poStatus[n] /\ attempts'[n] = attempts[n]
      BY <1>0, <1>4, <2>1, <2>2, <2>4, SentRows
    <3> QED BY <1>0, <2>1, <3>1 DEF AttemptsAgree
  <2> QED BY <2>3, <2>4
<1>5. \A n \in PoIds : Agree(n)
  BY <1>3, <1>4
<1> QED BY <1>1, <1>2, <1>5 DEF AttemptsAgree, Succeeded

-----------------------------------------------------------------------------
(***************************************************************************)
(* The audit log.                                                          *)
(***************************************************************************)
Audited(n) ==
  /\ Exists(n) <=> history[n] # <<>>
  /\ Exists(n) => /\ history[n][1] = Entry("none", "ready_to_send")
                  /\ Len(history[n]) = IF poStatus[n] = "cancelled" THEN 2 ELSE 1

LEMMA CreationAudited ==
  ASSUME Typing, NEW n \in PoIds, Audited(n), ~Exists(n),
         poStatus'[n] = "ready_to_send",
         history'[n] = Append(history[n], Entry("none", "ready_to_send"))
  PROVE  Audited(n)'
<1>1. history[n] = <<>>
  BY DEF Audited
<1>2. history'[n] = <<Entry("none", "ready_to_send")>>
  BY <1>1
<1> QED BY <1>2 DEF Audited, Exists

LEMMA CancellationAudited ==
  ASSUME Typing, NEW n \in PoIds, Audited(n), Exists(n), poStatus[n] # "cancelled",
         poStatus'[n] = "cancelled", NEW from \in PoStatuses,
         history'[n] = Append(history[n], Entry(from, "cancelled"))
  PROVE  Audited(n)'
<1>1. /\ history[n] \in Seq(Entries)
      /\ Entry(from, "cancelled") \in Entries
      /\ Len(history[n]) = 1
      /\ history[n][1] = Entry("none", "ready_to_send")
  BY DEF Audited, Typing, StoreTypeOK, Entries, Entry, PoStatuses
<1>2. /\ Len(history'[n]) = 2
      /\ history'[n][1] = Entry("none", "ready_to_send")
      /\ history'[n] # <<>>
  BY <1>1
<1> QED BY <1>2 DEF Audited, Exists

LEMMA NextAudited ==
  ASSUME IndInv, Typing', [Next]_vars
  PROVE  CancelAuditedOnce'
<1>0. Typing /\ NumbersUnique /\ \A n \in PoIds : Audited(n)
  BY DEF IndInv, CancelAuditedOnce, Audited
<1> SUFFICES ASSUME NEW n \in PoIds PROVE Audited(n)'
  BY DEF CancelAuditedOnce, Audited, Exists
<1>1. ASSUME NEW b \in Builders, CommitBuild(b) PROVE Audited(n)'
  <2>1. CASE Drawn(b, n)
    <3>1. history'[n] = Append(history[n], Entry("none", "ready_to_send"))
      BY <1>1, <2>1 DEF CommitBuild, WriteOrders, NewOrders, Drawn
    <3>2. ~Exists(n) /\ poStatus'[n] = "ready_to_send"
      BY <1>0, <1>1, <2>1, BuiltRows DEF NumbersUnique
    <3> QED BY <1>0, <3>1, <3>2, CreationAudited
  <2>2. CASE ~Drawn(b, n)
    <3>1. history'[n] = history[n] /\ poStatus'[n] = poStatus[n]
      BY <1>1, <2>2, BuiltRows DEF CommitBuild, WriteOrders, NewOrders, Drawn
    <3> QED BY <1>0, <3>1 DEF Audited, Exists
  <2> QED BY <2>1, <2>2
<1>2. ASSUME NEW a \in Admins, CommitCancel(a) PROVE Audited(n)'
  <2>1. CASE n = target[a]
    <3>1. history'[n] = Append(history[n], Entry(seen[a], "cancelled"))
      BY <1>2, <2>1 DEF CommitCancel, WriteOrders
    <3>2. /\ Exists(n) /\ poStatus[n] # "cancelled" /\ poStatus'[n] = "cancelled"
          /\ seen[a] \in PoStatuses
      BY <1>0, <1>2, <2>1, AdminAboutToWrite, CancelledRows
         DEF Exists, Typing, AdminTyping, AdminTypeOK
    <3> QED BY <1>0, <3>1, <3>2, CancellationAudited
  <2>2. CASE n # target[a]
    <3>1. history'[n] = history[n] /\ poStatus'[n] = poStatus[n]
      BY <1>2, <2>2, CancelledRows DEF CommitCancel, WriteOrders
    <3> QED BY <1>0, <3>1 DEF Audited, Exists
  <2> QED BY <2>1, <2>2
<1>3. ASSUME NEW a \in Admins, CommitRegenerate(a) PROVE Audited(n)'
  <2>0. newNumber[a] # target[a] /\ ~Exists(newNumber[a])
    BY <1>3, RegenerateAboutToWrite
  <2>1. CASE n = newNumber[a]
    <3>1. history'[n] = Append(history[n], Entry("none", "ready_to_send"))
      BY <1>3, <2>1 DEF CommitRegenerate, WriteOrders
    <3>2. ~Exists(n) /\ poStatus'[n] = "ready_to_send"
      BY <1>3, <2>0, <2>1, RegeneratedRows
    <3> QED BY <1>0, <3>1, <3>2, CreationAudited
  <2>2. CASE n = target[a]
    <3>1. history'[n] = Append(history[n], Entry(seen[a], "cancelled"))
      BY <1>3, <2>0, <2>2 DEF CommitRegenerate, WriteOrders
    <3>2. /\ Exists(n) /\ poStatus[n] # "cancelled" /\ poStatus'[n] = "cancelled"
          /\ seen[a] \in PoStatuses
      BY <1>0, <1>3, <2>0, <2>2, AdminAboutToWrite, RegeneratedRows
         DEF Exists, Typing, AdminTyping, AdminTypeOK
    <3> QED BY <1>0, <3>1, <3>2, CancellationAudited
  <2>3. CASE n \notin {target[a], newNumber[a]}
    <3>1. history'[n] = history[n] /\ poStatus'[n] = poStatus[n]
      BY <1>3, <2>3, RegeneratedRows DEF CommitRegenerate, WriteOrders
    <3> QED BY <1>0, <3>1 DEF Audited, Exists
  <2> QED BY <2>1, <2>2, <2>3
<1>4. ASSUME NEW r \in Routers, CommitSend(r) PROVE Audited(n)'
  <2>1. history' = history
    BY <1>4 DEF CommitSend
  <2>2. Exists(n)' <=> Exists(n)
    BY <1>0, <1>4, SentRows, RouterAboutToWrite DEF Exists
  <2>3. poStatus'[n] = "cancelled" <=> poStatus[n] = "cancelled"
    BY <1>0, <1>4, SentRows, RouterAboutToWrite
  <2> QED BY <1>0, <2>1, <2>2, <2>3 DEF Audited
<1>5. ASSUME UNCHANGED poTables PROVE Audited(n)'
  BY <1>0, <1>5 DEF Audited, Exists, poTables
<1> QED BY <1>1, <1>2, <1>3, <1>4, <1>5, OrderWriters DEF WritesOrders

-----------------------------------------------------------------------------
(***************************************************************************)
(* Statuses move along the workflow, and an order keeps its plan.          *)
(***************************************************************************)
Forward ==
  \A n \in PoIds :
    /\ poStatus'[n] # poStatus[n] =>
         <<poStatus[n], poStatus'[n]>> \in
           {<<"none", "ready_to_send">>, <<"ready_to_send", "sent">>,
            <<"ready_to_send", "cancelled">>, <<"sent", "cancelled">>}
    /\ Exists(n) => poPlan'[n] = poPlan[n]

LEMMA StepForward == IndInv /\ [Next]_vars => Forward
<1> SUFFICES ASSUME IndInv, [Next]_vars, NEW n \in PoIds
             PROVE  /\ poStatus'[n] # poStatus[n] =>
                         <<poStatus[n], poStatus'[n]>> \in
                           {<<"none", "ready_to_send">>, <<"ready_to_send", "sent">>,
                            <<"ready_to_send", "cancelled">>, <<"sent", "cancelled">>}
                    /\ Exists(n) => poPlan'[n] = poPlan[n]
  BY DEF Forward
<1>0. Typing /\ AttemptsAgree /\ NumbersUnique /\ AttemptsAgree'
  BY NextAttempts, NextTyping DEF IndInv
<1>1. ASSUME Exists(n) PROVE poPlan'[n] = poPlan[n]
  <2>1. ASSUME NEW b \in Builders, CommitBuild(b) PROVE poPlan'[n] = poPlan[n]
    BY <1>0, <1>1, <2>1, BuiltRows DEF NumbersUnique
  <2>2. ASSUME NEW a \in Admins, CommitRegenerate(a) PROVE poPlan'[n] = poPlan[n]
    <3>1. n # newNumber[a]
      BY <1>1, <2>2, RegenerateAboutToWrite
    <3> QED BY <2>2, <3>1, RegeneratedRows
  <2> QED
    BY <1>0, <2>1, <2>2, OrderWriters, CancelledRows, SentRows DEF WritesOrders, poTables
<1>2. ASSUME Exists(n), poStatus'[n] # poStatus[n]
      PROVE  <<poStatus[n], poStatus'[n]>> \in
               {<<"ready_to_send", "sent">>, <<"ready_to_send", "cancelled">>,
                <<"sent", "cancelled">>}
  <2>1. CASE poStatus'[n] = "cancelled"
    <3>1. poStatus[n] \in {"ready_to_send", "sent"}
      BY <1>0, <1>2, <2>1 DEF AttemptsAgree, Exists
    <3> QED BY <2>1, <3>1
  <2>2. ASSUME NEW r \in Routers, CommitSend(r), n = current[r]
        PROVE  poStatus[n] = "ready_to_send" /\ poStatus'[n] = "sent"
    BY <1>0, <2>2, RouterAboutToWrite, SentRows
  <2> QED BY <1>2, <2>1, <2>2, OnlyHolderWrites
<1>3. ASSUME ~Exists(n), poStatus'[n] # poStatus[n]
      PROVE  poStatus[n] = "none" /\ poStatus'[n] = "ready_to_send"
  <2>1. ASSUME NEW b \in Builders, CommitBuild(b) PROVE poStatus'[n] = "ready_to_send"
    BY <1>3, <2>1, BuiltRows
  <2>2. ASSUME NEW a \in Admins, CommitCancel(a) PROVE FALSE
    BY <1>3, <2>2, CancelledRows, AdminAboutToWrite DEF Exists
  <2>3. ASSUME NEW a \in Admins, CommitRegenerate(a) PROVE poStatus'[n] = "ready_to_send"
    BY <1>3, <2>3, RegeneratedRows, AdminAboutToWrite DEF Exists
  <2>4. ASSUME NEW r \in Routers, CommitSend(r) PROVE FALSE
    BY <1>0, <1>3, <2>4, SentRows, RouterAboutToWrite DEF Exists
  <2> QED
    BY <1>3, <2>1, <2>2, <2>3, <2>4, OrderWriters DEF WritesOrders, poTables, Exists
<1> QED BY <1>1, <1>2, <1>3

-----------------------------------------------------------------------------
(***************************************************************************)
(* Calls of the ERP.  A session's step leaves the other sessions alone.    *)
(***************************************************************************)
LEMMA OthersStay ==
  ASSUME Typing, NEW q \in Routers, RouterStep(q), NEW r \in Routers, r # q
  PROVE  /\ routePc'[r] = routePc[r]
         /\ todo'[r] = todo[r]
         /\ current'[r] = current[r]
         /\ readStatus'[r] = readStatus[r]
         /\ outcome'[r] = outcome[r]
<1> DEFINE Same ==
      /\ routePc'[r] = routePc[r]
      /\ todo'[r] = todo[r]
      /\ current'[r] = current[r]
      /\ readStatus'[r] = readStatus[r]
      /\ outcome'[r] = outcome[r]
<1> USE DEF Typing, RouterTyping, RouterTypeOK
<1>1. ASSUME StartSendAll(q) PROVE Same
  <2>1. PICK S \in SUBSET ReadyUnlocked : todo' = [todo EXCEPT ![q] = S]
    BY <1>1 DEF StartSendAll
  <2> QED BY <1>1, <2>1 DEF StartSendAll
<1>2. ASSUME NEW n \in PoIds, ReadForRetry(q, n) \/ LookupSuccess(q, n) PROVE Same
  BY <1>2 DEF ReadForRetry, LookupSuccess
<1>3. ASSUME NEW n \in PoIds,
             SkipUnroutable(q, n) \/ FailBeforeSend(q, n) \/ BeginSend(q, n)
      PROVE  Same
  BY <1>3 DEF SkipUnroutable, FailBeforeSend, BeginSend
<1>4. ASSUME ErpAccepts(q) \/ ErpRejects(q) \/ ErpUncertain(q) PROVE Same
  BY <1>4 DEF ErpAccepts, ErpRejects, ErpUncertain, SendReturns
<1>5. ASSUME RecordFailure(q) \/ MarkNoRow(q) \/ CommitSend(q) \/ FailSend(q)
      PROVE  Same
  BY <1>5 DEF RecordFailure, MarkNoRow, CommitSend, FailSend, NextOrder, EndSend
<1>6. ASSUME EndSendLoop(q) \/ MarkSent(q) \/ LoseRouteLock(q) PROVE Same
  BY <1>6 DEF EndSendLoop, MarkSent, LoseRouteLock, SendSession
<1>7. ASSUME CrashRouter(q) PROVE Same
  BY <1>7 DEF CrashRouter, EndSend
<1> QED
  BY <1>1, <1>2, <1>3, <1>4, <1>5, <1>6, <1>7 DEF RouterStep

(***************************************************************************)
(* What a session's step does to its own account: it begins a call, or it  *)
(* makes none and pays with a fault for the one it leaves, unless the      *)
(* order is not ready any more.                                            *)
(***************************************************************************)
LEMMA CallBegins ==
  ASSUME Typing, NEW q \in Routers, NEW n \in PoIds, BeginSend(q, n)
  PROVE  /\ \A m \in PoIds : sends'[m] = IF m = n THEN sends[n] + 1 ELSE sends[m]
         /\ UNCHANGED <<faults, poTables>>
         /\ Due(q, n) /\ ~Sending(q) /\ ~Due(q, n)'
         /\ \A m \in PoIds : Due(q, m)' => Due(q, m)
         /\ Sending(q)' /\ current'[q] = n /\ outcome'[q] = "pending" /\ n \notin todo'[q]
BY DEF BeginSend, Typing, RouterTyping, RouterTypeOK, Sending, Due, storeVars, poTables

NoCallBegins(q) ==
  /\ UNCHANGED sends
  /\ faults' \in {faults, faults + 1}
  /\ \A n \in PoIds :
       q \in Unpaid(n) =>
         q \in Unpaid(n)' \/ faults' = faults + 1
           \/ poStatus[n] # "ready_to_send" \/ poStatus'[n] # "ready_to_send"
  /\ \A n \in PoIds : Due(q, n)' => Due(q, n) \/ poStatus[n] = "ready_to_send"
  /\ Sending(q)' => Sending(q) /\ current'[q] = current[q] /\ todo'[q] = todo[q]

LEMMA NoCallSteps ==
  ASSUME Typing, NEW q \in Routers, RouterStep(q)
  PROVE  NoCallBegins(q) \/ \E n \in PoIds : BeginSend(q, n)
<1> USE DEF Typing, RouterTyping, RouterTypeOK, NoCallBegins, Unpaid, Due, Sending
<1>0. faults \in Nat
  BY DEF StoreTypeOK
<1>1. ASSUME StartSendAll(q) PROVE NoCallBegins(q)
  <2>1. PICK S \in SUBSET ReadyUnlocked : todo' = [todo EXCEPT ![q] = S]
    BY <1>1 DEF StartSendAll
  <2>2. routePc' = [routePc EXCEPT ![q] = "loop"] /\ routePc[q] = "idle"
        /\ UNCHANGED <<sends, faults>>
    BY <1>1 DEF StartSendAll, storeVars
  <2>3. \A n \in PoIds : Due(q, n)' => poStatus[n] = "ready_to_send"
    BY <2>1 DEF ReadyUnlocked
  <2>4. ~Sending(q) /\ ~Sending(q)'
    BY <2>2
  <2> QED BY <2>2, <2>3, <2>4
<1>2. ASSUME NEW n \in PoIds, ReadForRetry(q, n) PROVE NoCallBegins(q)
  <2>1. /\ todo'[q] = {n} /\ readStatus'[q] = poStatus[n] /\ routePc'[q] = "lookup"
        /\ routePc[q] = "idle" /\ UNCHANGED <<sends, faults>>
    BY <1>2 DEF ReadForRetry, storeVars
  <2> QED BY <2>1
<1>3. ASSUME NEW n \in PoIds, LookupSuccess(q, n) PROVE NoCallBegins(q)
  <2>1. /\ routePc[q] = "lookup" /\ ~Sending(q)' /\ UNCHANGED <<sends, faults>>
    BY <1>3 DEF LookupSuccess, storeVars
  <2>2. \A m \in PoIds : Due(q, m)' => Due(q, m)
    BY <1>3 DEF LookupSuccess
  <2> QED BY <2>1, <2>2
<1>4. ASSUME NEW n \in PoIds, SkipUnroutable(q, n) \/ FailBeforeSend(q, n)
      PROVE  NoCallBegins(q)
  BY <1>0, <1>4 DEF SkipUnroutable, FailBeforeSend, Fault, storeVars
<1>5. ASSUME ErpAccepts(q) PROVE NoCallBegins(q)
  BY <1>5 DEF ErpAccepts, SendReturns, storeVars
<1>6. ASSUME ErpRejects(q) \/ ErpUncertain(q) \/ LoseRouteLock(q) PROVE NoCallBegins(q)
  <2>1. faults' = faults + 1 /\ UNCHANGED <<sends, todo, current, readStatus>>
    BY <1>6 DEF ErpRejects, ErpUncertain, LoseRouteLock, Fault, SendSession
  <2>2. (Sending(q)' => Sending(q)) /\ (routePc'[q] = "lookup" <=> routePc[q] = "lookup")
    BY <1>6 DEF ErpRejects, ErpUncertain, LoseRouteLock, SendReturns, SendSession
  <2> QED BY <2>1, <2>2
<1>7. ASSUME RecordFailure(q) \/ MarkNoRow(q) PROVE NoCallBegins(q)
  <2>1. /\ ~Sending(q)' /\ routePc[q] = "finish"
        /\ UNCHANGED <<sends, faults, todo, readStatus>>
    BY <1>7 DEF RecordFailure, MarkNoRow, NextOrder
  <2>2. outcome[q] = "failed" \/ poStatus[current[q]] # "ready_to_send"
    BY <1>7 DEF RecordFailure, MarkNoRow, MayBeMarkedSent
  <2>3. routePc'[q] = "loop"
    BY <1>7 DEF RecordFailure, MarkNoRow, NextOrder
  <2> QED BY <2>1, <2>2, <2>3
<1>8. ASSUME CommitSend(q) PROVE NoCallBegins(q)
  <2>1. /\ routePc'[q] = "loop" /\ routePc[q] = "marked"
        /\ UNCHANGED <<sends, faults, todo, readStatus>>
    BY <1>8 DEF CommitSend, NextOrder
  <2>2. \A n \in PoIds : current[q] = n => poStatus'[n] = "sent"
    BY <1>8, SentRows
  <2> QED BY <2>1, <2>2
<1>9. ASSUME FailSend(q) PROVE NoCallBegins(q)
  <2>1. /\ routePc'[q] = "loop" /\ routePc[q] # "lookup" /\ faults' = faults + 1
        /\ UNCHANGED <<sends, todo, readStatus>>
    BY <1>9 DEF FailSend, NextOrder, Fault
  <2> QED BY <2>1
<1>10. ASSUME CrashRouter(q) PROVE NoCallBegins(q)
  <2>1. routePc'[q] = "idle" /\ todo'[q] = {} /\ faults' = faults + 1 /\ UNCHANGED sends
    BY <1>10 DEF CrashRouter, Fault
  <2> QED BY <2>1
<1>11. ASSUME EndSendLoop(q) \/ MarkSent(q) PROVE NoCallBegins(q)
  <2>1. /\ UNCHANGED <<sends, faults, todo, current, readStatus, outcome>>
        /\ Sending(q)' => Sending(q)
        /\ routePc[q] # "lookup" /\ routePc'[q] # "lookup"
    BY <1>11 DEF EndSendLoop, MarkSent, storeVars
  <2>2. Sending(q) => Sending(q)'
    BY <1>11 DEF EndSendLoop, MarkSent
  <2> QED BY <2>1, <2>2
<1> QED
  BY <1>1, <1>2, <1>3, <1>4, <1>5, <1>6, <1>7, <1>8, <1>9, <1>10, <1>11
     DEF RouterStep

LEMMA FaultsCounted ==
  ASSUME [Next]_vars
  PROVE  faults' \in {faults, faults + 1}
<1> USE DEF storeVars, Fault
<1>1. ASSUME NEW p \in Plans, ApprovePlan(p) PROVE faults' = faults
  BY <1>1 DEF ApprovePlan
<1>2. ASSUME NEW b \in Builders, BuilderStep(b) PROVE faults' \in {faults, faults + 1}
  BY <1>2 DEF BuilderStep, StartBuild, SkipEmptyPlan, FailPlanRead, BuildOne,
              FailStatement, CommitBuild, RollbackBuild, LoseBuildLock
<1>3. ASSUME NEW a \in Admins, AdminStep(a) PROVE faults' \in {faults, faults + 1}
  BY <1>3 DEF AdminStep, ReadOrder, CancelRow, CancelNoRow, CommitCancel, Rebuild,
              CommitRegenerate, AbortRequest
<1>4. ASSUME NEW r \in Routers, RouterStep(r) PROVE faults' \in {faults, faults + 1}
  BY <1>4 DEF RouterStep, StartSendAll, EndSendLoop, ReadForRetry, LookupSuccess,
              SkipUnroutable, FailBeforeSend, BeginSend, ErpAccepts, ErpRejects,
              ErpUncertain, RecordFailure, MarkSent, MarkNoRow, CommitSend,
              FailSend, CrashRouter, LoseRouteLock
<1>5. ASSUME NEW s \in Suppliers, UpsertConfig(s) PROVE faults' = faults
  BY <1>5 DEF UpsertConfig
<1> QED BY <1>1, <1>2, <1>3, <1>4, <1>5 DEF Next, vars

LEMMA SendsCounted ==
  ASSUME IndInv, [Next]_vars, NEW n \in PoIds
  PROVE  sends[n] \in Nat /\ faults \in Nat /\ faults' \in {faults, faults + 1}
  BY FaultsCounted DEF IndInv, Typing, StoreTypeOK, RouterTyping, RouterTypeOK

(***************************************************************************)
(* Every step begins one call, or begins none in one session, or leaves    *)
(* all sessions of the router alone.                                       *)
(***************************************************************************)
LEMMA RouterAccounts ==
  ASSUME Typing, [Next]_vars
  PROVE  \/ \E q \in Routers, n \in PoIds : RouterStep(q) /\ BeginSend(q, n)
         \/ \E q \in Routers : RouterStep(q) /\ NoCallBegins(q)
         \/ UNCHANGED <<SendSession, sends>>
<1>1. ASSUME NEW s \in Suppliers, UpsertConfig(s) PROVE UNCHANGED <<SendSession, sends>>
  BY <1>1 DEF UpsertConfig
<1>2. ASSUME UNCHANGED routerVars PROVE UNCHANGED <<SendSession, sends>>
  BY <1>2 DEF routerVars, SendSession
<1> QED BY <1>1, <1>2, NoCallSteps DEF Next, vars

(***************************************************************************)
(* Counting sessions.                                                      *)
(***************************************************************************)
LEMMA AccountSizes ==
  ASSUME NEW n
  PROVE  /\ IsFiniteSet(Unpaid(n)) /\ Cardinality(Unpaid(n)) \in Nat
         /\ IsFiniteSet(NotDue(n)) /\ Cardinality(NotDue(n)) \in Nat
         /\ IsFiniteSet(Unpaid(n)') /\ Cardinality(Unpaid(n)') \in Nat
         /\ IsFiniteSet(NotDue(n)') /\ Cardinality(NotDue(n)') \in Nat
         /\ Cardinality(Unpaid(n)) <= Cardinality(Routers)
         /\ Cardinality(NotDue(n)) <= Cardinality(Routers)
         /\ Cardinality(Routers) \in Nat
<1>1. \A S \in SUBSET Routers :
        IsFiniteSet(S) /\ Cardinality(S) \in Nat /\ Cardinality(S) <= Cardinality(Routers)
  BY FS_Subset, FS_CardinalityType
<1>2. Unpaid(n) \subseteq Routers /\ Unpaid(n)' \subseteq Routers
  BY DEF Unpaid
<1>3. NotDue(n) \subseteq Routers /\ NotDue(n)' \subseteq Routers
  BY DEF NotDue
<1>4. Cardinality(Routers) \in Nat
  BY FS_CardinalityType
<1> QED BY <1>1, <1>2, <1>3, <1>4

LEMMA OneMore ==
  ASSUME NEW S, NEW T, NEW x, IsFiniteSet(S), IsFiniteSet(T)
  PROVE  /\ S \subseteq T => Cardinality(S) <= Cardinality(T)
         /\ S \cup {x} \subseteq T /\ x \notin S => Cardinality(S) + 1 <= Cardinality(T)
         /\ S \subseteq T \cup {x} => Cardinality(S) <= Cardinality(T) + 1
<1>1. Cardinality(S) \in Nat /\ Cardinality(T) \in Nat
  BY FS_CardinalityType
<1>2. ASSUME S \subseteq T PROVE Cardinality(S) <= Cardinality(T)
  BY <1>2, FS_Subset
<1>3. ASSUME S \cup {x} \subseteq T, x \notin S
      PROVE  Cardinality(S) + 1 <= Cardinality(T)
  <2>1. Cardinality(S \cup {x}) = Cardinality(S) + 1
    BY <1>3, FS_AddElement
  <2>2. Cardinality(S \cup {x}) <= Cardinality(T)
    BY <1>3, FS_Subset
  <2> QED BY <2>1, <2>2
<1>4. ASSUME S \subseteq T \cup {x} PROVE Cardinality(S) <= Cardinality(T) + 1
  <2>1. /\ IsFiniteSet(T \cup {x})
        /\ Cardinality(T \cup {x}) \in {Cardinality(T), Cardinality(T) + 1}
    BY FS_AddElement
  <2>2. Cardinality(S) <= Cardinality(T \cup {x}) /\ Cardinality(T \cup {x}) \in Nat
    BY <1>4, <2>1, FS_Subset, FS_CardinalityType
  <2> QED BY <1>1, <2>1, <2>2
<1> QED BY <1>2, <1>3, <1>4

-----------------------------------------------------------------------------
(***************************************************************************)
(* SendsPaid, conjunct by conjunct.                                        *)
(***************************************************************************)
LEMMA NextNotListed ==
  ASSUME IndInv, [Next]_vars, NEW r \in Routers, Sending(r)'
  PROVE  current'[r] \notin todo'[r]
<1>0. Typing /\ (Sending(r) => current[r] \notin todo[r])
  BY DEF IndInv, SendsPaid
<1>1. ASSUME NEW q \in Routers, NEW n \in PoIds, RouterStep(q), BeginSend(q, n)
      PROVE  current'[r] \notin todo'[r]
  <2>1. CASE r = q
    BY <1>0, <1>1, <2>1, CallBegins
  <2>2. CASE r # q
    BY <1>0, <1>1, <2>2, OthersStay DEF Sending
  <2> QED BY <2>1, <2>2
<1>2. ASSUME NEW q \in Routers, RouterStep(q), NoCallBegins(q)
      PROVE  current'[r] \notin todo'[r]
  <2>1. CASE r = q
    BY <1>0, <1>2, <2>1 DEF NoCallBegins
  <2>2. CASE r # q
    BY <1>0, <1>2, <2>2, OthersStay DEF Sending
  <2> QED BY <2>1, <2>2
<1>3. ASSUME UNCHANGED <<SendSession, sends>> PROVE current'[r] \notin todo'[r]
  BY <1>0, <1>3 DEF SendSession, Sending
<1> QED BY <1>0, <1>1, <1>2, <1>3, RouterAccounts

LEMMA NoOrderNoCall ==
  ASSUME IndInv, [Next]_vars, NEW n \in PoIds, ~Exists(n)
  PROVE  sends'[n] = 0
<1>0. Typing /\ sends[n] = 0
  BY DEF IndInv, SendsPaid
<1>1. ASSUME NEW q \in Routers, NEW m \in PoIds, RouterStep(q), BeginSend(q, m)
      PROVE  sends'[n] = sends[n]
  <2>1. Exists(m)
    BY <1>1 DEF BeginSend, IndInv, RowsHeld
  <2> QED BY <1>0, <1>1, <2>1, CallBegins
<1> QED BY <1>0, <1>1, RouterAccounts DEF NoCallBegins

LEMMA ReadyPaid ==
  ASSUME IndInv, [Next]_vars, NEW n \in PoIds,
         poStatus[n] = "ready_to_send", poStatus'[n] = "ready_to_send"
  PROVE  sends'[n] <= faults' + Cardinality(Unpaid(n)')
<1>0. /\ Typing
      /\ sends[n] \in Nat /\ faults \in Nat
      /\ sends[n] <= faults + Cardinality(Unpaid(n))
      /\ faults' \in {faults, faults + 1}
  BY SendsCounted DEF IndInv, SendsPaid
<1>1. ASSUME NEW q \in Routers, NEW m \in PoIds, RouterStep(q), BeginSend(q, m)
      PROVE  sends'[n] <= faults' + Cardinality(Unpaid(n)')
  <2>1. \A r \in Routers : r # q /\ r \in Unpaid(n) => r \in Unpaid(n)'
    BY <1>0, <1>1, OthersStay DEF Unpaid, Sending
  <2>2. q \notin Unpaid(n) /\ (m = n => q \in Unpaid(n)') /\ faults' = faults
    BY <1>0, <1>1, CallBegins DEF Unpaid
  <2>3. Unpaid(n) \subseteq Unpaid(n)' /\ (m = n => Unpaid(n) \cup {q} \subseteq Unpaid(n)')
    BY <2>1, <2>2 DEF Unpaid
  <2>4. sends'[n] = IF n = m THEN sends[n] + 1 ELSE sends[n]
    BY <1>0, <1>1, CallBegins
  <2>5. /\ Cardinality(Unpaid(n)) <= Cardinality(Unpaid(n)')
        /\ m = n => Cardinality(Unpaid(n)) + 1 <= Cardinality(Unpaid(n)')
    BY <2>2, <2>3, AccountSizes, OneMore
  <2> QED BY <1>0, <2>2, <2>4, <2>5, AccountSizes
<1>2. ASSUME NEW q \in Routers, RouterStep(q), NoCallBegins(q)
      PROVE  sends'[n] <= faults' + Cardinality(Unpaid(n)')
  <2>1. \A r \in Routers : r # q /\ r \in Unpaid(n) => r \in Unpaid(n)'
    BY <1>0, <1>2, OthersStay DEF Unpaid, Sending
  <2>2. q \in Unpaid(n) => q \in Unpaid(n)' \/ faults' = faults + 1
    BY <1>2 DEF NoCallBegins
  <2>3. \/ Unpaid(n) \subseteq Unpaid(n)'
        \/ faults' = faults + 1 /\ Unpaid(n) \subseteq Unpaid(n)' \cup {q}
    BY <2>1, <2>2 DEF Unpaid
  <2>4. sends'[n] = sends[n]
    BY <1>2 DEF NoCallBegins
  <2>5. \/ Cardinality(Unpaid(n)) <= Cardinality(Unpaid(n)')
        \/ faults' = faults + 1 /\ Cardinality(Unpaid(n)) <= Cardinality(Unpaid(n)') + 1
    BY <2>3, AccountSizes, OneMore
  <2> QED BY <1>0, <2>4, <2>5, AccountSizes
<1>3. ASSUME UNCHANGED <<SendSession, sends>>
      PROVE  sends'[n] <= faults' + Cardinality(Unpaid(n)')
  <2>1. Unpaid(n)' = Unpaid(n)
    BY <1>3 DEF Unpaid, Sending, SendSession
  <2> QED BY <1>0, <1>3, <2>1, AccountSizes
<1> QED BY <1>0, <1>1, <1>2, <1>3, RouterAccounts

LEMMA SettledPaid ==
  ASSUME IndInv, [Next]_vars, NEW n \in PoIds,
         poStatus[n] = "ready_to_send", poStatus'[n] # "ready_to_send"
  PROVE  sends'[n] <= faults' + Cardinality(NotDue(n)')
<1>0. /\ Typing
      /\ sends[n] \in Nat /\ faults \in Nat
      /\ sends[n] <= faults + Cardinality(Unpaid(n))
      /\ faults' \in {faults, faults + 1}
  BY SendsCounted DEF IndInv, SendsPaid
<1>1. UNCHANGED <<todo, sends>>
  <2>1. WritesOrders
    BY OrderWriters DEF poTables
  <2>2. ASSUME NEW r \in Routers, CommitSend(r) PROVE UNCHANGED <<todo, sends>>
    BY <2>2 DEF CommitSend
  <2>3. ASSUME UNCHANGED routerVars PROVE UNCHANGED <<todo, sends>>
    BY <2>3 DEF routerVars
  <2> QED BY <2>1, <2>2, <2>3 DEF WritesOrders
<1>2. Unpaid(n) \subseteq NotDue(n)'
  BY <1>1 DEF Unpaid, NotDue, Due, IndInv, SendsPaid
<1>3. Cardinality(Unpaid(n)) <= Cardinality(NotDue(n)')
  BY <1>2, AccountSizes, OneMore
<1> QED BY <1>0, <1>1, <1>3, AccountSizes

LEMMA StaysPaid ==
  ASSUME IndInv, [Next]_vars, NEW n \in PoIds,
         poStatus[n] \notin {"none", "ready_to_send"}
  PROVE  sends'[n] <= faults' + Cardinality(NotDue(n)')
<1>0. /\ Typing
      /\ sends[n] \in Nat /\ faults \in Nat
      /\ sends[n] <= faults + Cardinality(NotDue(n))
      /\ faults' \in {faults, faults + 1}
  BY SendsCounted DEF IndInv, SendsPaid
<1>1. ASSUME NEW q \in Routers, NEW m \in PoIds, RouterStep(q), BeginSend(q, m)
      PROVE  sends'[n] <= faults' + Cardinality(NotDue(n)')
  <2>1. \A r \in Routers : r # q /\ r \in NotDue(n) => r \in NotDue(n)'
    BY <1>0, <1>1, OthersStay DEF NotDue, Due
  <2>2. /\ q \in NotDue(n) => q \in NotDue(n)'
        /\ m = n => q \notin NotDue(n) /\ q \in NotDue(n)'
        /\ faults' = faults
    BY <1>0, <1>1, CallBegins DEF NotDue
  <2>3. NotDue(n) \subseteq NotDue(n)' /\ (m = n => NotDue(n) \cup {q} \subseteq NotDue(n)')
    BY <2>1, <2>2 DEF NotDue
  <2>4. sends'[n] = IF n = m THEN sends[n] + 1 ELSE sends[n]
    BY <1>0, <1>1, CallBegins
  <2>5. /\ Cardinality(NotDue(n)) <= Cardinality(NotDue(n)')
        /\ m = n => Cardinality(NotDue(n)) + 1 <= Cardinality(NotDue(n)')
    BY <2>2, <2>3, AccountSizes, OneMore
  <2> QED BY <1>0, <2>2, <2>4, <2>5, AccountSizes
<1>2. ASSUME NEW q \in Routers, RouterStep(q), NoCallBegins(q)
      PROVE  sends'[n] <= faults' + Cardinality(NotDue(n)')
  <2>1. \A r \in Routers : r # q /\ r \in NotDue(n) => r \in NotDue(n)'
    BY <1>0, <1>2, OthersStay DEF NotDue, Due
  <2>2. q \in NotDue(n) => q \in NotDue(n)'
    BY <1>2 DEF NoCallBegins, NotDue
  <2>3. NotDue(n) \subseteq NotDue(n)'
    BY <2>1, <2>2 DEF NotDue
  <2>4. sends'[n] = sends[n]
    BY <1>2 DEF NoCallBegins
  <2> QED BY <1>0, <2>3, <2>4, AccountSizes, OneMore
<1>3. ASSUME UNCHANGED <<SendSession, sends>>
      PROVE  sends'[n] <= faults' + Cardinality(NotDue(n)')
  <2>1. NotDue(n)' = NotDue(n)
    BY <1>3 DEF NotDue, Due, SendSession
  <2> QED BY <1>0, <1>3, <2>1, AccountSizes
<1> QED BY <1>0, <1>1, <1>2, <1>3, RouterAccounts

LEMMA NextSends ==
  ASSUME IndInv, [Next]_vars
  PROVE  SendsPaid'
<1>1. \A r \in Routers : Sending(r)' => current'[r] \notin todo'[r]
  BY NextNotListed
<1>2. ASSUME NEW n \in PoIds, ~Exists(n)' PROVE sends'[n] = 0
  BY <1>2, OrdersStay, NoOrderNoCall
<1>3. ASSUME NEW n \in PoIds, poStatus'[n] = "ready_to_send"
      PROVE  sends'[n] <= faults' + Cardinality(Unpaid(n)')
  <2>1. CASE poStatus[n] = "ready_to_send"
    BY <1>3, <2>1, ReadyPaid
  <2>2. CASE poStatus[n] # "ready_to_send"
    <3>1. ~Exists(n)
      BY <1>3, <2>2, StepForward DEF Forward, Exists
    <3>2. faults' \in Nat
      BY FaultsCounted DEF IndInv, Typing, StoreTypeOK
    <3> QED BY <3>1, <3>2, NoOrderNoCall, AccountSizes
  <2> QED BY <2>1, <2>2
<1>4. ASSUME NEW n \in PoIds, poStatus'[n] \notin {"none", "ready_to_send"}
      PROVE  sends'[n] <= faults' + Cardinality(NotDue(n)')
  <2>1. poStatus[n] # "none"
    BY <1>4, StepForward DEF Forward
  <2> QED BY <1>4, <2>1, SettledPaid, StaysPaid
<1> QED BY <1>1, <1>2, <1>3, <1>4 DEF SendsPaid, Exists

LEMMA InitSends == Init => SendsPaid
<1> SUFFICES ASSUME Init PROVE SendsPaid
  OBVIOUS
<1> QED BY DEF Init, StoreInit, RouterInit, SendsPaid, Sending, Exists

-----------------------------------------------------------------------------
(***************************************************************************)
(* The invariant, and what follows from it.                                *)
(***************************************************************************)
LEMMA InitIndInv == Init => IndInv
<1> SUFFICES ASSUME Init PROVE IndInv
  OBVIOUS
<1>1. Typing
  BY InitTyping
<1> USE DEF Init, StoreInit, BuilderInit, AdminInit, RouterInit, Exists
<1>2. NumbersUnique
  BY DEF NumbersUnique, Drawn, NothingInserted
<1>3. ClaimsHold
  BY DEF ClaimsHold, Drawn, NothingInserted
<1>4. ConvertedIffOrdered /\ OneLiveOrderPerPlan
  BY DEF ConvertedIffOrdered, OneLiveOrderPerPlan
<1>5. RowsHeld
  BY DEF RowsHeld, Sending
<1>6. AttemptsAgree
  BY DEF AttemptsAgree
<1>7. CancelAuditedOnce
  BY DEF CancelAuditedOnce
<1> QED BY <1>1, <1>2, <1>3, <1>4, <1>5, <1>6, <1>7, InitSends DEF IndInv

LEMMA NextIndInv == IndInv /\ [Next]_vars => IndInv'
<1> SUFFICES ASSUME IndInv, [Next]_vars PROVE IndInv'
  OBVIOUS
<1>1. Typing'
  BY NextTyping DEF IndInv
<1> QED
  BY <1>1, NextNumbers, NextClaims, NextPlans, NextRows, NextAttempts, NextAudited,
     NextSends DEF IndInv

(***************************************************************************)
(* IndInv holds in every reachable state: what a session knows of a row it *)
(* has updated, of a number it has drawn and of a plan it has claimed      *)
(* stays true until its transaction ends.                                  *)
(***************************************************************************)
THEOREM InvariantHolds == Spec => []IndInv
  BY InitIndInv, NextIndInv, PTL DEF Spec

(***************************************************************************)
(* At most one live purchase order per plan, without an index to enforce   *)
(* it (4001_orders_schema.up.sql:47).                                      *)
(***************************************************************************)
THEOREM OneLiveOrder == Spec => []OneLiveOrderPerPlan
<1>1. IndInv => OneLiveOrderPerPlan
  BY DEF IndInv
<1> QED BY <1>1, InvariantHolds, PTL

(***************************************************************************)
(* A plan is converted exactly when an order was written for it, whatever  *)
(* builds failed, were rolled back or lost the scheduler's lock.           *)
(***************************************************************************)
THEOREM PlanConverted == Spec => []ConvertedIffOrdered
<1>1. IndInv => ConvertedIffOrdered
  BY DEF IndInv
<1> QED BY <1>1, InvariantHolds, PTL

(***************************************************************************)
(* Two runs of the builder never hold the same plan, although a run may go *)
(* on after its advisory lock is lost.                                     *)
(***************************************************************************)
THEOREM ClaimsNeverShared == Spec => []ClaimsDisjoint
<1>1. IndInv => ClaimsDisjoint
  <2> SUFFICES ASSUME IndInv, NEW b \in Builders, NEW c \in Builders, b # c
               PROVE  claimed[b] \cap claimed[c] = {}
    BY DEF ClaimsDisjoint
  <2>1. claimed[b] \subseteq Plans
    BY DEF IndInv, Typing, BuilderTypeOK
  <2> QED BY <2>1 DEF IndInv, ClaimsHold
<1> QED BY <1>1, InvariantHolds, PTL

(***************************************************************************)
(* At most one successful attempt per order (5001_channels_schema.up.sql:  *)
(* 67), no order marked sent that the ERP does not hold, and no success    *)
(* recorded for an order that was never marked sent.                       *)
(***************************************************************************)
THEOREM SentOnce == Spec => []SuccessMatchesSent
<1>1. IndInv => SuccessMatchesSent
  <2> SUFFICES ASSUME IndInv, NEW n \in PoIds
               PROVE  /\ attempts[n].success <= 1
                      /\ poStatus[n] = "sent" => attempts[n].success = 1
                      /\ attempts[n].success = 1 =>
                           poStatus[n] \in {"sent", "cancelled"} /\ n \in erp
    BY DEF SuccessMatchesSent
  <2> QED BY DEF IndInv, AttemptsAgree
<1> QED BY <1>1, InvariantHolds, PTL

(***************************************************************************)
(* The ERP is called for one order once per session that found it ready,   *)
(* and once more for every fault: a stale list, a lost lock or a retry     *)
(* beside a run never adds calls of its own (router_svc: SendAll,          *)
(* SendByID).  For any number of senders and retries.                      *)
(***************************************************************************)
THEOREM SendsAlwaysBounded == Spec => []SendsBounded
<1>1. IndInv => SendsBounded
  <2> SUFFICES ASSUME IndInv, NEW n \in PoIds
               PROVE  sends[n] <= faults + Cardinality(Routers)
    BY DEF SendsBounded
  <2>1. sends[n] \in Nat /\ faults \in Nat
    BY DEF IndInv, Typing, StoreTypeOK, RouterTyping, RouterTypeOK
  <2> QED BY <2>1, AccountSizes DEF IndInv, SendsPaid, Exists
<1> QED BY <1>1, InvariantHolds, PTL

(***************************************************************************)
(* The audit log has one creation and at most one cancellation per order.  *)
(***************************************************************************)
THEOREM CancellationOnce == Spec => []CancelAuditedOnce
<1>1. IndInv => CancelAuditedOnce
  BY DEF IndInv
<1> QED BY <1>1, InvariantHolds, PTL

(***************************************************************************)
(* A status only moves along the workflow, an order never disappears and   *)
(* keeps its plan, in every step of every session.                         *)
(***************************************************************************)
THEOREM ForwardOnly == Spec => StatusForward
<1>1. IndInv /\ [Next]_vars => [Forward]_vars
  BY StepForward
<1> QED BY <1>1, InvariantHolds, PTL DEF Spec, StatusForward, Forward

-----------------------------------------------------------------------------
(***************************************************************************)
(* OrderFulfilment implements OrderContract.                               *)
(***************************************************************************)
Mapped == [n \in PoIds |-> ContractStatus(poStatus[n])]

LEMMA MappedStatus ==
  ASSUME IndInv, NEW n \in PoIds
  PROVE  /\ Mapped[n] = "none" <=> ~Exists(n)
         /\ poStatus[n] = "ready_to_send" => Mapped[n] = "open"
         /\ poStatus[n] = "sent" => Mapped[n] = "sent"
  BY DEF Mapped, ContractStatus, Exists

LEMMA InitRefines == Init => Contract!ContractInit
  BY DEF Init, StoreInit, RouterInit, Contract!ContractInit, ContractStatus

LEMMA BuildRefines ==
  ASSUME IndInv, NEW b \in Builders, CommitBuild(b), erp' = erp
  PROVE  Contract!Place({n \in PoIds : Drawn(b, n)}, inserted[b])
<1>0. Typing /\ ClaimsHold /\ NumbersUnique /\ ConvertedIffOrdered
  BY DEF IndInv
<1>1. \A n \in PoIds : Drawn(b, n) =>
        /\ Mapped[n] = "none"
        /\ inserted[b][n] \in Plans
        /\ \A m \in PoIds : Mapped[m] # "none" => poPlan[m] # inserted[b][n]
  <2> SUFFICES ASSUME NEW n \in PoIds, Drawn(b, n)
               PROVE  /\ Mapped[n] = "none"
                      /\ inserted[b][n] \in Plans
                      /\ \A m \in PoIds : Mapped[m] # "none" => poPlan[m] # inserted[b][n]
    OBVIOUS
  <2>1. Mapped[n] = "none"
    BY <1>0, MappedStatus DEF NumbersUnique
  <2>2. inserted[b][n] \in claimed[b] /\ inserted[b][n] \in Plans
    BY <1>0 DEF ClaimsHold, Typing, BuilderTypeOK
  <2>3. planStatus[inserted[b][n]] # "converted"
    BY <1>0, <2>2 DEF ClaimsHold
  <2>4. \A m \in PoIds : Exists(m) => poPlan[m] # inserted[b][n]
    BY <1>0, <2>2, <2>3 DEF ConvertedIffOrdered
  <2> QED BY <2>1, <2>2, <2>4, MappedStatus
<1>2. \A m, n \in PoIds : Drawn(b, m) /\ Drawn(b, n) /\ inserted[b][m] = inserted[b][n] => m = n
  BY <1>0 DEF ClaimsHold
<1>3. Mapped' = [n \in PoIds |-> IF Drawn(b, n) THEN "open" ELSE Mapped[n]]
  BY <1>0, BuiltRows DEF Mapped, ContractStatus, Typing, StoreTypeOK
<1>4. poPlan' = [n \in PoIds |-> IF Drawn(b, n) THEN inserted[b][n] ELSE poPlan[n]]
  BY <1>0 DEF CommitBuild, WriteOrders, NewOrders, Drawn, Typing, StoreTypeOK
<1> QED BY <1>1, <1>2, <1>3, <1>4 DEF Contract!Place, Mapped

LEMMA CancelRefines ==
  ASSUME IndInv, NEW a \in Admins, CommitCancel(a), erp' = erp
  PROVE  Contract!Void(target[a])
<1>0. Typing
  BY DEF IndInv
<1>1. target[a] \in PoIds /\ Mapped[target[a]] \in {"open", "sent"}
  BY AdminAboutToWrite, MappedStatus
<1>2. Mapped' = [Mapped EXCEPT ![target[a]] = "void"]
  BY <1>1, CancelledRows DEF Mapped, ContractStatus
<1>3. poPlan' = poPlan
  BY <1>0 DEF CommitCancel, WriteOrders, Typing, StoreTypeOK
<1> QED BY <1>1, <1>2, <1>3 DEF Contract!Void, Contract!Live, Mapped

LEMMA RegenerateRefines ==
  ASSUME IndInv, NEW a \in Admins, CommitRegenerate(a), erp' = erp
  PROVE  Contract!Replace(target[a], newNumber[a])
<1>0. Typing
  BY DEF IndInv
<1>1. /\ target[a] \in PoIds /\ Mapped[target[a]] \in {"open", "sent"}
      /\ newNumber[a] \in PoIds /\ Mapped[newNumber[a]] = "none"
      /\ newNumber[a] # target[a]
  BY AdminAboutToWrite, RegenerateAboutToWrite, MappedStatus
<1>2. Mapped' = [Mapped EXCEPT ![target[a]] = "void", ![newNumber[a]] = "open"]
  BY <1>1, RegeneratedRows DEF Mapped, ContractStatus
<1>3. poPlan' = [poPlan EXCEPT ![newNumber[a]] = poPlan[target[a]]]
  <2>1. \A n \in PoIds : poPlan'[n] = IF n = newNumber[a] THEN poPlan[target[a]] ELSE poPlan[n]
    BY RegeneratedRows
  <2>2. poPlan \in [PoIds -> Plans \cup {NoPlan}] /\ poPlan' = [n \in PoIds |-> poPlan'[n]]
    BY <1>0 DEF CommitRegenerate, WriteOrders, Typing, StoreTypeOK
  <2> QED BY <2>1, <2>2
<1> QED BY <1>1, <1>2, <1>3 DEF Contract!Replace, Contract!Live, Mapped

LEMMA SendRefines ==
  ASSUME IndInv, NEW r \in Routers, CommitSend(r)
  PROVE  Contract!Dispatch(current[r])
<1>0. Typing /\ AttemptsAgree
  BY DEF IndInv
<1>1. current[r] \in PoIds /\ Mapped[current[r]] = "open" /\ current[r] \in erp
  BY <1>0, RouterAboutToWrite, MappedStatus DEF AttemptsAgree
<1>2. Mapped' = [Mapped EXCEPT ![current[r]] = "sent"]
  BY <1>0, <1>1, SentRows DEF Mapped, ContractStatus
<1>3. poPlan' = poPlan /\ erp' = erp
  BY DEF CommitSend
<1> QED BY <1>1, <1>2, <1>3 DEF Contract!Dispatch, Mapped

(***************************************************************************)
(* The ERP takes only orders that exist.                                   *)
(***************************************************************************)
LEMMA ErpSteps ==
  ASSUME IndInv, [Next]_vars
  PROVE  erp' = erp \/ \E n \in PoIds : Exists(n) /\ erp' = erp \cup {n} /\ UNCHANGED poTables
<1>1. ASSUME NEW r \in Routers, RouterStep(r)
      PROVE  erp' = erp \/ ErpAccepts(r) \/ ErpUncertain(r)
  BY <1>1 DEF RouterStep, StartSendAll, EndSendLoop, ReadForRetry, LookupSuccess,
              SkipUnroutable, FailBeforeSend, BeginSend, ErpRejects,
              RecordFailure, MarkSent, MarkNoRow, CommitSend, FailSend,
              CrashRouter, LoseRouteLock
<1>2. ASSUME NEW r \in Routers, ErpAccepts(r) \/ ErpUncertain(r)
      PROVE  erp' = erp \/ \E n \in PoIds : Exists(n) /\ erp' = erp \cup {n} /\ UNCHANGED poTables
  <2>1. Sending(r)
    BY <1>2 DEF ErpAccepts, ErpUncertain, Sending
  <2>2. current[r] \in PoIds /\ Exists(current[r])
    BY <2>1 DEF IndInv, Typing, RouterTyping, RowsHeld
  <2>3. UNCHANGED poTables /\ erp' \in {erp, erp \cup {current[r]}}
    BY <1>2 DEF ErpAccepts, ErpUncertain, storeVars
  <2> QED BY <2>2, <2>3
<1>3. ASSUME NEW s \in Suppliers, UpsertConfig(s) PROVE erp' = erp
  BY <1>3 DEF UpsertConfig
<1> QED BY <1>1, <1>2, <1>3 DEF Next, vars, routerVars

LEMMA StepRefines ==
  ASSUME IndInv, [Next]_vars
  PROVE  [Contract!ContractNext]_(Contract!contractVars)
<1>0. Typing
  BY DEF IndInv
<1>1. ASSUME NEW b \in Builders, CommitBuild(b), UNCHANGED routerVars
      PROVE  Contract!ContractNext
  <2>1. /\ {n \in PoIds : Drawn(b, n)} \in SUBSET PoIds
        /\ inserted[b] \in [PoIds -> Plans \cup {NoPlan}]
    BY <1>0 DEF Typing, BuilderTypeOK
  <2> QED BY <1>1, <2>1, BuildRefines DEF Contract!ContractNext, routerVars
<1>2. ASSUME NEW a \in Admins, CommitCancel(a), UNCHANGED routerVars
      PROVE  Contract!ContractNext
  BY <1>2, CancelRefines, AdminAboutToWrite DEF Contract!ContractNext, routerVars
<1>3. ASSUME NEW a \in Admins, CommitRegenerate(a), UNCHANGED routerVars
      PROVE  Contract!ContractNext
  BY <1>3, RegenerateRefines, AdminAboutToWrite, RegenerateAboutToWrite
     DEF Contract!ContractNext, routerVars
<1>4. ASSUME NEW r \in Routers, CommitSend(r) PROVE Contract!ContractNext
  BY <1>4, SendRefines, RouterAboutToWrite DEF Contract!ContractNext
<1>5. ASSUME UNCHANGED poTables, erp' = erp PROVE UNCHANGED Contract!contractVars
  BY <1>5 DEF Contract!contractVars, poTables
<1>6. ASSUME UNCHANGED poTables, NEW n \in PoIds, Exists(n), erp' = erp \cup {n}
      PROVE  Contract!ContractNext
  <2>1. Mapped[n] # "none" /\ Mapped' = Mapped /\ poPlan' = poPlan
    BY <1>6, MappedStatus DEF Mapped, poTables
  <2>2. Contract!ErpTakes(n)
    BY <1>6, <2>1 DEF Contract!ErpTakes, Mapped
  <2> QED BY <2>2 DEF Contract!ContractNext
<1> QED
  BY <1>1, <1>2, <1>3, <1>4, <1>5, <1>6, ErpSteps, OrderWriters DEF WritesOrders

(***************************************************************************)
(* What the two services promise together: a plan is ordered once, a live  *)
(* order is voided or replaced as a whole, and an order counts as sent     *)
(* only when the ERP holds it.                                             *)
(***************************************************************************)
THEOREM KeepsContract == Spec => ImplementsContract
<1>1. IndInv /\ [Next]_vars => [Contract!ContractNext]_(Contract!contractVars)
  BY StepRefines
<1> QED
  BY <1>1, InitRefines, InvariantHolds, PTL
     DEF Spec, ImplementsContract, Contract!ContractSpec

=============================================================================
