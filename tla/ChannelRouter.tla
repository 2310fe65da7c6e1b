--------------------------- MODULE ChannelRouter ---------------------------
(***************************************************************************)
(* The Channel Router (channels/router_svc): SendAll, started by the cron  *)
(* tick or POST /v1/channels/send, works through a list of ready orders;   *)
(* SendByID retries one order at an operator's request.  Each order is     *)
(* sent inside a transaction of its own that stays open across the call to *)
(* the ERP (channels/sender/erp_api_sender.go), which is external: it may  *)
(* accept an order and the answer may still be lost.                       *)
(***************************************************************************)
EXTENDS PoStore

CONSTANTS
  Senders,    \* sessions that run SendAll: scheduler replicas and triggers
  Retriers,   \* concurrent requests to retry one order (SendByID)
  MaxPos,     \* LIMIT of one SendAll list
  RetryMax,   \* supplier_channel_config.retry_max, after its default
  Suppliers,
  SupplierOf  \* the supplier of a plan, and so of its orders

Routers == Senders \cup Retriers

ASSUME RouterAssumption ==
  /\ NoSession \notin Routers
  /\ IsFiniteSet(Routers)
  /\ Senders \cap Retriers = {}
  /\ MaxPos \in Nat \ {0}
  /\ RetryMax \in Nat \ {0}
  /\ SupplierOf \in [Plans -> Suppliers]

VARIABLES
  routePc,    \* "idle", "lookup" (SendByID has read the order), "loop",
              \* "http" (attempt row inserted), "finish" (Send returned),
              \* "marked" (row set to sent in the open transaction)
  todo,       \* orders still on the session's list
  current,    \* the order of the open transaction, 0 if none
  readStatus, \* what SendByID read
  tries,      \* the retry loop's counter
  outcome,    \* SendResult.Status: "pending", "success" or "failed"
  routeLock,  \* holder of the router's advisory lock
  routable,   \* suppliers with an active channel config and a known sender
  attempts,   \* committed send_attempts rows per order, by status
  sends,      \* history: calls of ChannelSender.Send per order
  erp         \* orders the ERP holds (by Idempotency-Key)

routerVars == <<routePc, todo, current, readStatus, tries, outcome, routeLock,
                routable, attempts, sends, erp>>

SendSession == <<routePc, todo, current, readStatus, tries, outcome>>
Routable(n) == SupplierOf[poPlan[n]] \in routable
ReadyOrSentUnlocked == {n \in PoIds : /\ poStatus[n] \in {"ready_to_send", "sent"}
                                      /\ poLock[n] = NoSession}
ReadyUnlocked == {n \in PoIds : /\ poStatus[n] = "ready_to_send"
                                /\ poLock[n] = NoSession}

(***************************************************************************)
(* PUT /v1/channels/configs/:supplier_id.                                  *)
(***************************************************************************)
UpsertConfig(s) ==
  /\ routable' \in {routable \cup {s}, routable \ {s}} \ {routable}
  /\ UNCHANGED <<storeVars, SendSession, routeLock, attempts, sends, erp>>

(***************************************************************************)
(* SELECT ... FOR UPDATE SKIP LOCKED, committed at once: the row locks are *)
(* gone before the first order is sent.  The order (created_at) in which   *)
(* the list is worked through is abstracted.                               *)
(***************************************************************************)
StartSendAll(r) ==
  /\ r \in Senders
  /\ routePc[r] = "idle"
  /\ routeLock = NoSession
  /\ ReadyUnlocked # {}
  /\ \E S \in SUBSET ReadyUnlocked :
       /\ \/ Cardinality(S) = MaxPos
          \/ S = ReadyUnlocked /\ Cardinality(S) < MaxPos
       /\ todo' = [todo EXCEPT ![r] = S]
  /\ routeLock' = r
  /\ routePc' = [routePc EXCEPT ![r] = "loop"]
  /\ UNCHANGED <<storeVars, current, readStatus, tries, outcome>>
  /\ UNCHANGED <<routable, attempts, sends, erp>>

(***************************************************************************)
(* The deferred pg_advisory_unlock, or the end of its connection.          *)
(***************************************************************************)
KeepRouteLock(r) == UNCHANGED routeLock
ReleaseRouteLock(r) ==
  routeLock' = IF routeLock = r THEN NoSession ELSE routeLock

EndSendLoop(r) ==
  /\ routePc[r] = "loop"
  /\ todo[r] = {}
  /\ routePc' = [routePc EXCEPT ![r] = "idle"]
  /\ ReleaseRouteLock(r)
  /\ UNCHANGED <<storeVars, todo, current, readStatus, tries, outcome>>
  /\ UNCHANGED <<routable, attempts, sends, erp>>

(***************************************************************************)
(* SendByID: the order is read first, the successful attempt is looked up  *)
(* in a second statement; only an order read as ready_to_send and without  *)
(* a successful attempt goes on to sendOne.                                *)
(***************************************************************************)
ReadForRetry(r, n) ==
  /\ r \in Retriers
  /\ routePc[r] = "idle"
  /\ Exists(n)
  /\ routePc' = [routePc EXCEPT ![r] = "lookup"]
  /\ todo' = [todo EXCEPT ![r] = {n}]
  /\ readStatus' = [readStatus EXCEPT ![r] = poStatus[n]]
  /\ UNCHANGED <<storeVars, current, tries, outcome>>
  /\ UNCHANGED <<routeLock, routable, attempts, sends, erp>>

LookupSuccess(r, n) ==
  /\ routePc[r] = "lookup"
  /\ n \in todo[r]
  /\ IF attempts[n].success = 0 /\ readStatus[r] = "ready_to_send"
       THEN /\ routePc' = [routePc EXCEPT ![r] = "loop"]
            /\ UNCHANGED todo
       ELSE /\ routePc' = [routePc EXCEPT ![r] = "idle"]
            /\ todo' = [todo EXCEPT ![r] = {}]
  /\ readStatus' = [readStatus EXCEPT ![r] = "none"]
  /\ UNCHANGED <<storeVars, current, tries, outcome>>
  /\ UNCHANGED <<routeLock, routable, attempts, sends, erp>>

(***************************************************************************)
(* sendOne: without a channel the order is skipped; otherwise a            *)
(* transaction is opened and the pending attempt inserted, unless one of   *)
(* these statements fails.                                                 *)
(***************************************************************************)
SkipUnroutable(r, n) ==
  /\ routePc[r] = "loop"
  /\ n \in todo[r]
  /\ ~Routable(n)
  /\ todo' = [todo EXCEPT ![r] = @ \ {n}]
  /\ UNCHANGED <<storeVars, routePc, current, readStatus, tries, outcome>>
  /\ UNCHANGED <<routeLock, routable, attempts, sends, erp>>

FailBeforeSend(r, n) ==
  /\ routePc[r] = "loop"
  /\ n \in todo[r]
  /\ Fault
  /\ todo' = [todo EXCEPT ![r] = @ \ {n}]
  /\ UNCHANGED <<planStatus, seq, poTables, poLock, routePc, current, readStatus>>
  /\ UNCHANGED <<tries, outcome, routeLock, routable, attempts, sends, erp>>

BeginSend(r, n) ==
  /\ routePc[r] = "loop"
  /\ n \in todo[r]
  /\ Routable(n)
  /\ sends' = [sends EXCEPT ![n] = @ + 1]
  /\ todo' = [todo EXCEPT ![r] = @ \ {n}]
  /\ current' = [current EXCEPT ![r] = n]
  /\ tries' = [tries EXCEPT ![r] = 0]
  /\ outcome' = [outcome EXCEPT ![r] = "pending"]
  /\ routePc' = [routePc EXCEPT ![r] = "http"]
  /\ UNCHANGED <<storeVars, readStatus, routeLock, routable, attempts, erp>>

SendReturns(r, status) ==
  /\ outcome' = [outcome EXCEPT ![r] = status]
  /\ routePc' = [routePc EXCEPT ![r] = "finish"]
  /\ UNCHANGED tries

RetriesLeft(k) == k < RetryMax

(***************************************************************************)
(* One round of the retry loop.  2xx ends it with success, another 4xx or  *)
(* a failed authorisation with failure.                                    *)
(***************************************************************************)
ErpAccepts(r) ==
  /\ routePc[r] = "http"
  /\ erp' = erp \cup {current[r]}
  /\ SendReturns(r, "success")
  /\ UNCHANGED <<storeVars, todo, current, readStatus>>
  /\ UNCHANGED <<routeLock, routable, attempts, sends>>

ErpRejects(r) ==
  /\ routePc[r] = "http"
  /\ Fault
  /\ SendReturns(r, "failed")
  /\ UNCHANGED <<planStatus, seq, poTables, poLock, todo, current, readStatus>>
  /\ UNCHANGED <<routeLock, routable, attempts, sends, erp>>

(***************************************************************************)
(* A network error, 429 or 5xx: the call is repeated, RetryMax times at    *)
(* most, although the ERP may have taken the order.                        *)
(***************************************************************************)
ErpUncertain(r) ==
  /\ routePc[r] = "http"
  /\ Fault
  /\ erp' \in {erp, erp \cup {current[r]}}
  /\ IF RetriesLeft(tries[r])
       THEN /\ tries' = [tries EXCEPT ![r] = @ + 1]
            /\ UNCHANGED <<outcome, routePc>>
       ELSE SendReturns(r, "failed")
  /\ UNCHANGED <<planStatus, seq, poTables, poLock, todo, current, readStatus>>
  /\ UNCHANGED <<routeLock, routable, attempts, sends>>

(***************************************************************************)
(* The transaction of the current order ends; its row lock goes with it.   *)
(***************************************************************************)
EndSend(r) ==
  /\ current' = [current EXCEPT ![r] = 0]
  /\ tries' = [tries EXCEPT ![r] = 0]
  /\ outcome' = [outcome EXCEPT ![r] = "pending"]
  /\ ReleaseRows(r)

NextOrder(r) == EndSend(r) /\ routePc' = [routePc EXCEPT ![r] = "loop"]

RecordFailure(r) ==
  /\ routePc[r] = "finish"
  /\ outcome[r] = "failed"
  /\ attempts' = [attempts EXCEPT ![current[r]].failed = @ + 1]
  /\ NextOrder(r)
  /\ UNCHANGED <<planStatus, seq, poTables, faults, todo, readStatus>>
  /\ UNCHANGED <<routeLock, routable, sends, erp>>

(***************************************************************************)
(* The status guard of the UPDATE in MarkPOSentTx.                         *)
(***************************************************************************)
MayBeMarkedAgain(s) == s \in {"ready_to_send", "sent"}
MayBeMarkedSent(s) == s = "ready_to_send"

(***************************************************************************)
(* MarkPOSentTx: the UPDATE waits for the row and requires ready_to_send;  *)
(* no row means a lost race, and the attempt is rolled back.               *)
(***************************************************************************)
MarkSent(r) ==
  /\ routePc[r] = "finish"
  /\ outcome[r] = "success"
  /\ poLock[current[r]] = NoSession
  /\ MayBeMarkedSent(poStatus[current[r]])
  /\ poLock' = [poLock EXCEPT ![current[r]] = r]
  /\ routePc' = [routePc EXCEPT ![r] = "marked"]
  /\ UNCHANGED <<planStatus, seq, poTables, faults>>
  /\ UNCHANGED <<todo, current, readStatus, tries, outcome>>
  /\ UNCHANGED <<routeLock, routable, attempts, sends, erp>>

MarkNoRow(r) ==
  /\ routePc[r] = "finish"
  /\ outcome[r] = "success"
  /\ poLock[current[r]] = NoSession
  /\ ~MayBeMarkedSent(poStatus[current[r]])
  /\ NextOrder(r)
  /\ UNCHANGED <<planStatus, seq, poTables, faults, todo, readStatus>>
  /\ UNCHANGED <<routeLock, routable, attempts, sends, erp>>

CommitSend(r) ==
  /\ routePc[r] = "marked"
  /\ poStatus' = [poStatus EXCEPT ![current[r]] = "sent"]
  /\ attempts' = [attempts EXCEPT ![current[r]].success = @ + 1]
  /\ NextOrder(r)
  /\ UNCHANGED <<planStatus, seq, poPlan, history, faults, todo, readStatus>>
  /\ UNCHANGED <<routeLock, routable, sends, erp>>

(***************************************************************************)
(* A statement of the transaction or its COMMIT fails: sendOne reports a   *)
(* failure and the loop goes on.                                           *)
(***************************************************************************)
FailSend(r) ==
  /\ routePc[r] \in {"http", "finish", "marked"}
  /\ Fault
  /\ NextOrder(r)
  /\ UNCHANGED <<planStatus, seq, poTables, todo, readStatus>>
  /\ UNCHANGED <<routeLock, routable, attempts, sends, erp>>

CrashRouter(r) ==
  /\ routePc[r] # "idle"
  /\ Fault
  /\ EndSend(r)
  /\ routePc' = [routePc EXCEPT ![r] = "idle"]
  /\ todo' = [todo EXCEPT ![r] = {}]
  /\ readStatus' = [readStatus EXCEPT ![r] = "none"]
  /\ ReleaseRouteLock(r)
  /\ UNCHANGED <<planStatus, seq, poTables, routable, attempts, sends, erp>>

LoseRouteLock(r) ==
  /\ routeLock = r
  /\ Fault
  /\ routeLock' = NoSession
  /\ UNCHANGED <<planStatus, seq, poTables, poLock, SendSession>>
  /\ UNCHANGED <<routable, attempts, sends, erp>>

RouterInit ==
  /\ routePc = [r \in Routers |-> "idle"]
  /\ todo = [r \in Routers |-> {}]
  /\ current = [r \in Routers |-> 0]
  /\ readStatus = [r \in Routers |-> "none"]
  /\ tries = [r \in Routers |-> 0]
  /\ outcome = [r \in Routers |-> "pending"]
  /\ routeLock = NoSession
  /\ routable = Suppliers
  /\ attempts = [n \in PoIds |-> [success |-> 0, failed |-> 0]]
  /\ sends = [n \in PoIds |-> 0]
  /\ erp = {}

RouterStep(r) ==
  \/ StartSendAll(r)
  \/ EndSendLoop(r)
  \/ \E n \in PoIds : \/ ReadForRetry(r, n)
                      \/ LookupSuccess(r, n)
                      \/ SkipUnroutable(r, n)
                      \/ FailBeforeSend(r, n)
                      \/ BeginSend(r, n)
  \/ ErpAccepts(r)
  \/ ErpRejects(r)
  \/ ErpUncertain(r)
  \/ RecordFailure(r)
  \/ MarkSent(r)
  \/ MarkNoRow(r)
  \/ CommitSend(r)
  \/ FailSend(r)
  \/ CrashRouter(r)
  \/ LoseRouteLock(r)

RouterTypeOK ==
  /\ routePc \in [Routers -> {"idle", "lookup", "loop", "http", "finish", "marked"}]
  /\ todo \in [Routers -> SUBSET PoIds]
  /\ current \in [Routers -> 0..MaxPo]
  /\ readStatus \in [Routers -> PoStatuses]
  /\ tries \in [Routers -> 0..RetryMax]
  /\ outcome \in [Routers -> {"pending", "success", "failed"}]
  /\ routeLock \in Routers \cup {NoSession}
  /\ routable \subseteq Suppliers
  /\ attempts \in [PoIds -> [success : Nat, failed : Nat]]
  /\ sends \in [PoIds -> Nat]
  /\ erp \subseteq PoIds

=============================================================================
