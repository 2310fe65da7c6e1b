----------------------------- MODULE OrderAdmin -----------------------------
(***************************************************************************)
(* The two operator requests on a purchase order:                          *)
(*   POST /v1/orders/purchase-orders/:id/cancel      (Service.Cancel)      *)
(*   POST /v1/orders/purchase-orders/:id/regenerate  (Service.Regenerate)  *)
(*                                                                         *)
(* Both read the order through the pool, outside their transaction, decide *)
(* on that reading, and only then update the row.                          *)
(***************************************************************************)
EXTENDS PoStore

CONSTANT Admins    \* concurrent cancel and regenerate requests

ASSUME AdminAssumption == NoSession \notin Admins

VARIABLES
  adminPc,    \* "idle", "update", "locked" (row cancelled in the open
              \* transaction), "rebuilt" (replacement number drawn)
  request,    \* "cancel", "regenerate", or "none" while idle
  target,     \* the order the request names
  seen,       \* its status as GetPOByID returned it
  newNumber   \* nextval for the replacement, 0 before

adminVars == <<adminPc, request, target, seen, newNumber>>

Allowed(kind, s) == IF kind = "cancel" THEN IsCancellable(s)
                                       ELSE IsRegeneratable(s)

(***************************************************************************)
(* GetPOByID and the status check.  A refused request changes nothing, and *)
(* no replacement is asked for once the numbers up to MaxPo are drawn.     *)
(***************************************************************************)
ReadOrder(a, kind, n) ==
  /\ adminPc[a] = "idle"
  /\ Exists(n)
  /\ Allowed(kind, poStatus[n])
  /\ kind = "regenerate" => seq < MaxPo
  /\ adminPc' = [adminPc EXCEPT ![a] = "update"]
  /\ request' = [request EXCEPT ![a] = kind]
  /\ target' = [target EXCEPT ![a] = n]
  /\ seen' = [seen EXCEPT ![a] = poStatus[n]]
  /\ UNCHANGED <<storeVars, newNumber>>

EndRequest(a) ==
  /\ adminPc' = [adminPc EXCEPT ![a] = "idle"]
  /\ request' = [request EXCEPT ![a] = "none"]
  /\ target' = [target EXCEPT ![a] = 0]
  /\ seen' = [seen EXCEPT ![a] = "none"]
  /\ newNumber' = [newNumber EXCEPT ![a] = 0]
  /\ ReleaseRows(a)

(***************************************************************************)
(* CancelPOTx: the UPDATE waits for the row, re-reads its status, and      *)
(* accepts the statuses of a cancellation whatever the request is.         *)
(***************************************************************************)
CancelRow(a) ==
  /\ adminPc[a] = "update"
  /\ poLock[target[a]] = NoSession
  /\ IsCancellable(poStatus[target[a]])
  /\ poLock' = [poLock EXCEPT ![target[a]] = a]
  /\ adminPc' = [adminPc EXCEPT ![a] = "locked"]
  /\ UNCHANGED <<planStatus, seq, poTables, faults>>
  /\ UNCHANGED <<request, target, seen, newNumber>>

CancelNoRow(a) ==
  /\ adminPc[a] = "update"
  /\ poLock[target[a]] = NoSession
  /\ ~IsCancellable(poStatus[target[a]])
  /\ EndRequest(a)
  /\ UNCHANGED <<planStatus, seq, poTables, faults>>

CommitCancel(a) ==
  /\ adminPc[a] = "locked"
  /\ request[a] = "cancel"
  /\ WriteOrders({}, poPlan, {target[a]}, seen[a])
  /\ EndRequest(a)
  /\ UNCHANGED <<planStatus, seq, faults>>

(***************************************************************************)
(* rebuildFromExisting: the lines of the old order and the masters are     *)
(* read, a number is drawn and the replacement inserted.                   *)
(***************************************************************************)
Rebuild(a) ==
  /\ adminPc[a] = "locked"
  /\ request[a] = "regenerate"
  /\ seq < MaxPo
  /\ seq' = seq + 1
  /\ newNumber' = [newNumber EXCEPT ![a] = seq + 1]
  /\ adminPc' = [adminPc EXCEPT ![a] = "rebuilt"]
  /\ UNCHANGED <<planStatus, poTables, poLock, faults>>
  /\ UNCHANGED <<request, target, seen>>

CommitRegenerateKeepsOld(a) ==
  /\ adminPc[a] = "rebuilt"
  /\ WriteOrders({newNumber[a]}, [n \in PoIds |-> poPlan[target[a]]], {}, seen[a])
  /\ EndRequest(a)
  /\ UNCHANGED <<planStatus, seq, faults>>

CommitRegenerate(a) ==
  /\ adminPc[a] = "rebuilt"
  /\ WriteOrders({newNumber[a]}, [n \in PoIds |-> poPlan[target[a]]],
                 {target[a]}, seen[a])
  /\ EndRequest(a)
  /\ UNCHANGED <<planStatus, seq, faults>>

(***************************************************************************)
(* A failed statement, an expired request context or a crash: the deferred *)
(* Rollback, or PostgreSQL itself, undoes the transaction.  (At the bound  *)
(* MaxPo the draw of the next number fails.)                               *)
(***************************************************************************)
AbortRequest(a) ==
  /\ adminPc[a] # "idle"
  /\ \/ Fault
     \/ /\ adminPc[a] = "locked"
        /\ request[a] = "regenerate"
        /\ seq = MaxPo
        /\ UNCHANGED faults
  /\ EndRequest(a)
  /\ UNCHANGED <<planStatus, seq, poTables>>

AdminInit ==
  /\ adminPc = [a \in Admins |-> "idle"]
  /\ request = [a \in Admins |-> "none"]
  /\ target = [a \in Admins |-> 0]
  /\ seen = [a \in Admins |-> "none"]
  /\ newNumber = [a \in Admins |-> 0]

AdminStep(a) ==
  \/ \E n \in PoIds, kind \in {"cancel", "regenerate"} : ReadOrder(a, kind, n)
  \/ CancelRow(a)
  \/ CancelNoRow(a)
  \/ CommitCancel(a)
  \/ Rebuild(a)
  \/ CommitRegenerate(a)
  \/ AbortRequest(a)

AdminTypeOK ==
  /\ adminPc \in [Admins -> {"idle", "update", "locked", "rebuilt"}]
  /\ request \in [Admins -> {"none", "cancel", "regenerate"}]
  /\ target \in [Admins -> 0..MaxPo]
  /\ seen \in [Admins -> PoStatuses]
  /\ newNumber \in [Admins -> 0..MaxPo]

=============================================================================
