--------------------------- MODULE OrderInvariant ---------------------------
(***************************************************************************)
(* The inductive invariant of OrderFulfilment: what the sessions know      *)
(* between two statements about the tables other sessions write to.        *)
(***************************************************************************)
EXTENDS OrderFulfilment

(***************************************************************************)
(* The typing the actions rely on: a session in the middle of its work     *)
(* names an order.                                                         *)
(***************************************************************************)
Sending(r) == routePc[r] \in {"http", "finish", "marked"}

AdminTyping ==
  /\ AdminTypeOK
  /\ \A a \in Admins : adminPc[a] # "idle" => target[a] \in PoIds

RouterTyping ==
  /\ RouterTypeOK
  /\ \A r \in Routers : Sending(r) => current[r] \in PoIds

LockTyping == poLock \in [PoIds -> Admins \cup Routers \cup {NoSession}]

Typing == StoreTypeOK /\ BuilderTypeOK /\ AdminTyping /\ RouterTyping /\ LockTyping

(***************************************************************************)
(* Numbers are drawn once: a number above seq is in nobody's hands, one    *)
(* that is in an open transaction has no committed row and is in no other  *)
(* transaction.                                                            *)
(***************************************************************************)
Drawn(b, n) == inserted[b][n] # NoPlan

NumbersUnique ==
  /\ \A n \in PoIds : Exists(n) => n <= seq
  /\ \A b \in Builders, n \in PoIds : Drawn(b, n) => n <= seq /\ ~Exists(n)
  /\ \A b, c \in Builders, n \in PoIds : Drawn(b, n) /\ Drawn(c, n) => b = c
  /\ \A a \in Admins : adminPc[a] = "rebuilt" =>
       /\ newNumber[a] \in PoIds
       /\ newNumber[a] <= seq
       /\ ~Exists(newNumber[a])
       /\ \A b \in Builders : ~Drawn(b, newNumber[a])
  /\ \A a, c \in Admins :
       adminPc[a] = "rebuilt" /\ adminPc[c] = "rebuilt" /\ newNumber[a] = newNumber[c]
         => a = c

(***************************************************************************)
(* A claimed plan stays approved until its transaction ends, and each      *)
(* order of the transaction is for a claimed plan of its own that the loop *)
(* is done with.                                                           *)
(***************************************************************************)
ClaimsHold ==
  /\ \A b, c \in Builders, p \in Plans : p \in claimed[b] /\ p \in claimed[c] => b = c
  /\ \A b \in Builders : \A p \in claimed[b] : planStatus[p] = "approved"
  /\ \A b \in Builders : batch[b] \subseteq claimed[b]
  /\ \A b \in Builders : buildPc[b] = "idle" => claimed[b] = {}
  /\ \A b \in Builders, n \in PoIds :
       Drawn(b, n) => inserted[b][n] \in claimed[b] \ batch[b]
  /\ \A b \in Builders, m, n \in PoIds :
       Drawn(b, n) /\ inserted[b][m] = inserted[b][n] => m = n

(***************************************************************************)
(* Whoever has updated a row holds its lock, and the row is still as the   *)
(* UPDATE found it.                                                        *)
(***************************************************************************)
RowsHeld ==
  /\ \A a \in Admins : adminPc[a] # "idle" => Exists(target[a])
  /\ \A a \in Admins : adminPc[a] \in {"locked", "rebuilt"} =>
       /\ poLock[target[a]] = a
       /\ poStatus[target[a]] \in {"ready_to_send", "sent"}
  /\ \A r \in Routers : Sending(r) => Exists(current[r])
  /\ \A r \in Routers : routePc[r] = "marked" =>
       /\ poLock[current[r]] = r
       /\ poStatus[current[r]] = "ready_to_send"
  /\ \A r \in Routers : todo[r] \subseteq {n \in PoIds : Exists(n)}

(***************************************************************************)
(* The attempt rows, the status and the ERP move together.                 *)
(***************************************************************************)
AttemptsAgree ==
  /\ \A r \in Routers :
       /\ routePc[r] = "finish" /\ outcome[r] = "success" => current[r] \in erp
       /\ routePc[r] = "marked" => current[r] \in erp
  /\ \A n \in PoIds :
       /\ poStatus[n] \in {"none", "ready_to_send", "sent", "cancelled"}
       /\ attempts[n].success <= 1
       /\ poStatus[n] \in {"none", "ready_to_send"} => attempts[n].success = 0
       /\ poStatus[n] = "sent" => attempts[n].success = 1
       /\ attempts[n].success = 1 => n \in erp

(***************************************************************************)
(* Who has paid for the calls of an order.  While it is ready, every call  *)
(* was followed by a fault or belongs to a session that is still sending.  *)
(* Afterwards no session takes the order up any more, and each has called  *)
(* once at most without a fault.                                           *)
(***************************************************************************)
Unpaid(n) ==
  {r \in Routers : Sending(r) /\ current[r] = n /\ outcome[r] # "failed"}
Due(r, n) ==
  n \in todo[r] /\ (routePc[r] = "lookup" => readStatus[r] = "ready_to_send")
NotDue(n) == {r \in Routers : ~Due(r, n)}

SendsPaid ==
  /\ \A r \in Routers : Sending(r) => current[r] \notin todo[r]
  /\ \A n \in PoIds :
       /\ ~Exists(n) => sends[n] = 0
       /\ poStatus[n] = "ready_to_send" => sends[n] <= faults + Cardinality(Unpaid(n))
       /\ poStatus[n] \notin {"none", "ready_to_send"} =>
            sends[n] <= faults + Cardinality(NotDue(n))

(***************************************************************************)
(* What is proved of every reachable state.                                *)
(***************************************************************************)
IndInv ==
  /\ Typing
  /\ NumbersUnique
  /\ ClaimsHold
  /\ ConvertedIffOrdered
  /\ OneLiveOrderPerPlan
  /\ RowsHeld
  /\ AttemptsAgree
  /\ CancelAuditedOnce
  /\ SendsPaid

=============================================================================
