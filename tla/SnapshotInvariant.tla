------------------------- MODULE SnapshotInvariant -------------------------
(***************************************************************************)
(* The inductive invariant of SnapshotReads.                               *)
(***************************************************************************)
EXTENDS SnapshotReads

(***************************************************************************)
(* Loads are numbered in the order of their rows in loads, and nobody      *)
(* names a load that has none.                                             *)
(***************************************************************************)
LoadsNumbered ==
  /\ \A n \in LoadIds : loadStatus[n] = "none" <=> n > lastLoad
  /\ \A e \in Source : rowLoad[e] <= lastLoad
  /\ \A t \in Ticks : tickLoad[t] <= lastLoad

(***************************************************************************)
(* A session runs a load of its own, which nobody else publishes.          *)
(***************************************************************************)
LoadersOwn ==
  /\ \A t \in Ticks : tickPc[t] \in {"copy", "publish", "fail"} <=> tickLoad[t] # 0
  /\ \A t \in Ticks :
       tickPc[t] \in {"copy", "publish"} => loadStatus[tickLoad[t]] # "committed"
  /\ \A s, t \in Ticks : tickLoad[s] = tickLoad[t] /\ tickLoad[s] # 0 => s = t

(***************************************************************************)
(* As long as no session lost the lock, only its holder is in a tick, and  *)
(* its load is the newest.                                                 *)
(***************************************************************************)
LockExclusive ==
  ~lockLost => \A t \in Ticks :
    /\ tickPc[t] # "idle" => loadLock = t
    /\ tickLoad[t] # 0 => current <= tickLoad[t]

(***************************************************************************)
(* What a reader has so far is of published snapshots and leaves no row    *)
(* out below its cursor.                                                   *)
(***************************************************************************)
ReadersPublished ==
  \A r \in Readers : pageLoad[r] # 0 => loadStatus[pageLoad[r]] = "committed"

AllOf(r, n) == \A p \in pages[r] : p[2] = n

PagesSoFar ==
  \A r \in Readers :
    /\ pages[r] = {} => afterRow[r] = 0
    /\ \A n \in LoadIds : AllOf(r, n) =>
         \A e \in Masters : e <= afterRow[r] /\ rowLoad[e] = n => <<e, n>> \in pages[r]

IndInv ==
  /\ TypeOK
  /\ LoadsNumbered
  /\ LoadersOwn
  /\ LockExclusive
  /\ SnapshotCommitted
  /\ ReadersPublished
  /\ PagesCommitted
  /\ PagesSoFar
  /\ PagesComplete

=============================================================================
