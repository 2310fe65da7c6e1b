--------------------------- MODULE SnapshotReads ---------------------------
(***************************************************************************)
(* The readers of the source adapter beside its loads: a client follows    *)
(* X-Next-Cursor from page to page.  For each page the handler reads the   *)
(* snapshot pointer, selects the rows of that load after the cursor, and   *)
(* ignores the load id the cursor carries.                                 *)
(***************************************************************************)
EXTENDS SourceLoads

CONSTANTS
  Readers,   \* clients that page through an entity
  PageSize   \* rows of a full page

ASSUME ReadsAssumption ==
  /\ IsFiniteSet(Masters)
  /\ PageSize \in Nat \ {0}

VARIABLES
  readPc,     \* "idle", "ask" (before a page), "select" (pointer read), "done"
  pageLoad,   \* the snapshot of the page, as the handler read it
  afterRow,   \* Cursor.AfterPK
  pages       \* rows received, each with its load

readVars == <<readPc, pageLoad, afterRow, pages>>
vars == <<loadVars, readVars>>

PageRowsDescending(r) ==
  LET rows == {e \in Masters : e > afterRow[r] /\ rowLoad[e] = pageLoad[r]}
  IN {e \in rows : Cardinality({d \in rows : d > e}) < PageSize}

PageRows(r) ==
  LET rows == {e \in Masters : e > afterRow[r] /\ rowLoad[e] = pageLoad[r]}
  IN {e \in rows : Cardinality({d \in rows : d < e}) < PageSize}

StartRead(r) ==
  /\ readPc[r] = "idle"
  /\ readPc' = [readPc EXCEPT ![r] = "ask"]
  /\ UNCHANGED <<pageLoad, afterRow, pages>>

(***************************************************************************)
(* SnapshotService.Current.  Without a snapshot the page is refused.       *)
(***************************************************************************)
NewestLoad == lastLoad
CurrentLoad == current

ReadPointer(r) ==
  /\ readPc[r] = "ask"
  /\ CurrentLoad # 0
  /\ pageLoad' = [pageLoad EXCEPT ![r] = CurrentLoad]
  /\ readPc' = [readPc EXCEPT ![r] = "select"]
  /\ UNCHANGED <<afterRow, pages>>

(***************************************************************************)
(* The end of a read: the client has its rows, or was refused.             *)
(***************************************************************************)
EndRead(r) ==
  /\ \/ readPc[r] = "done"
     \/ readPc[r] = "ask" /\ CurrentLoad = 0
  /\ readPc' = [readPc EXCEPT ![r] = "idle"]
  /\ pageLoad' = [pageLoad EXCEPT ![r] = 0]
  /\ afterRow' = [afterRow EXCEPT ![r] = 0]
  /\ pages' = [pages EXCEPT ![r] = {}]

(***************************************************************************)
(* SelectProducts and the like; a full page is followed by another.        *)
(***************************************************************************)
OverfullPage(r) == Cardinality(PageRows(r)) > PageSize
FullPage(r) == Cardinality(PageRows(r)) = PageSize

SelectPage(r) ==
  /\ readPc[r] = "select"
  /\ pages' = [pages EXCEPT ![r] = @ \cup {<<e, pageLoad[r]>> : e \in PageRows(r)}]
  /\ IF FullPage(r)
       THEN /\ afterRow' = [afterRow EXCEPT ![r] =
                 CHOOSE e \in PageRows(r) : \A d \in PageRows(r) : d <= e]
            /\ readPc' = [readPc EXCEPT ![r] = "ask"]
       ELSE /\ readPc' = [readPc EXCEPT ![r] = "done"]
            /\ UNCHANGED afterRow
  /\ UNCHANGED pageLoad

ReadsInit ==
  /\ readPc = [r \in Readers |-> "idle"]
  /\ pageLoad = [r \in Readers |-> 0]
  /\ afterRow = [r \in Readers |-> 0]
  /\ pages = [r \in Readers |-> {}]

ReadStep(r) == StartRead(r) \/ ReadPointer(r) \/ SelectPage(r) \/ EndRead(r)

Init == LoadsInit /\ ReadsInit

Next ==
  \/ /\ \/ TimePasses
        \/ \E t \in Ticks : TickStep(t)
     /\ UNCHANGED readVars
  \/ /\ \E r \in Readers : ReadStep(r)
     /\ UNCHANGED loadVars

Spec == Init /\ [][Next]_vars

(***************************************************************************)
(* Fairness.  The cron job ticks for ever, a load under way goes on, time  *)
(* passes; readers come and go as they like.                               *)
(***************************************************************************)
EndsByItself(t) ==
  /\ TickGoesOn(t) \/ FailTick(t) \/ FailLoad(t)
  /\ UNCHANGED faults

Fairness ==
  /\ WF_vars(TimePasses /\ UNCHANGED readVars)
  /\ \A t \in Ticks : WF_vars(StartTick(t) /\ UNCHANGED readVars)
  /\ \A t \in Ticks : WF_vars(EndsByItself(t) /\ UNCHANGED readVars)

FairSpec == Spec /\ Fairness

-----------------------------------------------------------------------------
(***************************************************************************)
(* Type invariant of the loads and their readers.                          *)
(***************************************************************************)
TypeOK ==
  /\ LoadsTypeOK
  /\ readPc \in [Readers -> {"idle", "ask", "select", "done"}]
  /\ pageLoad \in [Readers -> 0..MaxLoads]
  /\ \A r \in Readers : readPc[r] \in {"select", "done"} => pageLoad[r] # 0
  /\ afterRow \in [Readers -> Masters \cup {0}]
  /\ pages \in [Readers -> SUBSET (Masters \X LoadIds)]

(***************************************************************************)
(* The snapshot pointer only ever names committed loads, although any load *)
(* may be aborted as stale or fail while it is being published.            *)
(***************************************************************************)
SnapshotCommitted ==
  \A n \in {current, previous} : n # 0 => loadStatus[n] = "committed"

(***************************************************************************)
(* No reader ever receives a row of a load that is not committed: neither  *)
(* of a running one nor of one that failed or was aborted half way.        *)
(***************************************************************************)
PagesCommitted ==
  \A r \in Readers : \A p \in pages[r] : loadStatus[p[2]] = "committed"

(***************************************************************************)
(* A reader whose pages are all of one snapshot has missed no row that is  *)
(* still in it: paging neither skips a row nor stops early.                *)
(***************************************************************************)
PagesComplete ==
  \A r \in Readers :
    readPc[r] = "done" /\ (\A p \in pages[r] : p[2] = pageLoad[r])
      => \A e \in Masters : rowLoad[e] = pageLoad[r] => <<e, pageLoad[r]>> \in pages[r]

(***************************************************************************)
(* A load ends once: a committed, failed or aborted load never changes its *)
(* status again, whichever of the reaper and the loader comes first.       *)
(***************************************************************************)
LoadFinal ==
  [][\A n \in LoadIds :
       loadStatus[n] \in {"committed", "failed", "aborted"}
         => loadStatus'[n] = loadStatus[n]]_vars

(***************************************************************************)
(* The snapshot never goes back to an older load, unless a session lost    *)
(* the advisory lock and went on loading beside the next one.              *)
(***************************************************************************)
SnapshotForward ==
  [][current' >= current \/ lockLost]_vars

(***************************************************************************)
(* Every load ends: one whose process crashed, or whose final status could *)
(* not be written, is aborted by a later tick.                             *)
(***************************************************************************)
LoadsEnd ==
  \A n \in LoadIds : loadStatus[n] = "running" ~> loadStatus[n] # "running"

-----------------------------------------------------------------------------
(***************************************************************************)
(* Statements of the repository that the code does not keep.               *)
(***************************************************************************)

(***************************************************************************)
(* docs/features/data-export/spec-2026-05-05.md:1224: a reader beside a    *)
(* running load gets the previous snapshot.  A row then stays in the       *)
(* snapshot for as long as the pointer does not move.                      *)
(***************************************************************************)
SnapshotStaysWhole ==
  [][\A e \in Masters :
       current # 0 /\ rowLoad[e] = current /\ current' = current
         => rowLoad'[e] = current]_vars

=============================================================================
