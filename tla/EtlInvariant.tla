---- MODULE EtlInvariant ----
(* The inductive invariant of EtlRuns: what ties the row of a run, its stage, the
   lock of TRUNCATE and the rows of the marts together. *)
EXTENDS EtlRuns

Visible == {r \in Runs : committedAt[r] # 0}
Stamped == {r \in Runs : stamp[r] # 0}

\* A run is running, and nobody sees it, until it commits or fails.
RowsFollowStages ==
    \A r \in Runs :
        /\ kind[r] = "none" <=> stage[r] = "none"
        /\ kind[r] = "none" => runStatus[r] = "none"
        /\ stage[r] \in Live \ {"failing"} =>
              runStatus[r] = "running" /\ r \notin Visible
        /\ runStatus[r] = "committed" => r \in Visible
        /\ r \in Visible => runStatus[r] \in {"committed", "failed"}

\* No two builds have one stamp, and the next one is later than all of them.
StampsInOrder ==
    \A r \in Runs :
        /\ stage[r] = "built" => r \in Stamped
        /\ r \in Stamped => stage[r] \in {"built", "failing", "done", "lost"}
        /\ stamp[r] <= Cardinality(Stamped)
        /\ committedAt[r] \in {0, stamp[r]}
        /\ \A s \in Stamped : stamp[r] = stamp[s] => r = s

\* TRUNCATE keeps every other full run out between its build and its commit, so
\* the run that is about to commit was built after all that readers see.
LockOrders ==
    \A r \in Runs :
        /\ martLock = r <=> kind[r] = "full" /\ stage[r] = "built"
        /\ martLock = r =>
              \A s \in Visible : kind[s] = "full" => committedAt[s] < stamp[r]

\* A cell has rows of a visible run that wrote it; the rebuilt marts have those
\* of the last full run, and so has every day it saw.
RowsOfTheLast ==
    LET last == martRun[Rebuilt]
    IN  /\ \A c \in Cells : martRun[c] # 0 =>
              martRun[c] \in Visible /\ c \in Written(martRun[c])
        /\ \A r \in Visible : kind[r] = "full" =>
              last # 0 /\ committedAt[r] <= committedAt[last]
        /\ last # 0 => \A c \in Written(last) : martRun[c] = last

EtlInv ==
    /\ EtlTypeOK
    /\ RowsFollowStages
    /\ StampsInOrder
    /\ LockOrders
    /\ RowsOfTheLast
====
