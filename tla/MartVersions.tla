---- MODULE MartVersions ----
(* What the ETL promises to whoever reads the marts: the tables move from run
   to run in single steps, and the version a reader is told is a run whose
   rows became visible in such a step. *)
EXTENDS Naturals

CONSTANTS MaxRuns, MaxLoads

Runs == 1..MaxRuns
Days == 1..MaxLoads
\* 0 stands for the marts a full run rebuilds, a day for the rows of that day.
Rebuilt == 0
Cells == Days \cup {Rebuilt}

VARIABLES
    table,    \* the run whose rows a cell holds, 0 for none
    current,  \* the run the readers are told, 0 for none
    flipped   \* the runs whose transaction has committed

Init ==
    /\ table = [c \in Cells |-> 0]
    /\ current = 0
    /\ flipped = {}

\* A run becomes visible, once: everything it rebuilt and some days, or
\* (the refresh of one mart) none of them.
Flip(r) ==
    /\ r \notin flipped
    /\ flipped' = flipped \cup {r}
    /\ \E cells \in {{}} \cup {days \cup {Rebuilt} : days \in SUBSET Days} :
          table' = [c \in Cells |-> IF c \in cells THEN r ELSE table[c]]
    /\ current' \in {current, r}

\* A run that is visible is taken out of the versions again.
Disown ==
    /\ current' \in flipped \cup {0}
    /\ UNCHANGED <<table, flipped>>

Next == Disown \/ \E r \in Runs : Flip(r)
Spec == Init /\ [][Next]_<<table, current, flipped>>
====
