---- MODULE MartReads ----
(* The readers of the marts (GET /v1/marts/:name) beside the runs that flip
   them: a process-wide cache of versions, and one client that pages through a
   mart with the cursor it was given. A page holds one row. *)
EXTENDS EtlRuns

Marts == {"mart_calculation_input", "mart_demand_history"}

VARIABLES
    cache,   \* the version the cache holds for a mart, 0 for none
    reader   \* the client and the request it has under way

readVars == <<cache, reader>>
vars == <<etlVars, readVars>>


\* The rows of a mart and the cell each of them is stored in.
RowsOf(mart) == IF mart = "mart_demand_history" THEN Days ELSE 1..2
CellOf(mart, row) == IF mart = "mart_demand_history" THEN row ELSE Rebuilt

\* The rows a run wrote into a mart.
RowsWritten(mart, r) == {row \in RowsOf(mart) : CellOf(mart, row) \in Written(r)}

\* One key too far: a cursor that was meant to be inclusive.
PageAfterSkipping(mart, r, last) ==
    {row \in RowsOf(mart) : martRun[CellOf(mart, row)] = r /\ row > last + 1}

\* The page after a key: WHERE etl_run_id = $1 AND key > $2 ORDER BY key.
PageAfter(mart, r, last) ==
    {row \in RowsOf(mart) : martRun[CellOf(mart, row)] = r /\ row > last}

Min1(rows) == CHOOSE row \in rows : \A other \in rows : row <= other

NewRead(mart) ==
    [stage |-> "asked", mart |-> mart, cursor |-> 0, version |-> 0,
     last |-> 0, got |-> {}]

\* A first request, without a cursor.
AskMart(mart) ==
    /\ reader.stage \in {"idle", "end", "failed"}
    /\ reader' = NewRead(mart)
    /\ UNCHANGED <<etlVars, cache>>

\* The run of the cursor wins over the version that was looked up.
VersionFor(v) == IF reader.cursor = 0 THEN v ELSE reader.cursor

VersionFromCache ==
    /\ reader.stage = "asked"
    /\ cache[reader.mart] # 0
    /\ reader' = [reader EXCEPT !.stage = "select",
                                !.version = VersionFor(cache[reader.mart])]
    /\ UNCHANGED <<etlVars, cache>>

\* A miss asks the database; the answer is cached in a step of its own.
VersionFromStore ==
    /\ reader.stage = "asked"
    /\ cache[reader.mart] = 0
    /\ Current # 0
    /\ reader' = [reader EXCEPT !.stage = "fetched", !.version = Current]
    /\ UNCHANGED <<etlVars, cache>>

CacheVersion ==
    /\ reader.stage = "fetched"
    /\ cache' = [cache EXCEPT ![reader.mart] = reader.version]
    /\ reader' = [reader EXCEPT !.stage = "select",
                                !.version = VersionFor(reader.version)]
    /\ UNCHANGED etlVars

\* No committed run: 503.
NoVersion ==
    /\ reader.stage = "asked"
    /\ cache[reader.mart] = 0
    /\ Current = 0
    /\ reader' = [reader EXCEPT !.stage = "failed"]
    /\ UNCHANGED <<etlVars, cache>>

\* The mart as the last commit left it: a truncated mart makes the reader wait.
Readable(mart) == mart = "mart_calculation_input" => martLock = 0

SelectRow ==
    /\ reader.stage = "select"
    /\ Readable(reader.mart)
    /\ LET rows == PageAfter(reader.mart, reader.version, reader.last)
       IN  reader' =
             IF rows = {} THEN [reader EXCEPT !.stage = "end"]
             ELSE [reader EXCEPT !.stage = "page",
                                 !.last = Min1(rows),
                                 !.got = @ \cup {Min1(rows)},
                                 !.cursor = reader.version]
    /\ UNCHANGED <<etlVars, cache>>

\* A failed query throws the cached version away.
SelectFails ==
    /\ reader.stage = "select"
    /\ faults < MaxFaults
    /\ faults' = faults + 1
    /\ cache' = [cache EXCEPT ![reader.mart] = 0]
    /\ reader' = [reader EXCEPT !.stage = "failed"]
    /\ UNCHANGED <<sourceLoad, runVars, martLock, martRun>>

\* A full page has a cursor, and the client comes back with it.
AskNextPage ==
    /\ reader.stage = "page"
    /\ reader' = [reader EXCEPT !.stage = "asked"]
    /\ UNCHANGED <<etlVars, cache>>

\* A lifetime that starts anew with every reader of the mart.
ExpireUnread(mart) ==
    /\ cache[mart] # 0
    /\ reader.mart # mart
    /\ cache' = [cache EXCEPT ![mart] = 0]
    /\ UNCHANGED <<etlVars, reader>>

\* Sixty seconds after it was put, an entry is gone.
Expire(mart) ==
    /\ cache[mart] # 0
    /\ cache' = [cache EXCEPT ![mart] = 0]
    /\ UNCHANGED <<etlVars, reader>>

ReadsInit ==
    /\ cache = [mart \in Marts |-> 0]
    /\ reader = [NewRead("mart_demand_history") EXCEPT !.stage = "idle"]

ServeStep ==
    \/ VersionFromCache
    \/ VersionFromStore
    \/ CacheVersion
    \/ NoVersion
    \/ SelectRow
    \/ SelectFails

ReadStep ==
    \/ \E mart \in Marts : AskMart(mart) \/ Expire(mart)
    \/ ServeStep
    \/ AskNextPage

Init == EtlInit /\ ReadsInit
Next == (EtlStep /\ UNCHANGED readVars) \/ ReadStep

\* Goroutines run, requests are served, entries of the cache expire. Nobody
\* has to publish a load, to start a run or to ask for a page.
Fairness ==
    /\ \A r \in Runs : WF_vars(RunGoesOn(r) /\ UNCHANGED readVars)
    /\ WF_vars(ServeStep)
    /\ \A mart \in Marts : WF_vars(Expire(mart))

Spec == Init /\ [][Next]_vars /\ Fairness

---------------------------------------------------------------------------
(* A version the cache or a request holds was visible once: no reader is ever
   pointed to a run whose transaction did not commit. *)
ServedVersionsCommitted ==
    \A v \in {cache[mart] : mart \in Marts} \cup {reader.version, reader.cursor} :
        v # 0 => committedAt[v] # 0

(* A read that came to its end got every row its run wrote into the mart,
   unless a later run has taken some of them over. *)
ReadComplete ==
    LET written == RowsWritten(reader.mart, reader.version)
    IN  reader.stage = "end"
          /\ (\A row \in written :
                martRun[CellOf(reader.mart, row)] = reader.version)
        => reader.got = written

(* A cached version never outlives its successor for ever: again and again the
   cache of every mart holds the current version or nothing. *)
CacheCatchesUp == \A mart \in Marts : []<>(cache[mart] \in {0, Current})
====
