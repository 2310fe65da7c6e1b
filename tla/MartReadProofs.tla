---- MODULE MartReadProofs ----
(* Proofs about MartReads, for any number of runs, loads and faults: readers are
   pointed to visible runs only, and a read that ends has all rows of its run.
   The runs enter by EtlInv and by what VisibleSettled says of their steps. *)
EXTENDS MartReads, EtlProofs

---------------------------------------------------------------------------
(* The invariant of the cache and of a read. *)
ReadTypeOK ==
    /\ cache \in [Marts -> Runs \cup {0}]
    /\ reader \in [stage : {"idle", "asked", "fetched", "select", "page", "end", "failed"},
                   mart : Marts, cursor : Runs \cup {0}, version : Runs \cup {0},
                   last : Nat, got : SUBSET Nat]

\* The cache, the request and the cursor name visible runs, and a query that has
\* begun is for the run of the cursor, when there is one.
VersionsSeen ==
    /\ \A mart \in Marts : cache[mart] # 0 => cache[mart] \in Visible
    /\ reader.version # 0 => reader.version \in Visible
    /\ reader.cursor # 0 => reader.cursor \in Visible
    /\ reader.stage \in {"fetched", "select", "page", "end"} => reader.version # 0
    /\ reader.stage \in {"select", "end"} => reader.cursor \in {0, reader.version}
    /\ reader.stage = "page" => reader.cursor = reader.version

\* The rows got so far, as the pages of run v left them.
GotFrom(v) ==
    /\ reader.got \in SUBSET RowsWritten(reader.mart, v)
    /\ \A row \in reader.got : row <= reader.last
    /\ \A row \in RowsWritten(reader.mart, v) :
          martRun[CellOf(reader.mart, row)] = v /\ row <= reader.last => row \in reader.got

\* At the end no row of the run is left behind.
NoneLeft ==
    /\ reader.got \in SUBSET RowsWritten(reader.mart, reader.version)
    /\ \A row \in RowsWritten(reader.mart, reader.version) :
          martRun[CellOf(reader.mart, row)] = reader.version => row \in reader.got

PagesInOrder ==
    /\ reader.cursor = 0 => reader.last = 0 /\ reader.got = {}
    /\ reader.cursor # 0 => GotFrom(reader.cursor)
    /\ reader.stage = "end" => NoneLeft

ReadInv == ReadTypeOK /\ VersionsSeen /\ PagesInOrder

LEMMA CellsOfMarts ==
  ASSUME NEW mart \in Marts, NEW row \in RowsOf(mart)
  PROVE  row \in Nat \ {0} /\ CellOf(mart, row) \in Cells
BY ConstantsAssumption DEF Marts, RowsOf, CellOf, Cells, Days

---------------------------------------------------------------------------
(* What readers need of the runs: a visible run stays visible, what it wrote
   is settled, and no cell comes back to it. *)
SettledRun(v) ==
    /\ v \in Visible'
    /\ Written(v)' = Written(v)
    /\ \A c \in Cells : martRun'[c] = v => martRun[c] = v

LEMMA VisibleSettled ==
  ASSUME EtlInv, [EtlStep]_etlVars, NEW v \in Visible
  PROVE  SettledRun(v)
<1> USE DEF EtlInv
<1>0. /\ v \in Runs /\ committedAt[v] # 0
      /\ \A r \in Runs : stage[r] \in Live \ {"failing"} => v # r
      /\ kind[v] # "none"
  BY DEF Visible, RowsFollowStages
<1>1. ASSUME UNCHANGED <<martRun, committedAt>>, kind'[v] = kind[v], staged'[v] = staged[v]
      PROVE  SettledRun(v)
  BY <1>1 DEF SettledRun, Visible, Written, Window
<1>2. CASE UNCHANGED etlVars \/ PublishLoad
  BY <1>1, <1>2 DEF etlVars, PublishLoad, runVars
<1>3. ASSUME NEW r \in Runs, RunStep(r)
      PROVE  SettledRun(v)
  <2>1. CASE StartRun(r) \/ RetryRun(r) \/ StartLost(r) \/ StartRefresh(r)
    <3>1. v # r /\ UNCHANGED <<martRun, committedAt, staged>>
      BY <1>0, <2>1 DEF StartRun, RetryRun, StartLost, StartRefresh, Insert, FirstFree
    <3>2. kind'[v] = kind[v]
      BY <1>0, <2>1, <3>1
         DEF StartRun, RetryRun, StartLost, StartRefresh, Insert, EtlTypeOK
    <3> QED
      BY <1>1, <3>1, <3>2
  <2>2. CASE ExtractMasters(r) \/ ExtractFacts(r)
    <3>1. v # r /\ UNCHANGED <<martRun, committedAt, kind>>
      BY <1>0, <2>2 DEF ExtractMasters, ExtractFacts, Extract, Advance, Live
    <3>2. staged'[v] = staged[v]
      BY <1>0, <2>2, <3>1 DEF ExtractMasters, ExtractFacts, Extract, EtlTypeOK
    <3> QED
      BY <1>1, <3>1, <3>2
  <2>3. CASE ReadSnapshot(r) \/ BuildMarts(r) \/ BuildRefresh(r) \/ FailRun(r) \/ LoseRun(r) \/ MarkFailed(r)
    BY <1>1, <2>3 DEF ReadSnapshot, BuildMarts, BuildRefresh, FailRun, LoseRun, MarkFailed
  <2>4. CASE Apply(r) \/ ApplyUnanswered(r)
    <3>1. /\ v # r
          /\ martRun' = [c \in Cells |-> IF c \in Written(r) THEN r ELSE martRun[c]]
          /\ committedAt' = [committedAt EXCEPT ![r] = stamp[r]]
          /\ UNCHANGED <<kind, staged>>
      BY <1>0, <2>4 DEF Apply, ApplyUnanswered, CommitRows, Live
    <3>2. v \in Visible'
      BY <1>0, <3>1 DEF EtlTypeOK, Visible
    <3>3. Written(v)' = Written(v)
      BY <3>1 DEF Written, Window
    <3> QED
      BY <3>1, <3>2, <3>3 DEF SettledRun
  <2> QED
    BY <1>3, <2>1, <2>2, <2>3, <2>4 DEF RunStep, RunGoesOn
<1> QED
  BY <1>2, <1>3 DEF EtlStep

LEMMA RowsSettled ==
  ASSUME NEW v \in Visible, SettledRun(v), NEW mart
  PROVE  RowsWritten(mart, v)' = RowsWritten(mart, v)
BY DEF RowsWritten, SettledRun

LEMMA EtlKeepsReads ==
  ASSUME EtlInv, ReadInv, [EtlStep]_etlVars, UNCHANGED readVars
  PROVE  ReadInv'
<1> USE DEF ReadInv, readVars
<1>1. \A v \in Visible : SettledRun(v) /\ \A mart : RowsWritten(mart, v)' = RowsWritten(mart, v)
  BY VisibleSettled, RowsSettled
<1>2. ReadTypeOK'
  BY DEF ReadTypeOK
<1>3. VersionsSeen'
  BY <1>1 DEF VersionsSeen, SettledRun
<1>4. reader.mart \in Marts /\ \A v, row : row \in RowsWritten(reader.mart, v) => CellOf(reader.mart, row) \in Cells
  BY CellsOfMarts DEF ReadTypeOK, RowsWritten
<1>5. reader.cursor # 0 => GotFrom(reader.cursor)'
  <2>1. ASSUME reader.cursor # 0 PROVE GotFrom(reader.cursor)'
    <3>1. reader.cursor \in Visible /\ GotFrom(reader.cursor)
      BY <2>1 DEF VersionsSeen, PagesInOrder
    <3> QED
      BY <1>1, <1>4, <3>1 DEF GotFrom, SettledRun
  <2> QED
    BY <2>1
<1>6. reader.stage = "end" => NoneLeft'
  <2>1. ASSUME reader.stage = "end" PROVE NoneLeft'
    <3>1. reader.version \in Visible /\ NoneLeft
      BY <2>1 DEF VersionsSeen, PagesInOrder
    <3> QED
      BY <1>1, <1>4, <3>1 DEF NoneLeft, SettledRun
  <2> QED
    BY <2>1
<1>7. PagesInOrder'
  BY <1>5, <1>6 DEF PagesInOrder
<1> QED
  BY <1>2, <1>3, <1>7

---------------------------------------------------------------------------
(* The steps of the reader and of the cache. *)
LEMMA SmallestRow ==
  ASSUME NEW rows \in SUBSET Nat, rows # {}
  PROVE  Min1(rows) \in rows /\ \A row \in rows : Min1(rows) <= row
BY LeastNumber DEF Min1

\* A step that asks nothing of the marts: the same rows, another stage or
\* version.
LEMMA SameRows ==
  ASSUME ReadInv, UNCHANGED <<martRun, committedAt, kind, staged>>,
         NEW there \in {"asked", "fetched", "select", "failed"}, NEW v \in Runs \cup {0},
         reader' = [reader EXCEPT !.stage = there, !.version = v],
         v # 0 => v \in Visible,
         there \in {"fetched", "select"} => v # 0,
         there = "select" => reader.cursor \in {0, v},
         cache' \in [Marts -> Runs \cup {0}],
         \A mart \in Marts : cache'[mart] # 0 => cache'[mart] \in Visible
  PROVE  ReadInv'
<1> USE DEF ReadInv
<1>1. /\ reader'.stage = there /\ reader'.version = v
      /\ reader'.mart = reader.mart /\ reader'.cursor = reader.cursor
      /\ reader'.last = reader.last /\ reader'.got = reader.got
  BY DEF ReadTypeOK
<1>2. ReadTypeOK'
  BY DEF ReadTypeOK
<1>3. Visible' = Visible /\ \A r : Written(r)' = Written(r)
  BY DEF Visible, Written, Window
<1>4. VersionsSeen'
  BY <1>1, <1>3 DEF VersionsSeen
<1>5. PagesInOrder'
  BY <1>1, <1>3 DEF PagesInOrder, GotFrom, RowsWritten
<1> QED
  BY <1>2, <1>4, <1>5

LEMMA SelectKeepsReads ==
  ASSUME EtlInv, ReadInv, SelectRow
  PROVE  ReadInv'
<1> USE DEF ReadInv
<1> DEFINE mart == reader.mart
           v == reader.version
           rows == PageAfter(mart, v, reader.last)
           all == RowsWritten(mart, v)
<1>0. /\ mart \in Marts /\ v \in Visible /\ v # 0 /\ v \in Runs
      /\ reader.cursor \in {0, v} /\ reader.last \in Nat /\ reader.got \in SUBSET Nat
  BY DEF SelectRow, VersionsSeen, ReadTypeOK, Visible
<1>1. rows \in SUBSET all /\ all \in SUBSET (Nat \ {0})
  <2>1. ASSUME NEW row \in rows PROVE row \in all
    <3>1. row \in RowsOf(mart) /\ martRun[CellOf(mart, row)] = v /\ CellOf(mart, row) \in Cells
      BY <1>0, CellsOfMarts DEF PageAfter
    <3>2. CellOf(mart, row) \in Written(v)
      BY <1>0, <3>1 DEF EtlInv, RowsOfTheLast
    <3> QED
      BY <3>1, <3>2 DEF RowsWritten
  <2> QED
    BY <1>0, <2>1, CellsOfMarts DEF RowsWritten
<1>2. \A row \in all : martRun[CellOf(mart, row)] = v /\ row > reader.last => row \in rows
  BY DEF PageAfter, RowsWritten
<1>3. \A row \in rows : row > reader.last
  BY DEF PageAfter
<1>4. /\ reader.got \in SUBSET all
      /\ \A row \in reader.got : row <= reader.last
      /\ \A row \in all : martRun[CellOf(mart, row)] = v /\ row <= reader.last => row \in reader.got
  <2>1. CASE reader.cursor = 0
    <3>1. reader.last = 0 /\ reader.got = {}
      BY <2>1 DEF PagesInOrder
    <3> QED
      BY <1>1, <3>1
  <2>2. CASE reader.cursor = v
    BY <1>0, <2>2 DEF PagesInOrder, GotFrom
  <2> QED
    BY <1>0, <2>1, <2>2
<1>5. /\ UNCHANGED <<cache, martRun, committedAt, kind, staged>>
      /\ reader' = IF rows = {} THEN [reader EXCEPT !.stage = "end"]
                   ELSE [reader EXCEPT !.stage = "page", !.last = Min1(rows),
                                       !.got = reader.got \cup {Min1(rows)}, !.cursor = v]
  BY DEF SelectRow, etlVars
<1>6. Visible' = Visible /\ \A r : Written(r)' = Written(r)
  BY <1>5 DEF Visible, Written, Window
<1>7. CASE rows = {}
  <2>1. /\ reader'.stage = "end" /\ reader'.version = v
        /\ reader'.mart = mart /\ reader'.cursor = reader.cursor
        /\ reader'.last = reader.last /\ reader'.got = reader.got
    BY <1>5, <1>7 DEF ReadTypeOK
  <2>2. ReadTypeOK'
    BY <1>5, <1>7 DEF ReadTypeOK
  <2>3. VersionsSeen'
    BY <1>0, <1>5, <1>6, <2>1 DEF VersionsSeen
  <2>4. \A row \in all : martRun[CellOf(mart, row)] = v => row \in reader.got
    BY <1>0, <1>1, <1>2, <1>4, <1>7
  <2>5. NoneLeft'
    BY <1>4, <1>5, <1>6, <2>1, <2>4 DEF NoneLeft, RowsWritten
  <2>6. reader.cursor # 0 => GotFrom(reader.cursor)'
    BY <1>5, <1>6, <2>1 DEF PagesInOrder, GotFrom, RowsWritten
  <2>7. PagesInOrder'
    BY <2>1, <2>5, <2>6 DEF PagesInOrder
  <2> QED
    BY <2>2, <2>3, <2>7
<1>8. CASE rows # {}
  <2> DEFINE m == Min1(rows)
  <2>1. m \in rows /\ (\A row \in rows : m <= row) /\ m \in Nat /\ m > reader.last /\ m \in all
    <3>1. rows \in SUBSET Nat
      BY <1>1
    <3>2. m \in rows /\ (\A row \in rows : m <= row)
      BY <1>8, <3>1, SmallestRow
    <3> QED
      BY <1>1, <1>3, <3>2
  <2> HIDE DEF rows, m
  <2>2. /\ reader'.stage = "page" /\ reader'.version = v
        /\ reader'.mart = mart /\ reader'.cursor = v
        /\ reader'.last = m /\ reader'.got = reader.got \cup {m}
    BY <1>5, <1>8 DEF ReadTypeOK, m
  <2>3. ReadTypeOK'
    BY <1>0, <1>5, <1>8, <2>1 DEF ReadTypeOK, m
  <2>4. VersionsSeen'
    BY <1>0, <1>5, <1>6, <2>2 DEF VersionsSeen
  <2>5. /\ reader.got \cup {m} \in SUBSET all
        /\ \A row \in reader.got \cup {m} : row <= m
    BY <1>0, <1>1, <1>4, <2>1
  <2>6. \A row \in all : martRun[CellOf(mart, row)] = v /\ row <= m => row \in reader.got \cup {m}
    BY <1>0, <1>1, <1>2, <1>4, <2>1
  <2>7. GotFrom(v)'
    BY <1>5, <1>6, <2>2, <2>5, <2>6 DEF GotFrom, RowsWritten
  <2>8. PagesInOrder'
    <3>1. (reader.cursor # 0 => GotFrom(reader.cursor))'
      BY <2>2, <2>7 DEF GotFrom
    <3> QED
      BY <1>0, <2>2, <3>1 DEF PagesInOrder
  <2> QED
    BY <2>3, <2>4, <2>8
<1> QED
  BY <1>7, <1>8

LEMMA CacheKeepsReads ==
  ASSUME ReadInv, UNCHANGED <<martRun, committedAt, kind, staged, reader>>,
         cache' \in [Marts -> Runs \cup {0}],
         \A mart \in Marts : cache'[mart] # 0 => cache'[mart] \in Visible
  PROVE  ReadInv'
<1>1. Visible' = Visible /\ \A r : Written(r)' = Written(r)
  BY DEF Visible, Written, Window
<1> QED
  BY <1>1
     DEF ReadInv, ReadTypeOK, VersionsSeen, PagesInOrder, GotFrom, NoneLeft, RowsWritten

LEMMA ReadStepKeeps ==
  ASSUME EtlInv, ReadInv, ReadStep
  PROVE  EtlInv' /\ ReadInv'
<1>1. EtlInv' /\ UNCHANGED <<martRun, committedAt, kind, staged>>
  <2>1. CASE SelectFails
    <3>1. EtlInv /\ UNCHANGED <<sourceLoad, runVars, martLock, martRun>> /\ faults' \in 0..MaxFaults
      BY <2>1, ConstantsAssumption DEF SelectFails, EtlInv, EtlTypeOK
    <3> QED
      BY <3>1, FaultsAlone DEF runVars
  <2>2. CASE UNCHANGED etlVars
    BY <2>2, EtlStepKeeps DEF etlVars
  <2> QED
    BY <2>1, <2>2
       DEF ReadStep, ServeStep, AskMart, Expire, AskNextPage, VersionFromCache, VersionFromStore,
           CacheVersion, NoVersion, SelectRow
<1> USE DEF ReadInv
<1>0. /\ reader.mart \in Marts /\ cache \in [Marts -> Runs \cup {0}]
      /\ \A mart \in Marts : cache[mart] # 0 => cache[mart] \in Visible
      /\ reader.version \in Runs \cup {0} /\ (reader.version # 0 => reader.version \in Visible)
      /\ reader.cursor \in Runs \cup {0} /\ (reader.cursor # 0 => reader.cursor \in Visible)
  BY DEF ReadTypeOK, VersionsSeen
<1>2. ASSUME NEW mart \in Marts, AskMart(mart) PROVE ReadInv'
  <2>1. /\ reader' = NewRead(mart) /\ cache' = cache
    BY <1>2 DEF AskMart
  <2>2. Visible' = Visible
    BY <1>1 DEF Visible
  <2> QED
    BY <1>0, <2>1, <2>2 DEF ReadTypeOK, VersionsSeen, PagesInOrder, NewRead
<1>3. ASSUME VersionFromCache PROVE ReadInv'
  <2> DEFINE v == VersionFor(cache[reader.mart])
  <2>1. v \in Runs /\ v # 0 /\ v \in Visible /\ reader.cursor \in {0, v}
    BY <1>0, <1>3, RunsPositive DEF VersionFromCache, VersionFor
  <2>2. reader' = [reader EXCEPT !.stage = "select", !.version = v] /\ cache' = cache
    BY <1>3 DEF VersionFromCache
  <2> HIDE DEF v
  <2> QED
    BY <1>0, <1>1, <2>1, <2>2, SameRows
<1>4. ASSUME VersionFromStore PROVE ReadInv'
  <2>1. Current \in Visible /\ Current \in Runs /\ Current # 0
    BY <1>4, CurrentVisible DEF VersionFromStore, Visible
  <2>2. reader' = [reader EXCEPT !.stage = "fetched", !.version = Current] /\ cache' = cache
    BY <1>4 DEF VersionFromStore
  <2> QED
    BY <1>0, <1>1, <2>1, <2>2, SameRows
<1>5. ASSUME CacheVersion PROVE ReadInv'
  <2> DEFINE v == VersionFor(reader.version)
  <2>1. reader.version # 0
    BY <1>5 DEF CacheVersion, VersionsSeen
  <2>2. v \in Runs /\ v # 0 /\ v \in Visible /\ reader.cursor \in {0, v}
    BY <1>0, <2>1, RunsPositive DEF VersionFor
  <2>3. /\ reader' = [reader EXCEPT !.stage = "select", !.version = v]
        /\ cache' = [cache EXCEPT ![reader.mart] = reader.version]
    BY <1>5 DEF CacheVersion
  <2> HIDE DEF v
  <2>4. /\ cache' \in [Marts -> Runs \cup {0}]
        /\ \A mart \in Marts : cache'[mart] # 0 => cache'[mart] \in Visible
    BY <1>0, <2>3
  <2> QED
    BY <1>1, <2>2, <2>3, <2>4, SameRows
<1>6. ASSUME NoVersion \/ SelectFails \/ AskNextPage PROVE ReadInv'
  <2> DEFINE v == reader.version
  <2>1. PICK there \in {"failed", "asked"} : reader' = [reader EXCEPT !.stage = there]
    BY <1>6 DEF NoVersion, SelectFails, AskNextPage
  <2>2. reader' = [reader EXCEPT !.stage = there, !.version = v]
    BY <2>1 DEF ReadTypeOK
  <2>3. /\ cache' \in [Marts -> Runs \cup {0}]
        /\ \A mart \in Marts : cache'[mart] # 0 => cache'[mart] \in Visible
    BY <1>0, <1>6 DEF NoVersion, SelectFails, AskNextPage
  <2>4. v \in Runs \cup {0} /\ (v # 0 => v \in Visible)
    BY <1>0
  <2> HIDE DEF v
  <2> QED
    BY <1>1, <2>2, <2>3, <2>4, SameRows
<1>7. ASSUME NEW mart \in Marts, Expire(mart) PROVE ReadInv'
  <2>1. /\ cache' \in [Marts -> Runs \cup {0}]
        /\ \A m \in Marts : cache'[m] # 0 => cache'[m] \in Visible
        /\ UNCHANGED reader
    BY <1>0, <1>7 DEF Expire
  <2> QED
    BY <1>1, <2>1, CacheKeepsReads
<1> QED
  BY <1>1, <1>2, <1>3, <1>4, <1>5, <1>6, <1>7, SelectKeepsReads DEF ReadStep, ServeStep

ReadIInv == EtlInv /\ ReadInv

LEMMA ReadsInvariant == Spec => []ReadIInv
<1>1. Init => ReadIInv
  <2> SUFFICES ASSUME Init PROVE ReadIInv
    OBVIOUS
  <2>1. EtlInv
    BY EtlInitially DEF Init
  <2>2. /\ cache = [mart \in Marts |-> 0]
        /\ reader = [stage |-> "idle", mart |-> "mart_demand_history", cursor |-> 0,
                     version |-> 0, last |-> 0, got |-> {}]
    BY DEF Init, ReadsInit, NewRead
  <2> QED
    BY <2>1, <2>2 DEF ReadIInv, ReadInv, ReadTypeOK, VersionsSeen, PagesInOrder, Marts
<1>2. ReadIInv /\ [Next]_vars => ReadIInv'
  <2> SUFFICES ASSUME ReadIInv, [Next]_vars PROVE ReadIInv'
    OBVIOUS
  <2>1. CASE [EtlStep]_etlVars /\ UNCHANGED readVars
    BY <2>1, EtlStepKeeps, EtlKeepsReads DEF ReadIInv
  <2>2. CASE ReadStep
    BY <2>2, ReadStepKeeps DEF ReadIInv
  <2> QED
    BY <2>1, <2>2 DEF Next, vars
<1> QED
  BY <1>1, <1>2, PTL DEF Spec

(* No reader is ever pointed to a run whose transaction did not commit: not by
   the cache, not by a lookup, not by a cursor (data_marts/service, cache). *)
THEOREM ServedAlwaysCommitted == Spec => []ServedVersionsCommitted
<1>1. ReadIInv => ServedVersionsCommitted
  BY DEF ReadIInv, ReadInv, VersionsSeen, Visible, ServedVersionsCommitted
<1> QED
  BY <1>1, ReadsInvariant, PTL

(* A read that came to its end got every row its run wrote into the mart, unless
   a later run has taken some of them over (data_marts/repository: the page
   after a key of one etl_run_id). *)
THEOREM ReadsAlwaysComplete == Spec => []ReadComplete
<1>1. ReadIInv => ReadComplete
  BY DEF ReadIInv, ReadInv, PagesInOrder, NoneLeft, ReadComplete
<1> QED
  BY <1>1, ReadsInvariant, PTL
====
