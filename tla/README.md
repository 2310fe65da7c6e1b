# Verification of the e-zoo replenishment pipeline

TLA+ models of the services that turn a snapshot of the customer's master data
into purchase orders in the suppliers' ERP systems, with the TLC runs that check
them and the TLAPS proofs about them. Paths are relative to
`src/internal/features/` unless they start with `src/`.

## 1. The system

Seven Go services share one PostgreSQL database. Each has an HTTP API for
operators, most have a cron scheduler, and any of them may run in several
replicas. They never call each other's code: they meet in tables (and, for
`etl_validation`, in the HTTP API of `data_export`).

    source-adapter -> etl-validation -> data-marts -> forecast-engine
        (loads)          (marts)         (readers)     (plans)
                                                          | approve
                       channel-router <- order-builder <--+
                          (ERP calls)       (orders)      kpi (reports)

| Component | State it keeps | Operations | Hard behaviour |
|---|---|---|---|
| source-adapter (`data_export`) | `loads`, the one-row `snapshot`, master and fact tables with a `load_id` per row; export files | `Loader.Run` over sixteen tables, `Tick`, `TryTrigger`, `PostLoads`, `PostLoadsRetry`, paged readers, exports | batches commit one by one while readers page; a crashed load is found by the next tick only; the advisory lock lives on a connection of its own; text cursors over numeric and composite keys |
| etl-validation (`etl_validation`) | `etl_runs`, `reject_log`, staging tables, five marts | `TryStart`, `runAsync`, `Retry`, mart `Refresh`, the extractor | the lock is released before the run starts; status updates are unguarded; an expired context prevents the final status |
| data-marts (`data_marts`) | a TTL cache of the mart version per process | `GetVersion`, `Read`, `Invalidate` | marts are overwritten in place under pinned cursors; one version for runs of two kinds |
| forecast-engine (`forecast`) | `forecast_runs`, forecasts, `calculation_lines`, `replenishment_plans` | `Engine.Run`, scheduler, `ApprovePlan`, calculator, plan constructor | three separate bulk inserts, plans visible before their run is committed, marts read by three statements |
| order-builder (`orders`) | `purchase_orders` and lines, `po_status_history`, `po_number_seq` | `BuildAll`, `Cancel`, `Regenerate`, construction of an order | overlapping runs, status checks outside the transaction, one transaction per batch |
| channel-router (`channels`) | `supplier_channel_config`, `send_attempts`, status of orders | `SendAll`, `SendByID`, config upsert | a call to an external system inside a transaction; stale lists; lost answers |
| kpi (`kpi`) | `kpi_snapshots`, calibrations | `Engine.Run`, scheduler, calibrations, three formulas | delete and re-insert without a transaction |
| the seven processes (`src/internal/*app`) | the pool, the HTTP server, the schedulers | start, serve, shut down | a drain that times out before the pool is closed |

Shared code (JWT middleware, metrics, error values), the dashboards, the ERP mock
and the deployment files hold no state the components above depend on.

### What makes each component correct

* **source-adapter**: a reader that follows a cursor gets every row of a committed
  snapshot once; at most one load is running; a failed load changes nothing a
  reader can see; a published load lacks no row the ERP sent and refers to no
  missing parent; every load ends in `committed`, `failed` or `aborted`; an export
  that is ready has its body.
* **etl-validation**: a run leaves `running`; all marts of a run become visible
  together; what the extractor took for a whole table is one.
* **data-marts**: the version a reader gets is a committed run; a page sequence
  gets all its rows; a cached version does not outlive its successor.
* **forecast-engine**: runs exclude each other; a committed run is whole; no plan is
  there before its lines; nothing is computed from rows older than the full ETL run
  the record names (a run that records a refresh is the exception, section 5);
  the plans cover the need and no more than rounding, minimum and multiple allow.
* **order-builder**: a plan becomes at most one live order and is never lost; the
  audit log tells what happened; an order has the lines of its plan and their prices.
* **channel-router**: an order counts as sent only if the ERP holds it, with one
  successful attempt; every ready order is sent or cancelled in the end.
* **kpi**: a refreshed day has all its rows, of one run and one reading of the
  calibrations; shares lie between 0 and 1.
* **processes**: the pool outlives the requests that use it.

`PROJECT.json` lists the hazards line by line.

## 2. Modules

### Orders and channels (the core)

| Module | Models | State and actions against the code |
|---|---|---|
| `PoStore` | the tables both services write | `planStatus`, `poStatus`, `poPlan`, `history` are the committed rows; `seq` is the sequence, never rolled back; `poLock` the session whose open transaction has updated a row |
| `OrderBuilder` | `orders/service/build.go`, its scheduler, `ApprovePlan` | `claimed` = rows locked FOR UPDATE, `inserted` = orders inserted and not yet committed, `batch` = loop position, `buildPc = "doomed"` = the transaction after a failed statement, `buildLock` = the advisory lock |
| `OrderAdmin` | `Cancel` and `Regenerate` | `seen` = the reading through the pool; `ReadOrder` (check), `CancelRow` / `CancelNoRow` (`CancelPOTx`), `Rebuild`, `CommitCancel`, `CommitRegenerate`, `AbortRequest` |
| `ChannelRouter` | `SendAll`, `SendByID`, `sendOne`, `ErpAPISender.Send`, the channel configuration | `todo` = the list read in the committed transaction, `current` = order of the open transaction, `tries`/`outcome` = the retry loop, `attempts` = committed rows, `erp` = what the external ERP holds, `sends` = history variable |
| `OrderContract` | the abstract specification: `Place`, `Void`, `Replace`, `ErpTakes`, `Dispatch` | no sessions, locks or transactions |
| `OrderFulfilment` | composition of the four, fairness, properties | `Contract == INSTANCE OrderContract` maps the status of an order to its place in the contract |
| `OrderInvariant` | the inductive invariant `IndInv` | |
| `OrderFulfilmentProofs` | the theorems | |
| `MCOrderFulfilment` | constants and symmetry for TLC | |

A transaction runs at READ COMMITTED, as in the code. Each statement that another
session can interleave with is a step of its own; a sequence of statements of one
transaction that nobody can observe or disturb (the inserts of `buildOne`) is one
step. What an open transaction has written stays in its session's variables until
the commit step. A crash, a broken connection, a failed statement or a failed call
is a `Fault`, of which a behaviour has `MaxFaults`. The ERP is external: a call
ends accepted, rejected, or unknown, in which case the ERP may hold the order.

### Loads and readers of the source adapter

| Module | Models | State and actions against the code |
|---|---|---|
| `SourceLoads` | `data_export/loader`, its scheduler and triggers, `repository/loads.go`, `snapshot.go` | `loadStatus`, `current`, `previous`, `rowLoad` are the committed tables; `tickPc` and `todo` a session between two transactions, `loadLock` the advisory lock, `aged` how far `StaleAfter` has passed; `StartTick`, `ReapStale`, `InsertRunning`, one `CopyRow` or `RejectRow` per batch, `PassThreshold`, `Publish` (flip and commit), `MarkFailed` and every way to end early |
| `SnapshotReads` | the paging handlers; composition and properties | `pageLoad` = the pointer as the handler read it, `afterRow` = the cursor, `pages` = what the client has |
| `SnapshotInvariant` | the inductive invariant `IndInv` | |
| `SnapshotProofs` | the theorems | |
| `MCSnapshotReads` | symmetry for TLC | |

A row stands for one batch of the loader, which commits on its own. Tables the
loader upserts are `Masters`, those it inserts (`receipt_line`, `stock_movement`)
are `Facts`. The keys of the model are compared and ordered alike; where the code
does not do that is `EntityPages`. `PublishUnanswered` is the commit that took effect
and whose answer is lost. A `FailTick` stands for the bound `MaxLoads` too.

### Marts

| Module | Models | State and actions against the code |
|---|---|---|
| `MartVersions` | the abstract specification: `Flip` a run's rows in one step, `Disown` a run | what `etl_validation` promises to `data_marts` |
| `EtlRuns` | `etl_validation/service/etl_pipeline.go`, `loader/loader.go`, the mart builders, `mart_refresh` | a run goes `inserted`, `snapshot`, `masters`, `facts`, `built`; `staged` = the load its rows are really of, `martLock` = the lock of TRUNCATE, `martRun` = the run of the rows in a cell (the rebuilt marts, or one day of the upserted ones); `LoseRun` is a crash or a `markFailed` whose context has expired |
| `MartReads` | `data_marts/service` (cache, version, reader) beside `EtlRuns` | `cache` = the cached version of a mart, `reader` = one client with its cursor; reading a version and caching it are two steps |
| `EtlInvariant` | the inductive invariant `EtlInv` | |
| `EtlProofs`, `MartReadProofs` | the theorems about runs, and about readers beside them | |

### Planning engines

| Module | Models | State and actions against the code |
|---|---|---|
| `EngineLock` | the schedulers of `forecast` and `kpi` | `lock` = the session PostgreSQL has the advisory lock for, `stage` = how far a session is, `orphaned` = sessions that go on although the connection with their lock broke |
| `ForecastRuns` | `forecast/engine/engine.go`, its repositories, triggers and `ApprovePlan` beside a run | one action per statement: row of the run, three marts, three bulk inserts, the closing update; `marts` = the full ETL run of the rows there are, `etlKind` = the ETL runs that have committed, a refresh of one mart among them, `disowned` = those marked failed afterwards; `LatestCommitted` = the one a run records |
| `KpiRuns` | `kpi/engine/engine.go`, `repository/snapshots.go`, calibrations | delete the day, list the calibrations, then one `InsertSnapshot` per row |
| `PlanningRuns` | both engines, fairness, `EnginesEnd` | a behaviour is one of either: they share no table |
| `PlanningProofs` | the inductive invariants `LockInv`, `ReadsInv`, `RowsInv`, `DayInv` and the theorems | |

### Calculations and adapter parts

These keep no state in common, so one run checks them together: `Parts` starts a
behaviour with one of them and leaves the others idle.

| Module | Models | How |
|---|---|---|
| `Fractions` | `float64` and NUMERIC columns | exact fractions in lowest terms; `Stored` rounds to a scale |
| `DemandToOrder` | forecaster, calculator, plan constructor, `orderbuilder` | four steps from sales to an order, then the order built again at other prices; the histories, the rows of the calculation input, the scores and the prices are constants |
| `KpiCalc` | `kpi/calculators`, `kpi/calibration` | the counters of a row and the rules that choose parameters |
| `EntityLoads` | `data_export/loader`, `validation`, the upserts and inserts, the constraints of the migrations | line by line through sixteen tables, each repository function with the constraints it runs into: foreign keys, the SKU of a product, the CHECK of an event type, the keys of the journals, the partitions of the facts; `odd` = what is wrong with the data of the ERP; a line stands for `RowsPerLine` rows |
| `EntityPages` | sixteen `select_*.sql` with their handlers | one operator per select, one action per handler; texts are sequences compared like bytes |
| `PagedFetch` | `loader/http_source_reader.go` and `etl_validation/extractor` | the two readers against any sequence of answers; retries, cursors, the cached token |
| `Exports` | `data_export/exports_storage`, `handler/exports*.go`, the cleaner | the two files of an export, with a crash between any two writes |
| `AppLifecycle` | `src/internal/app` and its siblings | start, serve, signal, drain or time out, close the pool |
| `Parts`, `MCParts` | the composition, constants for TLC | |
| `EntityLoadProofs` | the inductive invariant `LoadInv` of the pipeline and the theorems | |
| `PartsProofs` | the invariants `ExportInv`, `AppInv`, `FetchInv` and the theorems | |
| `CalculationProofs` | the arithmetic of `Fractions`, the invariants `KpiInv` and `DemandInv` and the theorems | |

## 3. Runs

| Run | Module | Instance | Shows |
|---|---|---|---|
| `order_send` | `MCOrderFulfilment` | 1 plan, 2 numbers, 1 builder, 1 operator, 2 senders, 1 retry, 2 faults | the proofs' `IndInv`, `SuccessMatchesSent`, `CancelAuditedOnce`, `SendsBounded`, and the refinement `ImplementsContract` |
| `order_build` | `MCOrderFulfilment` | 3 plans (one empty), 4 numbers, 2 builders, batch of 2, 1 operator, 2 faults | `OneLiveOrderPerPlan`, `ConvertedIffOrdered`, `ClaimsDisjoint` |
| `order_live` | `MCOrderFulfilment` | 2 plans (one empty), 2 numbers, 1 builder, 1 operator, 2 senders, 1 fault, fairness | `PlansOrdered`, `OrdersSettled`, `SessionsEnd`: no wait for a row or a lock turns into waiting for ever |
| `regenerate_sent` | `MCOrderFulfilment` | no fault | violation of `SentOrderNotReplaced` (constants.go:45) |
| `snapshot_reads` | `MCSnapshotReads` | 2 sessions, 2 rows, 3 loads, 1 reader, pages of 1 row, 2 faults | the proofs' `IndInv`, `SnapshotCommitted`, `PagesCommitted`, `PagesComplete`, `LoadFinal`, `SnapshotForward` |
| `loads_end` | `MCSnapshotReads` | 2 sessions, 1 fact, 3 loads, 2 faults, fairness | `LoadsEnd`: every load ends |
| `read_during_load` | `MCSnapshotReads` | no fault | violation of `SnapshotStaysWhole` (spec-2026-05-05.md:1224) |
| `mart_flips` | `EtlInvariant` | 3 runs, 2 loads, a window of 1 day, 1 fault | the proofs' `EtlInv`, `MartsFlipTogether`, `VersionOfTheRows`, and the refinement `ImplementsVersions` |
| `mart_reads` | `MartReads` | 2 runs, 2 loads, a window of 2 days, 1 fault, fairness | `ServedVersionsCommitted`, `ReadComplete`, `RunsEnd`, `CacheCatchesUp` |
| `marts_hidden` | `EtlRuns` | no fault | violation of `ReaderSeesMart` (reader_pg.go:53) |
| `planning` | `PlanningRuns` | 1 tick, 1 request, 2 runs, 1 full ETL run and 1 refresh of a mart, 1 calibration, 1 fault, fairness | `LockExcludes`, `RunsWhole`, `ReadsForward`, `RefreshedWhole`, `EnginesEnd` |
| `parts` | `MCParts` | see below | `CommittedLoadWhole`, `ForeignKeysHold`, `PagesEveryRowOnce`, `FetchSound`, `ReadyHasBody`, `PoolOutlivesRequests`, `ForecastNeutral`, `OrdersMeetDemand`, `KpisSound` |

Operators no action uses, such as `MayBeMarkedAgain`, `UnlockAny` or `PredictUndivided`,
are faulty variants of the definition below them; each checked property is refuted
by one of them, which shows that the property depends on the code.

**Bounds.** Races of the orders are between two sessions over one order or one plan,
so one or two orders and two sessions that can reach the same row show them;
`order_build` needs a third plan for a batch that is not the whole table and an
empty plan inside it. `MaxPo` bounds how many numbers are drawn: at the bound the
draw fails like any other statement, and a regeneration is not asked for. `MaxFaults`
of 2 lets a lock be lost and a statement or a call fail in the same behaviour.
In the source adapter two sessions are needed for a lost lock, three loads for a
pointer that could go back past a published one, and two rows with pages of one row
for a cursor that is used twice. Three ETL runs let a refresh and a slow run commit
around a third; the reader needs two, the one it is pinned to and the one that
takes its rows, and a window of two days so that one run writes several pages.
Both engines need two runs, the second to meet what the first has left, and one
fault, since a fault is the only way to lose the lock or leave a row behind; one full
ETL run and one refresh, in either order, are enough for a record that names another
ETL run than the rows are of. In
`parts`: batches of 2 and 3 lines for tables of 2 or 3 lines so that a batch is
full, exceeded or left over, and 4 rows a line so that the threshold of 1 % is met by
no rejection and exceeded by one; two loads, the second over what the first left
(its facts, or a product whose id has changed since), and two flaws of the data between them;
tables of up to 3 rows with pages of 1 or 2, keys of one and two characters; three
pages of answers; four days of history of one weekday and several weeks, which is
what a seasonal factor needs, and less than nothing on its way beside a stock that is
enough. `MaxLines` bounds the counters of a KPI row.
Symmetry is never used where liveness is checked; `order_send` uses it for the two
senders, with safety properties only (the refinement is one: `OrderContract` states
no fairness). The proofs lift every safety result to every value of the constants
(section 4).

**Fairness.** `OrderFulfilment!Fairness`: weak fairness of the start of a run
(the cron jobs tick for ever), of the continuation of a run or request under way,
and of an answer of the ERP: `http.Client` has a timeout and faults are finitely
many, so a call that is repeated gets an answer. Fair continuations exclude every
fault action, and no operator is obliged to ask for anything. `OrdersSettled`
assumes that a supplier's channel stays configured, because the router skips an
order without one; `PlansOrdered` speaks of plans with lines, with an empty plan
at the head of the batch.

In `SnapshotReads!Fairness` the cron job ticks for ever, time passes, and a session
goes on by itself; faults are excluded from what is fair, and so are the readers.
`LoadsEnd` needs the ticks: nothing but a later tick ends a load whose process
died, although the design speaks of a recovery at startup
(`src/docs/features/source-adapter/design-adr.md:385`).

In `EtlRuns`, `MartReads` and `PlanningRuns` a goroutine or request under way goes on
(a failure it handles is one of the ways to go on), requests are served and cache
entries expire; no run, load, page or flip has to happen, and no fault. `RunsEnd`
and `EnginesEnd` therefore say that a run ends or is lost with its process, for
which `etl_validation` and `forecast` have no janitor.

## 4. Proofs

`OrderFulfilmentProofs` proves with TLAPS, for every number of plans, sessions,
faults and every `MaxPo`, `RetryMax` and batch size (the named assumptions
`StoreAssumption`, `BuilderAssumption`, `AdminAssumption`, `RouterAssumption` and
`SessionsDisjoint` are all that is assumed):

* `TypeCorrect`, `InvariantHolds`;
* `OneLiveOrder`, `PlanConverted`, `ClaimsNeverShared`, `SentOnce`,
  `CancellationOnce`, `SendsAlwaysBounded`: the safety invariants of the runs;
* `ForwardOnly`: the action property `StatusForward`, which follows from `IndInv`
  and is not a property of a run;
* `KeepsContract`: the system implements `OrderContract`.

None of the invariants is inductive alone. `OneLiveOrderPerPlan`, say, is kept by
`CommitBuild` only because the plans of the open transaction are claimed by nobody
else and still approved (`ClaimsHold`), because an approved plan has no order
(`ConvertedIffOrdered`) and because the numbers drawn are in nobody else's hands
(`NumbersUnique`); by `CommitRegenerate` only because the old order is still live
when its row lock is held (`RowsHeld`). `SuccessMatchesSent` needs `AttemptsAgree`:
what a session between the call of the ERP and its commit knows. `SendsBounded`
needs an account of who pays for a call (`SendsPaid`): while the order is ready,
every call but those of the sessions still sending has cost a fault; once it is
not, each session has called at most once without a fault, and none that has
called can take the order up again, because a list or a retry only names orders
that were read as ready. It assumes that there are finitely many sessions.
`IndInv` joins these parts with the typing; `order_send` checks it with TLC, and
the proof has a lemma per action and part, one `Next` step theorem and the
temporal conclusions.

`SnapshotProofs` proves for the source adapter, from `LoadsAssumption` and
`ReadsAssumption` (rows are positive numbers, finitely many master rows, a page has
at least one row): `LoadsTypeCorrect`, `LoadsInvariant`, `PointerCommitted`,
`ReadsCommitted`, `ReadsComplete`, `LoadsEndOnce` and `PointerForward`. The argument
has one hinge: a committed load stays committed and never gains a row
(`EndedStays`, `NoRowGained`), because the session that writes rows under a load is
the only one that can commit it (`LoadersOwn`). Everything a reader holds survives
a loader's step by these two facts alone. `PagesComplete` then follows from
`PagesSoFar`, with lemmas about the first `PageSize` rows of a set: such a page
holds every row up to its last one, and is short only if it holds them all.

`PlanningProofs` proves for the planning engines, from `SessionsAssumption`,
`ForecastAssumption` and `KpiAssumption`, three invariants of `PlanningRuns`, each
by an inductive invariant of its own:

* `RunsExclude`: `LockExcludes`. `LockInv` says whom the server has the lock for:
  every session inside a run whose connection has not broken.
* `RunsAlwaysWhole`: `RunsWhole`. `RowsInv` builds on `ReadsInv`: a session between two
  bulk inserts owns the row of its run and knows which tables it has filled, the
  counts of a run are written with its last statement, and a plan has its lines
  beside it because the lines are inserted first. A run can be abandoned only by a
  fault, so that the abandoned ones are counted by `faults`.
* `ReadsNeverBack`: `ReadsForward`. `ReadsInv` adds that a mart never holds rows older
  than what a session has seen or what its run record names, which holds because
  the record is written before the first mart is read and a full run that commits
  replaces all marts by later ones. The record may also name a refresh of one mart,
  because `select_latest_committed_etl_run.sql` does not ask for the kind; of such a
  record the theorem says nothing: its id may be later than all the rows read.
  `ReadsInv` therefore relates rows and full runs only: no committed full run is later
  than what the marts hold.
* `DayNeverTorn`: `RefreshedWhole`. `DayInv` builds on `LockInv`: while no lock has
  been lost the only session at work owns every row of the day, so that a KPI
  still to be computed has none, the one being inserted has those of the scopes
  done, and a finished one has them all.

`EtlProofs` proves about `EtlRuns`, from `ConstantsAssumption` alone: `EtlInvariantHolds`,
`MartsAlwaysFlipTogether`, `ReadersToldTheRows`, and `RunsImplementVersions`, the
refinement of `MartVersions`. The argument is the lock of TRUNCATE: from its build to
its commit a full run keeps every other full run out (`LockOrders`), so the run
that commits was built after everything readers see and its flip cannot overwrite
a later one; `RowsOfTheLast` keeps, for every cell, whose rows are in it. Stamps count
the builds (`StampsInOrder`), which needs that the runs are finitely many.

`MartReadProofs` adds the readers: `ServedAlwaysCommitted` and `ReadsAlwaysComplete`. They
use no step of a run but two facts: a visible run stays visible, and its rows
change only by being taken over (`VisibleSettled`). `ReadComplete` is about rows
still of the pinned run, which is what `PagesInOrder` carries from page to page.

`EntityLoadProofs` proves `CommittedLoadsAlwaysWhole` and `ForeignKeysAlwaysHold` for every
batch size, number of rows per line, and any number of loads and flaws in their
data (`EntityLoadsAssumption`). The tables, their order and the lines of one are the
model's, as the pipeline of the code is a fixed list. `LoadInv` says how far a load is: tables
passed hold every good line (`TablesPassed`), the table due holds those flushed,
the rest waiting in the batch (`TableDue`), and a category is sent after its parent
unless the data has them the wrong way round (`ParentFirst`), which is the case the
foreign key then refuses. Of the data it is assumed that values fit the types of their
columns, that a row refers to rows the ERP sends, and that neither an SKU nor the id of
a journal is sent twice. The reasons `ForeignKeysHold` leaves are those no rule of the
validator looks at (the order of categories, the type of an event, a date without a
partition), a rejected location, and what stays of earlier loads: the facts of the same
window, and the SKU of a product whose id has changed (`SkuClash`).

`PartsProofs` proves `ReadyAlwaysHasBody`, `PoolAlwaysOutlives` and `FetchAlwaysSound`, each from
an invariant that orders the steps of its part (`BodyBeforeMeta`, `ShutInOrder`,
`PagesSoFar` with `TokenLasts`), from `AppLifecycleAssumption` and `PagedFetchAssumption`;
and `PagesAlwaysComplete`, that paging a table to its end delivers every row once, for
texts of any length, finite tables and pages of any size and each of the sixteen tables
(`EntityPagesAssumption`: keys do not hold the separator, a number has a digit).

* The order of texts is a strict total one (`TextTransitive`, `TextTotal`, by the first
  place where two texts differ). Texts of one length put before others decide first
  (`AppendLess`), so the cursor of several columns is ordered as the columns are
  (`TwoAgree`, `DatedAgree`, `ThreeAgree`), and digits of one length are ordered as
  their number is (`NumberLess`). This is where the exceptions of `PagesEveryRowOnce` come
  from: without one length for each column the two orders differ.
* `PagesInv` says that what is left is what is above the cursor of the last page, and that
  what was delivered is the rest, once. `PageEnd` and `PageRows` prove of any page, in
  any order of equal keys, that a full one leaves what is above its last row and a short
  one was all that was left; the invariant is needed because a page knows nothing of
  the ones before but the cursor. The sixteen actions are cases of one lemma (`TurnsKeep`).

`CalculationProofs` proves `ForecastAlwaysNeutral`, `OrdersAlwaysMeetDemand` and
`KpisAlwaysSound`: the results of the calculations for any products and suppliers,
histories of any length, any stocks, prices and scores, any horizon, any scale
of the columns and any counters of a KPI row. What is assumed of them
(`WindowAssumption`, `HistoryAssumption`, `InputAssumption`, `KpiCalcAssumption`): quantities,
prices and scores are fractions in lowest terms, or NULL, which is none; what was sold is a
natural number, because a line below zero is rejected (`configs/validation_rules.yaml:7`)
or a return (`data_export/handler/receipt_line.go:88`) and the history adds up sales only.
The column is NUMERIC; the natural number counts its smallest unit, which loses nothing, as
the scale of the columns and all other inputs are arbitrary. The history lies before the
day of the run. No sign is assumed of a stock, of what is on its way or of a demand of the mart.

* The arithmetic comes first. `Gcd` and `Total` are recursive, and the theorems of
  the library about recursive functions and induction take an operator the provers cannot
  instantiate; what they are defined by (`GcdRec`, `TotalRec`) and every
  induction is proved from the least element of a set of numbers instead
  (`LeastNumber`), with the statement as a set and not as an operator
  (`FiniteSetInduction`). From there `Frac` depends on the quotient alone
  (`FracSame`), so that the fractions are an ordered field as far as it is needed (`PlusLaws`,
  `TimesLaws`, `MinusLaws`, `OverLaws`, `LeqFrac`), and a sum does not depend on the order
  it is taken in (`TotalRemove`).
* `ForecastNeutral` follows from sums of constants and of doubled values
  (`MeanConstant`, `MeanScaled`): a seasonal factor is a quotient of two means, so
  that doubling cancels out, and is 1 where every day is the same.
* `DemandInv` says what each phase has left in terms of the inputs: the forecasts,
  the computed lines, the rounded lines and the plans, and the orders, rebuilt ones included,
  because a rebuilt order has the lines of the one before (`BuiltQuantities`). `OrdersMeetDemand`
  follows without another induction over steps: a column keeps a quantity within half a unit
  (`StoredNear`), so a line is within one half, and an order of n lines within n + 1 of its
  plan, one for the total of the plan itself (`TotalWithin`); lines that round to nothing
  drop out of the order and change no sum (`TotalOfRest`).
* `KpisSound` follows from `KpiInv`, which knows of a result only what it was computed from:
  each formula is a share cut off at its bounds, and grows with its row
  (`OSASound`, `OTIFSound`, `StockDaysSound`).

Only model-checked: liveness, which is out of the prover's reach (`PlansOrdered`,
`OrdersSettled`, `SessionsEnd`, `LoadsEnd`, `RunsEnd`, `CacheCatchesUp`, `EnginesEnd`).

## 5. Where the code and what is said of it differ

The three violation runs check one sentence of a comment or of a design document
each against what the code does; section 3 names the line, `PROJECT.json` quotes it.

More sentences do not hold in the models by their definitions alone, so no run is
spent on them:

* `orders/service/build.go:22` speaks of independent sub-transactions; line 51 uses
  one transaction for the batch, and `RollbackBuild` loses all of it.
* `orders/service/service.go:124` announces the current state as `from_status`;
  line 136 writes what was read before the transaction (`CommitCancel` writes `seen`).
* `orders/sqls/migrations/4001_orders_schema.up.sql:77` calls `po_status_history`
  the log of the transitions; `MarkPOSentTx` (`channels/repository/queries.go:174`)
  writes none for the one to `sent`.
* `channels/router_svc/channel_router.go:5` lists an idempotency check for every
  order; only `SendByID` makes it, and before its transaction.
* `channels/router_svc/channel_router.go:223` persists the outcome always; a commit
  that fails after the call leaves nothing, which is how an order is sent twice
  (`SendsBounded` bounds how often).
* `data_export/scheduler/scheduler.go:204` promises one tick at most; after
  `LoseLock` two are under way. `SnapshotForward` allows for it.
* `data_export/models/cursor.go:12` promises pages of one snapshot; the rows of the
  load a cursor names move to the load that upserts them (`CopyRow`).
* `src/docs/features/data-export/spec-2026-05-05.md:1223` expects the retry of a
  load to commit; the rows the first one inserted into the fact tables stay, and
  the same window meets their primary keys.
* `forecast/forecaster/moving_average.go:20` forecasts from the last sale when there
  are less than seven days; the code takes the mean of whatever there is.
  `moving_average.go:18` speaks of four seasons; `woySeasonsCount` counts weeks.
* `src/docs/features/kpi-calibration/design.md:266` (ADR-003) resolves parameters from the
  location to the global ones; the calculators get the global ones, and the
  most specific calibration is only recorded with the row.
* `src/configs/validation_rules.yaml:3` says that a critical violation fails the load; up
  to 1 % of the rows are rejected and the load goes on.

Things a reader of the models may stumble over, all as in the code:

* Nothing is ordered where nothing is sold, whatever the stock (`NeedCovered` has it as its
  exception): less than nothing on its way, which no rule rejects, is not made up for.
* The engine never sets `StdDev`, so the safety stock is 0 whatever the service level.
* `ComputeOTIF` never counts an error, so `QualityErrorBudget` is out of reach;
  `LateGraceHours` is parsed and not used.
* A plan whose lines all round to 0 yields no order and stays approved for ever.
* The rule `lead_time_range` never sees its field, and a soft violation leaves no trace.
* A forecast may record the id of a refresh of one mart (`select_latest_committed_etl_run.sql`
  has no condition on the kind, `forecast/engine/engine.go:153`), while the rows it
  computes from are of an older full run. `ReadsForward` excepts such a record.
* Rows of the master tables are never deleted, and an upsert settles conflicts of the id
  only: a product that gets a new id keeps failing every later load on the UNIQUE of
  its SKU (`0001_master_and_service.up.sql:135`).
* No rule of the validator looks at the type of an event (the CHECK of line 181 does) or
  whether there is a partition for a date: one such row fails the load.
* A rejected location can fail the whole load on a foreign key, though one
  rejected row is within the threshold.
* The window of the fact tables is fixed when the process starts.
* The extractor of `etl_validation` takes 404 or 501 for the end of a table on any
  page (`FetchSound` names this as its exception); the client of `data_export` does not
  retry a timeout.
* The cursors of `supply_spec` and of the fact tables leave rows out when ids have
  different lengths or a key column is missing from the cursor, and a row with an
  empty id, which only the rule of locations rejects, is on no page (the exceptions `PagesEveryRowOnce`
  names).
* Metadata of an export cut off by a crash is never removed, and the job that
  removes old exports is registered by no process.
* `etlapp` closes the pool although the drain has timed out; the other processes
  return without closing it.

## 6. Not modelled, and the plan

Not modelled, and why:

* The connection pool. `BuildAll`, `Cancel`, `Regenerate` and `sendOne` hold one
  connection and take a second one; with as many of them as the pool has
  connections all wait for as long as their contexts live. No property covers this yet.
* The single rules of the ETL validation (what makes a row of a mart invalid): pure
  predicates on one row. The models keep that a row is accepted or rejected.
* Middleware (JWT, metrics, logging), error values, the access audit, the listings
  of channels, attempts, runs and orders, and the dashboards: they read, or write
  a log nobody reads back.
* Formatting: order numbers, notes, CSV and NDJSON layouts.
* The ERP mock and the deployment files; the ERP is an environment that accepts,
  rejects or does not answer.

Planned, in this order:

1. `ConnectionPool`, with the contexts that end the wait.
2. Larger instances of `planning` with two faults, without liveness.
