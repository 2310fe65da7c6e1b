---- MODULE EntityLoads ----
(* The pipeline of one load of the source adapter: the sixteen tables in a
   fixed order, each read whole from the ERP, checked line by line and written
   in batches, every batch in a transaction of its own.  SourceLoads treats a
   load as a set of rows; here are the tables, their foreign keys, the
   validator and the quality threshold.  Journals get new ids for every copy:
   the model keeps the load that wrote the newest one.  A line of the model
   stands for RowsPerLine rows, and one of them when the line is rejected. *)
EXTENDS Naturals, Sequences, FiniteSets

CONSTANTS
    MasterBatch, FactBatch,   \* batchSize: 500 and 1000 in the code
    RowsPerLine,              \* rows that a good line stands for
    MaxRuns,                  \* bound: loads of a behaviour
    MaxOddities               \* bound: flaws of the source over all loads

ASSUME EntityLoadsAssumption ==
    {MasterBatch, FactBatch, RowsPerLine, MaxRuns} \subseteq Nat \ {0} /\ MaxOddities \in Nat

VARIABLES
    ran,        \* loads started
    status,     \* loads.status of the last one
    at, pos,    \* position in the pipeline, line to read next
    batch,      \* lines waiting for flush
    table,      \* load_id of every row of every table, 0 while it is absent
    total, failed,   \* lines_total and lines_failed over the tables
    odd,        \* what is wrong with the data of the ERP
    window,     \* dates of the facts, fixed when the process starts
    skipped,    \* tables left out
    cause       \* why the load failed

entityVars == <<ran, status, at, pos, batch, table, total, failed, odd, window, skipped, cause>>

ProductsFirst == <<"products", "category", "supplier", "location", "supply_spec",
    "order_rule", "product_barcodes", "promo", "supply_plan", "store_assortment",
    "store_assortment_lifecycle_events", "master_change_log", "receipt_line",
    "location_stock_snapshot", "stock_movement", "supplier_stock_snapshot">>
Pipeline == <<"category", "supplier", "location", "products", "supply_spec",
    "order_rule", "product_barcodes", "promo", "supply_plan", "store_assortment",
    "store_assortment_lifecycle_events", "master_change_log", "receipt_line",
    "location_stock_snapshot", "stock_movement", "supplier_stock_snapshot">>
Entities == {Pipeline[i] : i \in DOMAIN Pipeline}
Inserted == {"receipt_line", "stock_movement"}
WithProduct == {"products", "supply_spec", "order_rule", "product_barcodes", "promo",
    "supply_plan", "store_assortment", "store_assortment_lifecycle_events",
    "location_stock_snapshot", "supplier_stock_snapshot"}
Keys == 1..4
Oddities == {"child first", "duplicate", "blank", "negative qty", "future", "negative stock",
    "renumbered", "event type", "no partition"}

(* What the ERP sends.  Line k of a table refers to line k of its parents, and
   category 2 is a child of category 1.  Line 3 is that of product 2 under a new
   id, with the rows that refer to it. *)
Second(e) == IF e \in WithProduct /\ "renumbered" \in odd THEN 3 ELSE 2
Sends(e) ==
    CASE e = "category" /\ "child first" \in odd -> <<2, 1>>
      [] e = "products" /\ "duplicate" \in odd -> <<1, Second(e), Second(e)>>
      [] e \in Inserted -> <<2 * window - 1, 2 * window>>
      [] OTHER -> <<1, Second(e)>>
Parent(e, k) == IF k = 3 /\ e # "products" THEN 2 ELSE k
SameSku(k, j) == k # j /\ {k, j} \subseteq {2, 3}

(* The rules of configs/validation_rules.yaml that are critical.  The soft ones
   change nothing in the loader. *)
NegativeQty(e, i) == e = "receipt_line" /\ i = 2 /\ "negative qty" \in odd
FutureEventTime(e, i) == e = "receipt_line" /\ i = 2 /\ "future" \in odd
NegativeStock(e, i) == e = "location_stock_snapshot" /\ i = 2 /\ "negative stock" \in odd
MissingRequired(e, i) == e = "location" /\ i = 2 /\ "blank" \in odd
DuplicatePK(e, i) == e = "products" /\ \E j \in 1..(i - 1) : Sends(e)[j] = Sends(e)[i]
Check(e, i) ==
    \/ NegativeQty(e, i) \/ FutureEventTime(e, i) \/ NegativeStock(e, i)
    \/ MissingRequired(e, i) \/ DuplicatePK(e, i)

(* The lines a flush would write now: those of the batch, with the line to read
   next while there is one. *)
Due == Pipeline[at]
NextLine == IF pos \in DOMAIN Sends(Due) THEN <<Sends(Due)[pos]>> ELSE <<>>
NothingLeft == IF NextLine = <<>> THEN <<>> ELSE batch \o NextLine
Pending == batch \o NextLine
Lines == {Pending[i] : i \in DOMAIN Pending}

(* Whether Pending meets the constraints of the migrations that the statements
   of each repository function run into: foreign keys, the SKU of a product, the
   type of an event, the keys of the journals and the partitions of the facts.
   An upsert settles a conflict of the primary key only. *)
Present(e, k) == table[e][k] # 0
RefersTo(parents) == \A e \in parents, k \in Lines : Present(e, Parent(e, k))
SkuFree == \A k \in Lines, j \in Keys : SameSku(k, j) => ~Present("products", j)
Flawed(e, flaw) == flaw \in odd /\ Sends(e)[2] \in Lines
HasPartition(e) == ~Flawed(e, "no partition")
NewRows(e) ==
    /\ \A k \in Lines : ~Present(e, k)
    /\ \A i, j \in DOMAIN Pending : Pending[i] = Pending[j] => i = j
UpsertCategory ==
    \A i \in DOMAIN Pending :
        Pending[i] = 2 => Present("category", 1) \/ \E j \in 1..(i - 1) : Pending[j] = 1
UpsertSupplier == TRUE
UpsertLocation == TRUE
UpsertProduct == RefersTo({"category"}) /\ SkuFree
UpsertSupplySpec == RefersTo({"products", "supplier"})
UpsertOrderRule == RefersTo({"location", "products", "category"})
UpsertProductBarcode == RefersTo({"products"})
UpsertPromo == RefersTo({"location", "products"})
UpsertSupplyPlan == RefersTo({"location", "products", "supplier"})
UpsertStoreAssortment == RefersTo({"location", "products"})
InsertLifecycleEventsBatch ==
    /\ RefersTo({"location", "products"})
    /\ ~Flawed("store_assortment_lifecycle_events", "event type")
InsertMasterChangeLogBatch == TRUE
InsertReceiptLineBatch == NewRows("receipt_line") /\ HasPartition("receipt_line")
UpsertLocationStockSnapshot == HasPartition("location_stock_snapshot")
InsertStockMovementBatch == NewRows("stock_movement") /\ HasPartition("stock_movement")
InsertSupplierStockSnapshotBatch == HasPartition("supplier_stock_snapshot")

Fail(why) == status' = "failed" /\ cause' = why

(* One transaction for the batch: all of it or nothing.  The answer to its
   commit may be lost. *)
Flush(e, fits) ==
    LET written == [table EXCEPT ![e] = [k \in Keys |-> IF k \in Lines THEN ran ELSE @[k]]]
    IN  \/ fits /\ table' = written /\ batch' = <<>> /\ UNCHANGED <<status, cause>>
        \/ ~fits /\ Fail("constraint") /\ UNCHANGED <<table, batch>>
        \/ /\ Pending # <<>>
           /\ Fail("database")
           /\ table' \in {table} \cup (IF fits THEN {written} ELSE {})
           /\ UNCHANGED batch

(* The next line: rejected and counted, or kept until the batch is full. *)
TakeLine(e, size, fits) ==
    /\ pos \in DOMAIN Sends(e)
    /\ pos' = pos + 1
    /\ IF Check(e, pos)
       THEN /\ total' = total + 1
            /\ failed' = failed + 1
            /\ UNCHANGED <<batch, table, status, cause>>
       ELSE /\ total' = total + RowsPerLine
            /\ UNCHANGED failed
            /\ IF Len(Pending) < size
               THEN batch' = Pending /\ UNCHANGED <<table, status, cause>>
               ELSE Flush(e, fits)
    /\ UNCHANGED <<at, skipped>>

(* The lines are over: the rest is flushed, and the next table is due. *)
EndOfLines(e, fits) ==
    /\ pos = Len(Sends(e)) + 1
    /\ Flush(e, fits)
    /\ at' = IF status' = "running" THEN at + 1 ELSE at
    /\ pos' = 1
    /\ UNCHANGED <<total, failed, skipped>>

(* The readers collect a table before its first line is handed out. *)
ReadFails(e) ==
    /\ pos = 1
    /\ IF e = "supplier_stock_snapshot"
       THEN skipped' = skipped \cup {e} /\ at' = at + 1 /\ UNCHANGED <<status, cause>>
       ELSE Fail("erp") /\ UNCHANGED <<skipped, at>>
    /\ UNCHANGED <<pos, batch, table, total, failed>>

LoadLines(e, size, fits) ==
    /\ status = "running"
    /\ at \in DOMAIN Pipeline
    /\ Pipeline[at] = e
    /\ TakeLine(e, size, fits) \/ EndOfLines(e, fits) \/ ReadFails(e)
    /\ UNCHANGED <<ran, odd, window>>

LoadCategory == LoadLines("category", MasterBatch, UpsertCategory)
LoadSupplier == LoadLines("supplier", MasterBatch, UpsertSupplier)
LoadLocation == LoadLines("location", MasterBatch, UpsertLocation)
LoadProducts == LoadLines("products", MasterBatch, UpsertProduct)
LoadSupplySpec == LoadLines("supply_spec", MasterBatch, UpsertSupplySpec)
LoadOrderRule == LoadLines("order_rule", MasterBatch, UpsertOrderRule)
LoadProductBarcodes == LoadLines("product_barcodes", MasterBatch, UpsertProductBarcode)
LoadPromo == LoadLines("promo", MasterBatch, UpsertPromo)
LoadSupplyPlan == LoadLines("supply_plan", MasterBatch, UpsertSupplyPlan)
LoadStoreAssortment == LoadLines("store_assortment", MasterBatch, UpsertStoreAssortment)
LoadLifecycleEvents ==
    LoadLines("store_assortment_lifecycle_events", FactBatch, InsertLifecycleEventsBatch)
LoadMasterChangeLog == LoadLines("master_change_log", FactBatch, InsertMasterChangeLogBatch)
LoadReceiptLine == LoadLines("receipt_line", FactBatch, InsertReceiptLineBatch)
LoadLocationStockSnapshot ==
    LoadLines("location_stock_snapshot", FactBatch, UpsertLocationStockSnapshot)
LoadStockMovement == LoadLines("stock_movement", FactBatch, InsertStockMovementBatch)
LoadSupplierStockSnapshot ==
    LoadLines("supplier_stock_snapshot", FactBatch, InsertSupplierStockSnapshotBatch)

RunPipeline ==
    \/ LoadCategory \/ LoadSupplier \/ LoadLocation \/ LoadProducts
    \/ LoadSupplySpec \/ LoadOrderRule \/ LoadProductBarcodes \/ LoadPromo
    \/ LoadSupplyPlan \/ LoadStoreAssortment \/ LoadLifecycleEvents
    \/ LoadMasterChangeLog \/ LoadReceiptLine \/ LoadLocationStockSnapshot
    \/ LoadStockMovement \/ LoadSupplierStockSnapshot

(* More than one row of a hundred rejected fails the load. *)
QualityThresholdExceeded == failed * 100 > total

(* The flip of the pointer and MarkCommitted are one transaction. *)
FinishRun ==
    /\ status = "running"
    /\ at = Len(Pipeline) + 1
    /\ \/ QualityThresholdExceeded /\ Fail("quality")
       \/ ~QualityThresholdExceeded /\ Fail("flip")
       \/ ~QualityThresholdExceeded /\ status' = "committed" /\ UNCHANGED cause
    /\ UNCHANGED <<ran, at, pos, batch, table, total, failed, odd, window, skipped>>

Crash ==
    /\ status = "running"
    /\ status' = "aborted"
    /\ UNCHANGED <<ran, at, pos, batch, table, total, failed, odd, window, skipped, cause>>

(* The next load, by the same process or, with another window, after a
   restart.  The ERP may have been corrected, or not. *)
StartRun ==
    /\ status # "running"
    /\ ran < MaxRuns
    /\ ran' = ran + 1
    /\ status' = "running"
    /\ at' = 1 /\ pos' = 1 /\ batch' = <<>>
    /\ total' = 0 /\ failed' = 0
    /\ skipped' = {} /\ cause' = "none"
    /\ odd' \in {o \in SUBSET Oddities : Cardinality(odd) + Cardinality(o) <= MaxOddities}
    /\ window' \in {1, 2}
    /\ UNCHANGED table

NoLoads ==
    /\ status = "none" /\ at = 1 /\ pos = 1 /\ batch = <<>>
    /\ table = [e \in Entities |-> [k \in Keys |-> 0]]
    /\ total = 0 /\ failed = 0 /\ odd = {} /\ window = 1 /\ skipped = {} /\ cause = "none"
EntityLoadsInit == NoLoads /\ ran = 0
EntityLoadsOver == NoLoads /\ ran = MaxRuns

EntityLoadsNext == StartRun \/ RunPipeline \/ FinishRun \/ Crash

(* A committed load has written every line the ERP sent, under its own load_id,
   but for the lines its rules reject, at most one row in a hundred of them,
   and a stock of suppliers that could not be read.  Loader.Run counts as it
   goes, flushes by size and once more at the end of every table. *)
CommittedLoadWhole ==
    status = "committed" =>
        /\ failed * 100 <= total
        /\ \A e \in Entities \ skipped : \A i \in DOMAIN Sends(e) :
             Check(e, i) \/ table[e][Sends(e)[i]] = ran
        /\ skipped \subseteq {"supplier_stock_snapshot"}

(* The order of the pipeline meets the constraints of the migrations, for data
   whose rows have the types of their columns, refer to rows the ERP sends and
   repeat neither an SKU nor the id of a journal.  What breaks one is a category
   before its parent, a location that is rejected, an event of a type the CHECK
   does not list, a date without a partition, or what earlier loads have left:
   facts of the same window, or a product that has the SKU under another id. *)
ForeignKeysHold ==
    cause = "constraint" =>
        \/ odd \cap {"child first", "blank", "event type", "no partition"} # {}
        \/ /\ Pipeline[at] \in Inserted
           /\ \E k \in Keys : table[Pipeline[at]][k] \in 1..(ran - 1)
        \/ /\ Pipeline[at] = "products"
           /\ \E k \in Keys : SameSku(Second("products"), k) /\ table["products"][k] \in 1..(ran - 1)
====
