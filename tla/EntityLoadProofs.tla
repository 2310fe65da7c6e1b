---- MODULE EntityLoadProofs ----
(* Proofs about the pipeline of loads, for every size of the batches and any
   number of loads and of flaws in their data. *)
EXTENDS Parts, TLAPS

(* The keys that the first n - 1 lines of a table leave to write. *)
Good(e, n) ==
    {k \in Keys : \E i \in DOMAIN Sends(e) : i < n /\ ~Check(e, i) /\ Sends(e)[i] = k}
Waiting == {batch[i] : i \in DOMAIN batch}

(* A category is sent before its parent. *)
ChildFirst == "child first" \in odd

LoadTypeOK ==
    /\ ran \in Nat
    /\ status \in {"none", "running", "committed", "failed", "aborted"}
    /\ at \in 1..17 /\ pos \in Nat \ {0}
    /\ batch \in Seq(Keys)
    /\ table \in [Entities -> [Keys -> Nat]]
    /\ total \in Nat /\ failed \in Nat
    /\ odd \subseteq Oddities /\ window \in {1, 2}
    /\ skipped \subseteq {"supplier_stock_snapshot"}

(* No row is ahead of its load. *)
NoLaterRow == \A e \in Entities, k \in Keys : table[e][k] <= ran

(* A load that has not failed has written the tables it passed, and none of
   those to come. *)
TablesPassed ==
    status \in {"running", "committed"} =>
        /\ ran # 0 /\ cause = "none"
        /\ \A j \in 1..(at - 1) :
             Pipeline[j] \in skipped \/ \A k \in Good(Pipeline[j], 4) : table[Pipeline[j]][k] = ran
        /\ \A j \in (at + 1)..16, k \in Keys : table[Pipeline[j]][k] # ran
        /\ status = "committed" => at = 17 /\ failed * 100 <= total

(* Of the table that is due, the good lines that were read are written or wait
   in the batch, in the order they came. *)
TableDue ==
    status = "running" /\ at <= 16 =>
        /\ pos <= Len(Sends(Due)) + 1
        /\ \A k \in Good(Due, pos) : k \in Waiting \/ table[Due][k] = ran
        /\ \A k \in Keys : table[Due][k] = ran => k \in Good(Due, pos) \ Waiting
        /\ Waiting \subseteq Good(Due, pos)
        /\ \A i, j \in DOMAIN batch : batch[i] = batch[j] => i = j

ParentFirst ==
    status = "running" /\ at = 1 /\ ~ChildFirst =>
        \A i \in DOMAIN batch :
            batch[i] = 2 => Present("category", 1) \/ \E j \in 1..(i - 1) : batch[j] = 1

LoadInv ==
    /\ LoadTypeOK /\ NoLaterRow /\ TablesPassed /\ TableDue /\ ParentFirst
    /\ ForeignKeysHold

---------------------------------------------------------------------------
(* The order of the pipeline. *)
LEMMA PipelineOrder ==
  /\ DOMAIN Pipeline = 1..16
  /\ \A i \in 1..16 : Pipeline[i] \in Entities
  /\ \A i \in 1..16 :
       /\ Pipeline[i] = "category" => i = 1
       /\ Pipeline[i] = "supplier" => i = 2
       /\ Pipeline[i] = "location" => i = 3
       /\ Pipeline[i] = "products" => i = 4
<1>1. DOMAIN Pipeline = 1..16
  BY DEF Pipeline
<1> QED
  BY <1>1 DEF Entities, Pipeline

LEMMA OncePerPipeline ==
  ASSUME NEW i \in 1..16, NEW j \in 1..16, i # j
  PROVE  Pipeline[i] # Pipeline[j]
BY DEF Pipeline

LEMMA EntityDue ==
  ASSUME NEW e \in Entities
  PROVE  \E i \in 1..16 : Pipeline[i] = e
BY PipelineOrder DEF Entities

(* What the ERP sends, whatever is wrong with its data. *)
LEMMA SecondLine ==
  ASSUME NEW e
  PROVE  /\ Second(e) \in {2, 3}
         /\ e \in WithProduct => Second(e) = Second("products")
         /\ e \notin WithProduct => Second(e) = 2
BY DEF Second, WithProduct

LEMMA SendsForms ==
  ASSUME window \in {1, 2}, NEW e
  PROVE  \/ Sends(e) = <<1, Second(e)>>
         \/ e \in Inserted /\ Sends(e) \in {<<1, 2>>, <<3, 4>>}
         \/ e = "category" /\ ChildFirst /\ Sends(e) = <<2, 1>>
         \/ e = "products" /\ Sends(e) = <<1, Second(e), Second(e)>>
<1> USE DEF ChildFirst
<1>1. CASE e = "category" /\ "child first" \in odd
  <2>1. e # "products" /\ e \notin Inserted
    BY <1>1 DEF Inserted
  <2>2. Sends(e) = <<2, 1>>
    BY <1>1, <2>1, Zenon DEF Sends
  <2> QED
    BY <1>1, <2>2
<1>2. CASE e = "products" /\ "duplicate" \in odd
  <2>1. e # "category" /\ e \notin Inserted
    BY <1>2 DEF Inserted
  <2>2. Sends(e) = <<1, Second(e), Second(e)>>
    BY <1>2, <2>1, Zenon DEF Sends
  <2> QED
    BY <1>2, <2>2
<1>3. CASE ~(e = "category" /\ "child first" \in odd) /\ ~(e = "products" /\ "duplicate" \in odd)
  <2>1. CASE e \in Inserted
    <3>1. Sends(e) = <<2 * window - 1, 2 * window>>
      BY <1>3, <2>1, Zenon DEF Sends
    <3>2. CASE window = 1
      BY <2>1, <3>1, <3>2
    <3>3. CASE window = 2
      BY <2>1, <3>1, <3>3
    <3> QED
      BY <3>2, <3>3
  <2>2. CASE e \notin Inserted
    <3>1. Sends(e) = <<1, Second(e)>>
      BY <1>3, <2>2, Zenon DEF Sends
    <3> QED
      BY <3>1
  <2> QED
    BY <2>1, <2>2
<1> QED
  BY <1>1, <1>2, <1>3

LEMMA SendsLines ==
  ASSUME window \in {1, 2}, NEW e
  PROVE  /\ Sends(e) \in Seq(Keys)
         /\ Len(Sends(e)) \in {2, 3}
         /\ DOMAIN Sends(e) = 1..Len(Sends(e))
<1> DEFINE s == Sends(e)
<1>1. PICK n \in {2, 3} : s = <<1, n>> \/ s = <<1, 2>> \/ s = <<3, 4>> \/ s = <<2, 1>> \/ s = <<1, n, n>>
  BY SendsForms, SecondLine
<1> HIDE DEF s
<1>2. s \in Seq(1..4) /\ Len(s) \in {2, 3}
  <2>1. CASE s = <<1, n>>
    BY <1>1, <2>1
  <2>5. CASE s = <<1, 2>>
    BY <2>5
  <2>2. CASE s = <<3, 4>>
    BY <2>2
  <2>3. CASE s = <<2, 1>>
    BY <2>3
  <2>4. CASE s = <<1, n, n>>
    BY <1>1, <2>4
  <2> QED
    BY <1>1, <2>1, <2>2, <2>3, <2>4, <2>5
<1>3. DOMAIN s = 1..Len(s)
  BY <1>2
<1> QED
  BY <1>2, <1>3 DEF s, Keys

(* Only products come twice, and the second time the line is rejected. *)
LEMMA GoodLinesDiffer ==
  ASSUME window \in {1, 2}, NEW e,
         NEW i \in DOMAIN Sends(e), NEW j \in DOMAIN Sends(e),
         i < j, ~Check(e, j)
  PROVE  Sends(e)[i] # Sends(e)[j]
<1>1. CASE e = "products"
  <2>1. i \in 1..(j - 1)
    BY SendsLines
  <2> QED
    BY <1>1, <2>1 DEF Check, DuplicatePK
<1>2. CASE e # "products"
  <2> DEFINE s == Sends(e)
  <2>1. PICK n \in {2, 3} : s = <<1, n>> \/ s = <<1, 2>> \/ s = <<3, 4>> \/ s = <<2, 1>>
    BY <1>2, SendsForms, SecondLine
  <2>2. i \in DOMAIN s /\ j \in DOMAIN s
    OBVIOUS
  <2> HIDE DEF s
  <2>3. i = 1 /\ j = 2
    BY <2>1, <2>2
  <2>4. s[1] # s[2]
    BY <2>1
  <2> QED
    BY <2>3, <2>4 DEF s
<1> QED
  BY <1>1, <1>2

(* The good lines, one line further. *)
LEMMA GoodBounds ==
  ASSUME window \in {1, 2}, NEW e
  PROVE  /\ Good(e, 1) = {}
         /\ \A n \in Nat : n > Len(Sends(e)) => Good(e, n) = Good(e, 4)
         /\ \A n : Good(e, n) \subseteq Keys
BY SendsLines DEF Good

LEMMA GoodNext ==
  ASSUME window \in {1, 2}, NEW e, NEW n \in DOMAIN Sends(e)
  PROVE  /\ Check(e, n) => Good(e, n + 1) = Good(e, n)
         /\ ~Check(e, n) => /\ Good(e, n + 1) = Good(e, n) \cup {Sends(e)[n]}
                            /\ Sends(e)[n] \notin Good(e, n)
                            /\ Sends(e)[n] \in Keys
<1>1. DOMAIN Sends(e) \subseteq Nat /\ n \in Nat /\ \A i \in DOMAIN Sends(e) : Sends(e)[i] \in Keys
  BY SendsLines
<1>2. \A i \in DOMAIN Sends(e) : i < n + 1 <=> i < n \/ i = n
  BY <1>1
<1>3. Check(e, n) => Good(e, n + 1) = Good(e, n)
  BY <1>2 DEF Good
<1>4. ~Check(e, n) => Good(e, n + 1) = Good(e, n) \cup {Sends(e)[n]}
  BY <1>1, <1>2 DEF Good
<1>5. ~Check(e, n) => Sends(e)[n] \notin Good(e, n)
  BY <1>1, GoodLinesDiffer DEF Good
<1> QED
  BY <1>1, <1>3, <1>4, <1>5

(* The lines and the rules depend on the data of the ERP alone. *)
LEMMA SameLines ==
  ASSUME UNCHANGED <<odd, window>>, NEW e, NEW n
  PROVE  /\ Sends(e)' = Sends(e)
         /\ Good(e, n)' = Good(e, n)
<1>1. Sends(e)' = Sends(e)
  BY DEF Sends, Second
<1>2. \A i : Check(e, i)' = Check(e, i)
  BY <1>1 DEF Check, NegativeQty, FutureEventTime, NegativeStock, MissingRequired, DuplicatePK
<1> QED
  BY <1>1, <1>2 DEF Good

---------------------------------------------------------------------------
(* A step of the pipeline.  The constraints of a batch are those of the table
   that is due; what is unmet is one of five. *)
Misfit == "event type" \in odd \/ "no partition" \in odd
Unmet ==
    \/ Due = "category" /\ ~UpsertCategory
    \/ /\ Due \in WithProduct
       /\ \E p \in {"category", "supplier", "location", "products"} :
            /\ Due = "products" => p # "products"
            /\ \E k \in Lines : ~Present(p, Parent(p, k))
    \/ Due = "products" /\ ~SkuFree
    \/ Due \in Inserted /\ ~NewRows(Due)
    \/ Misfit

LEMMA FitsOrNot ==
  ASSUME NEW e, NEW size, NEW STATE fits, LoadLines(e, size, fits)
  PROVE  LoadLines(e, size, TRUE) \/ (~fits /\ LoadLines(e, size, FALSE))
<1>1. CASE fits
  BY <1>1, Zenon DEF LoadLines, TakeLine, EndOfLines, Flush
<1>2. CASE ~fits
  BY <1>2, Zenon DEF LoadLines, TakeLine, EndOfLines, Flush
<1> QED
  BY <1>1, <1>2

Step(e) ==
    \E size \in {MasterBatch, FactBatch} :
        LoadLines(e, size, TRUE) \/ (Unmet /\ LoadLines(e, size, FALSE))

LEMMA FitsAlways ==
  ASSUME NEW e, NEW size \in {MasterBatch, FactBatch}, LoadLines(e, size, TRUE)
  PROVE  Step(Due) /\ Due = e
BY Zenon DEF Step, LoadLines, Due

LEMMA FitsUnlessUnmet ==
  ASSUME NEW e, NEW size \in {MasterBatch, FactBatch}, NEW STATE fits,
         LoadLines(e, size, fits), Due = e => fits \/ Unmet
  PROVE  Step(Due)
<1>1. Due = e
  BY Zenon DEF LoadLines, Due
<1>2. LoadLines(e, size, TRUE) \/ (~fits /\ LoadLines(e, size, FALSE))
  BY FitsOrNot, Zenon
<1> QED
  BY <1>1, <1>2, Zenon DEF Step

LEMMA PipelineStep ==
  ASSUME RunPipeline
  PROVE  Step(Due)
<1> USE DEF RefersTo
<1>1. CASE LoadCategory
  <2>1. Due = "category" => UpsertCategory \/ Unmet
    BY Zenon DEF Unmet
  <2> QED
    BY <1>1, <2>1, FitsUnlessUnmet, Zenon DEF LoadCategory
<1>2. CASE LoadSupplier
  BY <1>2, FitsAlways, Zenon DEF LoadSupplier, UpsertSupplier
<1>3. CASE LoadLocation
  BY <1>3, FitsAlways, Zenon DEF LoadLocation, UpsertLocation
<1>4. CASE LoadProducts
  <2>1. Due = "products" => UpsertProduct \/ Unmet
    BY DEF Unmet, UpsertProduct, WithProduct
  <2> QED
    BY <1>4, <2>1, FitsUnlessUnmet, Zenon DEF LoadProducts
<1>5. CASE LoadSupplySpec
  <2>1. Due = "supply_spec" => UpsertSupplySpec \/ Unmet
    BY DEF Unmet, UpsertSupplySpec, WithProduct
  <2> QED
    BY <1>5, <2>1, FitsUnlessUnmet, Zenon DEF LoadSupplySpec
<1>6. CASE LoadOrderRule
  <2>1. Due = "order_rule" => UpsertOrderRule \/ Unmet
    BY DEF Unmet, UpsertOrderRule, WithProduct
  <2> QED
    BY <1>6, <2>1, FitsUnlessUnmet, Zenon DEF LoadOrderRule
<1>7. CASE LoadProductBarcodes
  <2>1. Due = "product_barcodes" => UpsertProductBarcode \/ Unmet
    BY DEF Unmet, UpsertProductBarcode, WithProduct
  <2> QED
    BY <1>7, <2>1, FitsUnlessUnmet, Zenon DEF LoadProductBarcodes
<1>8. CASE LoadPromo
  <2>1. Due = "promo" => UpsertPromo \/ Unmet
    BY DEF Unmet, UpsertPromo, WithProduct
  <2> QED
    BY <1>8, <2>1, FitsUnlessUnmet, Zenon DEF LoadPromo
<1>9. CASE LoadSupplyPlan
  <2>1. Due = "supply_plan" => UpsertSupplyPlan \/ Unmet
    BY DEF Unmet, UpsertSupplyPlan, WithProduct
  <2> QED
    BY <1>9, <2>1, FitsUnlessUnmet, Zenon DEF LoadSupplyPlan
<1>10. CASE LoadStoreAssortment
  <2>1. Due = "store_assortment" => UpsertStoreAssortment \/ Unmet
    BY DEF Unmet, UpsertStoreAssortment, WithProduct
  <2> QED
    BY <1>10, <2>1, FitsUnlessUnmet, Zenon DEF LoadStoreAssortment
<1>11. CASE LoadLifecycleEvents
  <2>1. Due = "store_assortment_lifecycle_events" => InsertLifecycleEventsBatch \/ Unmet
    BY DEF Unmet, Misfit, InsertLifecycleEventsBatch, Flawed, WithProduct
  <2> QED
    BY <1>11, <2>1, FitsUnlessUnmet, Zenon DEF LoadLifecycleEvents
<1>12. CASE LoadMasterChangeLog
  BY <1>12, FitsAlways, Zenon DEF LoadMasterChangeLog, InsertMasterChangeLogBatch
<1>13. CASE LoadReceiptLine
  <2>1. Due = "receipt_line" => InsertReceiptLineBatch \/ Unmet
    BY DEF Unmet, Misfit, InsertReceiptLineBatch, HasPartition, Flawed, Inserted
  <2> QED
    BY <1>13, <2>1, FitsUnlessUnmet, Zenon DEF LoadReceiptLine
<1>14. CASE LoadLocationStockSnapshot
  <2>1. Due = "location_stock_snapshot" => UpsertLocationStockSnapshot \/ Unmet
    BY DEF Unmet, Misfit, UpsertLocationStockSnapshot, HasPartition, Flawed
  <2> QED
    BY <1>14, <2>1, FitsUnlessUnmet, Zenon DEF LoadLocationStockSnapshot
<1>15. CASE LoadStockMovement
  <2>1. Due = "stock_movement" => InsertStockMovementBatch \/ Unmet
    BY DEF Unmet, Misfit, InsertStockMovementBatch, HasPartition, Flawed, Inserted
  <2> QED
    BY <1>15, <2>1, FitsUnlessUnmet, Zenon DEF LoadStockMovement
<1>16. CASE LoadSupplierStockSnapshot
  <2>1. Due = "supplier_stock_snapshot" => InsertSupplierStockSnapshotBatch \/ Unmet
    BY DEF Unmet, Misfit, InsertSupplierStockSnapshotBatch, HasPartition, Flawed
  <2> QED
    BY <1>16, <2>1, FitsUnlessUnmet, Zenon DEF LoadSupplierStockSnapshot
<1> QED
  BY <1>1, <1>2, <1>3, <1>4, <1>5, <1>6, <1>7, <1>8, <1>9, <1>10, <1>11, <1>12, <1>13,
     <1>14, <1>15, <1>16 DEF RunPipeline

---------------------------------------------------------------------------
(* What a flush would write. *)
Written(e) == [table EXCEPT ![e] = [k \in Keys |-> IF k \in Lines THEN ran ELSE @[k]]]

LEMMA LinesWithNext ==
  ASSUME LoadTypeOK, pos \in DOMAIN Sends(Due)
  PROVE  /\ Pending \in Seq(Keys) /\ Len(Pending) = Len(batch) + 1
         /\ \A i \in 1..Len(batch) : Pending[i] = batch[i]
         /\ Pending[Len(batch) + 1] = Sends(Due)[pos]
         /\ Lines = Waiting \cup {Sends(Due)[pos]}
<1> DEFINE x == Sends(Due)[pos]
<1>1. batch \in Seq(Keys) /\ x \in Keys /\ Pending = batch \o <<x>>
  BY SendsLines DEF LoadTypeOK, Pending, NextLine
<1> HIDE DEF x
<1> DEFINE q == batch \o <<x>>
<1>2. /\ q \in Seq(Keys) /\ Len(q) = Len(batch) + 1
      /\ \A i \in 1..Len(batch) : q[i] = batch[i]
      /\ q[Len(batch) + 1] = x
  BY <1>1
<1>3. DOMAIN batch = 1..Len(batch) /\ Len(batch) \in Nat
  BY <1>1
<1> HIDE DEF q
<1>4. DOMAIN q = 1..(Len(batch) + 1)
  BY <1>2
<1>5. {q[i] : i \in DOMAIN q} = {batch[i] : i \in DOMAIN batch} \cup {x}
  BY <1>2, <1>3, <1>4
<1>6. Pending = q
  BY <1>1 DEF q
<1> QED
  BY <1>2, <1>5, <1>6 DEF Lines, Waiting, x

LEMMA LinesWithoutNext ==
  ASSUME LoadTypeOK, pos \notin DOMAIN Sends(Due)
  PROVE  Pending = batch /\ Lines = Waiting
<1>1. Pending = batch
  BY DEF LoadTypeOK, Pending, NextLine
<1> QED
  BY <1>1 DEF Lines, Waiting

LEMMA WrittenRows ==
  ASSUME LoadTypeOK, NoLaterRow, NEW e \in Entities
  PROVE  /\ Written(e) \in [Entities -> [Keys -> Nat]]
         /\ \A x \in Entities, k \in Keys :
              Written(e)[x][k] = IF x = e /\ k \in Lines THEN ran ELSE table[x][k]
         /\ \A x \in Entities, k \in Keys : Written(e)[x][k] <= ran
<1> DEFINE row == [k \in Keys |-> IF k \in Lines THEN ran ELSE table[e][k]]
<1>1. table \in [Entities -> [Keys -> Nat]] /\ ran \in Nat
  BY DEF LoadTypeOK
<1>2. row \in [Keys -> Nat] /\ \A k \in Keys : row[k] = IF k \in Lines THEN ran ELSE table[e][k]
  BY <1>1
<1>3. Written(e) = [table EXCEPT ![e] = row]
  BY <1>1 DEF Written
<1> HIDE DEF row
<1>4. /\ Written(e) \in [Entities -> [Keys -> Nat]]
      /\ \A x \in Entities : Written(e)[x] = IF x = e THEN row ELSE table[x]
  BY <1>1, <1>2, <1>3
<1>5. \A x \in Entities, k \in Keys :
        Written(e)[x][k] = IF x = e /\ k \in Lines THEN ran ELSE table[x][k]
  BY <1>2, <1>4
<1> QED
  BY <1>1, <1>4, <1>5 DEF NoLaterRow

(* What a step of the pipeline may come to. *)
Rejects(e) ==
    /\ pos \in DOMAIN Sends(e) /\ Check(e, pos) /\ pos' = pos + 1
    /\ total' = total + 1 /\ failed' = failed + 1
    /\ UNCHANGED <<batch, table, status, cause, at, skipped>>
Keeps(e) ==
    /\ pos \in DOMAIN Sends(e) /\ ~Check(e, pos) /\ pos' = pos + 1
    /\ total' = total + RowsPerLine /\ UNCHANGED failed
    /\ batch' = Pending /\ UNCHANGED <<table, status, cause, at, skipped>>
Writes(e) ==
    /\ pos \in DOMAIN Sends(e) /\ ~Check(e, pos) /\ pos' = pos + 1
    /\ total' = total + RowsPerLine /\ UNCHANGED failed
    /\ batch' = <<>> /\ table' = Written(e) /\ UNCHANGED <<status, cause, at, skipped>>
WritesRest(e) ==
    /\ pos = Len(Sends(e)) + 1 /\ pos' = 1 /\ at' = at + 1
    /\ batch' = <<>> /\ table' = Written(e)
    /\ UNCHANGED <<status, cause, total, failed, skipped>>
Skips(e) ==
    /\ pos = 1 /\ e = "supplier_stock_snapshot" /\ at' = at + 1
    /\ skipped' = skipped \cup {e}
    /\ UNCHANGED <<status, cause, pos, batch, table, total, failed>>
Breaks(e) ==
    /\ status' = "failed" /\ pos' \in {pos, pos + 1, 1}
    /\ total' \in {total, total + RowsPerLine}
    /\ table' \in {table, Written(e)}
    /\ cause' = "constraint" =>
         Unmet /\ UNCHANGED table /\ (pos \in DOMAIN Sends(e) => ~Check(e, pos))
    /\ UNCHANGED <<batch, at, failed, skipped>>

LEMMA FlushOutcomes ==
  ASSUME NEW e, NEW fits \in BOOLEAN, Flush(e, fits), fits \/ Unmet
  PROVE  \/ batch' = <<>> /\ table' = Written(e) /\ UNCHANGED <<status, cause>>
         \/ /\ status' = "failed" /\ table' \in {table, Written(e)} /\ UNCHANGED batch
            /\ cause' = "constraint" => Unmet /\ UNCHANGED table
<1> DEFINE w == Written(e)
<1>1. \/ fits /\ table' = w /\ batch' = <<>> /\ UNCHANGED <<status, cause>>
      \/ ~fits /\ Fail("constraint") /\ UNCHANGED <<table, batch>>
      \/ Fail("database") /\ table' \in {table} \cup (IF fits THEN {w} ELSE {}) /\ UNCHANGED batch
  BY Zenon DEF Flush, Written
<1> HIDE DEF w
<1>2. \/ batch' = <<>> /\ table' = w /\ UNCHANGED <<status, cause>>
      \/ /\ status' = "failed" /\ table' \in {table, w} /\ UNCHANGED batch
         /\ cause' = "constraint" => Unmet /\ UNCHANGED table
  BY <1>1 DEF Fail
<1> QED
  BY <1>2 DEF w

LEMMA StepOutcomes ==
  ASSUME LoadTypeOK, NEW e, e = Due, Step(e)
  PROVE  /\ status = "running" /\ at \in 1..16 /\ e \in Entities
         /\ UNCHANGED <<ran, odd, window>>
         /\ \/ Rejects(e) \/ Keeps(e) \/ Writes(e) \/ WritesRest(e) \/ Skips(e) \/ Breaks(e)
<1>1. PICK size \in {MasterBatch, FactBatch}, fits \in BOOLEAN :
        LoadLines(e, size, fits) /\ (fits \/ Unmet)
  BY DEF Step
<1>2. status = "running" /\ at \in 1..16 /\ e \in Entities /\ UNCHANGED <<ran, odd, window>>
  BY <1>1, PipelineOrder DEF LoadLines, Due
<1> SUFFICES Rejects(e) \/ Keeps(e) \/ Writes(e) \/ WritesRest(e) \/ Skips(e) \/ Breaks(e)
  BY <1>2
<1>3. CASE TakeLine(e, size, fits)
  <2>1. pos \in DOMAIN Sends(e) /\ pos' = pos + 1 /\ UNCHANGED <<at, skipped>>
    BY <1>3 DEF TakeLine
  <2>2. CASE Check(e, pos)
    BY <1>3, <2>1, <2>2 DEF TakeLine, Rejects
  <2>3. CASE ~Check(e, pos)
    <3>1. /\ total' = total + RowsPerLine /\ UNCHANGED failed
          /\ IF Len(Pending) < size
             THEN batch' = Pending /\ UNCHANGED <<table, status, cause>>
             ELSE Flush(e, fits)
      BY <1>3, <2>3, Zenon DEF TakeLine
    <3>2. CASE Len(Pending) < size
      BY <2>1, <2>3, <3>1, <3>2 DEF Keeps
    <3>3. CASE ~(Len(Pending) < size)
      <4>1. Flush(e, fits)
        BY <3>1, <3>3, Zenon
      <4> QED
        BY <1>1, <2>1, <2>3, <3>1, <4>1, FlushOutcomes DEF Writes, Breaks
    <3> QED
      BY <3>2, <3>3
  <2> QED
    BY <2>2, <2>3
<1>4. CASE EndOfLines(e, fits)
  <2>1. /\ pos = Len(Sends(e)) + 1 /\ Flush(e, fits) /\ pos' = 1
        /\ at' = IF status' = "running" THEN at + 1 ELSE at
        /\ UNCHANGED <<total, failed, skipped>>
    BY <1>4, Zenon DEF EndOfLines
  <2>2. pos \notin DOMAIN Sends(e)
    BY <2>1, SendsLines DEF LoadTypeOK
  <2> QED
    BY <1>1, <1>2, <2>1, <2>2, FlushOutcomes DEF WritesRest, Breaks
<1>5. CASE ReadFails(e)
  BY <1>5 DEF ReadFails, Skips, Breaks, Fail
<1> QED
  BY <1>1, <1>2, <1>3, <1>4, <1>5 DEF LoadLines

---------------------------------------------------------------------------
(* What is unmet has its reason: the foreign keys of a load without those flaws
   are met. *)
LEMMA MastersWhole ==
  ASSUME window \in {1, 2}, ~ChildFirst,
         NEW p \in {"category", "supplier", "location", "products"},
         p = "location" => "blank" \notin odd
  PROVE  1 \in Good(p, 4) /\ Second(p) \in Good(p, 4) /\ 1 \in Good(p, 2)
<1> DEFINE s == Sends(p)
<1> DEFINE n == Second(p)
<1>1. s = <<1, n>> \/ s = <<1, n, n>>
  <2>1. p \notin Inserted
    BY DEF Inserted
  <2> QED
    BY <2>1, SendsForms
<1>2. ~Check(p, 1)
  BY DEF Check, NegativeQty, FutureEventTime, NegativeStock, MissingRequired, DuplicatePK
<1>6. n \in {2, 3}
  BY SecondLine
<1> HIDE DEF s, n
<1>3. 1 \in DOMAIN s /\ 2 \in DOMAIN s /\ s[1] = 1 /\ s[2] = n
  <2>1. CASE s = <<1, n>>
    BY <1>6, <2>1
  <2>2. CASE s = <<1, n, n>>
    BY <1>6, <2>2
  <2> QED
    BY <1>1, <2>1, <2>2
<1>4. ~Check(p, 2)
  <2>1. ~DuplicatePK(p, 2)
    <3>1. \A j \in 1..(2 - 1) : s[j] # s[2]
      BY <1>3, <1>6
    <3> QED
      BY <3>1 DEF DuplicatePK, s
  <2> QED
    BY <2>1 DEF Check, NegativeQty, FutureEventTime, NegativeStock, MissingRequired
<1>5. 1 \in Keys /\ n \in Keys
  BY <1>6 DEF Keys
<1> QED
  BY <1>2, <1>3, <1>4, <1>5 DEF Good, s, n

LEMMA LinesAreSent ==
  ASSUME LoadInv, status = "running", at \in 1..16, NEW k \in Lines
  PROVE  \E i \in DOMAIN Sends(Due) : Sends(Due)[i] = k
<1>1. Waiting \subseteq Good(Due, pos)
  BY DEF LoadInv, TableDue
<1>2. k \in Waiting => \E i \in DOMAIN Sends(Due) : Sends(Due)[i] = k
  BY <1>1 DEF Good
<1> QED
  BY <1>2, LinesWithNext, LinesWithoutNext DEF LoadInv

LEMMA CategoriesMet ==
  ASSUME LoadInv, status = "running", at \in 1..16, ~ChildFirst, Due = "category"
  PROVE  UpsertCategory
<1>1. at = 1
  BY PipelineOrder DEF Due
<1>2. \A i \in DOMAIN batch :
        batch[i] = 2 => Present("category", 1) \/ \E j \in 1..(i - 1) : batch[j] = 1
  BY <1>1 DEF LoadInv, ParentFirst
<1>3. batch \in Seq(Keys)
  BY DEF LoadInv, LoadTypeOK
<1>4. CASE pos \notin DOMAIN Sends(Due)
  <2>1. Pending = batch
    BY <1>4, LinesWithoutNext DEF LoadInv
  <2> QED
    BY <1>2, <2>1 DEF UpsertCategory
<1>5. CASE pos \in DOMAIN Sends(Due)
  <2>1. /\ Pending \in Seq(Keys) /\ Len(Pending) = Len(batch) + 1
        /\ \A i \in 1..Len(batch) : Pending[i] = batch[i]
        /\ Pending[Len(batch) + 1] = Sends(Due)[pos]
    BY <1>5, LinesWithNext DEF LoadInv
  <2>2. ASSUME Sends(Due)[pos] = 2
        PROVE  Present("category", 1) \/ \E j \in 1..Len(batch) : batch[j] = 1
    <3> DEFINE s == Sends(Due)
    <3>1. window \in {1, 2}
      BY DEF LoadInv, LoadTypeOK
    <3>2. s = <<1, 2>>
      <4>1. Due \notin Inserted /\ Due # "products" /\ Due \notin WithProduct
        BY DEF Inserted, WithProduct
      <4> QED
        BY <3>1, <4>1, SendsForms, SecondLine
    <3>3. pos \in DOMAIN s /\ s[pos] = 2
      BY <1>5, <2>2
    <3> HIDE DEF s
    <3>4. pos = 2
      BY <3>2, <3>3
    <3>5. 1 \in Good(Due, pos) /\ 1 \in Keys
      BY <3>1, <3>4, MastersWhole DEF Keys
    <3>6. 1 \in Waiting \/ table[Due][1] = ran
      BY <3>5 DEF LoadInv, TableDue
    <3>7. ran # 0
      BY DEF LoadInv, TablesPassed
    <3> QED
      BY <1>3, <3>6, <3>7 DEF Present, Waiting
  <2>3. ASSUME NEW i \in DOMAIN Pending, Pending[i] = 2
        PROVE  Present("category", 1) \/ \E j \in 1..(i - 1) : Pending[j] = 1
    <3>1. i \in 1..(Len(batch) + 1) /\ Len(batch) \in Nat /\ DOMAIN batch = 1..Len(batch)
      BY <1>3, <2>1, <2>3
    <3>2. CASE i = Len(batch) + 1
      <4>1. Present("category", 1) \/ \E j \in 1..Len(batch) : batch[j] = 1
        BY <2>1, <2>2, <2>3, <3>2
      <4> QED
        BY <2>1, <3>1, <3>2, <4>1
    <3>3. CASE i \in 1..Len(batch)
      <4>1. batch[i] = 2
        BY <2>1, <2>3, <3>3
      <4>2. Present("category", 1) \/ \E j \in 1..(i - 1) : batch[j] = 1
        BY <1>2, <3>1, <3>3, <4>1
      <4> QED
        BY <2>1, <3>1, <3>3, <4>2
    <3> QED
      BY <3>1, <3>2, <3>3
  <2> QED
    BY <2>3 DEF UpsertCategory
<1> QED
  BY <1>4, <1>5

LEMMA LinesWithProduct ==
  ASSUME LoadInv, status = "running", at \in 1..16, Due \in WithProduct, NEW k,
         \E i \in DOMAIN Sends(Due) : Sends(Due)[i] = k
  PROVE  k \in {1, Second("products")}
<1> DEFINE s == Sends(Due)
<1> DEFINE n == Second("products")
<1>1. window \in {1, 2} /\ Second(Due) = n /\ n \in {2, 3}
  BY SecondLine DEF LoadInv, LoadTypeOK
<1>2. s = <<1, n>> \/ s = <<1, n, n>>
  <2>1. Due \notin Inserted /\ Due # "category"
    BY DEF Inserted, WithProduct
  <2> QED
    BY <1>1, <2>1, SendsForms
<1>3. PICK i \in DOMAIN s : s[i] = k
  OBVIOUS
<1> HIDE DEF s, n
<1>4. k \in {1, n}
  <2>1. CASE s = <<1, n>>
    BY <1>1, <1>3, <2>1
  <2>2. CASE s = <<1, n, n>>
    BY <1>1, <1>3, <2>2
  <2> QED
    BY <1>2, <2>1, <2>2
<1> QED
  BY <1>4 DEF n

LEMMA ParentsMet ==
  ASSUME LoadInv, status = "running", at \in 1..16, ~ChildFirst, "blank" \notin odd,
         Due \in WithProduct,
         NEW p \in {"category", "supplier", "location", "products"},
         Due = "products" => p # "products", NEW k \in Lines
  PROVE  Present(p, Parent(p, k))
<1>1. window \in {1, 2} /\ skipped \subseteq {"supplier_stock_snapshot"} /\ ran # 0
  BY DEF LoadInv, LoadTypeOK, TablesPassed
<1>2. Parent(p, k) \in {1, Second(p)}
  <2>1. k \in {1, Second("products")} /\ Second("products") \in {2, 3}
    BY LinesAreSent, LinesWithProduct, SecondLine
  <2>2. p # "products" => Second(p) = 2
    BY SecondLine DEF WithProduct
  <2> QED
    BY <2>1, <2>2 DEF Parent
<1>3. PICK j \in 1..4 : Pipeline[j] = p /\ j < at
  <2>1. Pipeline[1] = "category" /\ Pipeline[2] = "supplier" /\ Pipeline[3] = "location"
        /\ Pipeline[4] = "products"
    BY DEF Pipeline
  <2>2. at # 1 /\ at # 2 /\ at # 3 /\ (p = "products" => at # 4)
    BY <2>1 DEF Due, WithProduct
  <2> QED
    BY <2>1, <2>2
<1>4. Parent(p, k) \in Good(p, 4)
  BY <1>1, <1>2, MastersWhole
<1>5. table[p][Parent(p, k)] = ran
  BY <1>1, <1>3, <1>4 DEF LoadInv, TablesPassed
<1> QED
  BY <1>1, <1>5 DEF Present

LEMMA NoClash ==
  ASSUME LoadInv, status = "running", at \in 1..16,
         pos \in DOMAIN Sends(Due) => ~Check(Due, pos),
         \A k \in Keys : table[Due][k] \notin 1..(ran - 1)
  PROVE  NewRows(Due)
<1>1. /\ window \in {1, 2} /\ ran \in Nat /\ Due \in Entities
      /\ batch \in Seq(Keys) /\ table[Due] \in [Keys -> Nat]
  BY PipelineOrder DEF LoadInv, LoadTypeOK, Due
<1>2. /\ Waiting \subseteq Good(Due, pos)
      /\ \A k \in Keys : table[Due][k] = ran => k \in Good(Due, pos) \ Waiting
      /\ \A i, j \in DOMAIN batch : batch[i] = batch[j] => i = j
  BY DEF LoadInv, TableDue
<1>3. \A k \in Keys : Present(Due, k) => k \in Good(Due, pos) \ Waiting
  <2> SUFFICES ASSUME NEW k \in Keys, table[Due][k] # 0 PROVE k \in Good(Due, pos) \ Waiting
    BY DEF Present
  <2>1. table[Due][k] \in Nat /\ table[Due][k] <= ran
    BY <1>1 DEF LoadInv, NoLaterRow
  <2>2. table[Due][k] = ran
    BY <1>1, <2>1
  <2> QED
    BY <1>2, <2>2
<1>4. Good(Due, pos) \subseteq Keys
  BY DEF Good
<1>5. CASE pos \notin DOMAIN Sends(Due)
  <2>1. Pending = batch /\ Lines = Waiting
    BY <1>5, LinesWithoutNext DEF LoadInv
  <2> QED
    BY <1>2, <1>3, <1>4, <2>1 DEF NewRows
<1>6. CASE pos \in DOMAIN Sends(Due)
  <2>1. /\ Pending \in Seq(Keys) /\ Len(Pending) = Len(batch) + 1
        /\ \A i \in 1..Len(batch) : Pending[i] = batch[i]
        /\ Pending[Len(batch) + 1] = Sends(Due)[pos]
        /\ Lines = Waiting \cup {Sends(Due)[pos]}
    BY <1>6, LinesWithNext DEF LoadInv
  <2>2. Sends(Due)[pos] \notin Good(Due, pos) /\ Sends(Due)[pos] \in Keys
    BY <1>1, <1>6, GoodNext
  <2>3. \A k \in Lines : ~Present(Due, k)
    <3>1. Lines \subseteq Keys /\ \A k \in Lines : k \in Good(Due, pos) => k \in Waiting
      BY <1>2, <1>4, <2>1, <2>2
    <3> QED
      BY <1>3, <3>1
  <2>4. \A i \in 1..Len(batch) : Pending[i] \in Waiting
    <3>1. DOMAIN batch = 1..Len(batch)
      BY <1>1
    <3> QED
      BY <2>1, <3>1 DEF Waiting
  <2>5. \A i, j \in DOMAIN Pending : Pending[i] = Pending[j] => i = j
    <3> SUFFICES ASSUME NEW i \in DOMAIN Pending, NEW j \in DOMAIN Pending, Pending[i] = Pending[j]
                 PROVE  i = j
      OBVIOUS
    <3>1. i \in 1..(Len(batch) + 1) /\ j \in 1..(Len(batch) + 1) /\ Len(batch) \in Nat
          /\ DOMAIN batch = 1..Len(batch)
      BY <1>1, <2>1
    <3>2. CASE i \in 1..Len(batch) /\ j \in 1..Len(batch)
      BY <1>2, <2>1, <3>1, <3>2
    <3>3. CASE i = Len(batch) + 1 /\ j \in 1..Len(batch)
      BY <1>2, <2>1, <2>2, <2>4, <3>3
    <3>4. CASE j = Len(batch) + 1 /\ i \in 1..Len(batch)
      BY <1>2, <2>1, <2>2, <2>4, <3>4
    <3> QED
      BY <3>1, <3>2, <3>3, <3>4
  <2> QED
    BY <2>3, <2>5 DEF NewRows
<1> QED
  BY <1>5, <1>6

LEMMA SkuClash ==
  ASSUME LoadInv, status = "running", at \in 1..16, Due = "products", ~SkuFree
  PROVE  \E j \in Keys :
            SameSku(Second("products"), j) /\ table["products"][j] \in 1..(ran - 1)
<1>1. PICK k \in Lines, j \in Keys : SameSku(k, j) /\ table["products"][j] # 0
  BY DEF SkuFree, Present
<1>2. Due \in WithProduct
  BY DEF WithProduct
<1>3. k = Second("products")
  <2>1. k \in {1, Second("products")}
    BY <1>2, LinesAreSent, LinesWithProduct
  <2> QED
    BY <1>1, <2>1 DEF SameSku
<1>4. j \notin {1, k}
  BY <1>1 DEF SameSku
<1>5. table["products"][j] # ran
  <2>1. ASSUME table[Due][j] = ran
        PROVE  FALSE
    <3>1. j \in Good(Due, pos)
      BY <2>1 DEF LoadInv, TableDue
    <3>2. \E i \in DOMAIN Sends(Due) : Sends(Due)[i] = j
      BY <3>1 DEF Good
    <3> QED
      BY <1>2, <1>3, <1>4, <3>2, LinesWithProduct
  <2> QED
    BY <2>1
<1>6. table["products"][j] \in Nat /\ table["products"][j] <= ran /\ ran \in Nat
  <2>1. "products" \in Entities
    BY PipelineOrder DEF Due
  <2> QED
    BY <2>1 DEF LoadInv, LoadTypeOK, NoLaterRow
<1>7. table["products"][j] \in 1..(ran - 1)
  BY <1>1, <1>5, <1>6
<1> QED
  BY <1>1, <1>3, <1>7

LEMMA UnmetExcused ==
  ASSUME LoadInv, status = "running", at \in 1..16, Unmet,
         pos \in DOMAIN Sends(Due) => ~Check(Due, pos)
  PROVE  \/ ChildFirst \/ "blank" \in odd \/ Misfit
         \/ Due \in Inserted /\ \E k \in Keys : table[Due][k] \in 1..(ran - 1)
         \/ /\ Due = "products"
            /\ \E k \in Keys :
                 SameSku(Second("products"), k) /\ table["products"][k] \in 1..(ran - 1)
<1>1. ASSUME ~ChildFirst, "blank" \notin odd, ~Misfit
      PROVE  (Due \in Inserted /\ ~NewRows(Due)) \/ (Due = "products" /\ ~SkuFree)
  BY <1>1, CategoriesMet, ParentsMet DEF Unmet
<1> QED
  BY <1>1, NoClash, SkuClash

---------------------------------------------------------------------------
(* Each outcome keeps the invariant. *)
LEMMA TypesKeep ==
  ASSUME LoadInv, NEW e \in Entities, e = Due, at \in 1..16, UNCHANGED <<ran, odd, window>>,
         status = "running",
         Rejects(e) \/ Keeps(e) \/ Writes(e) \/ WritesRest(e) \/ Skips(e) \/ Breaks(e)
  PROVE  LoadTypeOK' /\ NoLaterRow'
<1>1. /\ Written(e) \in [Entities -> [Keys -> Nat]]
      /\ \A x \in Entities, k \in Keys : Written(e)[x][k] <= ran
  BY WrittenRows DEF LoadInv
<1>2. /\ table' \in [Entities -> [Keys -> Nat]]
      /\ \A x \in Entities, k \in Keys : table'[x][k] <= ran'
  <2>1. table' \in {table, Written(e)}
    BY DEF Rejects, Keeps, Writes, WritesRest, Skips, Breaks
  <2> QED
    BY <1>1, <2>1 DEF LoadInv, LoadTypeOK, NoLaterRow
<1>3. batch' \in Seq(Keys)
  <2>1. pos \in DOMAIN Sends(Due) => Pending \in Seq(Keys)
    BY LinesWithNext DEF LoadInv
  <2>2. batch \in Seq(Keys) /\ <<>> \in Seq(Keys)
    BY DEF LoadInv, LoadTypeOK
  <2> QED
    BY <2>1, <2>2 DEF Rejects, Keeps, Writes, WritesRest, Skips, Breaks
<1>4. total' \in Nat /\ failed' \in Nat
  <2>1. /\ total' \in {total, total + 1, total + RowsPerLine}
        /\ failed' \in {failed, failed + 1}
    BY DEF Rejects, Keeps, Writes, WritesRest, Skips, Breaks
  <2>2. total \in Nat /\ failed \in Nat /\ RowsPerLine \in Nat
    BY EntityLoadsAssumption DEF LoadInv, LoadTypeOK
  <2> QED
    BY <2>1, <2>2
<1>5. at' \in 1..17 /\ pos' \in Nat \ {0}
  <2>1. at' \in {at, at + 1} /\ pos' \in {pos, pos + 1, 1}
    BY DEF Rejects, Keeps, Writes, WritesRest, Skips, Breaks
  <2> QED
    BY <2>1 DEF LoadInv, LoadTypeOK
<1>6. skipped' \subseteq {"supplier_stock_snapshot"}
  BY DEF LoadInv, LoadTypeOK, Rejects, Keeps, Writes, WritesRest, Skips, Breaks
<1>7. status' \in {"none", "running", "committed", "failed", "aborted"}
  BY DEF LoadInv, LoadTypeOK, Rejects, Keeps, Writes, WritesRest, Skips, Breaks
<1>8. ran' \in Nat /\ odd' \subseteq Oddities /\ window' \in {1, 2}
  BY DEF LoadInv, LoadTypeOK
<1> QED
  BY <1>2, <1>3, <1>4, <1>5, <1>6, <1>7, <1>8 DEF LoadTypeOK, NoLaterRow

(* The tables passed stay as they are while the next one is written. *)
LEMMA PassedKeep ==
  ASSUME LoadInv, NEW e \in Entities, e = Due, at \in 1..16, UNCHANGED <<ran, odd, window>>,
         status = "running", UNCHANGED <<at, status, cause, skipped>>, table' \in {table, Written(e)}
  PROVE  TablesPassed'
<1>1. \A j \in 1..16, k \in Keys : j # at => table'[Pipeline[j]][k] = table[Pipeline[j]][k]
  <2> SUFFICES ASSUME NEW j \in 1..16, NEW k \in Keys, j # at
               PROVE  table'[Pipeline[j]][k] = table[Pipeline[j]][k]
    OBVIOUS
  <2>1. Pipeline[j] \in Entities /\ Pipeline[j] # e
    BY PipelineOrder, OncePerPipeline DEF Due
  <2> QED
    BY <2>1, WrittenRows DEF LoadInv
<1>2. \A x, n : Good(x, n)' = Good(x, n)
  BY SameLines
<1>3. \A x, n : Good(x, n) \subseteq Keys
  BY DEF Good
<1>4. ASSUME NEW j \in 1..(at - 1), Pipeline[j] \notin skipped, NEW k \in Good(Pipeline[j], 4)
      PROVE  table'[Pipeline[j]][k] = ran
  <2>1. j \in 1..16 /\ j # at /\ k \in Keys
    BY <1>3, <1>4
  <2>2. table[Pipeline[j]][k] = ran
    BY <1>4 DEF LoadInv, TablesPassed
  <2> QED
    BY <1>1, <2>1, <2>2
<1>5. \A j \in (at + 1)..16, k \in Keys : table'[Pipeline[j]][k] # ran
  BY <1>1 DEF LoadInv, TablesPassed
<1>6. \A j \in 1..(at' - 1) :
        \/ Pipeline[j] \in skipped'
        \/ \A k \in Good(Pipeline[j], 4)' : table'[Pipeline[j]][k] = ran'
  BY <1>2, <1>4
<1> QED
  BY <1>5, <1>6 DEF LoadInv, TablesPassed

(* The table is over and the next one is due. *)
LEMMA PassedGrow ==
  ASSUME LoadInv, NEW e \in Entities, e = Due, at \in 1..16, UNCHANGED <<ran, odd, window>>,
         status = "running", UNCHANGED <<status, cause>>, at' = at + 1,
         WritesRest(e) \/ Skips(e)
  PROVE  TablesPassed'
<1>1. \A j \in 1..16, k \in Keys : j # at => table'[Pipeline[j]][k] = table[Pipeline[j]][k]
  <2> SUFFICES ASSUME NEW j \in 1..16, NEW k \in Keys, j # at
               PROVE  table'[Pipeline[j]][k] = table[Pipeline[j]][k]
    OBVIOUS
  <2>1. Pipeline[j] \in Entities /\ Pipeline[j] # e
    BY PipelineOrder, OncePerPipeline DEF Due
  <2> QED
    BY <2>1, WrittenRows DEF LoadInv, WritesRest, Skips
<1>2. \A x, n : Good(x, n)' = Good(x, n)
  BY SameLines
<1>3. \A x, n : Good(x, n) \subseteq Keys
  BY DEF Good
<1>4. skipped \subseteq skipped'
  BY DEF WritesRest, Skips
<1>5. e \in skipped' \/ \A k \in Good(e, 4) : table'[e][k] = ran
  <2>1. CASE WritesRest(e)
    <3>1. window \in {1, 2} /\ pos \in Nat /\ pos > Len(Sends(e)) /\ pos \notin DOMAIN Sends(e)
      BY <2>1, SendsLines DEF LoadInv, LoadTypeOK, WritesRest
    <3>2. Good(e, pos) = Good(e, 4)
      BY <3>1, GoodBounds
    <3>3. Lines = Waiting
      BY <3>1, LinesWithoutNext DEF LoadInv
    <3>4. \A k \in Good(e, pos) : k \in Waiting \/ table[e][k] = ran
      BY DEF LoadInv, TableDue
    <3> QED
      BY <1>3, <2>1, <3>2, <3>3, <3>4, WrittenRows DEF LoadInv, WritesRest
  <2>2. CASE Skips(e)
    BY <2>2 DEF Skips
  <2> QED
    BY <2>1, <2>2
<1>6. \A j \in 1..at :
        Pipeline[j] \in skipped' \/ \A k \in Good(Pipeline[j], 4) : table'[Pipeline[j]][k] = ran
  <2> SUFFICES ASSUME NEW j \in 1..at
               PROVE  Pipeline[j] \in skipped' \/ \A k \in Good(Pipeline[j], 4) : table'[Pipeline[j]][k] = ran
    OBVIOUS
  <2>1. CASE j = at
    BY <1>5, <2>1 DEF Due
  <2>2. CASE j # at
    <3>1. Pipeline[j] \in skipped \/ \A k \in Good(Pipeline[j], 4) : table[Pipeline[j]][k] = ran
      BY <2>2 DEF LoadInv, TablesPassed
    <3> QED
      BY <1>1, <1>3, <1>4, <2>2, <3>1
  <2> QED
    BY <2>1, <2>2
<1>7. \A j \in (at' + 1)..16, k \in Keys : table'[Pipeline[j]][k] # ran
  BY <1>1 DEF LoadInv, TablesPassed
<1>8. \A j \in 1..(at' - 1) :
        \/ Pipeline[j] \in skipped'
        \/ \A k \in Good(Pipeline[j], 4)' : table'[Pipeline[j]][k] = ran'
  BY <1>2, <1>6
<1> QED
  BY <1>7, <1>8 DEF LoadInv, TablesPassed

(* Of the table that is due, one line more is taken. *)
LEMMA DueKeeps ==
  ASSUME LoadInv, NEW e \in Entities, e = Due, at \in 1..16, UNCHANGED <<ran, odd, window>>,
         status = "running", Rejects(e) \/ Keeps(e) \/ Writes(e)
  PROVE  TableDue'
<1>1. /\ window \in {1, 2} /\ ran \in Nat /\ batch \in Seq(Keys) /\ table[e] \in [Keys -> Nat]
      /\ pos \in DOMAIN Sends(e) /\ pos' = pos + 1 /\ pos \in Nat
  BY DEF LoadInv, LoadTypeOK, Rejects, Keeps, Writes
<1>2. /\ \A k \in Good(e, pos) : k \in Waiting \/ table[e][k] = ran
      /\ \A k \in Keys : table[e][k] = ran => k \in Good(e, pos) \ Waiting
      /\ Waiting \subseteq Good(e, pos)
      /\ \A i, j \in DOMAIN batch : batch[i] = batch[j] => i = j
  BY DEF LoadInv, TableDue
<1>3. /\ Due' = e /\ \A n : Good(e, n)' = Good(e, n)
      /\ Sends(e)' = Sends(e)
  BY SameLines DEF Due, Rejects, Keeps, Writes
<1>4. pos + 1 <= Len(Sends(e)) + 1
  BY <1>1, SendsLines
<1>5. Good(e, pos) \subseteq Keys
  BY DEF Good
<1>6. CASE Rejects(e)
  <2>1. Good(e, pos + 1) = Good(e, pos)
    BY <1>1, <1>6, GoodNext DEF Rejects
  <2>2. UNCHANGED <<batch, table>> /\ Waiting' = Waiting
    BY <1>6 DEF Rejects, Waiting
  <2> QED
    BY <1>1, <1>2, <1>3, <1>4, <2>1, <2>2 DEF TableDue
<1>7. CASE Keeps(e) \/ Writes(e)
  <2> DEFINE x == Sends(e)[pos]
  <2>1. /\ Good(e, pos + 1) = Good(e, pos) \cup {x}
        /\ x \notin Good(e, pos) /\ x \in Keys
    BY <1>1, <1>7, GoodNext DEF Keeps, Writes
  <2>2. /\ Pending \in Seq(Keys) /\ Len(Pending) = Len(batch) + 1
        /\ \A i \in 1..Len(batch) : Pending[i] = batch[i]
        /\ Pending[Len(batch) + 1] = x
        /\ Lines = Waiting \cup {x}
    BY <1>1, LinesWithNext DEF LoadInv
  <2> HIDE DEF x
  <2>3. CASE Keeps(e)
    <3>1. batch' = Pending /\ UNCHANGED table
      BY <2>3 DEF Keeps
    <3>2. Waiting' = Waiting \cup {x}
      BY <2>2, <3>1 DEF Lines, Waiting
    <3>3. \A i, j \in DOMAIN Pending : Pending[i] = Pending[j] => i = j
      <4> SUFFICES ASSUME NEW i \in DOMAIN Pending, NEW j \in DOMAIN Pending, Pending[i] = Pending[j]
                   PROVE  i = j
        OBVIOUS
      <4>1. i \in 1..(Len(batch) + 1) /\ j \in 1..(Len(batch) + 1) /\ Len(batch) \in Nat
            /\ DOMAIN batch = 1..Len(batch)
        BY <1>1, <2>2
      <4>2. \A m \in 1..Len(batch) : batch[m] # x
        BY <1>2, <2>1, <4>1 DEF Waiting
      <4>3. CASE i \in 1..Len(batch) /\ j \in 1..Len(batch)
        BY <1>2, <2>2, <4>1, <4>3
      <4>4. CASE i = Len(batch) + 1 /\ j \in 1..Len(batch)
        BY <2>2, <4>2, <4>4
      <4>5. CASE j = Len(batch) + 1 /\ i \in 1..Len(batch)
        BY <2>2, <4>2, <4>5
      <4> QED
        BY <4>1, <4>3, <4>4, <4>5
    <3>4. \A i, j \in DOMAIN batch' : batch'[i] = batch'[j] => i = j
      BY <3>1, <3>3
    <3>5. \A k \in Good(e, pos + 1) : k \in Waiting' \/ table'[e][k] = ran
      BY <1>2, <2>1, <3>1, <3>2
    <3>6. \A k \in Keys : table'[e][k] = ran => k \in Good(e, pos + 1) \ Waiting'
      BY <1>2, <2>1, <3>1, <3>2
    <3>7. Waiting' \subseteq Good(e, pos + 1)
      BY <1>2, <2>1, <3>2
    <3> QED
      BY <1>1, <1>3, <1>4, <3>4, <3>5, <3>6, <3>7 DEF TableDue
  <2>4. CASE Writes(e)
    <3>1. batch' = <<>> /\ table' = Written(e)
      BY <2>4 DEF Writes
    <3>2. Waiting' = {} /\ DOMAIN batch' = {}
      BY <3>1 DEF Waiting
    <3>3. \A k \in Keys : table'[e][k] = IF k \in Lines THEN ran ELSE table[e][k]
      BY <3>1, WrittenRows DEF LoadInv
    <3>4. \A k \in Good(e, pos + 1) : table'[e][k] = ran
      BY <1>2, <1>5, <2>1, <2>2, <3>3
    <3>5. \A k \in Keys : table'[e][k] = ran => k \in Good(e, pos + 1)
      BY <1>2, <2>1, <2>2, <3>3
    <3> QED
      BY <1>1, <1>3, <1>4, <3>2, <3>4, <3>5 DEF TableDue
  <2> QED
    BY <1>7, <2>3, <2>4
<1> QED
  BY <1>6, <1>7

LEMMA DueNext ==
  ASSUME LoadInv, NEW e \in Entities, e = Due, at \in 1..16, UNCHANGED <<ran, odd, window>>,
         status = "running", WritesRest(e) \/ Skips(e)
  PROVE  TableDue'
<1>1. pos' = 1 /\ at' = at + 1 /\ window \in {1, 2} /\ UNCHANGED status
  BY DEF LoadInv, LoadTypeOK, WritesRest, Skips
<1>2. DOMAIN batch' = {}
  <2>1. CASE WritesRest(e)
    BY <2>1 DEF WritesRest
  <2>2. CASE Skips(e)
    <3>1. Waiting \subseteq Good(e, 1)
      BY <2>2 DEF LoadInv, TableDue, Skips
    <3>2. Good(e, 1) = {}
      BY <1>1, GoodBounds
    <3>3. DOMAIN batch = {}
      BY <3>1, <3>2 DEF Waiting
    <3> QED
      BY <2>2, <3>3 DEF Skips
  <2> QED
    BY <2>1, <2>2
<1>3. Waiting' = {}
  BY <1>2 DEF Waiting
<1> SUFFICES ASSUME at + 1 <= 16 PROVE TableDue'
  BY <1>1 DEF TableDue
<1>4. PICK x \in Entities : x = Pipeline[at + 1] /\ x # e
  BY PipelineOrder, OncePerPipeline DEF Due
<1>5. Due' = x
  BY <1>1, <1>4 DEF Due
<1>6. \A k \in Keys : table[x][k] # ran
  BY <1>4 DEF LoadInv, TablesPassed
<1>7. \A k \in Keys : table'[x][k] # ran
  <2>1. CASE WritesRest(e)
    <3>1. \A k \in Keys : Written(e)[x][k] = table[x][k]
      BY <1>4, WrittenRows DEF LoadInv
    <3> QED
      BY <1>6, <2>1, <3>1 DEF WritesRest
  <2>2. CASE Skips(e)
    BY <1>6, <2>2 DEF Skips
  <2> QED
    BY <2>1, <2>2
<1>8. Good(x, 1)' = {} /\ Sends(x)' = Sends(x)
  BY <1>1, GoodBounds, SameLines
<1>9. 1 <= Len(Sends(x)) + 1
  BY <1>1, SendsLines
<1> QED
  BY <1>1, <1>2, <1>3, <1>5, <1>7, <1>8, <1>9 DEF TableDue

LEMMA ParentFirstKeeps ==
  ASSUME LoadInv, NEW e \in Entities, e = Due, at \in 1..16, UNCHANGED <<ran, odd, window>>,
         status = "running",
         Rejects(e) \/ Keeps(e) \/ Writes(e) \/ WritesRest(e) \/ Skips(e)
  PROVE  ParentFirst'
<1>1. UNCHANGED ChildFirst /\ UNCHANGED status
  BY DEF ChildFirst, Rejects, Keeps, Writes, WritesRest, Skips
<1>2. CASE Rejects(e)
  BY <1>1, <1>2 DEF LoadInv, ParentFirst, Present, Rejects
<1>3. CASE Keeps(e)
  <2>1. UNCHANGED <<at, table>> /\ batch' = Pending
    BY <1>3 DEF Keeps
  <2>2. at = 1 => Due = "category"
    BY DEF Due, Pipeline
  <2>3. at = 1 /\ ~ChildFirst => UpsertCategory
    BY <2>2, CategoriesMet
  <2> QED
    BY <1>1, <2>1, <2>3 DEF ParentFirst, UpsertCategory, Present
<1>4. CASE Writes(e) \/ WritesRest(e)
  <2>1. DOMAIN batch' = {}
    BY <1>4 DEF Writes, WritesRest
  <2> QED
    BY <2>1 DEF ParentFirst
<1>5. CASE Skips(e)
  <2>1. at' # 1
    BY <1>5 DEF Skips
  <2> QED
    BY <2>1 DEF ParentFirst
<1> QED
  BY <1>2, <1>3, <1>4, <1>5

---------------------------------------------------------------------------
(* A step of the pipeline, of the load around it, or of another part. *)
LEMMA PipelineKeeps ==
  ASSUME LoadInv, RunPipeline
  PROVE  LoadInv'
<1>1. PICK e : e = Due
  OBVIOUS
<1>2. /\ status = "running" /\ at \in 1..16 /\ e \in Entities /\ UNCHANGED <<ran, odd, window>>
      /\ Rejects(e) \/ Keeps(e) \/ Writes(e) \/ WritesRest(e) \/ Skips(e) \/ Breaks(e)
  BY <1>1, PipelineStep, StepOutcomes DEF LoadInv
<1>3. LoadTypeOK' /\ NoLaterRow'
  BY <1>1, <1>2, TypesKeep
<1>4. cause = "none"
  BY <1>2 DEF LoadInv, TablesPassed
<1>5. CASE Rejects(e) \/ Keeps(e) \/ Writes(e)
  <2>1. UNCHANGED <<at, status, cause, skipped>> /\ table' \in {table, Written(e)}
    BY <1>5 DEF Rejects, Keeps, Writes
  <2>2. TablesPassed'
    BY <1>1, <1>2, <2>1, PassedKeep
  <2>3. TableDue'
    BY <1>1, <1>2, <1>5, DueKeeps
  <2>4. ParentFirst'
    BY <1>1, <1>2, <1>5, ParentFirstKeeps
  <2>5. ForeignKeysHold'
    BY <1>4, <2>1 DEF ForeignKeysHold
  <2> QED
    BY <1>3, <2>2, <2>3, <2>4, <2>5 DEF LoadInv
<1>6. CASE WritesRest(e) \/ Skips(e)
  <2>1. UNCHANGED <<status, cause>> /\ at' = at + 1
    BY <1>6 DEF WritesRest, Skips
  <2>2. TablesPassed'
    BY <1>1, <1>2, <1>6, <2>1, PassedGrow
  <2>3. TableDue'
    BY <1>1, <1>2, <1>6, DueNext
  <2>4. ParentFirst'
    BY <1>1, <1>2, <1>6, ParentFirstKeeps
  <2>5. ForeignKeysHold'
    BY <1>4, <2>1 DEF ForeignKeysHold
  <2> QED
    BY <1>3, <2>2, <2>3, <2>4, <2>5 DEF LoadInv
<1>7. CASE Breaks(e)
  <2>1. status' = "failed"
    BY <1>7 DEF Breaks
  <2>2. ForeignKeysHold'
    <3> SUFFICES ASSUME cause' = "constraint" PROVE ForeignKeysHold'
      BY DEF ForeignKeysHold
    <3>1. Unmet /\ UNCHANGED <<table, at>> /\ (pos \in DOMAIN Sends(Due) => ~Check(Due, pos))
      BY <1>1, <1>7 DEF Breaks
    <3>2. \/ ChildFirst \/ "blank" \in odd \/ Misfit
          \/ Due \in Inserted /\ \E k \in Keys : table[Due][k] \in 1..(ran - 1)
          \/ /\ Due = "products"
             /\ \E k \in Keys :
                  SameSku(Second("products"), k) /\ table["products"][k] \in 1..(ran - 1)
      BY <1>2, <3>1, UnmetExcused
    <3>3. CASE ChildFirst \/ "blank" \in odd \/ Misfit
      <4>1. odd \cap {"child first", "blank", "event type", "no partition"} # {}
        BY <3>3, Zenon DEF ChildFirst, Misfit
      <4> QED
        BY <1>2, <4>1, Zenon DEF ForeignKeysHold
    <3>4. CASE Due \in Inserted /\ \E k \in Keys : table[Due][k] \in 1..(ran - 1)
      BY <1>2, <3>1, <3>4, Zenon DEF ForeignKeysHold, Due
    <3>5. CASE /\ Due = "products"
               /\ \E k \in Keys :
                    SameSku(Second("products"), k) /\ table["products"][k] \in 1..(ran - 1)
      <4>1. Second("products")' = Second("products")
        BY <1>2 DEF Second
      <4> QED
        BY <1>2, <3>1, <3>5, <4>1, Zenon DEF ForeignKeysHold, Due
    <3> QED
      BY <3>2, <3>3, <3>4, <3>5
  <2>3. TablesPassed' /\ TableDue' /\ ParentFirst'
    BY <2>1 DEF TablesPassed, TableDue, ParentFirst
  <2> QED
    BY <1>3, <2>2, <2>3 DEF LoadInv
<1> QED
  BY <1>2, <1>5, <1>6, <1>7

LEMMA FinishKeeps ==
  ASSUME LoadInv, FinishRun
  PROVE  LoadInv'
<1>1. /\ status = "running" /\ at = 17 /\ status' \in {"failed", "committed"}
      /\ UNCHANGED <<ran, at, pos, batch, table, total, failed, odd, window, skipped>>
      /\ cause' # "constraint"
      /\ status' = "committed" => ~(failed * 100 > total) /\ UNCHANGED cause
  <2>1. status = "running" /\ at = 17
    BY DEF FinishRun, Pipeline
  <2>2. cause = "none"
    BY <2>1 DEF LoadInv, TablesPassed
  <2> QED
    BY <2>1, <2>2 DEF FinishRun, Fail, QualityThresholdExceeded
<1>2. LoadTypeOK' /\ NoLaterRow'
  BY <1>1 DEF LoadInv, LoadTypeOK, NoLaterRow
<1>3. \A x, n : Good(x, n)' = Good(x, n)
  BY <1>1, SameLines
<1>4. TablesPassed'
  <2> SUFFICES ASSUME status' = "committed" PROVE TablesPassed'
    BY <1>1 DEF TablesPassed
  <2>1. failed * 100 <= total
    BY <1>1 DEF LoadInv, LoadTypeOK
  <2>2. /\ ran # 0 /\ cause = "none"
        /\ \A j \in 1..(at - 1) :
             Pipeline[j] \in skipped \/ \A k \in Good(Pipeline[j], 4) : table[Pipeline[j]][k] = ran
        /\ \A j \in (at + 1)..16, k \in Keys : table[Pipeline[j]][k] # ran
    BY <1>1 DEF LoadInv, TablesPassed
  <2> QED
    BY <1>1, <1>3, <2>1, <2>2 DEF TablesPassed
<1>5. TableDue' /\ ParentFirst' /\ ForeignKeysHold'
  BY <1>1, Zenon DEF TableDue, ParentFirst, ForeignKeysHold
<1> QED
  BY <1>2, <1>4, <1>5 DEF LoadInv

LEMMA CrashKeeps ==
  ASSUME LoadInv, Crash
  PROVE  LoadInv'
<1>1. cause' = "none" /\ status' = "aborted"
      /\ UNCHANGED <<ran, at, pos, batch, table, total, failed, odd, window, skipped>>
  BY DEF Crash, LoadInv, TablesPassed
<1>2. LoadTypeOK' /\ NoLaterRow'
  BY <1>1 DEF LoadInv, LoadTypeOK, NoLaterRow
<1>3. TablesPassed' /\ TableDue' /\ ParentFirst' /\ ForeignKeysHold'
  BY <1>1, Zenon DEF TablesPassed, TableDue, ParentFirst, ForeignKeysHold
<1> QED
  BY <1>2, <1>3 DEF LoadInv

LEMMA FirstLine ==
  window \in {1, 2} => Good("category", 1) = {} /\ 1 <= Len(Sends("category")) + 1
BY GoodBounds, SendsLines

LEMMA StartKeeps ==
  ASSUME LoadInv, StartRun
  PROVE  LoadInv'
<1>1. /\ ran' = ran + 1 /\ status' = "running" /\ at' = 1 /\ pos' = 1 /\ batch' = <<>>
      /\ total' = 0 /\ failed' = 0 /\ skipped' = {} /\ cause' = "none" /\ window' \in {1, 2}
      /\ UNCHANGED table /\ odd' \subseteq Oddities
  BY DEF StartRun
<1>2. ran \in Nat /\ \A e \in Entities, k \in Keys : table[e][k] \in Nat /\ table[e][k] <= ran
  BY DEF LoadInv, LoadTypeOK, NoLaterRow
<1>3. LoadTypeOK'
  <2>1. 1 \in 1..17 /\ <<>> \in Seq(Keys) /\ ran + 1 \in Nat
    BY <1>2
  <2> QED
    BY <1>1, <2>1 DEF LoadInv, LoadTypeOK
<1>4. NoLaterRow'
  BY <1>1, <1>2 DEF NoLaterRow
<1>5. \A j \in 1..16, k \in Keys : table'[Pipeline[j]][k] # ran'
  BY <1>1, <1>2, PipelineOrder
<1>6. TablesPassed'
  BY <1>1, <1>2, <1>5 DEF TablesPassed
<1>7. TableDue'
  <2>1. DOMAIN batch' = {} /\ Waiting' = {}
    BY <1>1 DEF Waiting
  <2>2. Due' = "category"
    BY <1>1 DEF Due, Pipeline
  <2>3. (Good("category", 1) = {} /\ 1 <= Len(Sends("category")) + 1)'
    <3>1. (window \in {1, 2})'
      BY <1>1
    <3> QED
      BY <3>1, FirstLine, PTL
  <2>4. \A k \in Keys : table'["category"][k] # ran'
    BY <1>5 DEF Pipeline
  <2> QED
    BY <1>1, <2>1, <2>2, <2>3, <2>4 DEF TableDue
<1>8. ParentFirst' /\ ForeignKeysHold'
  BY <1>1 DEF ParentFirst, ForeignKeysHold
<1> QED
  BY <1>3, <1>4, <1>6, <1>7, <1>8 DEF LoadInv

LEMMA LoadStart == Init => LoadInv
<1> SUFFICES ASSUME Init PROVE LoadInv
  OBVIOUS
<1>1. NoLoads /\ ran \in Nat
  BY EntityLoadsAssumption DEF Init, AdapterIdle, EntityLoadsInit, EntityLoadsOver
<1>2. \A e \in Entities, k \in Keys : table[e][k] = 0
  BY <1>1 DEF NoLoads
<1>3. LoadTypeOK
  BY <1>1 DEF NoLoads, LoadTypeOK
<1>4. NoLaterRow
  BY <1>1, <1>2 DEF NoLaterRow
<1>5. TablesPassed /\ TableDue /\ ParentFirst /\ ForeignKeysHold
  BY <1>1 DEF NoLoads, TablesPassed, TableDue, ParentFirst, ForeignKeysHold
<1> QED
  BY <1>3, <1>4, <1>5 DEF LoadInv

LEMMA LoadKeeps ==
  ASSUME LoadInv, [Next]_vars
  PROVE  LoadInv'
<1>1. CASE EntityLoadsNext
  BY <1>1, StartKeeps, PipelineKeeps, FinishKeeps, CrashKeeps DEF EntityLoadsNext
<1>2. CASE UNCHANGED entityVars
  <2>1. UNCHANGED <<ran, status, at, pos, batch, table, total, failed, odd, window, skipped, cause>>
    BY <1>2 DEF entityVars
  <2>2. \A e, n : Sends(e)' = Sends(e) /\ Good(e, n)' = Good(e, n)
    BY <2>1, SameLines
  <2>3. LoadTypeOK' /\ NoLaterRow'
    BY <2>1 DEF LoadInv, LoadTypeOK, NoLaterRow
  <2>4. TablesPassed'
    BY <2>1, <2>2 DEF LoadInv, TablesPassed
  <2>5. TableDue'
    <3>1. PICK e : e = Due
      OBVIOUS
    <3>2. PICK n : n = pos
      OBVIOUS
    <3>3. Due' = e /\ pos' = n /\ Waiting' = Waiting
      BY <2>1, <3>1, <3>2 DEF Due, Waiting
    <3>4. Good(e, n)' = Good(e, n) /\ Sends(e)' = Sends(e)
      BY <2>2
    <3> QED
      BY <2>1, <3>1, <3>2, <3>3, <3>4 DEF LoadInv, TableDue
  <2>6. ParentFirst' /\ ForeignKeysHold'
    BY <2>1 DEF LoadInv, ParentFirst, ForeignKeysHold, ChildFirst, Present, Second
  <2> QED
    BY <2>3, <2>4, <2>5, <2>6 DEF LoadInv
<1> QED
  BY <1>1, <1>2 DEF Next, vars, adapterVars

THEOREM LoadInvHolds == Spec => []LoadInv
<1>1. LoadInv /\ [Next]_vars => LoadInv'
  BY LoadKeeps
<1> QED
  BY LoadStart, <1>1, PTL DEF Spec

(* A committed load has written every good line of every table under its own
   id, whatever the size of the batches, whatever flaws the data of the ERP had
   and whatever earlier loads left. *)
THEOREM CommittedLoadsAlwaysWhole == Spec => []CommittedLoadWhole
<1>1. LoadInv => CommittedLoadWhole
  <2> SUFFICES ASSUME LoadInv, status = "committed" PROVE CommittedLoadWhole
    BY DEF CommittedLoadWhole
  <2>1. failed * 100 <= total /\ at = 17 /\ window \in {1, 2}
        /\ skipped \subseteq {"supplier_stock_snapshot"}
    BY DEF LoadInv, LoadTypeOK, TablesPassed
  <2>2. ASSUME NEW e \in Entities \ skipped, NEW i \in DOMAIN Sends(e), ~Check(e, i)
        PROVE  table[e][Sends(e)[i]] = ran
    <3>1. PICK j \in 1..16 : Pipeline[j] = e
      BY <2>2, EntityDue
    <3>2. \A k \in Good(e, 4) : table[e][k] = ran
      <4>1. TablesPassed /\ j \in 1..(at - 1) /\ Pipeline[j] \notin skipped
        BY <2>1, <2>2, <3>1 DEF LoadInv
      <4> QED
        BY <3>1, <4>1 DEF TablesPassed
    <3>3. i < 4 /\ Sends(e)[i] \in Keys
      BY <2>1, <2>2, SendsLines
    <3>4. Sends(e)[i] \in Good(e, 4)
      BY <2>2, <3>3 DEF Good
    <3> QED
      BY <3>2, <3>4
  <2> QED
    BY <2>1, <2>2 DEF CommittedLoadWhole
<1> QED
  BY LoadInvHolds, <1>1, PTL

(* The order of the pipeline meets the constraints of the migrations: a load
   breaks one only for a category sent before its parent, a location that is
   rejected, an event of a type that is not listed, a date without a partition,
   facts that an earlier load has inserted, or a product whose SKU an earlier
   load left under another id. *)
THEOREM ForeignKeysAlwaysHold == Spec => []ForeignKeysHold
<1>1. LoadInv => ForeignKeysHold
  BY DEF LoadInv
<1> QED
  BY LoadInvHolds, <1>1, PTL
====
