---- MODULE EntityPages ----
(* How a reader of the source adapter pages through each of the sixteen tables
   of one snapshot: the SQL orders by columns and skips what is not above the
   text of the cursor, the handler makes that text of the last row of a full
   page.  Paging is right only where the two agree.  What a page has to do with
   loads and the snapshot pointer, and the other answers, are in SnapshotReads.

   A text is a sequence of characters, compared as the collation C compares
   bytes; '|' is above digits, letters and the hyphen.  A date always has the
   same length and is one character.  A bigint is the text of its digits. *)
EXTENDS Naturals, Sequences, FiniteSets, FiniteSetsExt

CONSTANTS
    Ids,        \* texts used as keys, some of them longer than others
    Numbers,    \* bigint keys, some of them with more digits
    Dates,      \* dates, as texts of one character
    MaxTable,   \* bound: rows of a table
    Limits      \* values of ?limit=

Bar == 99
ASSUME EntityPagesAssumption ==
    /\ Limits \subseteq Nat \ {0}
    /\ MaxTable \in Nat
    /\ Ids \cup Numbers \cup Dates \subseteq Seq(0..(Bar - 1))
    /\ <<>> \notin Numbers

VARIABLES
    entity,     \* the table that is read
    rows,       \* its rows of the snapshot, with the columns of the cursor
    limit,      \* size of a page
    after,      \* afterPK of the cursor, empty at the start
    delivered,  \* rows of all the pages so far
    finished    \* the last page had no X-Next-Cursor

pageVars == <<entity, rows, limit, after, delivered, finished>>

TextLess(s, t) ==
    \E i \in DOMAIN t :
        /\ \A j \in 1..(i - 1) : j <= Len(s) /\ s[j] = t[j]
        /\ i <= Len(s) + 1
        /\ i <= Len(s) => s[i] < t[i]
KeyLess(a, b) ==
    \E i \in DOMAIN a : TextLess(a[i], b[i]) /\ \A j \in 1..(i - 1) : a[j] = b[j]
\* A text that is ordered as the number is.
Number(digits) == <<Len(digits)>> \o digits
Joined(a, b) == a \o <<Bar>> \o b

(* LIMIT rows of those above the cursor, in an order of the key; rows with one
   key come in any order. *)
Page(left, key) ==
    LET n == Min({limit, Cardinality(left)})
    IN  {p \in [1..n -> left] :
           /\ \A i, j \in 1..n : i < j => p[i] # p[j] /\ ~KeyLess(key[p[j]], key[p[i]])
           /\ \A r \in left : (\A i \in 1..n : p[i] # r) =>
                \A i \in 1..n : ~KeyLess(key[r], key[p[i]])}
AfterId == Page({r \in rows : TextLess(after, r.id)}, [r \in rows |-> <<r.id>>])
AfterNumber == Page({r \in rows : TextLess(Number(after), Number(r.id))},
                    [r \in rows |-> <<Number(r.id)>>])

SelectProducts == AfterId
SelectCategory == AfterId
SelectSupplier == AfterId
SelectLocation == AfterId
SelectPromo == AfterId
SelectSupplyPlan == AfterId
SelectLifecycleEvents == AfterNumber
SelectMasterChangeLog == AfterNumber
SelectProductBarcodes == Page(
    {r \in rows : TextLess(after, Joined(r.product, r.barcode))},
    [r \in rows |-> <<r.product, r.barcode>>])
SelectStoreAssortment == Page(
    {r \in rows : TextLess(after, Joined(Joined(r.location, r.product), r.start))},
    [r \in rows |-> <<r.location, r.product, r.start>>])
SelectOrderRuleFanout == Page(
    {r \in rows : TextLess(after, Joined(r.rule, r.product))},
    [r \in rows |-> <<r.rule, r.product>>])
SelectSupplySpecFanout == Page(
    {r \in rows : TextLess(after, Joined(Joined(r.product, r.supplier), r.location))},
    [r \in rows |-> <<r.product, r.supplier, r.location>>])
SelectReceiptLine == Page(
    {r \in rows : TextLess(after, Joined(r.date, r.id))},
    [r \in rows |-> <<r.date, Number(r.id)>>])
SelectStockMovement == Page(
    {r \in rows : TextLess(after, Joined(r.date, r.id))},
    [r \in rows |-> <<r.date, Number(r.id)>>])
SelectLocationStockSnapshot == Page(
    {r \in rows : TextLess(after, Joined(Joined(r.date, r.location), r.product))},
    [r \in rows |-> <<r.date, r.location, r.product>>])
SelectSupplierStockSnapshot == Page(
    {r \in rows : TextLess(after, Joined(Joined(r.date, r.supplier), r.product))},
    [r \in rows |-> <<r.date, r.supplier, r.product>>])

(* A full page has a cursor, whether or not there is more. *)
WriteNextCursor(page, cursor) ==
    IF Len(page) = limit
    THEN after' = cursor[page[limit]] /\ UNCHANGED finished
    ELSE finished' = TRUE /\ UNCHANGED after

Get(e, Select, cursor) ==
    /\ entity = e
    /\ ~finished
    /\ \E page \in Select :
         /\ delivered' = delivered \o page
         /\ WriteNextCursor(page, cursor)
    /\ UNCHANGED <<entity, rows, limit>>

Id == [r \in rows |-> r.id]
GetProducts == Get("products", SelectProducts, Id)
GetCategory == Get("category", SelectCategory, Id)
GetSupplier == Get("supplier", SelectSupplier, Id)
GetLocation == Get("location", SelectLocation, Id)
GetPromo == Get("promo", SelectPromo, Id)
GetSupplyPlan == Get("supply_plan", SelectSupplyPlan, Id)
GetLifecycleEvents == Get("store_assortment_lifecycle_events", SelectLifecycleEvents, Id)
GetMasterChangeLog == Get("master_change_log", SelectMasterChangeLog, Id)
GetProductBarcodes == Get("product_barcodes", SelectProductBarcodes,
    [r \in rows |-> Joined(r.product, r.barcode)])
GetStoreAssortment == Get("store_assortment", SelectStoreAssortment,
    [r \in rows |-> Joined(Joined(r.location, r.product), r.start)])
GetOrderRule == Get("order_rule", SelectOrderRuleFanout,
    [r \in rows |-> Joined(r.rule, r.product)])
GetSupplySpec == Get("supply_spec", SelectSupplySpecFanout,
    [r \in rows |-> Joined(Joined(r.product, r.supplier), r.location)])
GetReceiptLineById == Get("receipt_line", SelectReceiptLine,
    [r \in rows |-> Joined(r.id, r.date)])
GetReceiptLine == Get("receipt_line", SelectReceiptLine,
    [r \in rows |-> Joined(r.date, r.id)])
GetStockMovement == Get("stock_movement", SelectStockMovement,
    [r \in rows |-> Joined(r.date, r.id)])
GetLocationStockSnapshot == Get("location_stock_snapshot", SelectLocationStockSnapshot,
    [r \in rows |-> Joined(Joined(r.date, r.location), r.product)])
GetSupplierStockSnapshot == Get("supplier_stock_snapshot", SelectSupplierStockSnapshot,
    [r \in rows |-> Joined(Joined(r.date, r.supplier), r.product)])

(* A rule is listed for its product, for those of its category or for all. *)
OrderRuleFanout(rules) == UNION {{[rule |-> id, product |-> p] : p \in rules[id]} : id \in DOMAIN rules}
(* A specification is listed for every location. *)
SupplySpecFanout(specs, locations) ==
    {[product |-> s.product, supplier |-> s.supplier, from |-> s.from, location |-> l] :
        s \in specs, l \in locations}

UpTo(n, S) == UNION {kSubset(k, S) : k \in 0..n}
ById == {"products", "category", "supplier", "location", "promo", "supply_plan"}
ByNumber == {"store_assortment_lifecycle_events", "master_change_log"}
Dated == {"receipt_line", "stock_movement"}
Tables == ById \cup ByNumber \cup Dated \cup
    {"product_barcodes", "store_assortment", "order_rule", "supply_spec",
     "location_stock_snapshot", "supplier_stock_snapshot"}
(* The tables by entity, keyed as the migrations declare them; no rule but the one
   of locations refuses an id without a character. *)
Contents == [e \in Tables |->
    CASE e = "location" -> UpTo(MaxTable, [id : Ids])
      [] e \in ById \ {"location"} -> UpTo(MaxTable, [id : {<<>>} \cup Ids])
      [] e \in ByNumber -> UpTo(MaxTable, [id : Numbers])
      [] e \in Dated -> UpTo(MaxTable, [date : Dates, id : Numbers])
      [] e = "product_barcodes" -> UpTo(MaxTable, [product : Ids, barcode : Ids])
      [] e = "store_assortment" ->
           {t \in UpTo(MaxTable, [location : Ids, product : Ids, start : Dates]) :
              \A r, s \in t : <<r.location, r.product>> = <<s.location, s.product>> => r = s}
      [] e = "order_rule" -> {OrderRuleFanout(f) :
           f \in UNION {[S -> {Ids} \cup {{p} : p \in Ids}] : S \in UpTo(2, Ids)}}
      [] e = "supply_spec" -> {SupplySpecFanout(s, l) :
           s \in UpTo(2, [product : Ids, supplier : Ids, from : Dates]), l \in UpTo(2, Ids)}
      [] e = "location_stock_snapshot" ->
           UpTo(MaxTable, [date : Dates, location : Ids, product : Ids])
      [] e = "supplier_stock_snapshot" ->
           UpTo(MaxTable, [date : Dates, supplier : Ids, product : Ids])]

PagesInit ==
    /\ \E e \in Tables : entity = e /\ rows \in Contents[e]
    /\ IsFiniteSet(rows)
    /\ limit \in Limits
    /\ after = <<>> /\ delivered = <<>> /\ finished = FALSE
PagesIdle ==
    entity = "none" /\ rows = {} /\ limit = 1 /\ after = <<>> /\ delivered = <<>> /\ finished = TRUE

ServePage ==
    \/ GetProducts \/ GetCategory \/ GetSupplier \/ GetLocation \/ GetPromo \/ GetSupplyPlan
    \/ GetLifecycleEvents \/ GetMasterChangeLog \/ GetProductBarcodes \/ GetStoreAssortment
    \/ GetOrderRule \/ GetSupplySpec \/ GetReceiptLine \/ GetStockMovement
    \/ GetLocationStockSnapshot \/ GetSupplierStockSnapshot

(* Every row is in one of the pages, and in no two, when the columns of a
   cursor of several columns have one length each, and no two rows have one
   cursor.  A key of one column must not be empty, as the cursor of the first
   page is.  The rows of receipt_line 9 and 10 of one day, keys of different
   lengths, and two specifications that differ in valid_from alone are outside:
   there a page may skip a row. *)
SingleKey == entity \in ByNumber \/ (entity \in ById /\ \A r \in rows : r.id # <<>>)
OneLength == \A r, s \in rows : \A c \in DOMAIN r : Len(r[c]) = Len(s[c])
OneCursor == \A r, s \in rows : (\A c \in DOMAIN r \ {"from"} : r[c] = s[c]) => r = s
PagesEveryRowOnce ==
    SingleKey \/ (entity \notin ById \cup ByNumber /\ OneLength /\ OneCursor) =>
        /\ \A i, j \in DOMAIN delivered : delivered[i] = delivered[j] => i = j
        /\ finished => rows = {delivered[i] : i \in DOMAIN delivered}
====
