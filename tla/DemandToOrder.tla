---- MODULE DemandToOrder ----
(* What the quantities of one run go through: the history of sales becomes a
   forecast, with the calculation input a line of need for every product, the
   lines a plan for every supplier, and an approved plan an order. *)
EXTENDS Fractions

CONSTANTS
    Products,
    Suppliers,
    Histories(_), \* what a product may have sold, by day; absent without a row
    Rows(_),      \* its row of mart_calculation_input
    Scores,       \* lead_time_actual_avg of a supplier
    Masters,      \* unit prices: of a product, default of a supplier
    AsOf,         \* the day of the run
    Horizon,      \* days forecast
    Scale,        \* units a NUMERIC column tells apart in one (10000 in the code)
    NULL

ASSUME WindowAssumption ==
    /\ Horizon \in Nat \ {0} /\ Scale \in Nat \ {0} /\ AsOf \in Nat
    /\ IsFiniteSet(Products)
    /\ NULL \notin Int \X Int

\* A line below zero is rejected or a return, which is no sale.
ASSUME HistoryAssumption ==
    \A p \in Products : \A h \in Histories(p) :
        /\ DOMAIN h \subseteq 0..(AsOf - 1)
        /\ h = [d \in DOMAIN h |-> h[d]]
        /\ \A d \in DOMAIN h : h[d] \in Nat

\* No rule keeps what is on its way above zero, or the demand of an order rule.
ASSUME InputAssumption ==
    /\ \A p \in Products : \A row \in Rows(p) :
          /\ row.supplier \in Suppliers \cup {NULL}
          /\ IsFraction(row.stock) /\ IsFraction(row.transit)
          /\ row.demand = NULL \/ IsFraction(row.demand)
          /\ row.lead = NULL \/ row.lead \in Int
    /\ \A score \in Scores : score = NULL \/ IsFraction(score)
    /\ \A m \in Masters :
          /\ \A p \in Products : m.product[p] = NULL \/ IsFraction(m.product[p])
          /\ \A s \in Suppliers : m.supplier[s] = NULL \/ IsFraction(m.supplier[s])

DaysPerWeek == 7
CycleStockDays == 7
LeadTimeDefault == 7
WoyMinSeasons == 4
Horizons == AsOf..(AsOf + Horizon - 1)
DefaultConfig == [moq |-> 0, multiplier |-> 1]

VARIABLES
    history,    \* of the products
    inputs,
    scores,     \* of the suppliers
    masters,
    forecasts,  \* of the products with a history, by day
    lines,      \* calculation_lines
    plans,      \* replenishment_plans by supplier
    orders,     \* purchase_orders by supplier
    phase

demandVars == <<history, inputs, scores, masters, forecasts, lines, plans,
                orders, phase>>

\* One of its own for each product.
EachOf(choices) ==
    {f \in [Products -> UNION {choices[p] : p \in Products}] :
        \A p \in Products : f[p] \in choices[p]}

DemandInit ==
    /\ history \in EachOf([p \in Products |-> Histories(p)])
    /\ inputs \in EachOf([p \in Products |-> Rows(p)])
    /\ scores \in [Suppliers -> Scores]
    /\ masters = <<>>
    /\ forecasts = <<>> /\ lines = <<>> /\ plans = <<>> /\ orders = <<>>
    /\ phase = "demand"

DemandIdle ==
    /\ history = <<>> /\ inputs = <<>> /\ scores = <<>> /\ masters = <<>>
    /\ forecasts = <<>> /\ lines = <<>> /\ plans = <<>> /\ orders = <<>>
    /\ phase = "idle"

---------------------------------------------------------------------------
Weekday(day) == day % DaysPerWeek
IsoWeek(day) == day \div DaysPerWeek

\* The multipliers not divided by the average.
PredictUndivided(h, date) ==
    LET Sold(days) == [d \in days |-> Whole(h[d])]
        dow == {d \in DOMAIN h : Weekday(d) = Weekday(date)}
        average == Mean(Sold(DOMAIN h))
    IN  IF DOMAIN h = {} THEN Zero
        ELSE IF dow = {} THEN average ELSE Times(average, Mean(Sold(dow)))

\* The average of the days with a row, scaled by what its weekday and, with rows
\* in enough weeks, its week of the year have above the average.
Predict(h, date) ==
    LET Sold(days) == [d \in days |-> Whole(h[d])]
        average == Mean(Sold(DOMAIN h))
        Multiplier(same) == IF same = {} THEN One
                            ELSE Over(Mean(Sold(same)), average)
        dow == {d \in DOMAIN h : Weekday(d) = Weekday(date)}
        woy == {d \in DOMAIN h : IsoWeek(d) = IsoWeek(date)}
        seasons == Cardinality({IsoWeek(d) : d \in DOMAIN h})
    IN  IF DOMAIN h = {} \/ average = Zero THEN Zero
        ELSE Times(Times(average, Multiplier(dow)),
                   IF seasons >= WoyMinSeasons THEN Multiplier(woy) ELSE One)

\* A series without a row has no forecast.
PredictBatch ==
    /\ phase = "demand"
    /\ forecasts' = [p \in {q \in Products : DOMAIN history[q] # {}} |->
                        [day \in Horizons |-> Predict(history[p], day)]]
    /\ phase' = "forecast"
    /\ UNCHANGED <<history, inputs, scores, masters, lines, plans, orders>>

---------------------------------------------------------------------------
\* The mean of the forecasts, or the demand of the mart.
DailyDemand(p) ==
    IF p \in DOMAIN forecasts
    THEN Mean([day \in Horizons |-> forecasts[p][day]])
    ELSE IF inputs[p].demand = NULL THEN Zero ELSE inputs[p].demand

\* Of the row, else what the scorecard of the supplier rounds to, else a week.
LeadTime(p) ==
    LET row == inputs[p]
        score == IF row.supplier = NULL THEN NULL ELSE scores[row.supplier]
    IN  CASE row.lead # NULL /\ row.lead > 0 -> row.lead
          [] ~(row.lead # NULL /\ row.lead > 0)
             /\ score # NULL /\ Rounded(score) > 0 -> Rounded(score)
          [] OTHER -> LeadTimeDefault

\* The stock on its way forgotten.
ComputeOnHand(p) ==
    LET demand == DailyDemand(p)
        target == Times(demand, Whole(LeadTime(p) + CycleStockDays))
        short == Greatest(Zero, Minus(target, inputs[p].stock))
    IN  [supplier |-> inputs[p].supplier,
         reorder |-> IF Leq(demand, Zero) THEN Zero ELSE short]

\* The deviation of the demand is not among the inputs, so the safety stock is 0.
Compute(p) ==
    LET demand == DailyDemand(p)
        target == Times(demand, Whole(LeadTime(p) + CycleStockDays))
        have == Plus(inputs[p].stock, inputs[p].transit)
        short == Greatest(Zero, Minus(target, have))
    IN  [supplier |-> inputs[p].supplier,
         reorder |-> IF Leq(demand, Zero) THEN Zero ELSE short]

ComputeBatch ==
    /\ phase = "forecast"
    /\ lines' = [p \in Products |-> Compute(p)]
    /\ phase' = "lines"
    /\ UNCHANGED <<history, inputs, scores, masters, forecasts, plans, orders>>

---------------------------------------------------------------------------
\* The minimum and the multiple of a supplier.
PlanQty(total, config) ==
    IF config.multiplier > 1
    THEN Times(Whole(-((-total[1]) \div (total[2] * config.multiplier))),
               Whole(config.multiplier))
    ELSE total

Needed(s) == {p \in Products : lines[p].supplier = s /\ Less(Zero, lines[p].reorder)}

\* One plan for the lines of a supplier, then the columns of both tables.
BuildPlans ==
    LET Reorder(s) == [p \in Needed(s) |-> lines[p].reorder]
        config == DefaultConfig
        planned == {s \in Suppliers :
                       /\ Needed(s) # {}
                       /\ Leq(Whole(config.moq), Total(Reorder(s)))}
    IN  /\ phase = "lines"
        /\ plans' = [s \in planned |->
                [total |-> Stored(PlanQty(Total(Reorder(s)), config), Scale),
                 count |-> Cardinality(Needed(s))]]
        /\ lines' = [p \in Products |->
                [lines[p] EXCEPT !.reorder = Stored(@, Scale)]]
        /\ phase' = "plans"
        /\ UNCHANGED <<history, inputs, scores, masters, forecasts, orders>>

---------------------------------------------------------------------------
\* The price of the product, else the default of the supplier, else none.
PickPrice(m, p, s) ==
    IF m.product[p] # NULL THEN m.product[p] ELSE m.supplier[s]

\* The lines of a plan, or of the order it is built from again.
Build(m, s, want) ==
    LET kept == {p \in DOMAIN want : Less(Zero, want[p])}
        qty == [p \in kept |-> want[p]]
        priced == \A p \in kept : PickPrice(m, p, s) # NULL
    IN  [qty |-> qty,
         total |-> Total(qty),
         amount |-> IF priced /\ kept # {}
                   THEN Total([p \in kept |-> Times(want[p], PickPrice(m, p, s))])
                   ELSE NULL]

\* The stored lines of the supplier; a plan none of whose lines is left of the
\* rounding is skipped and stays approved.
PlanLines(s) == {p \in Products : lines[p].supplier = s /\ Less(Zero, lines[p].reorder)}

BuildOne ==
    /\ phase = "plans"
    /\ masters' \in Masters
    /\ orders' = [s \in {t \in DOMAIN plans : PlanLines(t) # {}} |->
                    Build(masters', s, [p \in PlanLines(s) |-> lines[p].reorder])]
    /\ phase' = "ordered"
    /\ UNCHANGED <<history, inputs, scores, forecasts, lines, plans>>

\* From the lines of the order and the masters as they are now.
RebuildFromExisting ==
    /\ phase = "ordered"
    /\ masters' \in Masters
    /\ orders' = [s \in DOMAIN orders |-> Build(masters', s, orders[s].qty)]
    /\ phase' = "regenerated"
    /\ UNCHANGED <<history, inputs, scores, forecasts, lines, plans>>

CalculationStep ==
    \/ PredictBatch
    \/ ComputeBatch
    \/ BuildPlans
    \/ BuildOne
    \/ RebuildFromExisting

---------------------------------------------------------------------------
(* Sales that are the same every day are forecast as they are, and twice the
   sales give twice the forecast: no seasonal factor adds or loses demand. *)
ForecastNeutral ==
    \A p \in DOMAIN history, day \in Horizons :
        LET sold == history[p]
        IN  /\ \A d \in DOMAIN sold :
                  (\A e \in DOMAIN sold : sold[e] = sold[d])
                      => Predict(sold, day) = Whole(sold[d])
            /\ Predict([d \in DOMAIN sold |-> 2 * sold[d]], day) =
                  Times(Whole(2), Predict(sold, day))

(* What the column drops of one quantity. *)
HalfUnit == Frac(1, 2 * Scale)
Near(x, y, n) == Leq(Minus(x, y), Times(Whole(n), HalfUnit))
                 /\ Leq(Minus(y, x), Times(Whole(n), HalfUnit))
Ordered(p) ==
    LET s == inputs[p].supplier
    IN  IF s \in DOMAIN orders /\ p \in DOMAIN orders[s].qty
        THEN orders[s].qty[p] ELSE Zero

(* The demand of the lead time and of a week is covered by the stock, what is on
   its way and what is ordered, and no more is ordered than that; nothing is
   where nothing is sold, even if less than nothing is on its way. *)
NeedCovered ==
    \A p \in Products :
        LET need == Times(DailyDemand(p), Whole(LeadTime(p) + CycleStockDays))
            have == Plus(inputs[p].stock, inputs[p].transit)
        IN  inputs[p].supplier # NULL =>
                \/ Near(Plus(have, Ordered(p)), need, 1)
                \/ /\ Ordered(p) = Zero
                   /\ Leq(need, have) \/ Leq(DailyDemand(p), Zero)

(* An order has the quantity of its plan but for the rounding, and an amount
   exactly when all its lines have a price. *)
OrderOfPlan ==
    \A s \in DOMAIN orders :
        /\ Near(orders[s].total, plans[s].total, plans[s].count + 1)
        /\ orders[s].amount = NULL <=>
              \E p \in DOMAIN orders[s].qty :
                  masters.product[p] = NULL /\ masters.supplier[s] = NULL

(* The orders of a run, built or rebuilt, are what its demand calls for. *)
OrdersMeetDemand ==
    phase \in {"ordered", "regenerated"} => NeedCovered /\ OrderOfPlan
====
