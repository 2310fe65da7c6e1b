---- MODULE KpiCalc ----
(* The KPI formulas, their parameters, and the calibration a snapshot names. *)
EXTENDS Fractions

CONSTANTS
    MaxLines,     \* bound of the model: days, lines or pieces of a row
    KpiScopes,    \* the scopes of calibrations, "global" among them
    NoValue       \* NULL, and a calibration that is not there

ASSUME KpiCalcAssumption ==
    /\ "global" \in KpiScopes
    /\ MaxLines \in Nat \ {0}
    /\ NoValue \notin Int \X Int

VARIABLES
    sample,   \* the kind and the counts of a row of a mart
    raw,      \* the parameters as they are in params
    stored,   \* the calibrations of the KPI by scope
    result    \* the snapshot, NoValue before it is computed or without one

kpiCalcVars == <<sample, raw, stored, result>>

Counts == 0..MaxLines
DefaultMinObservations == 7
DefaultFillRate == Frac(95, 100)
DefaultMinDemand == Frac(1, 1000)
DefaultCapDays == 365

Param(value, valid, default) == IF valid THEN value ELSE default
\* Zero and below, or left out: the default.
ParseOSAParams(p) == Param(p.number, p.number > 0, DefaultMinObservations)
ParseOTIFParams(p) ==
    Param(Frac(p.number, MaxLines), p.number \in 1..MaxLines, DefaultFillRate)
ParseStockDaysParams(p) ==
    [cap |-> Param(p.number, p.number > 0, DefaultCapDays), transit |-> p.transit,
     min |-> Param(Whole(p.demand), p.demand > 0, DefaultMinDemand)]
NoParams == [number |-> 0, transit |-> TRUE, demand |-> 0]

Kept(value) == [value |-> value, errors |-> 0]
Skipped == [value |-> NoValue, errors |-> 0]

\* 1 - out / observed, where there are enough days.
ComputeOSA(row, min) ==
    IF row.all < min THEN Skipped
    ELSE Kept(Greatest(Zero, Minus(One, Frac(row.some, row.all))))

\* Lines that were short counted beside those that were late.
ComputeOTIFTwice(row, threshold) ==
    LET short == IF row.rate # NoValue /\ Less(Frac(row.rate, MaxLines), threshold)
                 THEN row.all ELSE 0
        bad == row.some + short
        value == Minus(One, Frac(bad, row.all))
    IN  IF row.all = 0 THEN Skipped
        ELSE IF Less(value, Zero) THEN [value |-> NoValue, errors |-> 1]
        ELSE Kept(value)

\* A week below the threshold counts as short in all its lines.
ComputeOTIF(row, threshold) ==
    LET short == IF row.rate # NoValue /\ Less(Frac(row.rate, MaxLines), threshold)
                 THEN row.all ELSE 0
        bad == Min({row.some + short, row.all})
        value == Minus(One, Frac(bad, row.all))
    IN  IF row.all = 0 THEN Skipped
        ELSE IF Less(value, Zero) THEN [value |-> NoValue, errors |-> 1]
        ELSE Kept(value)

\* Stock, and transit unless it is left out, over the demand or the least one.
ComputeStockDays(row, params) ==
    LET demand == IF row.rate # NoValue /\ Less(params.min, Whole(row.rate))
                  THEN Whole(row.rate) ELSE params.min
        stock == row.all + (IF params.transit THEN row.some ELSE 0)
    IN  Kept(Greatest(Zero, Least(Over(Whole(stock), demand), Whole(params.cap))))

\* From the specific to the general.
Precedence == <<"product_location", "location", "supplier", "category", "global">>
\* The scope a snapshot asks for beside the global one.
ScopeOf(kpi) == IF kpi = "otif" THEN "supplier" ELSE "product_location"

\* The first of the keys that has a calibration.
Resolve(keys, have) ==
    LET hits == {i \in DOMAIN Precedence :
                    Precedence[i] \in (keys \cup {"global"}) \cap have}
    IN  IF hits = {} THEN NoValue ELSE Precedence[Min(hits)]

\* The parameters are those of the global calibration; the calibration the
\* snapshot names is the most specific one.
GlobalParams(have, params) ==
    IF Resolve({}, have) = NoValue THEN NoParams ELSE params
MatchedCalibration(kpi, have) == Resolve({ScopeOf(kpi)}, have)

ComputeRow(row, params) ==
    CASE row.kpi = "osa" -> ComputeOSA(row, ParseOSAParams(params))
      [] row.kpi = "otif" -> ComputeOTIF(row, ParseOTIFParams(params))
      [] row.kpi = "stock_days" -> ComputeStockDays(row, ParseStockDaysParams(params))

Calculate ==
    /\ sample # NoValue /\ result = NoValue
    /\ LET c == ComputeRow(sample, GlobalParams(stored, raw))
       IN  result' = [value |-> c.value, errors |-> c.errors,
                      calibration |-> MatchedCalibration(sample.kpi, stored)]
    /\ UNCHANGED <<sample, raw, stored>>

\* "all" counts the days, the delivered lines or the stock, "some" those that are
\* out of stock or late, or what is on its way.
KpiCalcInit ==
    /\ sample \in [kpi : {"osa", "otif", "stock_days"}, all : Counts,
                   some : Counts, rate : Counts \cup {NoValue}]
    /\ sample.kpi = "osa" => sample.some <= sample.all
    /\ raw \in [number : {-1, 0, 1, MaxLines}, transit : BOOLEAN, demand : {0, MaxLines}]
    /\ sample.kpi # "stock_days" => raw.demand = 0
    /\ stored \in SUBSET KpiScopes
    /\ result = NoValue

KpiCalcIdle == sample = NoValue /\ raw = NoValue /\ stored = {} /\ result = NoValue

---------------------------------------------------------------------------
Better(row) ==
    IF row.kpi = "stock_days" THEN [row EXCEPT !.all = @ + 1]
    ELSE [row EXCEPT !.some = IF @ > 0 THEN @ - 1 ELSE @]

(* A share is a share and days are capped; the budget for errors of a formula is
   never drawn on; and a row that is better never has a worse value: less out of
   stock, less late, or more stock. *)
KpisSound ==
    result # NoValue =>
        LET params == GlobalParams(stored, raw)
            better == ComputeRow(Better(sample), params)
        IN  /\ result.errors = 0
            /\ result.value # NoValue =>
                  /\ Leq(Zero, result.value)
                  /\ sample.kpi # "stock_days" => Leq(result.value, One)
                  /\ better.value # NoValue
                  /\ Leq(result.value, better.value)
====
