------------------------------ MODULE Portfolio ------------------------------
(***************************************************************************)
(* What is read out of the open positions: the summary, the themes and the *)
(* rebalancing signals (holding_service.py), the two sell signals that are *)
(* scanned for every day (sell_trigger.py), the totals of the dividends    *)
(* (dividend_service.py) and the dashboard (cockpit_service.py).           *)
(*                                                                         *)
(* Positions are a function from stocks to                                 *)
(*   [quantity, cost, price, industry, theme, days, dyr]                   *)
(* with the book cost of the whole position, the price or None, the days   *)
(* since the first buy, and the newest dividend yield or None.             *)
(* Money is whole numbers; a percentage is compared, never divided.        *)
(* The annualised return is left out.                                      *)
(***************************************************************************)
EXTENDS Values

MAX_POSITION_WEIGHT       == 20
MAX_INDUSTRY_WEIGHT       == 15
REBALANCE_GREEN_THRESHOLD == 15
REBALANCE_RED_THRESHOLD   == -10
REBALANCE_SHORT_TERM_DAYS == 30

-----------------------------------------------------------------------------
(* The summary.                                                              *)

Stocks(p)  == DOMAIN p
Priced(p)  == {c \in Stocks(p) : p[c].price # None}

(* A position without a price is worth its cost. *)
Value(h) == IF h.price = None THEN h.cost ELSE h.price * h.quantity

Pnl(h)        == Value(h) - h.cost                      \* of a priced one
TotalCost(p)  == SumOver(Stocks(p), LAMBDA c : p[c].cost)
TotalValue(p) == SumOver(Stocks(p), LAMBDA c : Value(p[c]))
TotalPnl(p)   == IF Priced(p) = {} THEN None ELSE TotalValue(p) - TotalCost(p)

(* A weight is a value over the total; only priced positions have one. *)
Exceeds(p, value, pct) == TotalValue(p) > 0 /\ 100 * value > pct * TotalValue(p)

Industries(p)       == {p[c].industry : c \in Stocks(p)}
IndustryValue(p, i) == SumOver({c \in Priced(p) : p[c].industry = i}, LAMBDA c : Value(p[c]))

HeavyPositions(p)  == {c \in Priced(p) : Exceeds(p, Value(p[c]), MAX_POSITION_WEIGHT)}
HeavyIndustries(p) == {i \in Industries(p) : Exceeds(p, IndustryValue(p, i), MAX_INDUSTRY_WEIGHT)}

(* The yield of the portfolio: over everything, the cash included. *)
WeightedDyr(p, cash) ==
  LET known == {c \in Stocks(p) : p[c].dyr # None}
      all   == TotalValue(p) + cash
  IN  IF known = {} \/ all <= 0 THEN None
      ELSE [num |-> SumOver(known, LAMBDA c : Value(p[c]) * p[c].dyr), den |-> all]

(* Stocks without a theme share a bucket. *)
ThemeBreakdown(p) ==
  IF TotalValue(p) <= 0 THEN <<>>
  ELSE LET In(t) == {c \in Stocks(p) : p[c].theme = t}
       IN  [t \in {p[c].theme : c \in Stocks(p)} |->
             [value |-> SumOver(In(t), LAMBDA c : Value(p[c])), count |-> Cardinality(In(t))]]

-----------------------------------------------------------------------------
(* Signals.                                                                  *)

(* pnl_pct has a value when the price and a cost are there. *)
HasPnlPct(h)     == h.price # None /\ h.cost # 0
PnlAtLeast(h, n) == 100 * Pnl(h) >= n * h.cost

(* On the day of the buy the days held are 0, which counts as unknown. *)
Signal(h) ==
  IF ~HasPnlPct(h) THEN "yellow"
  ELSE IF PnlAtLeast(h, REBALANCE_GREEN_THRESHOLD) THEN "green"
  ELSE IF PnlAtLeast(h, REBALANCE_RED_THRESHOLD) THEN "yellow"
  ELSE IF h.days \notin {None, 0} /\ h.days < REBALANCE_SHORT_TERM_DAYS THEN "yellow"
  ELSE "red"

MAX_POSITION_WEIGHT_PCT == 15
TRIM_TARGET_WEIGHT_PCT  == 10

Overweight(p) == {c \in Priced(p) : Exceeds(p, Value(p[c]), MAX_POSITION_WEIGHT_PCT)}

(* Mutant of TrimmedValue: the target is a share of the position. *)
TrimmedValueOfOwn(p, c) == [num |-> TRIM_TARGET_WEIGHT_PCT * Value(p[c]), den |-> 100]

(* What (weight - target) / weight of a position leaves of it. *)
TrimmedValue(p, c) == [num |-> TRIM_TARGET_WEIGHT_PCT * TotalValue(p), den |-> 100]

-----------------------------------------------------------------------------
(* Dividends: records [id, stock, year, received, recent].                  *)

ByYear(records, y)  == SumOver({r \in records : r.year = y}, LAMBDA r : r.received)
ByStock(records, c) == SumOver({r \in records : r.stock = c}, LAMBDA r : r.received)

-----------------------------------------------------------------------------
(* The dashboard: sections read one after the other, on one session.        *)

Sections == <<"drafts", "portfolio", "pipeline_counts", "alerts", "critical_count",
              "recent_reports", "task_health">>

(* A section that raises has its default; when its statement failed in the  *)
(* database, so does every later one, for nothing rolls the session back.   *)
Shown(fails) ==
  {s \in DOMAIN Sections : fails[s] = "no" /\ \A t \in 1..s : fails[t] # "database"}

-----------------------------------------------------------------------------
(* Properties, each of one input.                                            *)

(* get_portfolio_summary: a price that is missing moves no total: the gain  *)
(* is the gain of the priced positions, the weights of the industries and   *)
(* of the unpriced rest make up the whole, and so do the themes; and cash   *)
(* only ever dilutes the yield.                                             *)
SummaryAddsUp(p, cash) ==
  LET unpriced == Stocks(p) \ Priced(p)
      themes   == ThemeBreakdown(p)
  IN  /\ TotalPnl(p) # None =>
           TotalPnl(p) = SumOver(Priced(p), LAMBDA c : p[c].price * p[c].quantity - p[c].cost)
      /\ TotalValue(p) = SumOver(Industries(p), LAMBDA i : IndustryValue(p, i))
                       + SumOver(unpriced, LAMBDA c : p[c].cost)
      /\ TotalValue(p) > 0 =>
           /\ SumOver(DOMAIN themes, LAMBDA t : themes[t].value) = TotalValue(p)
           /\ SumOver(DOMAIN themes, LAMBDA t : themes[t].count) = Cardinality(Stocks(p))
      /\ \A c \in HeavyPositions(p) : p[c].industry \in HeavyIndustries(p)
      /\ (WeightedDyr(p, cash) # None /\ WeightedDyr(p, 0) # None) =>
           WeightedDyr(p, cash).num * WeightedDyr(p, 0).den
             <= WeightedDyr(p, 0).num * WeightedDyr(p, cash).den

(* scan_position_overweight: the sale it asks for is a part of the position *)
(* and leaves it at ten percent of what the portfolio was worth; whatever   *)
(* is overweight is at least as heavy for the summary's industry limit.     *)
TrimsToTarget(p) ==
  \A c \in Overweight(p) :
    LET left == TrimmedValue(p, c) IN
    /\ 0 < left.num /\ left.num < Value(p[c]) * left.den
    /\ 10 * left.num = TotalValue(p) * left.den
    /\ p[c].industry \in HeavyIndustries(p)

(* _signal: a position whose price rises is never signalled worse, and one  *)
(* that is signalled green has gained.                                      *)
SignalFollowsPrice(h) ==
  LET Rank == [red |-> 0, yellow |-> 1, green |-> 2] IN
  h.price # None =>
    /\ \A q \in h.price..h.price + 5 : Rank[Signal([h EXCEPT !.price = q])] >= Rank[Signal(h)]
    /\ Signal(h) = "green" => Pnl(h) > 0

(* get_dividend_summary: the years and the stocks split the same total.     *)
DividendsAddUp(records) ==
  SumOver({r.year : r \in records}, LAMBDA y : ByYear(records, y))
    = SumOver({r.stock : r \in records}, LAMBDA c : ByStock(records, c))

(* build: a section that fails outside the database costs nothing but       *)
(* itself.                                                                  *)
SectionsIsolated(fails) ==
  (\A s \in DOMAIN Sections : fails[s] # "database") =>
    \A s \in DOMAIN Sections : s \in Shown(fails) <=> fails[s] = "no"
=============================================================================
