------------------------------ MODULE Valuation ------------------------------
(***************************************************************************)
(* What is computed from stored statements and quotes: percentiles, bands, *)
(* the forward yield and the dashboard's source (valuation_service.py,     *)
(* kline_service.py), trailing twelve months and anomalies                 *)
(* (financial_service.py).                                                 *)
(*                                                                         *)
(* Numbers are integers or None; quotients are fractions [num, den] or are *)
(* compared crosswise.                                                     *)
(***************************************************************************)
EXTENDS Values

-----------------------------------------------------------------------------
(* Percentiles and bands of a history of multiples.                          *)

Sorted(s) == SortSeq(s, LAMBDA a, b : a < b)

(* Ten times the quantile at q tenths, interpolated between neighbours. *)
Quantile(values, q) ==
  LET s == Sorted(values)
      idx == q * (Len(s) - 1)
      lo == idx \div 10
      hi == Min({lo + 1, Len(s) - 1})
  IN  IF s = <<>> THEN None
      ELSE s[lo + 1] * (10 - (idx % 10)) + s[hi + 1] * (idx % 10)

(* get_valuation_bands takes the positive multiples of the dates with one. *)
BandMultiples(actual) == SelectSeq(actual, LAMBDA m : m # None /\ m > 0)
Band(actual, q)       == Quantile(BandMultiples(actual), q)

(* The close that the band implies on a date, times ten: a fraction. *)
ImpliedClose(close, m, band) ==
  IF close = None \/ m = None \/ band = None THEN None
  ELSE IF m <= 0 THEN None ELSE [num |-> close * band, den |-> m]

(* calculate_percentiles drops the empty and the zero values and keeps the  *)
(* negative ones; the newest entry is the last.                             *)
Kept(history) == SelectSeq(history, LAMBDA v : v \notin {None, 0})

PercentileRank(history) ==
  LET kept == Kept(history)  current == Last(history) IN
  IF history = <<>> THEN None
  ELSE IF current \in {None, 0} THEN None
  ELSE [num |-> 100 * Cardinality({i \in DOMAIN kept : kept[i] <= current}), den |-> Len(kept)]

-----------------------------------------------------------------------------
(* Dividends.                                                                *)

(* The annual statements, newest first: payout ratio in percent and eps.    *)
PayoutAverage(statements) ==
  LET in == {i \in 1..Min({3, Len(statements)}) : statements[i].payout # None}
  IN  IF in = {} THEN None
      ELSE [num |-> SumOver(in, LAMBDA i : statements[i].payout), den |-> Cardinality(in)]

Capped(r) == IF r.num < 0 THEN [num |-> 0, den |-> 1]
             ELSE IF r.num > 100 * r.den THEN [num |-> 100, den |-> 1] ELSE r

(* The expected yield, in percent of the price. *)
ForwardDyr(statements, price) ==
  IF PayoutAverage(statements) = None \/ price = None THEN None
  ELSE IF statements[1].eps = None \/ price <= 0 THEN None
  ELSE LET payout == Capped(PayoutAverage(statements))
       IN  [num |-> payout.num * statements[1].eps, den |-> payout.den * price]

(* Mutant of DividendSustainability: earnings alone cover the dividend. *)
DividendSustainabilityByProfit(ocf, profit, paid) ==
  IF ocf = 0 /\ profit = 0 /\ paid = 0 THEN "data_unavailable"
  ELSE IF profit >= paid THEN "healthy"
  ELSE IF paid > profit /\ ocf >= paid THEN "needs_verification"
  ELSE IF paid > ocf THEN "unsustainable"
  ELSE "caution"

DividendSustainability(ocf, profit, paid) ==
  IF ocf = 0 /\ profit = 0 /\ paid = 0 THEN "data_unavailable"
  ELSE IF ocf >= profit /\ profit >= paid THEN "healthy"
  ELSE IF paid > profit /\ ocf >= paid THEN "needs_verification"
  ELSE IF paid > ocf THEN "unsustainable"
  ELSE "caution"

-----------------------------------------------------------------------------
(* The dashboard asks the endpoints in turn, the one of the stock's         *)
(* industry first, and takes the first row with a multiple or a price.      *)

Kinds == <<"non_financial", "bank", "insurance", "security", "other_financial">>

FallbackOrder(primary) == <<primary>> \o RemoveFirst(Kinds, primary)

(* An answer is None when the call fails or finds nothing; so is a stock    *)
(* that no endpoint knows, told from any row that is found.                 *)
ASSUME NoneIsNoFinding ==
  None \notin [kind: Range(Kinds), row: [pe: Int \cup {None}, price: Int \cup {None}] \cup {None}]

Usable(row) == row # None /\ (row.pe # None \/ row.price # None)

Realtime(answers, primary) ==
  LET order == FallbackOrder(primary)
      first == SelectInSeq(order, LAMBDA k : Usable(answers[k]))
  IN  IF first = 0 THEN None ELSE [kind |-> order[first], row |-> answers[order[first]]]

-----------------------------------------------------------------------------
(* Trailing twelve months: quarters are a sequence, the oldest first, of    *)
(* [value, growth]; a window is four rows, whatever their dates.            *)

Window(quarters, i) == SubSeq(quarters, Max({1, i - 3}), i)

WindowSum(w) ==
  IF Len(w) # 4 \/ \E k \in DOMAIN w : w[k].value = None THEN None
  ELSE SumOver(DOMAIN w, LAMBDA k : w[k].value)

Ttm(quarters, i) == WindowSum(Window(quarters, i))

(* The growth against the window of four rows before, in percent; the       *)
(* quarter's own growth when there is none.                                 *)
TtmGrowth(quarters, i) ==
  LET own   == quarters[i].growth
      total == Ttm(quarters, i)
      prior == IF i >= 5 THEN Ttm(quarters, i - 4) ELSE None
  IN  IF total = None \/ prior \in {None, 0} THEN [num |-> own, den |-> 1]
      ELSE [num |-> 100 * (total - prior), den |-> Abs(prior)]

-----------------------------------------------------------------------------
(* Anomalies of the annual statements, newest first: percentages, and       *)
(* goodwill and equity in money; pb is ten times the newest multiple.  A    *)
(* zero is taken for a missing value.                                       *)

Given(x) == x \notin {None, 0}

LowCash(statements) ==
  {i \in 1..Min({3, Len(statements)}) : statements[i].ocf_ratio # None /\ statements[i].ocf_ratio < 50}

(* The book value grew by less than three percent in two years. *)
BookStagnates(new, old) ==
  Given(new.equity) /\ Given(old.equity) /\ old.equity > 0
  /\ 100 * (new.equity - old.equity) < 3 * old.equity

ProfitlessGrowth(new) ==
  Given(new.growth) /\ Given(new.profit_growth) /\ new.growth > 0 /\ new.profit_growth < 0

LeveragedDecline(new, old) ==
  (\A x \in {new.debt, old.debt, new.roe, old.roe} : Given(x))
  /\ new.debt - old.debt > 10 /\ new.roe < old.roe

GoodwillHeavy(new) ==
  Given(new.goodwill) /\ Given(new.equity) /\ new.equity > 0 /\ 10 * new.goodwill > 3 * new.equity

DetectAnomalies(statements, pb) ==
  IF Len(statements) < 2 THEN {}
  ELSE LET new == statements[1]  old == statements[2] IN
    {a \in {"profitless_growth", "low_cash", "leverage", "payout", "goodwill", "pb_trap"} :
      CASE a = "profitless_growth" -> ProfitlessGrowth(new)
        [] a = "low_cash"  -> Cardinality(LowCash(statements)) >= 2
        [] a = "leverage"  -> LeveragedDecline(new, old)
        [] a = "payout"    -> Given(new.payout) /\ new.payout > 100
        [] a = "goodwill"  -> GoodwillHeavy(new)
        [] a = "pb_trap"   -> pb # None /\ pb <= 7 /\ Len(statements) >= 3
                              /\ BookStagnates(new, statements[3])}

-----------------------------------------------------------------------------
(* Properties, each of one input.                                            *)

(* get_valuation_bands: the bands lie in their order between the smallest   *)
(* and the largest positive multiple, half of the multiples at most on each *)
(* side of the middle one, so on no date does the low band imply a higher   *)
(* close than the high one.                                                 *)
BandsOrdered(actual, close) ==
  LET kept == BandMultiples(actual) IN
  IF kept = <<>> THEN Band(actual, 1) = None
  ELSE /\ 10 * Min(ToSet(kept)) <= Band(actual, 1)
       /\ Band(actual, 1) <= Band(actual, 5) /\ Band(actual, 5) <= Band(actual, 9)
       /\ Band(actual, 9) <= 10 * Max(ToSet(kept))
       /\ 2 * Cardinality({i \in DOMAIN kept : 10 * kept[i] < Band(actual, 5)}) <= Len(kept)
       /\ 2 * Cardinality({i \in DOMAIN kept : 10 * kept[i] > Band(actual, 5)}) <= Len(kept)
       /\ \A i \in DOMAIN actual :
            LET low == ImpliedClose(close, actual[i], Band(actual, 1))
                high == ImpliedClose(close, actual[i], Band(actual, 9))
            IN  low # None => low.num <= high.num

(* calculate_percentiles: the newest multiple is counted among those it is  *)
(* ranked by, so its percentile is positive, at most a hundred, and a       *)
(* hundred for the largest.                                                 *)
RankInRange(history) ==
  LET rank == PercentileRank(history) IN
  rank # None =>
    /\ 0 < rank.num /\ rank.num <= 100 * rank.den
    /\ (\A v \in ToSet(Kept(history)) : v <= Last(history)) => rank.num = 100 * rank.den

(* calculate_forward_dyr: no more is expected than is earned, and nothing   *)
(* negative while something is.                                             *)
ForwardIsEarned(statements, price) ==
  LET dyr == ForwardDyr(statements, price) IN
  (dyr # None /\ statements[1].eps >= 0) =>
    0 <= dyr.num /\ dyr.num * price <= 100 * statements[1].eps * dyr.den

(* check_dividend_sustainability: whatever is judged better than            *)
(* unsustainable is covered by cash; paying more is never judged better.    *)
DividendIsCovered(ocf, profit, paid) ==
  LET Rank(s) == CASE s = "healthy" -> 3 [] s = "data_unavailable" -> 3 [] s = "caution" -> 2
                   [] s = "needs_verification" -> 1 [] s = "unsustainable" -> 0
      at(p)   == Rank(DividendSustainability(ocf, profit, p))
  IN  /\ DividendSustainability(ocf, profit, paid) \in {"healthy", "needs_verification", "caution"} => paid <= ocf
      /\ paid > 0 => at(paid + 1) <= at(paid)

(* detect_anomalies: with equity left and no figure at zero, a year that is *)
(* worse in every figure shows every anomaly that it showed before.         *)
WorseIsNoticed(statements, pb) ==
  Len(statements) > 0 =>
    LET new   == statements[1]
        worse == [new EXCEPT !.ocf_ratio = IF @ = None THEN None ELSE @ - 1,
                             !.profit_growth = IF Given(@) /\ @ # 1 THEN @ - 1 ELSE @,
                             !.payout = IF @ = None THEN None ELSE @ + 1,
                             !.goodwill = IF @ = None THEN None ELSE @ + 1,
                             !.equity = IF @ # None /\ @ > 1 THEN @ - 1 ELSE @]
    IN  DetectAnomalies(statements, pb)
          \subseteq DetectAnomalies(<<worse>> \o Tail(statements), pb)

HasPe(row) == row # None /\ row.pe # None

(* get_valuation_dashboard: a stock that any endpoint knows is found under  *)
(* whatever industry it is filed, an endpoint is asked once, and a multiple *)
(* from the endpoint of its industry is the one that is shown.              *)
IndustryIsFound(answers, primary) ==
  LET r == Realtime(answers, primary) IN
  /\ r = None <=> \A k \in DOMAIN answers : ~Usable(answers[k])
  /\ Range(FallbackOrder(primary)) = DOMAIN answers /\ Len(FallbackOrder(primary)) = Len(Kinds)
  /\ HasPe(answers[primary]) => r.kind = primary

(* "Stops as soon as pe_ttm (the most decision-relevant metric) is found":  *)
(* a multiple that some endpoint knows is shown.  A row that has a price    *)
(* and no multiple ends the search as well.                                 *)
PeIsFound(answers, primary) ==
  (\E k \in DOMAIN answers : HasPe(answers[k])) => HasPe(Realtime(answers, primary).row)

(* compute_ttm_series: growth is measured against a full year before; a     *)
(* quarter whose last four rows each sell as much as the row a year before  *)
(* is never shown to shrink.                                                *)
TtmIsSound(quarters) ==
  \A i \in DOMAIN quarters :
    (/\ i >= 8 /\ Ttm(quarters, i) # None /\ Ttm(quarters, i - 4) \notin {None, 0}
     /\ \A k \in i-3..i : quarters[k].value >= quarters[k - 4].value)
      => TtmGrowth(quarters, i).num * TtmGrowth(quarters, i).den >= 0
=============================================================================
