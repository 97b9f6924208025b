------------------------------ MODULE Judgement ------------------------------
(***************************************************************************)
(* What the research pipelines decide, as functions of what they read:     *)
(* the score and the recommendation (llm/scoring.py), the red lines        *)
(* (llm/red_line_checker.py), the comparison with the database             *)
(* (llm/conflict_validator.py), the rules of the quality screen and the    *)
(* monthly budget (llm/cost_tracker.py).                                   *)
(*                                                                         *)
(* Scores are whole numbers from 1 to 5 and weights are in hundredths; a   *)
(* score is a fraction [num, den], compared exactly.  (The code computes   *)
(* in floating point and is off by one unit in the last place at some of   *)
(* the thresholds.)                                                        *)
(***************************************************************************)
EXTENDS Values

(* What is missing is told from a statement that is there. *)
ASSUME NoneIsNoStatement ==
  None \notin [type: STRING, net_profit: Int \cup {None}, net_margin: Int \cup {None},
               revenue: Nat \cup {None}]

-----------------------------------------------------------------------------
(* Scoring.                                                                  *)

ADVANTAGE_MASTERS == {"duan", "buffett", "scarcity"}

PROFILE_WEIGHTS == [
  quality_screen |-> [duan |-> 25, buffett |-> 30, munger |-> 20, lilu |-> 25],
  theme_scan     |-> [duan |-> 22, buffett |-> 26, munger |-> 18, lilu |-> 10,
                      scarcity |-> 24]]

(* An unknown source has the weights of the quality screen. *)
WeightsFor(source) ==
  IF source \in DOMAIN PROFILE_WEIGHTS THEN PROFILE_WEIGHTS[source]
                                       ELSE PROFILE_WEIGHTS["quality_screen"]

Contributing(scores, source) == DOMAIN WeightsFor(source) \cap DOMAIN scores

(* Masters that see the same advantage count as one dimension. *)
Dimensions(scores, source, tags) ==
  LET in == Contributing(scores, source)
      Shared(m) == m \in ADVANTAGE_MASTERS /\ m \in DOMAIN tags /\ tags[m] # None
  IN  {IF Shared(m) THEN {k \in in : Shared(k) /\ tags[k] = tags[m]} ELSE {m} : m \in in}

WeightOf(dim, source) == Max({WeightsFor(source)[m] : m \in dim})

(* The mean of a dimension's scores, times six: a dimension has one, two or *)
(* three masters.                                                           *)
SixTimesMean(dim, scores) ==
  (6 * SumOver(dim, LAMBDA m : scores[m])) \div Cardinality(dim)

Weighted(dims, scores, source) ==
  SumOver(dims, LAMBDA d : WeightOf(d, source) * SixTimesMean(d, scores))

OverallScore(scores, source, tags) ==
  LET dims == Dimensions(scores, source, tags)
  IN  IF dims = {} THEN None
      ELSE [num |-> Weighted(dims, scores, source),
            den |-> 6 * SumOver(dims, LAMBDA d : WeightOf(d, source))]

AtLeast(score, n) == score.num >= n * score.den

Recommend(score) ==
  IF score = None THEN "PASS"
  ELSE IF AtLeast(score, 4) THEN "BUY"
  ELSE IF AtLeast(score, 3) THEN "HOLD"
  ELSE "PASS"

-----------------------------------------------------------------------------
(* Red lines.                                                                *)

ALL_RED_LINES == {"management_integrity", "financial_fraud", "major_violation",
  "consecutive_losses", "high_pledge", "frequent_reduction",
  "complex_related_transactions", "benford_anomaly"}

CONSECUTIVE_LOSS_YEARS == 3

(* A statement: its type, net profit, net margin in percent and revenue; a  *)
(* stock's statements are a sequence, the newest first.  The three newest   *)
(* are looked at, of whatever type.                                         *)
ConsecutiveLosses(statements) ==
  /\ Len(statements) >= CONSECUTIVE_LOSS_YEARS
  /\ \A i \in 1..CONSECUTIVE_LOSS_YEARS :
       statements[i].net_profit # None /\ statements[i].net_profit < 0

(* red_line_flags comes in one of these shapes: a map from types, a list of *)
(* objects with a type, or a list of plain names; the last one raises.      *)
Shapes == {"map", "objects", "names"}
LlmFlagged(flags) == flags.types \cap ALL_RED_LINES
Raises(flags)     == flags.shape = "names" /\ flags.types # {}

(* check_all, with the handler around it: an exception empties the list.    *)
RedLineHits(statements, flags) ==
  IF Raises(flags) THEN {}
  ELSE LlmFlagged(flags) \cup
       (IF ConsecutiveLosses(statements) THEN {"consecutive_losses"} ELSE {})

(* The scarcity score of a theme scan joins the scores of the masters.      *)
Joined(f, scarcity, value) ==
  IF scarcity = None THEN f
  ELSE [m \in DOMAIN f \cup {"scarcity"} |-> IF m = "scarcity" THEN value ELSE f[m]]

Authoritative(a) ==
  OverallScore(Joined(a.scores, a.scarcity, a.scarcity), a.source,
               Joined(a.tags, a.scarcity, "chain_scarcity"))

(* Mutant of Verdict: the recommendation does not look at the red lines.    *)
VerdictByScore(a) ==
  LET hits == RedLineHits(a.statements, a.flags)
  IN  [hits |-> hits, rejected |-> hits # {}, recommendation |-> Recommend(Authoritative(a))]

(* What a research stores in the report and moves the stock on with. *)
Verdict(a) ==
  LET hits == RedLineHits(a.statements, a.flags)
  IN  [hits |-> hits, rejected |-> hits # {},
       recommendation |-> IF hits # {} THEN "PASS" ELSE Recommend(Authoritative(a))]

-----------------------------------------------------------------------------
(* The comparison of reported numbers with the database.                     *)

(* In hundredths of a percent of the stored value, rounded to them.          *)
PctDiff(a, b) == (20000 * Abs(a - b) + Abs(b)) \div (2 * Abs(b))

CONFLICT_THRESHOLD == 500

(* A field is compared when both sides have it and the stored one is not 0.  *)
Conflicts(numbers, stored) ==
  {f \in DOMAIN numbers \cap DOMAIN stored :
     /\ numbers[f] # None /\ stored[f] # None /\ stored[f] # 0
     /\ PctDiff(numbers[f], stored[f]) > CONFLICT_THRESHOLD}

-----------------------------------------------------------------------------
(* The rules of the quality screen.                                          *)

MIN_PE == 5
MAX_PE == 50
MIN_ROE_PCT == 8
MAX_REVENUE_DECLINE_PCT == -20

(* Where the annual statements stand. *)
Annual(statements) == {i \in DOMAIN statements : statements[i].type = "annual"}

LatestAnnual(statements) ==
  IF Annual(statements) = {} THEN None ELSE statements[Min(Annual(statements))]

(* The first annual statement after the newest statement: of two years only *)
(* when the newest statement is itself annual.                              *)
PrevAnnual(statements) ==
  IF Len(statements) <= 1 THEN None ELSE LatestAnnual(Tail(statements))

(* A year without a comparable one before it passes. *)
RevenueCollapsed(statements) ==
  LET new == LatestAnnual(statements)  old == PrevAnnual(statements) IN
  /\ new # None /\ old # None
  /\ new.revenue # None /\ old.revenue # None /\ old.revenue > 0
  /\ 100 * (new.revenue - old.revenue) < MAX_REVENUE_DECLINE_PCT * old.revenue

(* A stock: whether its name marks it as ST, its pe_ttm (None or 0 when     *)
(* there is none), its statements.                                          *)
FailedRules(stock) ==
  LET hasPe == stock.pe \notin {None, 0}
      year  == LatestAnnual(stock.statements)
  IN  {r \in {"not_st", "market_cap_sanity", "pe_range", "roe_proxy", "revenue_growth"} :
         CASE r = "not_st"            -> stock.st
           [] r = "market_cap_sanity" -> ~(hasPe /\ stock.pe > 0)
           [] r = "pe_range"          -> ~(hasPe /\ stock.pe \in MIN_PE..MAX_PE)
           [] r = "roe_proxy"         -> IF year = None THEN TRUE
                                         ELSE IF year.net_margin = None THEN TRUE
                                         ELSE year.net_margin < MIN_ROE_PCT
           [] r = "revenue_growth"    -> RevenueCollapsed(stock.statements)}

(* One or two failed rules are put to the language model, whose answer is   *)
(* "yes", "no", or None when the call fails.                                *)
Screen(stock, answer) ==
  LET failed == Cardinality(FailedRules(stock)) IN
  IF failed = 0 THEN "passed"
  ELSE IF failed >= 3 THEN "rejected"
  ELSE IF answer = None THEN "borderline"
  ELSE IF answer = "yes" THEN "passed" ELSE "rejected"

-----------------------------------------------------------------------------
(* The monthly budget, in dollars.                                           *)

HARD_CAP_USD     == 150

(* A logged call: its id, its cost, the month it was made in, and its created_at,   *)
(* which is the month in which the process that made it was started.        *)
MonthlySpend(calls, month) ==
  SumOver({c \in calls : c.created_at >= month}, LAMBDA c : c.cost)

CheckBudgetAvailable(calls, month) == MonthlySpend(calls, month) < HARD_CAP_USD

-----------------------------------------------------------------------------
(* Properties, each of one input.                                            *)

(* compute_overall_score: the score lies between the lowest and the highest *)
(* contributing score whoever is missing; a master who raises his score     *)
(* never lowers it; and of masters who name the same advantage and give the *)
(* same score, a lighter one can be left out.                               *)
ScoreIsFair(scores, source, tags) ==
  LET score == OverallScore(scores, source, tags)
      in    == Contributing(scores, source)
      With(m, v) == OverallScore([scores EXCEPT ![m] = v], source, tags)
      Echoes(m, k) ==
        \E d \in Dimensions(scores, source, tags) :
          /\ {m, k} \subseteq d /\ WeightsFor(source)[m] < WeightsFor(source)[k]
          /\ \A j \in d : scores[j] = scores[m]
      Same(a, b) == a.num * b.den = b.num * a.den
  IN  IF in = {} THEN score = None
      ELSE /\ AtLeast(score, Min({scores[m] : m \in in}))
           /\ score.num <= Max({scores[m] : m \in in}) * score.den
           /\ \A m \in in : \A v \in scores[m]..5 :
                With(m, v).num * score.den >= score.num * With(m, v).den
           /\ \A m \in in : (\E k \in in : Echoes(m, k)) =>
                Same(score, OverallScore([k \in DOMAIN scores \ {m} |-> scores[k]], source, tags))

(* run: a red line that the synthesis reports in a shape the checker reads, *)
(* or losses in the three newest statements of the database, annual or not, *)
(* reject the report and leave no recommendation to buy or to hold, whatever*)
(* the masters say; nothing else rejects it.                                *)
RedLineRejects(a) ==
  a.flags.shape \in {"map", "objects"} =>
    LET v == Verdict(a) IN
    /\ (LlmFlagged(a.flags) # {} \/ ConsecutiveLosses(a.statements)) <=> v.rejected
    /\ v.rejected => v.recommendation = "PASS"

(* check_consecutive_losses: "latest N annual reports all show negative net *)
(* profit" is what rejects a stock without a flag.  Three losing quarters   *)
(* do, and a quarter with a profit hides three losing years.                *)
AnnualLossesReject(a) ==
  LET annuals == SelectSeq(a.statements, LAMBDA s : s.type = "annual")
  IN  a.flags.types = {} => (ConsecutiveLosses(annuals) <=> Verdict(a).rejected)

(* validate_numbers: a number that equals the stored one never conflicts,   *)
(* one that is off by six percent or more does, on either side and for      *)
(* negative values too; a stored zero is compared with nothing.             *)
ConflictsAreReal(numbers, stored) ==
  \A f \in DOMAIN numbers \cap DOMAIN stored :
    LET a == numbers[f]  b == stored[f] IN
    /\ a = b => f \notin Conflicts(numbers, stored)
    /\ (a # None /\ b \notin {None, 0}) =>
         (100 * Abs(a - b) >= 6 * Abs(b) => f \in Conflicts(numbers, stored))

Improved(stock) ==
  LET better == [i \in DOMAIN stock.statements |->
                  [stock.statements[i] EXCEPT !.net_margin = IF @ = None THEN MIN_ROE_PCT ELSE Max({@, MIN_ROE_PCT})]]
  IN  {[stock EXCEPT !.st = FALSE], [stock EXCEPT !.pe = MIN_PE], [stock EXCEPT !.statements = better]}

Rank == [rejected |-> 0, borderline |-> 1, passed |-> 2]

(* screen_stock: a stock that loses money by its price and by its margin is *)
(* rejected without a question to the model; between two years in a row a   *)
(* drop fails the rule exactly when it is more than a fifth of the earlier  *)
(* year; and a better stock is never judged worse under the same answer.    *)
ScreenIsSound(stock, answer) ==
  LET s == stock.statements IN
  /\ (stock.pe # None /\ stock.pe < 0 /\ (LatestAnnual(s) = None \/ LatestAnnual(s).net_margin = -1))
       => Screen(stock, answer) = "rejected"
  /\ (/\ Len(s) >= 2 /\ s[1].type = "annual" /\ s[2].type = "annual"
      /\ s[1].revenue # None /\ s[2].revenue # None)
       => ("revenue_growth" \in FailedRules(stock) <=> 5 * s[1].revenue < 4 * s[2].revenue)
  /\ \A b \in Improved(stock) : Rank[Screen(b, answer)] >= Rank[Screen(stock, answer)]

(* "Revenue not collapsing": of the two newest annual statements, wherever  *)
(* they stand among the quarterly ones, a drop of more than a fifth fails.  *)
CollapseIsNoticed(stock) ==
  LET s     == stock.statements
      First == Min(Annual(s))
      Second == Min(Annual(s) \ {First})
  IN  (/\ Cardinality(Annual(s)) >= 2 /\ s[First].revenue # None /\ s[Second].revenue # None
       /\ 5 * s[First].revenue < 4 * s[Second].revenue)
        => "revenue_growth" \in FailedRules(stock)

(* check_budget_available: while the calls that count for the month cost    *)
(* less than the cap the next call is allowed, at the cap it is not, and a  *)
(* call that is logged never frees budget.                                  *)
BudgetCaps(calls, month) ==
  /\ MonthlySpend(calls, month) >= HARD_CAP_USD => ~CheckBudgetAvailable(calls, month)
  /\ \A c \in calls : ~CheckBudgetAvailable(calls \ {c}, month) => ~CheckBudgetAvailable(calls, month)
=============================================================================
