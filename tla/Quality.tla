------------------------------- MODULE Quality -------------------------------
(***************************************************************************)
(* What the program says of its own data and of its own success: the       *)
(* quality of the stored data (data_quality_service.py), the evaluation of *)
(* trades and drafts (evaluation_service.py, index_service.py), the health *)
(* of the pipelines and the circuit breaker (metrics_service.py).          *)
(***************************************************************************)
EXTENDS Values

-----------------------------------------------------------------------------
(* Data quality: rows are a function from the stocks of the pool to the set *)
(* of days with a row; age is how old the newest row is, in days.           *)

DataTypes == {"valuations", "klines", "financials", "dividends"}

FRESHNESS_THRESHOLDS == [valuations |-> 1, klines |-> 3, financials |-> 90, dividends |-> 365]
STALE_THRESHOLDS     == [valuations |-> 7, klines |-> 7, financials |-> 180, dividends |-> 730]

Covered(rows) == {s \in DOMAIN rows : rows[s] # {}}
Days(rows)    == UNION {rows[s] : s \in DOMAIN rows}

(* None for an age when nothing is stored. *)
Freshness(age, dtype) ==
  IF age = None THEN "missing"
  ELSE IF age <= FRESHNESS_THRESHOLDS[dtype] THEN "fresh"
  ELSE IF age <= STALE_THRESHOLDS[dtype] THEN "stale"
  ELSE "missing"

(* Only stocks with a row are grouped, and so counted. *)
DetectGaps(rows) ==
  SumOver(Covered(rows), LAMBDA s : Cardinality(Days(rows)) - Cardinality(rows[s]))

Gaps(rows, dtype) == IF dtype \in {"valuations", "klines"} THEN DetectGaps(rows) ELSE 0

(* Mutant of GapPart: gaps may take more than their part. *)
GapPartOpen(gaps, stocks) == [num |-> 10 * (5 * stocks - gaps), den |-> 5 * stocks]

GapPart(gaps, stocks) == [num |-> 10 * Max({0, 5 * stocks - gaps}), den |-> 5 * stocks]

(* The score of a type over a hundred times five times the number of        *)
(* stocks; passed is the share in percent of the items of the last runs     *)
(* that were completed.                                                     *)
TypeScore(rows, dtype, age, passed) ==
  LET n == Cardinality(DOMAIN rows)
      fresh == CASE Freshness(age, dtype) = "fresh"   -> 30
                 [] Freshness(age, dtype) = "stale"   -> 15
                 [] Freshness(age, dtype) = "missing" -> 0
  IN  100 * (5 * 40 * Cardinality(Covered(rows)) + 5 * n * fresh + GapPart(Gaps(rows, dtype), n).num)
        + 5 * n * 20 * Min({passed, 100})

-----------------------------------------------------------------------------
(* The evaluation of trades: a position is [realized, cost], what its sales *)
(* gained and the cost of the shares that are left.                         *)

(* The sign of realized over |cost - realized|, and 0 for a division by 0.  *)
GainSign(pos) ==
  IF pos.cost = pos.realized THEN 0 ELSE IF pos.realized > 0 THEN 1 ELSE -1

Closed(positions) == {i \in DOMAIN positions : positions[i].realized # 0}
Wins(positions)   == {i \in Closed(positions) : GainSign(positions[i]) > 0}
Losses(positions) == Closed(positions) \ Wins(positions)

(* Drafts are [id, source, executed, value]; no code writes "evaluator". *)
EngineOf(source) ==
  CASE source = "draft_generator" -> "quality_screen"
    [] source = "evaluator"       -> "theme_scan"
    [] OTHER                      -> "unknown"

Attribution(drafts) ==
  [e \in {"quality_screen", "theme_scan", "unknown"} |->
     LET own == {d \in drafts : EngineOf(d.source) = e}
     IN  [drafts   |-> Cardinality(own),
          executed |-> Cardinality({d \in own : d.executed}),
          value    |-> SumOver({d \in own : d.executed}, LAMBDA d : d.value)]]

-----------------------------------------------------------------------------
(* The health of the pipelines: runs are [type, status].                     *)

(* What the pipeline manager writes; the summary counts other words.         *)
RunStatuses == {"pending", "running", "completed", "completed_with_errors", "failed", "cancelled"}

CountedAs(status) ==
  CASE status = "success"               -> "success"
    [] status = "failed"                -> "failed"
    [] status \in {"running", "pending"} -> "running"
    [] OTHER                            -> "other"

PipelineSummary(runs) ==
  [k \in {"success", "failed", "running", "other"} |->
     Cardinality({i \in DOMAIN runs : CountedAs(runs[i].status) = k})]

(* The last calls of a pipeline, the newest first, TRUE for a conflict.      *)
CONFLICT_RATE_LIMIT_PCT   == 20
CIRCUIT_BREAKER_MIN_CALLS == 10
WINDOW_CALLS              == 50

CheckCircuitBreaker(calls) ==
  LET recent == SubSeq(calls, 1, Min({WINDOW_CALLS, Len(calls)}))
      bad    == Cardinality({i \in DOMAIN recent : recent[i]})
  IN  /\ Len(recent) >= CIRCUIT_BREAKER_MIN_CALLS
      /\ 100 * bad >= CONFLICT_RATE_LIMIT_PCT * Len(recent)

-----------------------------------------------------------------------------
(* Properties, each of one input.                                            *)

(* compute_quality: the score lies between 0 and 100 however many gaps      *)
(* there are, and a missing day that is filled in for a stock that has      *)
(* rows, of a day that another stock has, never lowers it.                  *)
ScoreIsSound(rows, dtype, age, passed) ==
  LET score == TypeScore(rows, dtype, age, passed)
      full  == 100 * 100 * 5 * Cardinality(DOMAIN rows)
  IN  /\ 0 <= score /\ score <= full
      /\ \A s \in Covered(rows) : \A d \in Days(rows) :
           TypeScore([rows EXCEPT ![s] = @ \cup {d}], dtype, age, passed) >= score

(* "For each pool stock, count how many of the union-of-all-trading-dates   *)
(* are missing": storing the first row of a stock closes a gap.             *)
FirstRowClosesGap(rows) ==
  \A s \in DOMAIN rows \ Covered(rows) : \A d \in Days(rows) :
    DetectGaps([rows EXCEPT ![s] = {d}]) <= DetectGaps(rows)

(* trade_statistics: a position that was sold with a gain and is closed     *)
(* counts as won, one with a loss never does, and each counts once.         *)
GainsAreWins(positions) ==
  /\ \A i \in DOMAIN positions :
       /\ (positions[i].realized > 0 /\ positions[i].cost = 0) => i \in Wins(positions)
       /\ positions[i].realized < 0 => i \in Losses(positions)
  /\ Wins(positions) \cap Losses(positions) = {}
  /\ Wins(positions) \cup Losses(positions) = Closed(positions)

(* dual_engine_attribution: every draft is counted for one engine, and so   *)
(* is the value of every draft that was executed.                           *)
AttributionAddsUp(drafts) ==
  LET by == Attribution(drafts) IN
  /\ SumOver(DOMAIN by, LAMBDA e : by[e].drafts) = Cardinality(drafts)
  /\ SumOver(DOMAIN by, LAMBDA e : by[e].value)
       = SumOver({d \in drafts : d.executed}, LAMBDA d : d.value)

(* check_circuit_breaker: another conflict never closes a breaker that is   *)
(* open, and fifty calls without one close it whatever came before.         *)
BreakerHolds(calls) ==
  /\ CheckCircuitBreaker(calls) => CheckCircuitBreaker(<<TRUE>> \o calls)
  /\ ~CheckCircuitBreaker([i \in 1..WINDOW_CALLS |-> FALSE] \o calls)

(* get_pipeline_summary: a run that was completed counts as a success.      *)
CompletedIsSuccess(runs) ==
  (\A i \in DOMAIN runs : runs[i].status \in RunStatuses) =>
  PipelineSummary(runs)["success"] >= Cardinality({i \in DOMAIN runs : runs[i].status = "completed"})
=============================================================================
