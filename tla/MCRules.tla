------------------------------- MODULE MCRules -------------------------------
(***************************************************************************)
(* The pure rules, evaluated on every input of a bounded set: an input is  *)
(* an initial state, and no step changes it.                               *)
(***************************************************************************)
EXTENDS Judgement, Schedule, Portfolio, Valuation, TradeRules, Universe, Quality,
        Upkeep, Meters, ThemeScan, Reads

VARIABLE input

(* Sequences of at most n elements of S. *)
Seqs(S, n) == UNION {[1..k -> S] : k \in 0..n}

(* The function f without the arguments whose value is None. *)
Partial(f) == [x \in {y \in DOMAIN f : f[y] # None} |-> f[x]]

-----------------------------------------------------------------------------
(* Inputs. *)

Masters == {"duan", "buffett", "munger", "scarcity"}

ScoreInputs ==
  [kind: {"score"}, scores: {Partial(f) : f \in [Masters -> {None, 1, 4, 5}]},
   source: {"quality_screen", "theme_scan"}, tags: [ADVANTAGE_MASTERS -> {None, "a"}]]

Loss(type, n) == [type |-> type, net_profit |-> n, net_margin |-> 10, revenue |-> 100]

RedLineInputs ==
  [kind: {"red_line"}, statements: Seqs({Loss("annual", n) : n \in {None, -1, 1}}, 3)
      \cup Seqs({Loss(t, n) : t \in {"annual", "quarterly"}, n \in {-1, 1}}, 4),
   flags: [shape: Shapes, types: {{}, {"financial_fraud"}, {"other"}}],
   scores: {[duan |-> 5, buffett |-> 5], [munger |-> 2]},
   tags: {[duan |-> None]}, source: {"theme_scan"}, scarcity: {None, 5}]

Statement == [type: {"annual", "quarterly"}, net_profit: {1},
              net_margin: {None, -1, 8}, revenue: {None, 70, 82, 100}]

ScreenInputs ==
  [kind: {"screen"}, answer: {"yes", "no", None},
   stock: [st: BOOLEAN, pe: {None, 0, -1, 5, 60}, statements: Seqs(Statement, 2)]]

ConflictInputs ==
  [kind: {"conflict"}, numbers: [{"roe", "pe"} -> {None} \cup {-21, -20, 0, 19, 20, 21, 22}],
   stored: [{"roe"} -> {None, -20, 0, 20}]]

BudgetInputs ==
  [kind: {"budget"}, month: {2},
   calls: SUBSET [id: {1, 2, 3}, cost: {50, 100}, created_at: {1, 2}]]

DowParts == {Single(d) : d \in 0..7} \cup {DowRange(a, b) : a, b \in 0..7} \cup {Step(1, 5), Step(0, 6)}

DowInputs == [kind: {"dow"}, parts: {{p, q} : p, q \in DowParts}]

HolidayInputs ==
  [kind: {"holiday"}, rows: {Partial(f) : f \in [3..5 -> {None, TRUE, FALSE}]},
   holidays: SUBSET {2, 4, 5, 6}]

Position ==
  [quantity: {1, 2}, cost: {0, 4, 9}, price: {None, 3}, industry: {"x", "y"},
   theme: {None, "t"}, days: {None}, dyr: {None, 2}]

PortfolioInputs == [kind: {"portfolio"}, p: [{"a", "b"} -> Position], cash: {0, 5}]

SignalInputs ==
  [kind: {"signal"}, h: [quantity: {1, 2, 10}, cost: {0, 4, 9, 100}, price: {None} \cup 1..12,
                         days: {None, 0, 5, 40}]]

PayoutInputs ==
  [kind: {"payout"}, records: SUBSET [id: {1, 2}, stock: {"a", "b"}, year: {1, 2}, received: {1, 3},
                                        recent: {TRUE}]]

SectionInputs == [kind: {"section"}, fails: [1..7 -> {"no", "python", "database"}]]

BandInputs == [kind: {"band"}, actual: Seqs({None, -1, 1, 3, 7}, 4), close: {None, 10}]

ForwardInputs ==
  [kind: {"forward"}, price: {None, 0, 7},
   statements: Seqs([payout: {None, -10, 50, 150}, eps: {None, -1, 0, 3}], 3)]

CoverInputs == [kind: {"cover"}, ocf: -2..4, profit: -2..4, paid: -2..4]

Annuals(growths, payouts, equities) ==
  [growth: growths, profit_growth: {-1, 1}, ocf_ratio: {None, 40, 60}, debt: {50},
   roe: {5}, payout: payouts, goodwill: {0, 31}, equity: equities]

AnomalyInputs ==
  [kind: {"anomaly"}, pb: {None, 7, 8},
   statements: {<<s, t, u>> : s \in Annuals({None, 5}, {None, 100, 101}, {None, 1, 97, 102}),
                              t \in Annuals({0}, {None}, {100}), u \in Annuals({0}, {None}, {None, 99})}]

TtmInputs ==
  [kind: {"ttm"}, quarters: {[i \in 1..8 |-> [value |-> v[i], growth |-> -5]] :
                             v \in [1..8 -> {None, -1, 2}]}]

RealtimeInputs ==
  [kind: {"realtime"}, primary: Range(Kinds),
   answers: [Range(Kinds) -> {None} \cup [pe: {None, 9}, price: {None, 3}]]]

FeeInputs ==
  [kind: {"fee"}, price: {1, 40, 2000}, quantity: 1..4, override: {None, 0, 7},
   cfg: [commission: {0, 25}, minimum: {0, 5, 500}, stamp: {0, 50}, transfer: {1}]]

(* The prices around every limit. *)
PricesNear(prev) ==
  IF prev = None THEN {1}
  ELSE {(prev * (100 + k) + 50) \div 100 + d :
          k \in {-30, -20, -10, -5, 0, 5, 10, 20, 30}, d \in -4..4}

PriceInputs ==
  UNION {[kind: {"price"}, price: PricesNear(prev),
          stock: [exchange: {"sh", "bj", None}, prefix: {"600", "688", "300", "920"}, prev: {prev},
                  status: {None, "normally_listed", "special_treatment",
                           "delisting_transitional_period", "ipo_suspension"}]] :
         prev \in {None, 0, 3, 15, 1005}}

Quote(pe, pb, dyr) == [pe_ttm |-> pe, pb |-> pb, dyr |-> dyr]
Quotes == {None, Quote(5, -1, 0), Quote(None, 1, 3), Quote(0, 1, 3), Quote(5, 100, 3), Quote(0, 0, 30)}

SanityInputs ==
  [kind: {"sanity"}, rows: {Partial(f) : f \in [{"a", "b"} -> Quotes]},
   data: {Partial(f) : f \in [{"a", "b"} -> Quotes]}, batch: SUBSET {"a", "b"}]

Company(c) == [code |-> c, name |-> IF c = "b" THEN "" ELSE "new", fs |-> IF c = "c" THEN "" ELSE "fs"]
StoredRow  == [name: {"old"}, industry: {None}, source: {"bootstrap", None}, delisted: BOOLEAN]

UniverseInputs ==
  [kind: {"universe"}, rows: {Partial(f) : f \in [{"a", "b", "c"} -> StoredRow \cup {None}]},
   list: Seqs({Company(c) : c \in {"a", "b", "c", ""}}, 3), size: {1, 2}]

SegmentInputs == [kind: {"segment"}, start: {0}, end: 0..12, span: 1..4]

DividendRecord(date, cash, bonus) ==
  [date |-> date, amounts |-> [cash_dividend |-> cash, stock_dividend |-> bonus, capitalization |-> 0]]

DividendAnswers ==
  Seqs({DividendRecord(1, 1, 0), DividendRecord(1, 1, 1), DividendRecord(2, 1, 0),
        DividendRecord(None, 1, 0), DividendRecord(2, 0, 0)}, 2) \cup {None}

DividendInputs ==
  [kind: {"dividend"}, answers: [{"a", "b"} -> DividendAnswers],
   stored: [{"a", "b"} -> {{}, {[date |-> 1, type |-> "cash_dividend"]}}]]

QualityInputs ==
  [kind: {"quality"}, rows: [{"a", "b", "c"} -> {{}, {0}, {0, 1}, 0..60}], dtype: DataTypes,
   age: {1, 7, 800}, passed: {0, 50, 100}]

GainInputs == [kind: {"gain"}, positions: Seqs([realized: -2..2, cost: 0..3], 2)]

AttributionInputs ==
  [kind: {"attribution"},
   drafts: SUBSET [id: {1, 2}, source: {"draft_generator", "evaluator", "manual"},
                   executed: BOOLEAN, value: {5}]]

(* n calls, of which the conflicts are those from a to b. *)
BreakerInputs ==
  {[kind |-> "breaker", calls |-> [i \in 1..n |-> i \in a..b]] :
     n \in {9, 10, 11, 49, 50, 51, 53}, a \in {1, 2, 42, 51}, b \in {1, 2, 3, 10, 11, 50, 53}}

TaskRow == [config: {1}, tags: {1}, enabled: BOOLEAN, status: {"active"}]

Edits ==
  UNION {{Pause(t), Resume(t), Put(t, 9, None), Put(t, None, FALSE), Put(t, 9, TRUE)} : t \in {"a", "b"}}

RestartInputs ==
  [kind: {"restart"}, rows: {Partial(f) : f \in [{"a", "b"} -> TaskRow \cup {None}]},
   code: {Partial(f) : f \in [{"a", "c"} -> {2, None}]}, edits: Seqs(Edits, 2)]

JobInputs ==
  [kind: {"job"}, defaults: {[j \in {"a", "intraday_price_poll"} |-> 1]}, valid: {{1, 2}},
   jobs: {Partial(f) : f \in [{"a", "intraday_price_poll", "old"} ->
                                [cron: {1, 2}, enabled: BOOLEAN] \cup {None}]},
   edit: [job: {"a", "old", "x"}, cron: {None, 2, 7}, enabled: {None, TRUE, FALSE}]]

ResolveInputs ==
  [kind: {"resolve"}, id: {1, 3},
   alerts: {{[id |-> i, severity |-> f[i].severity, category |-> f[i].category, by |-> f[i].by] : i \in 1..2} :
            f \in [1..2 -> [severity: {"critical", "info"}, category: {"data", "signal"}, by: {None, "first"}]]},
   filter: [severity: {None, "critical"}, category: {None, "data"}]]

SellInputs ==
  [kind: {"sell"}, s: [held: BOOLEAN, buys: 0..2, sells: 0..2, pct: {0, 50}, audit: {0}, alerts: {0}],
   fails: SUBSET {"audit", "alert", "dispatch", "commit"},
   percentile: {None, 89, 90}, weight: {None, 15, 16, 100}]

EvalInputs ==
  [kind: {"eval"}, updates: Seqs([code: {"a", "b", "z"}, status: {"completed", "failed"},
                                  score: {None, 0, 1, 5}], 2)]

FreshnessInputs ==
  [kind: {"freshness"}, now: {40, 45}, age: {0, 5, 25},
   outcomes: {[i \in DOMAIN f |-> [at |-> 10 * i, count |-> f[i][1], error |-> f[i][2]]] :
              f \in Seqs({1, 2} \X {None, "e"}, 4)}]

(* The subsequences of a sequence without repetitions. *)
Subsequences(s) == {SelectSeq(s, LAMBDA x : x \in T) : T \in SUBSET Range(s)}

FailureInputs ==
  [kind: {"failure"}, times: Subsequences(<<0, 599, 600, 601, 1200, 1201, 1802>>)]

Code(b, i) == [board |-> b, id |-> i]

Line(market, i, fields, quote) ==
  [code |-> [market |-> market, id |-> i], fields |-> fields, quote |-> quote]

QuoteInputs ==
  [kind: {"quote"}, now: {100}, codes: SUBSET {Code("6", 1), Code("9", 2), Code("0", 3)},
   cache: {Partial(f) : f \in [{Code("6", 1), Code("0", 3)} -> [at: {0, 40, 41}, quote: {7}] \cup {None}]},
   answer: {None} \cup Seqs({Line("sh", 1, 34, 8), Line("sh", 1, 34, 9), Line("sz", 3, 34, 8),
                               Line("sz", 2, 34, 8), Line("sh", 2, 1, 0)}, 2)]

PaceInputs ==
  [kind: {"pace"}, now: {100},
   p: [budget: {0, 5}, period: {100}, window: {10}, threshold: {10, 60}, min: {1}, max: {10}],
   calls: Subsequences(<<-1, 0, 50, 91, 95, 97, 99>>), errors: Subsequences(<<80, 92, 99>>)]

LogInputs ==
  [kind: {"log"}, start: {0, 1}, end: {2, 3},
   log: Seqs([endpoint: {"e", "f"}, day: 0..2, cached: BOOLEAN, error: BOOLEAN], 2)]

Response(choices, submitted, cost) == [choices |-> choices, submitted |-> submitted, cost |-> cost]

Responses == {Response(FALSE, <<>>, 0), Response(TRUE, <<"invalid">>, 3), Response(TRUE, <<"json", "">>, 2),
              Response(TRUE, <<"json">>, 3)}

CallInputs ==
  [kind: {"call"}, commits: {TRUE}, attempts: Seqs(Responses, 4), entries: {<<>>}]
  \cup
  [kind: {"call"}, commits: BOOLEAN, attempts: {<<>>},
   entries: {[i \in DOMAIN f |-> [id |-> i, session_fails |-> f[i][1], fallback_fails |-> f[i][2]]] :
             f \in Seqs(BOOLEAN \X BOOLEAN, 3)}]

Candidate(codes, scores) == [code: codes, name: {"n"}, score: scores]

ScanInputs ==
  [kind: {"scan"}, stocks: {[c \in {"x", "y"} |-> IF c = "x" THEN "X" ELSE ""]},
   answers: [system_change: {"ok"}, value_chain: {None, "ok"}, scarce_layer: {None, "ok"},
             company_universe: Seqs(Candidate({"x", "y", "z"}, {0}), 2) \cup {None},
             candidate_rank: Seqs(Candidate({"x", "z"}, {1, 2}), 2) \cup {None}],
   blank: BOOLEAN, allowed: BOOLEAN, engine: BOOLEAN]

BeatInputs == [kind: {"beat"}, waits: [1..6 -> {0, 18, 40}]]

PageInputs ==
  [kind: {"page"}, stocks: {[i \in 1..3 |-> [code |-> i, delisted |-> f[i][1], industry |-> f[i][2],
                                            value |-> f[i][3]]] :
                            f \in [1..3 -> {<<TRUE, "x", 1>>} \cup ({FALSE} \X {"x", "y"} \X {None, 1, 5})]},
   industry: {None, "x"}, lo: {None, 2}, hi: {None, 4}, size: {1, 2}]

CompositionInputs ==
  [kind: {"composition"}, answer: Seqs([date: {None, 1, 2}, segments: {<<>>, <<"p">>, <<"p", "q">>}], 3)]

CreateInputs ==
  [kind: {"create"}, code: {"a"}, names: {[c \in {"a"} |-> "A"], [c \in {"b"} |-> "B"]}, name: {"", "given"},
   auto: BOOLEAN, profile: {None, <<>>, <<"P">>, <<"">>},
   list: {None, [c \in {"a"} |-> "L"], [c \in {"b"} |-> "L"]}]

EditInputs ==
  [kind: {"edit"}, stock: [{"f", "g"} -> {None, 1, 2}],
   set: UNION {[D -> {None, 1, 2}] : D \in SUBSET {"f", "g"}},
   prev: {None, 5}, closes: {None, <<>>, <<7, 6>>, <<0, 7>>, <<-1>>}]

ViewInputs ==
  [kind: {"view"}, held: {Partial(f) : f \in [{"a", "b"} -> [quantity: {2}, cost: {0, 5}, price: {None, 3}] \cup {None}]},
   states: {Partial(f) : f \in [{"a", "c"} -> {None, "watchlist", "candidate", "rejected"}]},
   known: SUBSET {"a", "b", "c"}]

CleanupInputs ==
  [kind: {"cleanup"}, rows: SUBSET [code: {"a", "b"}, day: 1..3], codes: SUBSET {"a", "b"},
   before: {None, 1, 3}, after: {None, 1, 2}]

YieldInputs ==
  [kind: {"yield"}, codes: SUBSET {"a", "b"},
   rows: {{[code |-> k[1], day |-> k[2], dyr |-> f[k]] : k \in {x \in DOMAIN f : f[x] # -1}} :
          f \in [{"a", "b"} \X {1, 2} -> {-1, None, 3, 4}]}]

IndexInputs ==
  [kind: {"index"}, stored: {Partial(f) : f \in [1..2 -> {None, 5}]},
   answer: Seqs([day: {None, 1, 2, 3}, close: {5, 6}], 3)]

Decision(i) == [id: {i}, side: {"BUY", "SELL"}, target: {None, 0, 100}, executed: {None, 90, 100, 107}]

SlippageInputs == [kind: {"slippage"}, decisions: {{d, e} : d \in Decision(1), e \in Decision(2)}]

Init ==
  \/ input \in ScoreInputs
  \/ input \in RedLineInputs
  \/ input \in ScreenInputs
  \/ input \in ConflictInputs
  \/ input \in BudgetInputs
  \/ input \in DowInputs
  \/ input \in HolidayInputs
  \/ input \in PortfolioInputs
  \/ input \in SignalInputs
  \/ input \in PayoutInputs
  \/ input \in SectionInputs
  \/ input \in BandInputs
  \/ input \in ForwardInputs
  \/ input \in CoverInputs
  \/ input \in AnomalyInputs
  \/ input \in TtmInputs
  \/ input \in RealtimeInputs
  \/ input \in FeeInputs
  \/ input \in PriceInputs
  \/ input \in SanityInputs
  \/ input \in UniverseInputs
  \/ input \in SegmentInputs
  \/ input \in DividendInputs
  \/ input \in QualityInputs
  \/ input \in GainInputs
  \/ input \in AttributionInputs
  \/ input \in BreakerInputs
  \/ input \in RestartInputs
  \/ input \in JobInputs
  \/ input \in ResolveInputs
  \/ input \in SellInputs
  \/ input \in EvalInputs
  \/ input \in FreshnessInputs
  \/ input \in FailureInputs
  \/ input \in QuoteInputs
  \/ input \in PaceInputs
  \/ input \in LogInputs
  \/ input \in CallInputs
  \/ input \in ScanInputs
  \/ input \in BeatInputs
  \/ input \in PageInputs
  \/ input \in CompositionInputs
  \/ input \in CreateInputs
  \/ input \in EditInputs
  \/ input \in ViewInputs
  \/ input \in CleanupInputs
  \/ input \in YieldInputs
  \/ input \in IndexInputs
  \/ input \in SlippageInputs

Next == UNCHANGED input
Spec == Init /\ [][Next]_input

(* A check of the engine, sixty seconds after the one before. *)
CronInputs ==
  [kind: {"cron"}, last: {60}, now: {120},
   tasks: [{"a", "b"} -> [valid: BOOLEAN, outstanding: BOOLEAN, times: SUBSET {50, 60, 61, 120, 130}]]]

CronSpec == input \in CronInputs /\ [][Next]_input

-----------------------------------------------------------------------------
(* One invariant for each subject; a property is stated beside the rules it *)
(* is about, and here for every input of its kind.                          *)

(* compute_overall_score stays within the scores that are there, is monotone*)
(* in each, and blind to a lighter master who repeats a heavier one.  A red *)
(* line, whether reported or found in the three newest statements, leaves   *)
(* deep research no recommendation to buy or to hold.  screen_stock rejects *)
(* a losing stock unasked, sees a collapse between two annual statements in *)
(* a row, and judges a better stock no worse.  A number that is far from    *)
(* the stored one conflicts; at its cap the monthly budget allows nothing   *)
(* more.                                                                    *)
JudgementIsSound ==
  /\ input.kind = "score" => ScoreIsFair(input.scores, input.source, input.tags)
  /\ input.kind = "red_line" => RedLineRejects(input)
  /\ input.kind = "screen" => ScreenIsSound(input.stock, input.answer)
  /\ input.kind = "conflict" => ConflictsAreReal(input.numbers, input.stored)
  /\ input.kind = "budget" => BudgetCaps(input.calls, input.month)

(* An expression that cron_to_trigger accepts fires on crontab's days; the  *)
(* holidays of seed_default_holidays are closed to is_trading_day, and rows *)
(* that were entered by hand stand.                                         *)
ScheduleIsSound ==
  /\ input.kind = "dow" => FiresOnItsDays(input.parts)
  /\ input.kind = "holiday" => HolidaysClosed(input.rows, input.holidays, 0, 8)

(* get_portfolio_summary: totals, weights and themes add up, prices known   *)
(* or not.  A sale that scan_holdings proposes to trim a position leaves it *)
(* at its target, and a rising price never worsens a signal.  The dividends *)
(* of the years are those of the stocks.  A section of the cockpit that fails outside the database *)
(* hides no other.                                                          *)
PortfolioIsSound ==
  /\ input.kind = "portfolio" => SummaryAddsUp(input.p, input.cash) /\ TrimsToTarget(input.p)
  /\ input.kind = "signal" => SignalFollowsPrice(input.h)
  /\ input.kind = "payout" => DividendsAddUp(input.records)
  /\ input.kind = "section" => SectionsIsolated(input.fails)

(* No higher yield is expected than is earned; a dividend that is called    *)
(* sustainable is covered by cash; a worse year shows no anomaly less; a    *)
(* year that sells as much in every quarter does not shrink; and a stock    *)
(* that one endpoint knows is found.                                        *)
ValuationIsSound ==
  /\ input.kind = "forward" => ForwardIsEarned(input.statements, input.price)
  /\ input.kind = "cover" => DividendIsCovered(input.ocf, input.profit, input.paid)
  /\ input.kind = "anomaly" => WorseIsNoticed(input.statements, input.pb)
  /\ input.kind = "realtime" => IndustryIsFound(input.answers, input.primary)
  /\ input.kind = "ttm" => TtmIsSound(input.quarters)

(* create_trade: a round trip loses exactly its fees, and a split order is  *)
(* never cheaper.  assert_tradable lets the exchange's limit prices pass,   *)
(* and little beyond.  validate_batch and load_batch: a bad record never    *)
(* replaces a stored row.                                                   *)
TradeRulesAreSound ==
  /\ input.kind = "fee" => FeesAreTaken(input.price, input.quantity, input.cfg, input.override)
  /\ input.kind = "price" => LimitPricesPass(input.stock, input.price)
  /\ input.kind = "sanity" => BadRecordKeepsRow(input.rows, input.batch, input.data)

(* What is sorted, cut into pages or joined loses nothing and repeats       *)
(* nothing.  After a bootstrap the rows mirror the pages of the list of     *)
(* companies; the pages of the universe show every stock that passes the    *)
(* filters once; so do the dates of a composition its segments; the         *)
(* valuation bands are in their order and percentiles in their range.  A    *)
(* theme scan drops no company unseen, ranks in the order of the scores,    *)
(* its placeholder runs only with a job, and its progress never goes back.  *)
ListsAreSound ==
  /\ input.kind = "universe" => BootstrapMirrorsList(input.rows, input.list, input.size)
  /\ input.kind = "page" => PagesCover(input.stocks, input.industry, input.lo, input.hi, input.size)
  /\ input.kind = "composition" => SegmentsShownOnce(input.answer)
  /\ input.kind = "band" => BandsOrdered(input.actual, input.close) /\ RankInRange(input.actual)
  /\ input.kind = "scan" =>
       /\ ScanIsChecked(input.stocks, input.answers)
       /\ PlaceholderHasJob(input.blank, input.allowed, input.engine, input.stocks, input.answers)
  /\ input.kind = "beat" => ProgressGrows(input.waits)

(* What a user's synchronisation leaves in the rows does not outlast the    *)
(* next bootstrap; the segments in which dividends are asked for are        *)
(* disjoint and cover the years; and every distribution of every answer is  *)
(* stored once, days of the index too.                                      *)
UniverseIsSound ==
  /\ input.kind = "universe" =>
       BootstrapWins(input.rows, input.list, [c \in {"a", "b", "c"} |-> "sw"])
  /\ input.kind = "segment" => SegmentsCover(input.start, input.end, input.span)
  /\ input.kind = "dividend" => DividendsMirrored(input.stored, input.answers)
  /\ input.kind = "index" => IndexIsMirrored(input.stored, input.answer)

(* A new stock has a name and keeps it; edits touch only what they name; a  *)
(* price band is found again; weights add up; what a cleanup previews is    *)
(* what it deletes; one and many yields agree.                              *)
ReadsAreSound ==
  /\ input.kind = "create" =>
       StockIsNamed(input.names, input.code, input.name, input.auto, input.profile, input.list)
  /\ input.kind = "edit" => EditsAreLocal(input.stock, input.set) /\ BandIsFound(input.prev, input.closes)
  /\ input.kind = "view" => WeightsAddUp(input.held, input.states, input.known)
  /\ input.kind = "cleanup" => PreviewIsDeleted(input.rows, input.codes, input.before, input.after)
  /\ input.kind = "yield" => YieldsAgree(input.rows, input.codes)

(* compute_quality: the score keeps its bounds, and a filled gap never      *)
(* lowers it.  trade_statistics: closed gains are wins, losses are not.     *)
(* Every draft is attributed to one engine; a breaker that conflicts opened *)
(* stays open under another one and closes after fifty calls without; the   *)
(* slippage of the sides is that of the whole.                              *)
QualityIsSound ==
  /\ input.kind = "quality" => ScoreIsSound(input.rows, input.dtype, input.age, input.passed)
  /\ input.kind = "gain" => GainsAreWins(input.positions)
  /\ input.kind = "attribution" => AttributionAddsUp(input.drafts)
  /\ input.kind = "breaker" => BreakerHolds(input.calls)
  /\ input.kind = "slippage" => SlippageAddsUp(input.decisions)

(* What users set survives restarts; who resolved an alert first stays its  *)
(* resolver; signals to sell leave one draft, never half a change; and the  *)
(* runs of an evaluation are counted and compared as they were recorded.    *)
RecordsAreSound ==
  /\ input.kind = "restart" => RestartKeepsPauses(input.rows, input.code, input.edits)
  /\ input.kind = "job" => JobEditsStand(input.jobs, input.defaults, input.edit, input.valid)
  /\ input.kind = "resolve" => FirstResolverStays(input.alerts, input.id, input.filter)
  /\ input.kind = "sell" =>
       BreachIsWhole(input.s, input.fails) /\ SignalsLeaveOneSell(input.s, input.percentile, input.weight)
  /\ input.kind = "eval" => EvalIsCounted(input.updates)

(* Freshness is the history of the synchronisations; a failing job raises   *)
(* one alert in each window; quotes are of the code and the minute that was *)
(* asked for; the pace follows the errors; the days of a month add up to    *)
(* it, and a call of the model is logged once, at what it cost.             *)
MetersAreSound ==
  /\ input.kind = "freshness" => FreshnessIsHistory(input.outcomes, input.now, input.age)
  /\ input.kind = "failure" => OneAlertPerWindow(input.times)
  /\ input.kind = "quote" => QuotesAreFresh(input.cache, input.codes, input.now, input.answer)
  /\ input.kind = "pace" => PaceFollowsErrors(input.p, input.calls, input.errors, input.now)
  /\ input.kind = "log" => LogsAddUp(input.log, input.start, input.end)
  /\ input.kind = "call" => CallsAreLogged(input.entries, input.commits) /\ CostOfCall(input.attempts)

(* The rules in pairs of the parts that share their data.  create_trade and *)
(* the holdings that come of it: fees, prices, totals, weights, signals.    *)
OrdersAreSound == TradeRulesAreSound /\ PortfolioIsSound

(* What is worked out of statements, drafts and positions: valuations and   *)
(* anomalies, scores of the data and of the decisions.                      *)
FiguresAreSound == ValuationIsSound /\ QualityIsSound

(* What synchronisations, starts, jobs and users write to the same rows.    *)
RowsAreSound == UniverseIsSound /\ RecordsAreSound

(* What users read of the rows, and what the program measures of itself.    *)
ReadingsAreSound == ReadsAreSound /\ MetersAreSound

(* _check_cron_tasks: "evaluate whether a cron expression fires in the      *)
(* current time window (since the last check)": a task that came due since  *)
(* the last check is queued by this one.                                    *)
CronDueIsQueued == input.kind = "cron" => DueIsQueued(input.tasks, input.last, input.now)
=============================================================================
