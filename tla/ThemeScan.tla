----------------------------- MODULE ThemeScan -----------------------------
(***************************************************************************)
(* One scan of an investment theme: the request (routers/theme_scan.py),   *)
(* the five calls of the model, the check of the companies it names        *)
(* against the table of stocks, the ranking and the progress that the user *)
(* sees (pipelines/llm/theme_scan_pipeline.py).  Research models when such *)
(* scans start, are cancelled and recovered.                               *)
(***************************************************************************)
EXTENDS Values

(* stocks: the names of the stocks the table has, "" for none. A candidate  *)
(* is [code, name, score]; answers are those of the calls, None for a call  *)
(* that failed or did not submit a result.                                  *)

ValidateCodes(stocks, candidates) ==
  LET Exists(c) == c.code \in DOMAIN stocks
      Named(c)  == IF stocks[c.code] = "" THEN c ELSE [c EXCEPT !.name = stocks[c.code]]
      kept == SelectSeq(candidates, Exists)
  IN  [valid   |-> [i \in DOMAIN kept |-> Named(kept[i])],
       dropped |-> SelectSeq(candidates, LAMBDA c : ~Exists(c))]

ByScore(ranked) == SortSeq(ranked, LAMBDA a, b : a.score > b.score)

(* The outcome, and how many calls were made. An exception leaves nothing.  *)
Failed(calls) == [status |-> "failed", ranked |-> <<>>, dropped |-> <<>>, calls |-> calls]

FirstFour == <<"system_change", "value_chain", "scarce_layer", "company_universe">>

(* A step needs a submission: a call that answers in words only has failed. *)
Submitted(answers, step) == answers[step] # None

Run(stocks, answers) ==
  LET broken == {i \in DOMAIN FirstFour : ~Submitted(answers, FirstFour[i])}
      checked == ValidateCodes(stocks, answers["company_universe"])
  IN  IF broken # {} THEN Failed(Min(broken))
      ELSE IF checked.valid = <<>>
      THEN [status |-> "empty", ranked |-> <<>>, dropped |-> checked.dropped, calls |-> 4]
      ELSE IF ~Submitted(answers, "candidate_rank") THEN Failed(5)
      ELSE [status |-> "completed", ranked |-> ByScore(answers["candidate_rank"]),
            dropped |-> checked.dropped, calls |-> 5]

(* trigger_theme_scan: the report it leaves, and whether a job is queued.   *)
(* Without an engine the scan runs within the request, which answers with   *)
(* the report in either case.                                               *)
Refused(code) == [answer |-> code, report |-> None, job |-> FALSE]

Trigger(blank, allowed, engineUp, stocks, answers) ==
  IF blank THEN Refused(400)
  ELSE IF ~allowed THEN Refused(429)
  ELSE IF engineUp THEN [answer |-> 202, report |-> "running", job |-> TRUE]
  ELSE [answer |-> 202, report |-> Run(stocks, answers).status, job |-> FALSE]

(* Percent of the run: where a step starts and how far the heartbeat that   *)
(* runs beside its call may creep, one point every ten seconds. The fifth   *)
(* is the check of the companies, which is reported once.                   *)
StepSpans == << <<10, 28>>, <<30, 48>>, <<50, 63>>, <<65, 78>>, <<80, 80>>, <<85, 98>> >>

Beats(span, n) == [k \in 1..(n + 1) |-> Min({span[1] + k - 1, span[2]})]

(* What is reported when step i waits for waits[i] beats. *)
Progress(waits) == FlattenSeq([i \in DOMAIN StepSpans |-> Beats(StepSpans[i], waits[i])])

-----------------------------------------------------------------------------
(* Properties, each of one input.                                            *)

(* run: every company the model proposes is either kept, under the name the *)
(* table has for it, or reported as dropped; a theme without a company is   *)
(* "empty" and is not ranked; a failed call leaves no ranking and makes no  *)
(* further call; a ranking is in the order of its scores.                   *)
ScanIsChecked(stocks, answers) ==
  LET r == Run(stocks, answers)
      proposed == answers["company_universe"]
  IN  /\ r.status = "failed" <=> \E s \in DOMAIN answers :
           answers[s] = None /\ (s = "candidate_rank" => r.calls = 5)
      /\ r.calls = 5 => \E i \in DOMAIN proposed : proposed[i].code \in DOMAIN stocks
      /\ r.status = "empty" => Len(r.dropped) = Len(proposed)
      /\ \A i, j \in DOMAIN r.ranked : i < j => r.ranked[i].score >= r.ranked[j].score
      /\ proposed # None =>
           LET v == ValidateCodes(stocks, proposed) IN
           /\ Len(v.valid) + Len(v.dropped) = Len(proposed)
           /\ \A i \in DOMAIN v.valid : /\ v.valid[i].code \in DOMAIN stocks
                                        /\ stocks[v.valid[i].code] \in {"", v.valid[i].name}

(* trigger_theme_scan: a report that the request leaves running has a job   *)
(* of the engine, and a scan beyond the budget leaves no report.            *)
PlaceholderHasJob(blank, allowed, engineUp, stocks, answers) ==
  LET t == Trigger(blank, allowed, engineUp, stocks, answers) IN
  /\ t.report = "running" <=> t.job
  /\ ~allowed \/ blank <=> t.report = None

(* _heartbeat_while: however long the calls take, the progress that is      *)
(* shown never goes back.                                                   *)
ProgressGrows(waits) ==
  LET p == Progress(waits) IN \A i \in DOMAIN p : i > 1 => p[i - 1] <= p[i]

(* _validate_codes, "Unknown/fabricated codes are dropped": what is ranked  *)
(* is in the table of stocks.                                               *)
RankedAreStocks(stocks, answers) ==
  \A i \in DOMAIN Run(stocks, answers).ranked : Run(stocks, answers).ranked[i].code \in DOMAIN stocks
=============================================================================
