------------------------------- MODULE Meters -------------------------------
(***************************************************************************)
(* What the program measures of the outside world and of its use of it:    *)
(* how fresh each kind of data is (data_freshness_service.py,              *)
(* scheduler_alerting.py), the quotes of the day                           *)
(* (realtime_quote_service.py), the pace of its requests (throttler.py),   *)
(* and the logs of requests and of calls of the model (pipelines/          *)
(* metrics.py, metrics_service.py, llm/client.py, cost_tracker.py).        *)
(***************************************************************************)
EXTENDS Values

-----------------------------------------------------------------------------
(* Freshness of a category: [synced, success, count, error].               *)

NeverSynced == [synced |-> None, success |-> None, count |-> None, error |-> None]

(* The outcome of a synchronisation at a time: [at, count, error], error   *)
(* None for a success.                                                     *)
(* Mutant of RecordFailure: a failure hides the success before it.          *)
RecordFailureOnly(f, o) == [NeverSynced EXCEPT !.synced = o.at, !.error = o.error]

RecordSuccess(o)    == [synced |-> o.at, success |-> o.at, count |-> o.count, error |-> None]
RecordFailure(f, o) == [f EXCEPT !.synced = o.at, !.error = o.error]

RecordCompletion(f, o) == IF o.error = None THEN RecordSuccess(o) ELSE RecordFailure(f, o)

FreshEnough(f, now, maxAge) == f.success # None /\ now - f.success <= maxAge

FreshnessOf(outcomes) == FoldLeft(RecordCompletion, NeverSynced, outcomes)

(* Alerts of a failing job, in seconds: one in each window; the state is    *)
(* the time of the last alert, and the alerts that were raised.             *)
DEDUP_WINDOW_SECONDS == 600

EmitJobFailure(st, now) ==
  IF st.last = None \/ now - st.last > DEDUP_WINDOW_SECONDS
  THEN [last |-> now, raised |-> Append(st.raised, now)]
  ELSE st

-----------------------------------------------------------------------------
(* Quotes: cache is a function from codes to [at, quote], in seconds;       *)
(* answer what the provider replies, a sequence of lines [code, fields,     *)
(* quote] under its own codes, None when the request fails. A code is       *)
(* [board, id]; a line with too few fields is a code the provider does not  *)
(* know.                                                                    *)
CACHE_TTL == 60

SHANGHAI_PREFIXES == {"6", "5", "9", "11", "13"}

ToSinaCode(code) == [market |-> IF code.board \in SHANGHAI_PREFIXES THEN "sh" ELSE "sz", id |-> code.id]

ParseSinaResponse(lines) ==
  LET good == {i \in DOMAIN lines : lines[i].fields >= 6}
  IN  [c \in {lines[i].code : i \in good} |->
         lines[Max({i \in good : lines[i].code = c})].quote]

CacheHits(cache, codes, now) == {c \in codes \cap DOMAIN cache : now - cache[c].at < CACHE_TTL}

(* What is not in the cache is asked for; the time is that of the question. *)
RefreshedCache(cache, codes, now, answer) ==
  LET asked == codes \ CacheHits(cache, codes, now)
      parsed == IF answer = None THEN <<>> ELSE ParseSinaResponse(answer)
      found == {c \in asked : ToSinaCode(c) \in DOMAIN parsed}
  IN  [c \in DOMAIN cache \cup found |->
         IF c \in found THEN [at |-> now, quote |-> parsed[ToSinaCode(c)]] ELSE cache[c]]

GetRealtimePrices(cache, codes, now, answer) ==
  LET new == RefreshedCache(cache, codes, now, answer)
  IN  [c \in CacheHits(new, codes, now) |-> new[c].quote]

-----------------------------------------------------------------------------
(* The throttler: p its parameters, calls and errors the times of requests  *)
(* and of their errors. Times in seconds, rates in percent.                 *)

(* Where the times are that are kept and that are recent.                   *)
Recent(times, now, window)      == {i \in DOMAIN times : now - times[i] < window}
PeriodCalls(times, now, period) == {i \in DOMAIN times : now - times[i] <= period}

Wait(p, calls, errors, now) ==
  LET kept  == PeriodCalls(calls, now, p.period)
      bad   == Cardinality(Recent(errors, now, p.window))
      asked == Max({1, Cardinality(kept \cap Recent(calls, now, p.window))})
  IN  IF p.budget > 0 /\ 100 * Cardinality(kept) > 80 * p.budget THEN 2 * p.max
      ELSE IF 100 * bad > p.threshold * asked THEN p.max
      ELSE p.min

-----------------------------------------------------------------------------
(* Logs: a sequence of [endpoint, day, cached, error], or for the model of  *)
(* [pipeline, day, cost, success].                                          *)

Count(log, P(_)) == Cardinality({i \in DOMAIN log : P(log[i])})

DailySummary(log, day) ==
  LET Own(r, e) == r.day = day /\ r.endpoint = e
  IN  [e \in {log[i].endpoint : i \in {k \in DOMAIN log : log[k].day = day}} |->
         [calls  |-> Count(log, LAMBDA r : Own(r, e)),
          cached |-> Count(log, LAMBDA r : Own(r, e) /\ r.cached),
          errors |-> Count(log, LAMBDA r : Own(r, e) /\ r.error)]]

DayTotals(log, day) ==
  LET by == DailySummary(log, day)
      Total(g(_)) == SumOver(DOMAIN by, LAMBDA e : g(by[e]))
  IN  [calls  |-> Total(LAMBDA s : s.calls),
       cached |-> Total(LAMBDA s : s.cached),
       errors |-> Total(LAMBDA s : s.errors)]

MonthlySummary(log, start, end) ==
  LET In(r) == r.day >= start /\ r.day < end
  IN  [calls  |-> Count(log, In),
       cached |-> Count(log, LAMBDA r : In(r) /\ r.cached),
       errors |-> Count(log, LAMBDA r : In(r) /\ r.error)]

(* The days since a day that have calls, with how many. *)
Trend(log, since) ==
  [d \in {x \in {log[i].day : i \in DOMAIN log} : x >= since} |-> Count(log, LAMBDA r : r.day = d)]

-----------------------------------------------------------------------------
(* The log of the model's calls. A call of the client is the sequence of    *)
(* the responses to its attempts, [choices, submitted, cost]: whether there *)
(* is a choice at all, and what each submission holds, "" for nothing. A    *)
(* request that failed or hung is one without a choice. What is logged is   *)
(* one entry, with the cost of the first response that could be parsed.     *)
MAX_RETRIES == 3

(* Neither what a response holds nor a submission is None itself.           *)
ASSUME NoneIsNoAnswer == None \notin [args: STRING \cup {None}, cost: Int] \cup {"", "invalid"}

ParseResponse(r) ==
  IF ~r.choices \/ \E i \in DOMAIN r.submitted : r.submitted[i] = "invalid" THEN None
  ELSE [args |-> IF r.submitted = <<>> \/ Last(r.submitted) = "" THEN None ELSE Last(r.submitted),
        cost |-> r.cost]

Complete(responses) ==
  LET parsed == {i \in DOMAIN responses : i <= MAX_RETRIES /\ ParseResponse(responses[i]) # None}
  IN  IF parsed = {} THEN [success |-> FALSE, args |-> None, cost |-> 0]
      ELSE [success |-> TRUE, args |-> ParseResponse(responses[Min(parsed)]).args,
            cost |-> ParseResponse(responses[Min(parsed)]).cost]

(* The log: entries the session holds, whether it broke, and the entries    *)
(* that are stored for good. An entry goes into the session of the caller;  *)
(* if that fails the session is unusable from then on, and the entry goes   *)
(* into a session of its own, which may fail too.                           *)
SafeWriteLog(log, entry) ==
  IF log.usable /\ ~entry.session_fails
  THEN [log EXCEPT !.pending = Append(@, entry)]
  ELSE [usable  |-> FALSE,
        pending |-> <<>>,
        stored  |-> IF entry.fallback_fails THEN log.stored ELSE Append(log.stored, entry)]

(* The caller commits, or fails and rolls back. *)
Stored(entries, commits) ==
  LET log == FoldLeft(SafeWriteLog, [usable |-> TRUE, pending |-> <<>>, stored |-> <<>>], entries)
  IN  IF commits /\ log.usable THEN log.stored \o log.pending ELSE log.stored

-----------------------------------------------------------------------------
(* Properties, each of one input.                                            *)

(* record_pipeline_completion, assert_fresh_enough: a category is fresh if  *)
(* and only if it was synchronised with success within the age; a failure   *)
(* after a success neither hides its time and count nor is hidden by it.    *)
FreshnessIsHistory(outcomes, now, maxAge) ==
  LET f    == FreshnessOf(outcomes)
      good == {i \in DOMAIN outcomes : outcomes[i].error = None}
  IN  /\ FreshEnough(f, now, maxAge) <=> \E i \in good : now - outcomes[i].at <= maxAge
      /\ good # {} => f.count = outcomes[Max(good)].count
      /\ outcomes # <<>> => f.error = Last(outcomes).error /\ f.synced = Last(outcomes).at

(* emit_job_failure_alert: of the failures of a job, two alerts are never   *)
(* within one window, and every failure has an alert at most a window old.  *)
OneAlertPerWindow(times) ==
  LET st(n) == FoldLeft(EmitJobFailure, [last |-> None, raised |-> <<>>], SubSeq(times, 1, n))
      all   == st(Len(times)).raised
  IN  /\ \A i, j \in DOMAIN all : i < j => all[j] - all[i] > DEDUP_WINDOW_SECONDS
      /\ \A n \in DOMAIN times : \E i \in DOMAIN all :
           all[i] <= times[n] /\ times[n] - all[i] <= DEDUP_WINDOW_SECONDS

(* get_realtime_prices: a failed request loses no quote that is fresh and   *)
(* brings no stale one back, every quote is of the code that was asked for, *)
(* and for a minute the same question is answered from the cache alone.     *)
QuotesAreFresh(cache, codes, now, answer) ==
  LET prices == GetRealtimePrices(cache, codes, now, answer)
      new    == RefreshedCache(cache, codes, now, answer)
      later  == GetRealtimePrices(new, DOMAIN prices, now + CACHE_TTL - 1, None)
      Told(c) == {i \in DOMAIN answer : answer[i].code = ToSinaCode(c) /\ answer[i].fields >= 6}
  IN  /\ CacheHits(cache, codes, now) \subseteq DOMAIN prices
      /\ answer = None => DOMAIN prices = CacheHits(cache, codes, now)
      /\ answer # None => \A c \in codes : Told(c) # {} => c \in DOMAIN prices
      /\ \A c \in DOMAIN prices : \/ c \in DOMAIN cache /\ now - cache[c].at < CACHE_TTL
                                  \/ \E i \in Told(c) : prices[c] = answer[i].quote
      /\ \A c \in DOMAIN prices \ CacheHits(cache, codes, now) : later[c] = prices[c]

(* acquire: another error never shortens the wait, one call more in a       *)
(* period whose budget is nearly spent neither, and once errors and calls   *)
(* are older than their windows the pace is the fastest again.              *)
PaceFollowsErrors(p, calls, errors, now) ==
  /\ Wait(p, calls, Append(errors, now), now) >= Wait(p, calls, errors, now)
  /\ 100 * Cardinality(PeriodCalls(calls, now, p.period)) > 80 * p.budget /\ p.budget > 0 =>
       Wait(p, Append(calls, now), errors, now) >= Wait(p, calls, errors, now)
  /\ Wait(p, calls, errors, now + p.period + p.window + 1) = p.min

(* get_daily_summary, get_monthly_summary, get_trend: the days of a month   *)
(* add up to the month, and the endpoints of a day to the day; no hit and   *)
(* no error is counted without its call.                                    *)
LogsAddUp(log, start, end) ==
  LET month == MonthlySummary(log, start, end)
      Over(g(_)) == SumOver(start..(end - 1), LAMBDA d : g(DayTotals(log, d)))
      trend == Trend(log, start)
  IN  /\ Over(LAMBDA t : t.calls)  = month.calls
      /\ Over(LAMBDA t : t.cached) = month.cached
      /\ Over(LAMBDA t : t.errors) = month.errors
      /\ SumOver({d \in DOMAIN trend : d < end}, LAMBDA d : trend[d]) = month.calls
      /\ month.errors <= month.calls /\ month.cached <= month.calls

(* complete, _safe_write_log: a call is logged at most once; when the       *)
(* caller commits over a session that never failed, all of its calls are;   *)
(* and what was logged aside survives a caller that rolls back.             *)
CallsAreLogged(entries, commits) ==
  LET stored == Stored(entries, commits)
      Ids(s) == {s[i].id : i \in DOMAIN s}
      broke  == {i \in DOMAIN entries : entries[i].session_fails}
      aside  == {i \in DOMAIN entries : ~entries[i].fallback_fails /\ \E j \in broke : j <= i}
  IN  /\ Cardinality(Ids(stored)) = Len(stored)
      /\ commits /\ broke = {} => stored = entries
      /\ {entries[i].id : i \in aside} \subseteq Ids(stored)

(* complete: a call whose every attempt failed costs nothing in the log,    *)
(* one that succeeded costs one of its attempts and answers with a          *)
(* submission that could be parsed or with none, and an answer after the    *)
(* third attempt is not waited for.                                         *)
CostOfCall(responses) ==
  LET e == Complete(responses) IN
  /\ e.success => \E i \in DOMAIN responses : i <= MAX_RETRIES /\ e.cost = responses[i].cost
  /\ ~e.success => e.cost = 0 /\ \A i \in DOMAIN responses :
       i <= MAX_RETRIES /\ responses[i].choices => "invalid" \in Range(responses[i].submitted)
  /\ e.args \notin {"invalid", ""}
=============================================================================
