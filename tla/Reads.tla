------------------------------- MODULE Reads -------------------------------
(***************************************************************************)
(* What the user reads and edits of the stocks: the pages of the universe, *)
(* a stock's own page and its edits (routers/stocks.py, data_service.py,   *)
(* stocks_detail_service.py), the stocks he holds or watches               *)
(* (universe_service.py, data_management_service.py), and the comparison   *)
(* with an index (index_service.py, evaluation_service.py).                *)
(***************************************************************************)
EXTENDS Values

(* No name and no weight is None.                                           *)
ASSUME NoneIsNoName   == None \notin STRING
ASSUME NoneIsNoWeight == None \notin [num: Int, den: Int]

-----------------------------------------------------------------------------
(* get_full_universe: stocks in the order of their codes, each [code,       *)
(* delisted, industry, value], value None where nothing is stored. The rows *)
(* are counted and cut into pages before the values are filtered.           *)

Between(lo, hi, v) ==
  /\ lo # None => v # None /\ v >= lo
  /\ hi # None => v # None /\ v <= hi

Selected(stocks, industry) ==
  SelectSeq(stocks, LAMBDA s : ~s.delisted /\ industry \in {None, s.industry})

FullUniverse(stocks, industry, lo, hi, page, size) ==
  LET all  == Selected(stocks, industry)
      rows == SubSeq(all, (page - 1) * size + 1, Min({page * size, Len(all)}))
  IN  [items |-> SelectSeq(rows, LAMBDA s : Between(lo, hi, s.value)), total |-> Len(all)]

-----------------------------------------------------------------------------
(* A stock's own page.                                                      *)

(* get_revenue_composition: answer is a sequence of [date, segments], the   *)
(* segments of one date are joined, the newest date comes first.            *)
RevenueComposition(answer) ==
  LET dated == SelectSeq(answer, LAMBDA r : r.date # None)
      dates == SortSeq(SetToSeq({dated[i].date : i \in DOMAIN dated}), LAMBDA a, b : a > b)
      Of(d) == FlattenSeq([i \in DOMAIN dated |-> IF dated[i].date = d THEN dated[i].segments ELSE <<>>])
  IN  [i \in DOMAIN dates |-> [date |-> dates[i], segments |-> Of(dates[i])]]

(* fetch_stock_info: the name in the profile, else in the list of companies;*)
(* None for a request that failed, <<>> for a profile that is not there.    *)
FetchStockInfo(profile, list, code) ==
  IF profile \notin {None, <<>>} THEN profile[1]
  ELSE IF profile # None /\ list # None /\ code \in DOMAIN list THEN list[code]
  ELSE None

(* create_stock: "" for a name that is not given. *)
CreateStock(names, code, name, autoFetch, profile, list) ==
  LET info == IF autoFetch THEN FetchStockInfo(profile, list, code) ELSE None
  IN  IF code \in DOMAIN names THEN names
      ELSE [c \in DOMAIN names \cup {code} |->
              IF c # code THEN names[c]
              ELSE IF name # "" THEN name
              ELSE IF info \notin {None, ""} THEN info
              ELSE code]

(* Mutant of PatchFlags: what is None is set too.                           *)
PatchFlagsToNone(stock, set) == [x \in DOMAIN stock |-> IF x \in DOMAIN set THEN set[x] ELSE stock[x]]

(* An edit of fields: a PUT sets each field it names, even to None; a PATCH *)
(* of the flags leaves what is None alone.                                  *)
PutFields(stock, set) == [x \in DOMAIN stock |-> IF x \in DOMAIN set THEN set[x] ELSE stock[x]]

PatchFlags(stock, set) ==
  [x \in DOMAIN stock |-> IF x \in DOMAIN set /\ set[x] # None THEN set[x] ELSE stock[x]]

(* update_prev_close_for_stock: closes the newest first, None for a request *)
(* that failed; a close of 0 stands for one that cannot be read.            *)
UpdatePrevClose(prev, closes) ==
  IF closes \in {None, <<>>} THEN prev ELSE IF Head(closes) > 0 THEN Head(closes) ELSE prev

(* api_price_band: the band is asked of a stock with a previous close; one  *)
(* without is looked up once.                                               *)
AskedBand(prev, closes) ==
  LET found == IF prev # None THEN prev ELSE UpdatePrevClose(prev, closes)
  IN  [prev |-> found, band |-> found # None]

-----------------------------------------------------------------------------
(* Held and watched stocks. held: a function from codes to [quantity, cost, *)
(* price]; states of the watched ones; known: the codes of the table.       *)

WATCHED_STATES == {"watchlist", "researched", "candidate", "signaled"}

ValueOf(h) == IF h.price = None THEN h.cost ELSE h.price * h.quantity

(* Weights as [num, den]; None where the stock is not held or worth nothing.*)
BuildUniverseView(held, states, known) ==
  LET watched == {c \in DOMAIN states : states[c] \in WATCHED_STATES}
      total   == SumOver(DOMAIN held, LAMBDA c : ValueOf(held[c]))
  IN  [c \in (DOMAIN held \cup watched) \cap known |->
         [held      |-> c \in DOMAIN held,
          candidate |-> c \in DOMAIN states /\ states[c] = "candidate",
          weight    |-> IF c \notin DOMAIN held THEN None ELSE IF ValueOf(held[c]) = 0 THEN None
                        ELSE [num |-> ValueOf(held[c]), den |-> total]]]

(* list_stock_pool, get_data_status, the cleanup: rows are [code, day]; no  *)
(* code and no date given means no filter.                                  *)
Completeness(held, known, rows) == [c \in held \cap known |-> \E r \in rows : r.code = c]

DataStatus(held, rows) ==
  LET own == IF held = {} THEN rows ELSE {r \in rows : r.code \in held}
  IN  [total |-> Cardinality(own), stocks |-> Cardinality({r.code : r \in own})]

Matching(rows, codes, before, after) ==
  {r \in rows : /\ codes = {} \/ r.code \in codes
                /\ before = None \/ r.day < before
                /\ after = None \/ r.day > after}

PreviewCleanup(rows, codes, before, after) == Cardinality(Matching(rows, codes, before, after))
ExecuteCleanup(rows, codes, before, after) == rows \ Matching(rows, codes, before, after)

(* The newest dividend yield of a stock, asked for one stock or for many:   *)
(* rows are [code, day, dyr], one for each day.                             *)
Newest(rows, code) ==
  LET own == {r \in rows : r.code = code} IN {r \in own : \A o \in own : o.day <= r.day}

LatestDyr(rows, code) == IF Newest(rows, code) = {} THEN None ELSE (CHOOSE r \in Newest(rows, code) : TRUE).dyr

BatchLatestDyrs(rows, codes) ==
  LET all == {r \in UNION {Newest(rows, c) : c \in codes} : r.dyr # None}
  IN  [c \in {r.code : r \in all} |-> (CHOOSE r \in all : r.code = c).dyr]

-----------------------------------------------------------------------------
(* The index: closes by day. The answer is a sequence of [day, close]; a    *)
(* day that comes twice and is not stored yet is inserted twice, which the  *)
(* unique constraint refuses, and with it the whole answer.                 *)

SyncIndexKlines(stored, answer) ==
  LET dated == {i \in DOMAIN answer : answer[i].day # None}
      twice == \E i, j \in dated :
                 i # j /\ answer[i].day = answer[j].day /\ answer[i].day \notin DOMAIN stored
      days  == {answer[i].day : i \in dated}
      Close(d) == answer[Max({i \in dated : answer[i].day = d})].close
  IN  IF twice THEN stored
      ELSE [d \in DOMAIN stored \cup days |-> IF d \in days THEN Close(d) ELSE stored[d]]

(* Slippage of executed decisions, [side, target, executed], in 1/1000 of   *)
(* the target; what has no target or was not executed has none.             *)
Slipped(decisions) == {d \in decisions : d.executed # None /\ d.target # None /\ d.target > 0}

Slippage(d) == (1000 * Abs(d.executed - d.target)) \div d.target

SignalQuality(decisions) ==
  LET own == Slipped(decisions)
  IN  [count |-> Cardinality(own), sum |-> SumOver(own, Slippage),
       max   |-> Max({0} \cup {Slippage(d) : d \in own}),
       side  |-> [s \in {"BUY", "SELL"} |->
                    LET of == {d \in own : d.side = s}
                    IN  [count |-> Cardinality(of), sum |-> SumOver(of, Slippage)]]]

-----------------------------------------------------------------------------
(* Properties, each of one input.                                            *)

(* get_full_universe: the pages hold every stock that passes the filters    *)
(* once, in the order of the codes, and no page beyond the total any; the   *)
(* total may count stocks that no page shows, never fewer.                  *)
PagesCover(stocks, industry, lo, hi, size) ==
  LET page(n) == FullUniverse(stocks, industry, lo, hi, n, size)
      total   == page(1).total
      pages   == (total + size - 1) \div size
  IN  /\ FlattenSeq([n \in 1..pages |-> page(n).items])
           = SelectSeq(Selected(stocks, industry), LAMBDA s : Between(lo, hi, s.value))
      /\ page(pages + 1).items = <<>>
      /\ \A n \in 1..pages : Len(page(n).items) <= size

(* get_revenue_composition: every segment with a date is shown once, under  *)
(* its date, and the dates are in descending order.                         *)
SegmentsShownOnce(answer) ==
  LET shown == RevenueComposition(answer) IN
  /\ \A i, j \in DOMAIN shown : i < j => shown[i].date > shown[j].date
  /\ SumOver(DOMAIN shown, LAMBDA i : Len(shown[i].segments))
       = SumOver({i \in DOMAIN answer : answer[i].date # None}, LAMBDA i : Len(answer[i].segments))

(* create_stock: a stock is created once, has a name, and the name the user *)
(* gave is kept, whatever the provider answers.                             *)
StockIsNamed(names, code, name, autoFetch, profile, list) ==
  LET new == CreateStock(names, code, name, autoFetch, profile, list)
      again == CreateStock(new, code, "other", FALSE, None, None)
  IN  /\ again = new
      /\ \A c \in DOMAIN names : new[c] = names[c]
      /\ code \notin DOMAIN names => new[code] \notin {"", None} /\ name \in {"", new[code]}

(* patch_stock_resource_flags and update_stock: a patch never clears a      *)
(* flag, a put may; neither touches a field it does not name, and the same  *)
(* edit twice is the edit once.                                             *)
EditsAreLocal(stock, set) ==
  LET put == PutFields(stock, set)
      patched == PatchFlags(stock, set)
  IN  /\ \A x \in DOMAIN stock \ DOMAIN set : put[x] = stock[x] /\ patched[x] = stock[x]
      /\ \A x \in DOMAIN stock : stock[x] # None => patched[x] # None
      /\ PutFields(put, set) = put /\ PatchFlags(patched, set) = patched

(* api_price_band: whatever the provider answers, a known previous close    *)
(* stays, none is ever 0, and the next request needs the provider no more   *)
(* once a band was found.                                                   *)
BandIsFound(prev, closes) ==
  LET r == AskedBand(prev, closes) IN
  /\ prev # None => r.prev = prev
  /\ r.band => r.prev > 0 /\ AskedBand(r.prev, None) = r
  /\ ~r.band => closes \in {None, <<>>} \/ Head(closes) <= 0

(* build_universe_view: the weights of all that is held add up to the whole *)
(* when every held stock is in the table, and never to more; a stock that   *)
(* is neither held nor watched is not shown.                                *)
WeightsAddUp(held, states, known) ==
  LET view  == BuildUniverseView(held, states, known)
      shown == {c \in DOMAIN view : view[c].weight # None}
      total == SumOver(DOMAIN held, LAMBDA c : ValueOf(held[c]))
      sum   == SumOver(shown, LAMBDA c : view[c].weight.num)
  IN  /\ sum <= total
      /\ DOMAIN held \subseteq known => sum = total
      /\ \A c \in DOMAIN view : view[c].candidate => c \in DOMAIN states
      /\ \A c \in DOMAIN view : ~view[c].held => states[c] \in WATCHED_STATES

(* preview_cleanup and execute_cleanup: what the preview counts is deleted, *)
(* nothing of another stock is, the status counts as many less, and a       *)
(* second run deletes nothing. An empty list of stocks deletes of all.      *)
PreviewIsDeleted(rows, codes, before, after) ==
  LET left == ExecuteCleanup(rows, codes, before, after) IN
  /\ Cardinality(rows) - Cardinality(left) = PreviewCleanup(rows, codes, before, after)
  /\ codes # {} => {r \in rows : r.code \notin codes} \subseteq left
  /\ ExecuteCleanup(left, codes, before, after) = left
  /\ before = None /\ after = None => \A c \in codes : ~Completeness(codes, codes, left)[c]
  /\ codes # {} => DataStatus(codes, left).total
                     = DataStatus(codes, rows).total - PreviewCleanup(rows, codes, before, after)

(* _latest_dyr and _batch_latest_dyrs: asked for one stock or for many, the *)
(* yield is the same.                                                       *)
YieldsAgree(rows, codes) ==
  LET batch == BatchLatestDyrs(rows, codes) IN
  \A c \in codes : LatestDyr(rows, c) = IF c \in DOMAIN batch THEN batch[c] ELSE None

(* sync_index_klines, "Idempotent": the same answer twice is the answer     *)
(* once, no stored day is lost, and without a day that comes twice every    *)
(* day of the answer has its close.                                           *)
IndexIsMirrored(stored, answer) ==
  LET once == SyncIndexKlines(stored, answer)
  IN  /\ SyncIndexKlines(once, answer) = once
      /\ DOMAIN stored \subseteq DOMAIN once
      /\ (\A i, j \in DOMAIN answer : i # j => answer[i].day # answer[j].day) =>
           \A i \in DOMAIN answer : answer[i].day # None => once[answer[i].day] = answer[i].close

(* signal_quality: the sides add up to the whole, and no slippage is above  *)
(* the maximum; a decision without a price has none.                        *)
SlippageAddsUp(decisions) ==
  LET q == SignalQuality(decisions) IN
  /\ q.side["BUY"].count + q.side["SELL"].count = q.count
  /\ q.side["BUY"].sum + q.side["SELL"].sum = q.sum
  /\ q.sum <= q.count * q.max
=============================================================================
