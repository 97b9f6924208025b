------------------------------ MODULE Universe -------------------------------
(***************************************************************************)
(* The list of all companies and what is stored of it: paging              *)
(* (lixinger_client.get_company_list_all), the daily bootstrap             *)
(* (pipelines/universe_bootstrap_pipeline.py), the synchronisation that a  *)
(* user starts (stocks_sync_service.py), and the distributions of a stock  *)
(* (get_dividend_full, corp_action_sync_service.py).                       *)
(*                                                                         *)
(* A company is [code, name, fs], an answer of the data source a sequence  *)
(* of companies.  Rows are a function from codes to                        *)
(* [name, industry, source, delisted].  The other columns follow fs and    *)
(* name.                                                                   *)
(***************************************************************************)
EXTENDS Values

-----------------------------------------------------------------------------
(* Paging: lists[p] is the list as it stands when page p is asked for; the  *)
(* list may change between two pages, and pages are counted from 0.         *)

PageOf(list, p, size) == SubSeq(list, p * size + 1, Min({(p + 1) * size, Len(list)}))

(* The first page that is not full. *)
LastPage(lists, size) ==
  Min({p \in DOMAIN lists : Len(PageOf(lists[p], p, size)) < size})

GetCompanyListAll(lists, size) ==
  FlattenSeq([k \in 1..LastPage(lists, size) + 1 |-> PageOf(lists[k - 1], k - 1, size)])

-----------------------------------------------------------------------------
(* The bootstrap.                                                            *)

Codes(companies) == {companies[i].code : i \in DOMAIN companies} \ {""}

(* The last entry of a code is the one that counts. *)
Entry(companies, code) ==
  companies[Max({i \in DOMAIN companies : companies[i].code = code})]

Tracked(row) == row.source \in {"bootstrap", "delta"}

NewRow(entry, code, source) ==
  [name |-> IF entry.name = "" THEN code ELSE entry.name,
   industry |-> IF source = "bootstrap" /\ entry.fs # "" THEN entry.fs ELSE None,
   source |-> source, delisted |-> FALSE]

Bootstrapped(row, entry, code) ==
  [row EXCEPT !.name = IF entry.name = "" THEN code ELSE entry.name,
              !.industry = IF entry.fs # "" THEN entry.fs ELSE @,
              !.delisted = @ /\ ~Tracked(row)]

(* Mutant of Absent: every row that is not in the answer is delisted. *)
AbsentAny(row) == [row EXCEPT !.delisted = TRUE]

Absent(row) == [row EXCEPT !.delisted = @ \/ Tracked(row)]

(* An exception on the way keeps the rows as they were. *)
UpsertCompanies(rows, companies) ==
  [c \in DOMAIN rows \cup Codes(companies) |->
     IF c \notin DOMAIN rows THEN NewRow(Entry(companies, c), c, "bootstrap")
     ELSE IF c \in Codes(companies) THEN Bootstrapped(rows[c], Entry(companies, c), c)
     ELSE Absent(rows[c])]

-----------------------------------------------------------------------------
(* The user's synchronisation: companies first, then the industry of those  *)
(* codes that the classification names; a batch of it may fail.  It marks   *)
(* nothing delisted and nothing listed again.                               *)

(* A code that is new has the name of its first entry, one that has a row   *)
(* the name of its last entry with a name.                                  *)
Indices(companies, code) == {i \in DOMAIN companies : companies[i].code = code}
Named(companies, code)   == {i \in Indices(companies, code) : companies[i].name # ""}

SyncPhase1(rows, companies) ==
  [c \in DOMAIN rows \cup Codes(companies) |->
     IF c \notin DOMAIN rows THEN NewRow(companies[Min(Indices(companies, c))], c, None)
     ELSE IF Named(companies, c) # {}
     THEN [rows[c] EXCEPT !.name = companies[Max(Named(companies, c))].name]
     ELSE rows[c]]

SyncIndustries(rows, names) ==
  [c \in DOMAIN rows |-> IF c \in DOMAIN names THEN [rows[c] EXCEPT !.industry = names[c]] ELSE rows[c]]

SyncStocksFromLixinger(rows, companies, names) == SyncIndustries(SyncPhase1(rows, companies), names)

-----------------------------------------------------------------------------
(* Distributions: the years are asked for in segments, and a record holds   *)
(* up to three distributions of a day.  Days are whole numbers.             *)

(* Mutant of Segments: a segment starts on the last day of the one before.  *)
SegmentsTouching(start, end, span) ==
  {[from |-> c, to |-> Min({c + span, end})] : c \in {d \in start..end - 1 : (d - start) % span = 0}}

Segments(start, end, span) ==
  {[from |-> c, to |-> Min({c + span, end})] : c \in {d \in start..end - 1 : (d - start) % (span + 1) = 0}}

ActionTypes == {"cash_dividend", "stock_dividend", "capitalization"}

(* A record is [date, amounts]: a date that cannot be read is None, and an  *)
(* amount of a type that is missing is 0.                                   *)
ParseDividendRecord(record) ==
  IF record.date = None THEN {}
  ELSE {[date |-> record.date, type |-> t] : t \in {u \in ActionTypes : record.amounts[u] > 0}}

(* The distributions of the records that have no row.  One that two records *)
(* hold breaks the table's unique key when the session is flushed: then the *)
(* transaction is lost, for no one rolls it back, and nothing is stored.    *)
NewActions(stored, records) == (UNION {ParseDividendRecord(records[i]) : i \in DOMAIN records}) \ stored

BreaksKey(stored, records) ==
  \E i, j \in DOMAIN records :
    i # j /\ (ParseDividendRecord(records[i]) \cap ParseDividendRecord(records[j])) \ stored # {}

(* The batch: stored and answers are functions of the stocks; an answer is  *)
(* None when the fetch fails.                                               *)
SyncDividendsBatch(stored, answers) ==
  IF \E s \in DOMAIN answers : answers[s] # None /\ BreaksKey(stored[s], answers[s]) THEN stored
  ELSE [s \in DOMAIN stored |-> IF answers[s] = None THEN stored[s]
                                ELSE stored[s] \cup NewActions(stored[s], answers[s])]

-----------------------------------------------------------------------------
(* Properties, each of one input.                                            *)

Steady(list, size) == [p \in 0..(Len(list) \div size) |-> list]

(* get_company_list_all and _upsert_companies: of a list that stays as it   *)
(* is, every company is fetched once, a full last page included; so a row   *)
(* that the bootstrap keeps is marked delisted exactly when its company is  *)
(* not in the list, other rows keep their mark, and a second bootstrap      *)
(* changes nothing.                                                         *)
BootstrapMirrorsList(rows, list, size) ==
  LET fetched == GetCompanyListAll(Steady(list, size), size)
      after   == UpsertCompanies(rows, fetched)
  IN  /\ fetched = list
      /\ Codes(list) \subseteq DOMAIN after
      /\ \A c \in DOMAIN after :
           after[c].delisted = IF Tracked(after[c]) THEN c \notin Codes(list)
                               ELSE c \in DOMAIN rows /\ rows[c].delisted
      /\ UpsertCompanies(after, fetched) = after

(* What a user's synchronisation finds out does not outlast the next        *)
(* bootstrap: it moves no mark, and of a company with a type of statements  *)
(* the bootstrap writes the name and the industry again.                    *)
BootstrapWins(rows, list, names) ==
  LET synced == SyncStocksFromLixinger(rows, list, names) IN
  /\ \A c \in DOMAIN rows : synced[c].delisted = rows[c].delisted /\ synced[c].source = rows[c].source
  /\ \A c \in DOMAIN rows \cap Codes(list) :
       Entry(list, c).fs # "" => UpsertCompanies(synced, list)[c] = UpsertCompanies(rows, list)[c]

(* A company that is in the list all the time is not marked delisted.       *)
ListedStaysListed(rows, lists, size) ==
  LET after == UpsertCompanies(rows, GetCompanyListAll(lists, size))
  IN  \A c \in DOMAIN rows :
        (~rows[c].delisted /\ \A p \in DOMAIN lists : c \in Codes(lists[p])) => ~after[c].delisted

(* get_dividend_full: no segment is longer than the source allows, no day   *)
(* is asked for twice, and all days but perhaps the last are asked for.     *)
SegmentsCover(start, end, span) ==
  LET segs == Segments(start, end, span)
      Days(g) == g.from..g.to
  IN  /\ \A g \in segs : g.to - g.from <= span /\ g.to <= end
      /\ \A g, h \in segs : g # h => Days(g) \cap Days(h) = {}
      /\ start < end => start..end - 1 \subseteq UNION {Days(g) : g \in segs}

(* sync_dividends_batch: nothing that is stored is lost; what is stored     *)
(* comes from a record of its day and type; when no record repeats another, *)
(* every distribution of every answer is stored, and a stock whose fetch    *)
(* fails takes nothing from the others.                                     *)
DividendsMirrored(stored, answers) ==
  LET after == SyncDividendsBatch(stored, answers)
      Held(s) == IF answers[s] = None THEN {}
                 ELSE UNION {ParseDividendRecord(answers[s][i]) : i \in DOMAIN answers[s]}
  IN  /\ \A s \in DOMAIN stored : stored[s] \subseteq after[s] /\ after[s] \subseteq stored[s] \cup Held(s)
      /\ (\A s \in DOMAIN answers : answers[s] # None => ~BreaksKey(stored[s], answers[s]))
           => \A s \in DOMAIN stored : Held(s) \subseteq after[s]
=============================================================================
