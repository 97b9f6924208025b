------------------------------- MODULE Ledger -------------------------------
(***************************************************************************)
(* The trade ledger, the cash balance and the corporate actions            *)
(* (backend/app/services/trade_service.py, position_service.py,            *)
(* corp_action_processor_service.py, routers/trades.py, cash.py and        *)
(* corp_actions.py).                                                       *)
(*                                                                         *)
(* A client is a request or a scheduled task with a database session of    *)
(* its own.  PostgreSQL runs the transactions at READ COMMITTED, the ORM   *)
(* takes no row locks on reads and writes the cash balance as a number it  *)
(* computed from the one it had read.  So a transaction here reads, reads  *)
(* again and commits in separate steps, with what it has read in tx.  What *)
(* only it can see until it commits is in tx as well.                      *)
(***************************************************************************)
EXTENDS Integers, Sequences, FiniteSets, SequencesExt

CONSTANTS
    Client,        \* the sessions that may be open at the same time
    Stock,
    Order,         \* what users enter: [stock, side, qty, price], the price in the band
    Fee,           \* [{"BUY", "SELL"} -> Nat]: the fees of a trade
    Amount,        \* the deposits and withdrawals users enter
    Action,        \* the rows of corp_actions
    ActionInfo,    \* [Action -> their columns], see Columns
    Opening,       \* the first deposit, made before a behaviour starts
    LastDay,       \* bound: the days a behaviour lasts
    Backdating,    \* bound: whether users enter fills of other days than today
    MaxTrades,     \* bound: the rows of trades that users cause
    MaxDeposits    \* bound: the rows of cash_adjustments after the first

Day == 1..LastDay
Side == {"BUY", "SELL", "DIVIDEND", "CORP_ACTION"}

\* rate is per_share, or per_10_shares, or the ratio of a merger; into is the
\* code a merger converts to; "broken" stands for parameters that cannot be
\* parsed, "notice" for delist-like actions that create no trade.
Columns == [stock : Stock, ex : Day, rate : Nat, into : Stock \cup {"unknown"},
            kind : {"dividend", "split", "merger", "delist", "broken"}]

ASSUME LedgerConstants ==
    /\ Order \subseteq [stock : Stock, side : Side, qty : Nat \ {0}, price : Nat \ {0}]
    /\ Fee \in [{"BUY", "SELL"} -> Nat]
    /\ Amount \subseteq Int /\ Opening \in Int
    /\ Action \subseteq Nat \ {0}
    /\ ActionInfo \in [Action -> Columns]
    /\ Backdating \in BOOLEAN
    /\ LastDay \in Nat \ {0} /\ MaxTrades \in Nat /\ MaxDeposits \in Nat

VARIABLES
    trades,        \* the table trades in the order of the ids
    cash,          \* cash_balance.balance
    deposits,      \* the amounts of cash_adjustments, in order
    processed,     \* the actions with processed_at set
    delisted,      \* the stocks with listing_status delisting_transitional_period
    today,
    tx,            \* [Client -> Tx]: the open transactions
    overlapped     \* history: a transaction committed after another one had
                   \* committed since it began

ledgerVars == <<trades, cash, deposits, processed, delisted, today, tx, overlapped>>

\* day is that of filled_at, entered that of created_at; ref is source_ref, an id:
\* of the trade a reversal reverses, of the action of a corp_action trade, of the
\* draft a user's trade fills (0 for NULL); undone is reversed_by_trade_id (0 for
\* NULL).
TradeRow(o, q, v, d, src, ref) ==
    [stock |-> o.stock, side |-> o.side, qty |-> q, value |-> v,
     day |-> d, entered |-> today, source |-> src, ref |-> ref, undone |-> 0]

Row == [stock : Stock, side : Side, qty : Int, value : Int, day : Day, entered : Day,
        source : {"manual", "corp_action", "reversal"}, ref : Nat, undone : Nat]

Idle == [op |-> "idle"]

\* A transaction, of kind op ("other" for one that writes none of these tables):
\* the rows it will insert, the balance it has read (if it has),
\* the trade it reverses, the amount it deposits; for corporate actions those
\* to do, the one whose writes are not flushed, those that are, and whether it
\* has a lock on the row of the balance; and whether no one has committed since
\* it began.
Begin(op) == [op |-> op, new |-> <<>>, read |-> FALSE, saw |-> 0, undo |-> 0,
              amount |-> 0, todo |-> {}, cur |-> {}, done |-> {}, locks |-> FALSE,
              fresh |-> TRUE]
-----------------------------------------------------------------------------
(* Positions, derived from the ledger.                                      *)

Flat == [qty |-> 0, cost |-> 0, gain |-> 0]

\* The share of the book cost that goes with the shares sold: average * sold,
\* where the average is 0 if no share is held.
CostOf(p, sold) == CASE p.qty = 0 -> 0
                     [] p.qty > 0 -> (p.cost * sold) \div p.qty
                     [] p.qty < 0 -> ((-p.cost) * sold) \div (-p.qty)

FoldTrade(p, t) ==
    CASE t.side = "BUY" -> [p EXCEPT !.qty = @ + t.qty, !.cost = @ + t.value]
      [] t.side = "SELL" ->
           LET gone == CostOf(p, -t.qty)
           IN  [qty |-> p.qty + t.qty, cost |-> p.cost - gone,
                gain |-> p.gain + t.value - gone]
      [] t.side = "CORP_ACTION" -> [p EXCEPT !.qty = @ + t.qty]
      [] t.side = "DIVIDEND" -> p

\* _fold_trades of the rows of stock s that are filled on day d.
Replay(rows, s, d, p) ==
    LET upto[i \in 0..Len(rows)] ==
            IF i = 0 THEN p
            ELSE IF rows[i].stock = s /\ rows[i].day = d THEN FoldTrade(upto[i - 1], rows[i])
            ELSE upto[i - 1]
    IN  upto[Len(rows)]

\* _fold_trades of the rows of stock s, ORDER BY filled_at, id.
Position(rows, s) ==
    LET upto[d \in 0..LastDay] == IF d = 0 THEN Flat ELSE Replay(rows, s, d, upto[d - 1])
    IN  upto[LastDay]

Held(rows, s) == Position(rows, s).qty

Total(numbers) ==
    LET upto[n \in 0..Len(numbers)] == IF n = 0 THEN 0 ELSE upto[n - 1] + numbers[n]
    IN  upto[Len(numbers)]

SumOver(rows, F(_)) == Total([i \in DOMAIN rows |-> F(rows[i])])

BoughtOn(rows, s, d) ==
    SumOver(rows, LAMBDA t : IF t.stock = s /\ t.side = "BUY" /\ t.day = d THEN t.qty ELSE 0)

\* Mutants: the shares bought today are not frozen; the shares sold are forgotten.
AvailableNotFrozen(rows, s, d) ==
    LET n == Held(rows, s) IN IF n > 0 THEN n ELSE 0

AvailableGross(rows, s, d) ==
    SumOver(rows, LAMBDA t : IF t.stock = s /\ t.qty > 0 THEN t.qty ELSE 0) - BoughtOn(rows, s, d)

\* available_quantity: T+1.
Available(rows, s, d) ==
    LET n == Held(rows, s) - BoughtOn(rows, s, d) IN IF n > 0 THEN n ELSE 0
-----------------------------------------------------------------------------
(* What a row does to the balance, as record_trade and reverse_trade do it. *)

\* total_value of an order.
Value(o) ==
    CASE o.side = "BUY" -> o.price * o.qty + Fee["BUY"]
      [] o.side = "SELL" -> o.price * o.qty - Fee["SELL"]
      [] o.side = "DIVIDEND" -> -(o.price * o.qty)
      [] o.side = "CORP_ACTION" -> 0

SignedQty(o) == CASE o.side = "SELL" -> -o.qty [] o.side = "DIVIDEND" -> 0 [] OTHER -> o.qty

\* A BUY takes its value, a SELL brings it, a DIVIDEND brings minus its value.
Inflow(t) == CASE t.side = "SELL" -> t.value
               [] t.side = "CORP_ACTION" -> 0
               [] OTHER -> -t.value

Opposite(side) == CASE side = "BUY" -> "SELL" [] side = "SELL" -> "BUY" [] OTHER -> side

\* The row that reverses trade i.  Side, quantity and value are all turned.
Reversal(i) ==
    LET t == trades[i] IN
    TradeRow([stock |-> t.stock, side |-> Opposite(t.side)], -t.qty, -t.value,
             today, "reversal", i)

\* Mutant: the row of a reversal taken for what it says.
EffectOfRows(x) == x.amount + SumOver(x.new, Inflow)

\* What the transaction x does to the balance: a reversal what its trade did,
\* with the sign turned, the other rows what they say.
Effect(x) ==
    x.amount + (IF x.undo > 0 THEN -Inflow(trades[x.undo])
                ELSE SumOver(x.new, Inflow))
-----------------------------------------------------------------------------
LedgerInit ==
    /\ trades = <<>>
    /\ cash = Opening /\ deposits = <<Opening>>
    /\ processed = {} /\ delisted = {}
    /\ today = 1
    /\ tx = [c \in Client |-> Idle]
    /\ overlapped = FALSE

Open(c, x) == /\ tx[c] = Idle
              /\ tx' = [tx EXCEPT ![c] = x]
              /\ UNCHANGED <<trades, cash, deposits, processed, delisted, today, overlapped>>

Step(c, x) == /\ tx' = [tx EXCEPT ![c] = x]
              /\ UNCHANGED <<trades, cash, deposits, processed, delisted, today, overlapped>>

\* The bound on the trades users cause.
Room == Len(trades) + Cardinality({c \in Client : tx[c] # Idle}) < MaxTrades

\* record_trade up to its T+1 check, for an order filled on day d.  The quantity
\* is read here, the balance later.
Admissible(o, d) ==
    /\ d = today \/ Backdating
    /\ o.side \in {"BUY", "SELL"} => o.stock \notin delisted
    /\ o.side = "SELL" => o.qty <= Available(trades, o.stock, d)

TradeTx(o, d, ref) == [Begin("trade") EXCEPT
    !.new = <<TradeRow(o, SignedQty(o), Value(o), d, "manual", ref)>>]

\* POST /trades.
BeginTrade(c, o, d) == Room /\ Admissible(o, d) /\ Open(c, TradeTx(o, d, 0))

\* Mutant: a trade that is reversed already can be reversed again.
BeginReverseAgain(c, i) ==
    /\ Room
    /\ i \in DOMAIN trades
    /\ trades[i].source # "reversal"
    /\ Open(c, [Begin("reverse") EXCEPT !.new = <<Reversal(i)>>, !.undo = i])

\* POST /trades/{id}/reverse up to its checks.
BeginReverse(c, i) ==
    /\ Room
    /\ i \in DOMAIN trades
    /\ trades[i].undone = 0 /\ trades[i].source # "reversal"
    /\ Open(c, [Begin("reverse") EXCEPT !.new = <<Reversal(i)>>, !.undo = i])

\* POST /cash/adjustments.
BeginAdjust(c, n) ==
    /\ Len(deposits) <= MaxDeposits
    /\ Open(c, [Begin("adjust") EXCEPT !.amount = n])

\* Mutant: the check of a BUY leaves the fees out.
ReadCashNoFee(c) ==
    LET x == tx[c] IN
    /\ x.op \in {"trade", "reverse", "adjust"} /\ ~x.read
    /\ x.op = "trade" /\ x.new[1].side = "BUY" => cash >= x.new[1].value - Fee["BUY"]
    /\ Step(c, [x EXCEPT !.read = TRUE, !.saw = cash])

\* The balance is read: record_trade rejects a BUY that it does not cover.
ReadCash(c) ==
    LET x == tx[c] IN
    /\ x.op \in {"trade", "reverse", "adjust"} /\ ~x.read
    /\ \/ /\ x.op = "trade" /\ x.new[1].side = "BUY" => cash >= x.new[1].value
          /\ Step(c, [x EXCEPT !.read = TRUE, !.saw = cash])
       \/ /\ x.op = "trade" /\ x.new[1].side = "BUY" /\ cash < x.new[1].value
          /\ Step(c, Idle)

\* The request fails or its process dies: the session rolls back.
Rollback(c) == tx[c] # Idle /\ Step(c, Idle)
-----------------------------------------------------------------------------
(* Corporate actions.                                                       *)

\* The daily task takes the pending actions whose day has come, the API all of
\* them, or one.
BeginCorp(c, Todo) ==
    /\ Todo # {}
    /\ Open(c, [Begin("corp") EXCEPT !.todo = Todo])

Pending == Action \ processed
Due == {a \in Pending : ActionInfo[a].ex <= today}

\* Mutant: the shares a merger brings are left out.
RowsForOneSided(a, held) ==
    LET info == ActionInfo[a] IN
    IF held <= 0 THEN <<>>
    ELSE <<TradeRow([stock |-> info.stock, side |-> "SELL"], -held, 0, today, "corp_action", a)>>

\* The rows an action creates for held shares, none if there are none.
RowsFor(a, held) ==
    LET info == ActionInfo[a]
        CorpRow(s, side, q, v) ==
            TradeRow([stock |-> s, side |-> side], q, v, today, "corp_action", a)
        more == (held * info.rate) \div 10
    IN  IF held <= 0 \/ info.rate = 0 THEN <<>>
        ELSE CASE info.kind = "dividend" ->
                    <<CorpRow(info.stock, "DIVIDEND", 0, -(info.rate * held))>>
               [] info.kind = "split" /\ more > 0 ->
                    <<CorpRow(info.stock, "CORP_ACTION", more, 0)>>
               [] info.kind = "merger" ->
                    <<CorpRow(info.stock, "SELL", -held, 0),
                      CorpRow(info.into, "BUY", held * info.rate, 0)>>
               [] OTHER -> <<>>

\* process_one up to its flush, for an action that comes first in the order of
\* the ex dates; actions of one day come in any order.  The position is the one
\* of the committed rows and of this batch's own.
Apply(c, a) ==
    LET x == tx[c]
        rows == RowsFor(a, Held(trades \o x.new, ActionInfo[a].stock))
        reads == rows # <<>> /\ ActionInfo[a].kind \in {"dividend", "split"}
    IN  /\ x.op = "corp" /\ x.cur = {} /\ a \in x.todo
        /\ \A b \in x.todo : ActionInfo[a].ex <= ActionInfo[b].ex
        /\ ActionInfo[a].kind = "broken" => Held(trades \o x.new, ActionInfo[a].stock) <= 0
        /\ \/ /\ \A i \in DOMAIN rows : rows[i].stock \in Stock
              /\ Step(c, [x EXCEPT !.new = @ \o rows, !.cur = {a}, !.todo = @ \ {a},
                                   !.read = @ \/ reads,
                                   !.saw = IF reads /\ ~x.read THEN cash ELSE @])
           \/ /\ \E i \in DOMAIN rows : rows[i].stock \notin Stock
              /\ Step(c, Idle)          \* the foreign key fails: all rolls back

\* The parameters of the action, read when shares are held, cannot be parsed: the
\* batch ends here, and what it has done so far is kept.
Break(c, a) ==
    LET x == tx[c] IN
    /\ x.op = "corp" /\ x.cur = {} /\ a \in x.todo
    /\ \A b \in x.todo : ActionInfo[a].ex <= ActionInfo[b].ex
    /\ ActionInfo[a].kind = "broken" /\ Held(trades \o x.new, ActionInfo[a].stock) > 0
    /\ Step(c, [x EXCEPT !.todo = {}])

NoLockOnCash(c) == \A d \in Client \ {c} : tx[d] # Idle => ~tx[d].locks

\* Mutants: processed_at is not set; the balance counts as read when it was not.
FlushUnmarked(c) ==
    LET x == tx[c] IN
    /\ x.op = "corp" /\ x.cur # {}
    /\ Step(c, [x EXCEPT !.cur = {}, !.locks = x.read])

FlushLocks(c) ==
    LET x == tx[c] IN
    /\ x.op = "corp" /\ x.cur # {}
    /\ Step(c, [x EXCEPT !.cur = {}, !.done = @ \cup x.cur, !.locks = TRUE])

\* Its flush locks the row of the action and, once the balance was read, the
\* row of the balance; it waits for a batch that has them locked.
Flush(c) ==
    LET x == tx[c] IN
    /\ x.op = "corp" /\ x.cur # {}
    /\ x.read => NoLockOnCash(c)
    /\ \A d \in Client \ {c} : tx[d] # Idle => tx[d].done \cap x.cur = {}
    /\ Step(c, [x EXCEPT !.cur = {}, !.done = @ \cup x.cur, !.locks = x.read])
-----------------------------------------------------------------------------
\* The rows appear, the balance gets the value computed from the one read.  A
\* balance that does not change is not written.
Commit(c) ==
    LET x == tx[c] IN
    /\ x # Idle
    /\ x.op = "corp" => x.todo = {} /\ x.cur = {}
    /\ x.op \in {"trade", "reverse", "adjust"} => x.read /\ NoLockOnCash(c)
    /\ trades' = (IF x.undo = 0 THEN trades
                  ELSE [trades EXCEPT ![x.undo].undone = Len(trades) + 1]) \o x.new
    /\ cash' = IF Effect(x) = 0 THEN cash ELSE x.saw + Effect(x)
    /\ deposits' = IF x.op = "adjust" THEN Append(deposits, x.amount) ELSE deposits
    /\ processed' = processed \cup x.done
    /\ delisted' = delisted \cup {ActionInfo[a].stock :
                        a \in {b \in x.done : ActionInfo[b].kind = "delist"}}
    /\ tx' = [d \in Client |->
                CASE d = c -> Idle
                  [] d # c /\ tx[d] = Idle -> Idle
                  [] OTHER -> [tx[d] EXCEPT !.fresh = FALSE]]
    /\ overlapped' = (overlapped \/ ~x.fresh)
    /\ UNCHANGED today

NextDay == /\ today < LastDay
           /\ today' = today + 1
           /\ UNCHANGED <<trades, cash, deposits, processed, delisted, tx, overlapped>>

Serve(c) ==
    \/ \E o \in Order, d \in Day : BeginTrade(c, o, d)
    \/ \E i \in 1..MaxTrades : BeginReverse(c, i)
    \/ \E n \in Amount : BeginAdjust(c, n)
    \/ BeginCorp(c, Due) \/ BeginCorp(c, Pending)
    \/ \E a \in Pending : BeginCorp(c, {a})
    \/ \E a \in Action : Apply(c, a) \/ Break(c, a)
    \/ Flush(c) \/ ReadCash(c) \/ Commit(c) \/ Rollback(c)

LedgerNext == NextDay \/ \E c \in Client : Serve(c)

LedgerSpec == LedgerInit /\ [][LedgerNext]_ledgerVars
-----------------------------------------------------------------------------
(* Safety.                                                                  *)

Tx == [op : {"trade", "reverse", "adjust", "corp", "other"}, new : Seq(Row),
       read : BOOLEAN, saw : Int, undo : 0..MaxTrades, amount : Int,
       todo : SUBSET Action, cur : SUBSET Action, done : SUBSET Action,
       locks : BOOLEAN, fresh : BOOLEAN]

\* Types, and the shape of a transaction: what a batch still has to do, has not
\* flushed and has flushed are different actions, and it locks the balance only
\* after it has read it.
LedgerTypeOK ==
    /\ trades \in Seq(Row)
    /\ cash \in Int /\ deposits \in Seq(Int)
    /\ processed \subseteq Action /\ delisted \subseteq Stock
    /\ today \in Day /\ overlapped \in BOOLEAN
    /\ \A c \in Client : tx[c] # Idle =>
           /\ tx[c] \in Tx
           /\ tx[c].locks => tx[c].read
           /\ tx[c].todo \cap (tx[c].cur \cup tx[c].done) = {}
           /\ tx[c].cur \cap tx[c].done = {}

\* Unless transactions have overlapped, the balance is what the deposits and the
\* trades in force make it: a reversed trade and its reversal leave no trace,
\* a batch of corporate actions that breaks off or rolls back half-way neither.
InForce(t) == t.undone = 0 /\ t.source # "reversal"

CashMatchesLedger ==
    ~overlapped =>
        cash = Total(deposits)
               + SumOver(trades, LAMBDA t : IF InForce(t) THEN Inflow(t) ELSE 0)

SoldOn(s, d) == SumOver(trades, LAMBDA t :
    IF t.stock = s /\ t.day = d /\ t.source = "manual" /\ t.side = "SELL" THEN -t.qty ELSE 0)
HeldBefore(s, d) == SumOver(trades, LAMBDA t :
    IF t.stock = s /\ t.day < d THEN t.qty ELSE 0)
GrantedOn(s, d) == SumOver(trades, LAMBDA t :
    IF t.stock = s /\ t.day = d /\ t.source # "reversal" /\ t.side = "CORP_ACTION"
    THEN t.qty ELSE 0)

SellsOnlySettled(s, d) ==
    SoldOn(s, d) > 0 => SoldOn(s, d) <= HeldBefore(s, d) + GrantedOn(s, d)

\* The rows of stock s are all filled on the day they were entered.
Timely(s) ==
    \A i \in DOMAIN trades : trades[i].stock = s => trades[i].day = trades[i].entered

\* Unless transactions have overlapped, shares are never sold the day they were
\* bought: on each day users sell at most what was held before that day and what
\* corporate actions brought on it, of every stock that has no row filled on
\* another day than it was entered (filled_at is a field of the request).
TPlusOne ==
    ~overlapped => \A s \in Stock : Timely(s) => \A d \in Day : SellsOnlySettled(s, d)

\* The rows of a corporate action are committed with its processed_at, all of
\* them or none, also when a later action of its batch fails.
RowsOf(a, sides) ==
    {i \in DOMAIN trades : /\ trades[i].source = "corp_action" /\ trades[i].ref = a
                           /\ trades[i].side \in sides}

AppliedWhole ==
    \A a \in Action :
        /\ RowsOf(a, Side) # {} => a \in processed
        /\ Cardinality(RowsOf(a, {"SELL"})) = Cardinality(RowsOf(a, {"BUY"}))

\* Unless transactions have overlapped, an action is applied at most once,
\* through the daily task, the API's batch and its single call.
AppliedOnce ==
    ~overlapped => \A a \in Action : Cardinality(RowsOf(a, Side \ {"BUY"})) <= 1

\* A reversal and its trade point at each other.  If two sessions reverse the
\* same trade at once, the trade points at the later of its reversals.
ReversalsOf(i) ==
    {j \in DOMAIN trades : trades[j].source = "reversal" /\ trades[j].ref = i}

ReversedOnce ==
    \A i \in DOMAIN trades :
        /\ trades[i].undone # 0 => trades[i].undone \in ReversalsOf(i)
        /\ \A j \in ReversalsOf(i) : j <= trades[i].undone
        /\ ~overlapped => Cardinality(ReversalsOf(i)) <= 1
-----------------------------------------------------------------------------
(* Action properties.                                                       *)

\* Unless transactions have overlapped, only a reversal takes a position below
\* zero (when shares were sold after the reversed trade had brought them).
NeverOversold ==
    [][\A s \in Stock :
          (~overlapped' /\ Held(trades, s) >= 0 /\ Held(trades', s) < 0)
              => trades'[Len(trades')].source = "reversal"]_ledgerVars

\* No BUY leaves the balance below zero, even if the balance it was checked
\* against is out of date: what it writes is what it read less its value.
BuyCovered ==
    [][\A c \in Client :
          (/\ tx[c] # Idle /\ tx'[c] = Idle /\ trades' # trades
           /\ tx[c].op = "trade" /\ tx[c].new[1].side = "BUY")
              => cash' >= 0]_ledgerVars

\* Neither shares nor cash are spent that are not there.
SpentIsCovered == NeverOversold /\ BuyCovered
-----------------------------------------------------------------------------
(* What a comment says and the code does not do.                            *)

\* record_trade: "T+1 check (SELL only) -- NEVER bypassed".  So for every stock,
\* whatever the days its rows are filled on.
TPlusOneAnyDay == ~overlapped => \A s \in Stock, d \in Day : SellsOnlySettled(s, d)

\* reverse_trade: "it merely undoes a prior effect".  When all trades of a stock
\* are reversed, its position is as if there had been none.
ReversalUndoes ==
    \A s \in Stock :
        (\A i \in DOMAIN trades : trades[i].stock = s => ~InForce(trades[i]))
            => Position(trades, s) = Flat
=============================================================================
