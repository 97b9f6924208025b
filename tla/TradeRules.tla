----------------------------- MODULE TradeRules ------------------------------
(***************************************************************************)
(* The rules that a trade and a stored quote have to pass: fees            *)
(* (fee_calculator_service.py, the totals of trade_service.create_trade),  *)
(* the price band (price_validator_service.py) and the sanity of a         *)
(* valuation (data_sanity_service.py, pipelines/valuation_pipeline.py).    *)
(*                                                                         *)
(* Prices are whole cents, rates are in hundred-thousandths, and money is  *)
(* in hundred-thousandths of a cent, so that no division is needed.        *)
(***************************************************************************)
EXTENDS Values

\* A trade that may go on is told from the errors of those that may not.
ASSUME NoneIsNoError == None \notin {"suspended", "no_prev_close", "out_of_band"}

UNIT == 100000

-----------------------------------------------------------------------------
(* Fees under a configuration [commission, minimum, stamp, transfer], the   *)
(* minimum in cents.                                                        *)

ComputeFees(side, price, quantity, cfg) ==
  LET notional == price * quantity
      free     == side \in {"DIVIDEND", "CORP_ACTION"}
  IN  [notional   |-> notional * UNIT,
       commission |-> IF free THEN 0
                      ELSE Max({notional * cfg.commission, cfg.minimum * UNIT}),
       stamp      |-> IF side = "SELL" THEN notional * cfg.stamp ELSE 0,
       transfer   |-> IF free THEN 0 ELSE notional * cfg.transfer]

(* total_value: what a buy costs, what a sale brings, and a dividend with a *)
(* minus sign.  A commission that is given replaces the computed one.       *)
TradeTotal(side, price, quantity, cfg, override) ==
  LET fees       == ComputeFees(side, price, quantity, cfg)
      commission == IF override # None THEN override * UNIT ELSE fees.commission
      costs      == commission + fees.stamp + fees.transfer
  IN  CASE side = "BUY"         -> fees.notional + costs
        [] side = "SELL"        -> fees.notional - costs
        [] side = "DIVIDEND"    -> -fees.notional
        [] side = "CORP_ACTION" -> 0

-----------------------------------------------------------------------------
(* The price band: a stock is [board, status, prev], prev its last close in *)
(* cents or None.                                                           *)

ST_STATUSES == {"special_treatment", "delisting_risk_warning", "delisting_transitional_period"}

SUSPENDED_STATUSES == {"delisting_transitional_period", "ipo_suspension",
  "issued_but_not_listed", "issue_failure", "unauthorized"}

(* detect_board: the exchange and the code's prefix; the exchange wins for  *)
(* Beijing, and a code without a known prefix is on the main board.         *)
DetectBoard(exchange, prefix) ==
  CASE exchange = "bj" \/ prefix = "920"  -> "bjse"
    [] exchange # "bj" /\ prefix \in {"688", "689"} -> "star"
    [] exchange # "bj" /\ prefix \in {"300", "301"} -> "chinext"
    [] OTHER                              -> "main"

BOARD_LIMITS == [main |-> 10, chinext |-> 20, star |-> 20, bjse |-> 30]

PriceLimit(stock) ==
  IF stock.status \in ST_STATUSES THEN 5
  ELSE BOARD_LIMITS[DetectBoard(stock.exchange, stock.prefix)]

(* In hundredths of a cent. *)
PriceBand(stock) == [low  |-> stock.prev * (100 - PriceLimit(stock)),
                     high |-> stock.prev * (100 + PriceLimit(stock))]

(* Mutant of PRICE_TOLERANCE: none. *)
NO_TOLERANCE == 0

PRICE_TOLERANCE == 1

(* assert_tradable: None, or the error that is raised. *)
TradeError(stock, price) ==
  IF stock.status \in SUSPENDED_STATUSES THEN "suspended"
  ELSE IF stock.prev = None THEN "no_prev_close"
  ELSE IF stock.prev <= 0 THEN "no_prev_close"
  ELSE IF 100 * (price + PRICE_TOLERANCE) < PriceBand(stock).low
          \/ 100 * (price - PRICE_TOLERANCE) > PriceBand(stock).high
  THEN "out_of_band"
  ELSE None

-----------------------------------------------------------------------------
(* The sanity of a valuation: multiples are whole numbers and the yield is  *)
(* in percent.  A value that is no number is refused too and left out here. *)

SaneMultiple(v, bound) == v # 0 /\ -bound < v /\ v < bound

Violations(record) ==
  {f \in {"pe_ttm", "pb", "dyr"} :
     /\ record[f] # None
     /\ CASE f = "pe_ttm" -> ~SaneMultiple(record[f], 10000)
          [] f = "pb"     -> ~SaneMultiple(record[f], 100)
          [] f = "dyr"    -> record[f] \notin 0..29}

(* The codes of a batch that are kept; the others are dropped. *)
Valid(batch, data) == {c \in batch \cap DOMAIN data : Violations(data[c]) = {}}

Rejected(batch, data) == (batch \cap DOMAIN data) \ Valid(batch, data)

(* The operator is told when more than five in a hundred are dropped. *)
RaisesSanityAlert(batch, data) ==
  Rejected(batch, data) # {} /\ 100 * Cardinality(Rejected(batch, data)) > 5 * Cardinality(batch)

(* load_batch: the row of today of each kept code is written over. *)
LoadBatch(rows, batch, data) ==
  [c \in DOMAIN rows \cup Valid(batch, data) |-> IF c \in Valid(batch, data) THEN data[c] ELSE rows[c]]

-----------------------------------------------------------------------------
(* Properties, each of one input.                                            *)

(* create_trade: selling at the price of the buy never brings back what the *)
(* buy cost and loses exactly the fees of both; splitting an order never    *)
(* makes it cheaper, for a small order pays the least commission; and a     *)
(* dividend is paid out in full.                                            *)
FeesAreTaken(price, quantity, cfg, override) ==
  LET Total(s, q) == TradeTotal(s, price, q, cfg, override)
      bought      == ComputeFees("BUY", price, quantity, cfg)
      sold        == ComputeFees("SELL", price, quantity, cfg)
  IN  /\ Total("SELL", quantity) <= Total("BUY", quantity)
      /\ override = None =>
           Total("BUY", quantity) - Total("SELL", quantity) =
             bought.commission + bought.transfer + sold.commission + sold.stamp + sold.transfer
      /\ \A q \in 1..quantity - 1 :
           /\ Total("BUY", q) + Total("BUY", quantity - q) >= Total("BUY", quantity)
           /\ Total("SELL", q) + Total("SELL", quantity - q) <= Total("SELL", quantity)
      /\ -Total("DIVIDEND", quantity) = price * quantity * UNIT

(* assert_tradable: the limit prices that an exchange sets, which are       *)
(* rounded to cents, are accepted, and so is every price between them;      *)
(* two cents beyond them are not, nor is any price of a stock that is       *)
(* suspended or has no last close.                                          *)
LimitPricesPass(stock, price) ==
  LET open       == stock.status \notin SUSPENDED_STATUSES /\ stock.prev # None
      Rounded(n) == (n + 50) \div 100
  IN  IF ~open \/ (stock.prev # None /\ stock.prev <= 0) THEN TradeError(stock, price) # None
      ELSE LET low  == Rounded(PriceBand(stock).low)
               high == Rounded(PriceBand(stock).high)
           IN  /\ price \in low..high => TradeError(stock, price) = None
               /\ price \notin low - 2..high + 2 => TradeError(stock, price) = "out_of_band"

(* validate_batch and load_batch: a bad record never replaces the row that  *)
(* an earlier load of the day stored, every stored row that was sane before *)
(* the load is sane after it, and the operator is told when the provider    *)
(* answers for the whole batch and nothing of it is kept.                   *)
BadRecordKeepsRow(rows, batch, data) ==
  LET after == LoadBatch(rows, batch, data) IN
  /\ \A c \in DOMAIN rows : (c \in DOMAIN data => Violations(data[c]) # {}) => after[c] = rows[c]
  /\ (\A c \in DOMAIN rows : Violations(rows[c]) = {}) => \A c \in DOMAIN after : Violations(after[c]) = {}
  /\ (batch # {} /\ batch \subseteq DOMAIN data /\ Valid(batch, data) = {}) => RaisesSanityAlert(batch, data)
=============================================================================
