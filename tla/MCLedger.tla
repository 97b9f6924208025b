------------------------------ MODULE MCLedger ------------------------------
(* Small instances of Ledger for TLC.                                       *)
EXTENDS Ledger

CONSTANTS s1, s2, c1, c2

FlatFee == [side \in {"BUY", "SELL"} |-> 1]

Buy(s, n) == [stock |-> s, side |-> "BUY", qty |-> n, price |-> 2]
Sell(s, n) == [stock |-> s, side |-> "SELL", qty |-> n, price |-> 3]
Paid(s) == [stock |-> s, side |-> "DIVIDEND", qty |-> 1, price |-> 1]
Granted(s) == [stock |-> s, side |-> "CORP_ACTION", qty |-> 1, price |-> 1]

\* One stock, with a lot of two shares so that a part of it can be sold.
OneStock == {Buy(s1, 2), Sell(s1, 1), Sell(s1, 2)}
TwoStocks == {Buy(s1, 2), Sell(s1, 1), Buy(s2, 2), Sell(s2, 2)}
AllSides == {Buy(s1, 2), Sell(s1, 1), Paid(s1), Granted(s1)}

Corp(kind, s, ex, rate, into) ==
    [kind |-> kind, stock |-> s, ex |-> ex, rate |-> rate, into |-> into]

NoActions == [a \in {} |-> {}]

OneSplit == (1 :> Corp("split", s1, 1, 10, s1))

\* A dividend and a split of the same day.
DividendAndSplit ==
    (1 :> Corp("dividend", s1, 1, 1, s1)) @@ (2 :> Corp("split", s1, 1, 10, s1))

\* A dividend, then of one day a merger, one into a code that is not in the table
\* of stocks, an action whose parameters cannot be parsed and a delisting.
EveryOther ==
    (1 :> Corp("dividend", s1, 1, 1, s1)) @@ (2 :> Corp("merger", s1, 2, 1, s2))
        @@ (3 :> Corp("merger", s2, 2, 1, "unknown")) @@ (4 :> Corp("broken", s1, 2, 0, s1))
        @@ (5 :> Corp("delist", s1, 2, 0, s1))

Sessions == Permutations(Client)
=============================================================================
