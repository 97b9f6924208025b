------------------------------ MODULE MCDrafts ------------------------------
(* Small instances of Drafts for TLC.                                       *)
EXTENDS Drafts

CONSTANTS s1, c1, c2

FlatFee == [side \in {"BUY", "SELL"} |-> 1]

\* One share is bought or sold; there is cash for two, but not for a dear one.
Share(side, price) == [stock |-> s1, side |-> side, qty |-> 1, price |-> price]
OneShare == {Share("BUY", 2), Share("BUY", 6), Share("SELL", 3)}

NoActions == [a \in {} |-> {}]

Sessions == Permutations(Client)
=============================================================================
