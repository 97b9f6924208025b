------------------------------ MODULE MCAlerts ------------------------------
(* Instances of Alerts: a rule of each type on one stock. *)
EXTENDS Alerts, TLC

TwoRules == {1, 2}
TwoTypes == [r \in TwoRules |->
  IF r = 1 THEN "financial_report_released" ELSE "dividend_ex_date_near"]

ClientSymmetry == Permutations(Clients)
=============================================================================
