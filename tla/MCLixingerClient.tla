-------------------------- MODULE MCLixingerClient --------------------------
(* Small instances of LixingerClient for TLC.                               *)
EXTENDS LixingerClient, TLC

CONSTANTS c1, c2, dividend, kline

Times == dividend :> 1 @@ kline :> 1
KeyTtl == [k \in Key |-> Times[k]]
=============================================================================
