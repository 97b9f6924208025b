----------------------------- MODULE MCDataSync -----------------------------
(* Small instances of DataSync for TLC.                                     *)
EXTENDS DataSync, TLC

CONSTANTS s1, s2, s3, daily_kline_sync, monthly_dividend_sync,
          quarterly_financials_refresh, daily_snapshot

Fetches ==
    daily_kline_sync :> "tail" @@ monthly_dividend_sync :> "dividends"
    @@ quarterly_financials_refresh :> "financials" @@ daily_snapshot :> "valuations"

TaskFetches == [w \in Task |-> Fetches[w]]
=============================================================================
