--------------------------- MODULE MCAnalyticsSync ---------------------------
(* Two accounts that share a browser but no route, for TLC.                *)
EXTENDS AnalyticsSync

OneBrowser == [a \in Accounts |-> "c"]
TwoRoutes == [a \in Accounts |-> IF a = "a1" THEN <<"p">> ELSE <<"q">>]
=============================================================================
