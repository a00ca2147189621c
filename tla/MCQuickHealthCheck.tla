------------------------- MODULE MCQuickHealthCheck -------------------------
(* Two accounts behind one proxy, for TLC.                                 *)
EXTENDS QuickHealthCheck

Everything == {Accounts}
OneProxy == [a \in Accounts |-> "p"]
=============================================================================
