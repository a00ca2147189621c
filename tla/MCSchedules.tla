---------------------------- MODULE MCSchedules ----------------------------
(* A scheduled upload and a campaign over the same accounts, for TLC.      *)
EXTENDS Schedules

TwoLists == {<<"a1", "a2">>}
=============================================================================
