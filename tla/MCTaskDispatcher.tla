-------------------------- MODULE MCTaskDispatcher --------------------------
(***************************************************************************)
(* Small instances of TaskDispatcher.  Tasks are numbered.                 *)
(***************************************************************************)
EXTENDS TaskDispatcher

ThreeAccounts == {"a", "b", "c"}
TwoRoutes     == {"r1", "r2"}
SharedRoute   == [x \in ThreeAccounts |-> IF x = "c" THEN "r2" ELSE "r1"]

\* Two accounts behind one route, or each behind its own.
TwoAccounts == {"a", "b"}
OneRoute    == {"r1"}
TheRoute    == [x \in TwoAccounts |-> "r1"]
OwnRoutes   == [x \in TwoAccounts |-> IF x = "a" THEN "r1" ELSE "r2"]

\* One account submitted twice and one more.
ThreeTasks  == 1..3
TwiceAndOne == <<"a", "a", "b">>
TwoTasks    == 1..2
SameRoute   == <<"a", "b">>
SameAccountThrice == <<"a", "a", "a">>
=============================================================================
