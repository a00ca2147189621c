---------------------------- MODULE MCLauncher ----------------------------
(* Launcher for TLC. *)
EXTENDS Launcher, TLC

\* The flows of the page are alike.
Alike == Permutations(Flows)
=============================================================================
