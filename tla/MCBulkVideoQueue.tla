-------------------------- MODULE MCBulkVideoQueue --------------------------
(* Instances of BulkVideoQueue for TLC.                                    *)
EXTENDS BulkVideoQueue, TLC

Symmetry == Permutations(Accounts) \cup Permutations(Videos)
=============================================================================
