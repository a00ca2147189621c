--------------------------- MODULE MCControlPlane ---------------------------
(***************************************************************************)
(* A small instance of ControlPlane: two devices, an activation of each    *)
(* for one licence, a renewal and a release check.                         *)
(***************************************************************************)
EXTENDS ControlPlane, TLC

Asked(op, d, l, t) == [op |-> op, device |-> d, licence |-> l, issued |-> t]
SomeRequests ==
    { Asked("activate", "d1", "l1", 0), Asked("activate", "d2", "l1", 1),
      Asked("renew", "d1", "l1", 1),
      Asked("release", "d1", "l1", 1) }
OneVersion  == [a \in {"v1"} |-> 1]
Alike == Permutations(Calls) \cup Permutations(Fetches)
=============================================================================
