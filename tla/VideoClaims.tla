----------------------------- MODULE VideoClaims -----------------------------
(***************************************************************************)
(* What BulkVideoQueueService promises the video library: while the        *)
(* backend lives, a video has at most one keeper.  A batch reserves videos *)
(* nobody keeps; when batches conclude, each of their videos is either     *)
(* spent (posted, or rejected by the site) and never offered again, or     *)
(* back in the library.  Reservations live in memory.                      *)
(***************************************************************************)
CONSTANTS Videos, Batches

VARIABLES
    kept,         \* per batch: the videos it keeps
    spent         \* the videos no batch may have again

Kept(B) == UNION {kept[b] : b \in B}

Init == /\ kept = [b \in Batches |-> {}]
        /\ spent = {}

Reserve(b, S) ==
    /\ kept[b] = {}
    /\ S \cap (Kept(Batches) \cup spent) = {}
    /\ kept' = [kept EXCEPT ![b] = S]
    /\ UNCHANGED spent

Conclude(B, S) ==
    /\ S \subseteq Kept(B)
    /\ kept' = [b \in Batches |-> IF b \in B THEN {} ELSE kept[b]]
    /\ spent' = spent \cup S

Restart == /\ kept' = [b \in Batches |-> {}]
           /\ spent' = {}

Next ==
    \/ \E b \in Batches, S \in SUBSET Videos : Reserve(b, S)
    \/ \E B \in SUBSET Batches, S \in SUBSET Videos : Conclude(B, S)
    \/ Restart

Spec == Init /\ [][Next]_<<kept, spent>>
=============================================================================
