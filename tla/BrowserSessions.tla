--------------------------- MODULE BrowserSessions ---------------------------
(***************************************************************************)
(* What the dispatcher promises the machine and the proxies, without its   *)
(* queue, its gate and its registries: how many runs may be under way, and *)
(* how many of them may use the network through one key.                   *)
(*                                                                         *)
(* A run is admitted, then takes a slot of its key, and ends; the operator *)
(* resizes the limit at any time without evicting anybody; a crash ends    *)
(* every run.                                                              *)
(***************************************************************************)
EXTENDS Naturals, FiniteSets

CONSTANTS Runs,      \* the runs
          KeyOf,     \* the network key of a run
          PerKey,    \* TRUE: one session per key; FALSE: as many as the limit
          Ceiling    \* no limit exceeds it

VARIABLES admitted,  \* the runs under way
          sessions,  \* those of them that hold a slot of their key
          limit      \* the operator's current limit

svars == <<admitted, sessions, limit>>

Sharing(r) == {s \in sessions : KeyOf[s] = KeyOf[r]}
KeyCap     == IF PerKey THEN 1 ELSE limit

SInit == admitted = {} /\ sessions = {} /\ limit \in 1..Ceiling

Admit(r) ==
    /\ r \notin admitted
    /\ Cardinality(admitted) < limit
    /\ admitted' = admitted \cup {r}
    /\ UNCHANGED <<sessions, limit>>

Connect(r) ==
    /\ r \in admitted \ sessions
    /\ Cardinality(Sharing(r)) < KeyCap
    /\ sessions' = sessions \cup {r}
    /\ UNCHANGED <<admitted, limit>>

End(r) ==
    /\ r \in admitted
    /\ admitted' = admitted \ {r} /\ sessions' = sessions \ {r}
    /\ UNCHANGED limit

Resize == limit' \in 1..Ceiling /\ UNCHANGED <<admitted, sessions>>

EndAll == admitted' = {} /\ sessions' = {} /\ limit' \in 1..Ceiling

SNext == \/ \E r \in Runs : Admit(r) \/ Connect(r) \/ End(r)
         \/ Resize \/ EndAll

SSpec == SInit /\ [][SNext]_svars
=============================================================================
