---------------------------- MODULE WebSocketHub ----------------------------
(***************************************************************************)
(* The hub of the dashboard's sockets (socket_manager.py): one list of     *)
(* connections that every coroutine of the backend iterates over when it   *)
(* broadcasts.  Each send is awaited inside the iteration, so the list can *)
(* change under it: dashboards connect and leave, other broadcasts find a  *)
(* broken socket and drop it.  A Python list iterator keeps a position:    *)
(* an append is seen by it, a removal before it moves the rest one place   *)
(* down and one connection is passed over.                                 *)
(***************************************************************************)
EXTENDS Naturals, Sequences, FiniteSets

CONSTANTS
    Clients,    \* WebSocket objects; a dashboard that comes back has a new one
    Senders,    \* the coroutines that broadcast, one message at a time each
    NoClient    \* no send is awaited

\* What the promises below rest on.
HubAssumption == NoClient \notin Clients

VARIABLES
    conns,      \* active_connections
    socket,     \* of each client: "new", "open", "broken" (peer gone) or "left"
    target,     \* the connection whose send_json the sender awaits
    cursor,     \* the position its iterator reads next
    reached,    \* history: the clients its current message was sent to
    audience,   \* history: the clients listed when that message was started
    removals    \* history: how many were removed from the list while it was sent

hubVars == <<conns, socket, target, cursor, reached, audience, removals>>

Listed == {conns[i] : i \in DOMAIN conns}
Init ==
    /\ conns = <<>>
    /\ socket = [c \in Clients |-> "new"]
    /\ target = [s \in Senders |-> NoClient]
    /\ cursor = [s \in Senders |-> 1]
    /\ reached = [s \in Senders |-> {}]
    /\ audience = [s \in Senders |-> {}]
    /\ removals = [s \in Senders |-> 0]

-----------------------------------------------------------------------------
\* list.append; list.remove of an element that is there.
Joined(c) == Append(conns, c)
Place(c) == CHOOSE i \in DOMAIN conns : conns[i] = c
Without(c) == [i \in 1..(Len(conns) - 1) |-> IF i < Place(c) THEN conns[i] ELSE conns[i + 1]]

\* disconnect(): a connection that was already dropped is not dropped again.
Disconnect(c) == conns' = IF c \in Listed THEN Without(c) ELSE conns
Tally == removals' = [s \in Senders |-> IF target'[s] = NoClient THEN 0
                                       ELSE removals[s] + Len(conns) - Len(conns')]

\* The iterator of s moves on over the list L, after sending to the clients of sent;
\* when it is exhausted the broadcast returns, and its history is forgotten.
Exhausted_Early(s, L) == cursor[s] >= Len(L)
Exhausted(s, L) == cursor[s] > Len(L)
Moves(s, L, sent) ==
    IF Exhausted(s, L)
    THEN /\ target' = [target EXCEPT ![s] = NoClient]
         /\ cursor' = [cursor EXCEPT ![s] = 1]
         /\ reached' = [reached EXCEPT ![s] = {}]
         /\ audience' = [audience EXCEPT ![s] = {}]
    ELSE /\ target' = [target EXCEPT ![s] = L[cursor[s]]]
         /\ cursor' = [cursor EXCEPT ![s] = @ + 1]
         /\ reached' = [reached EXCEPT ![s] = @ \cup sent]
         /\ UNCHANGED audience

-----------------------------------------------------------------------------
\* The /ws endpoint: accept, then append.
Connect(c) ==
    /\ socket[c] = "new"
    /\ socket' = [socket EXCEPT ![c] = "open"]
    /\ conns' = Joined(c)
    /\ UNCHANGED <<target, cursor, reached, audience, removals>>

\* The browser tab closes or the network drops; nobody knows yet.
Break(c) ==
    /\ socket[c] = "open"
    /\ socket' = [socket EXCEPT ![c] = "broken"]
    /\ UNCHANGED <<conns, target, cursor, reached, audience, removals>>

\* receive_text raises in the endpoint: disconnect, and the endpoint ends.
Leave(c) ==
    /\ socket[c] = "broken"
    /\ socket' = [socket EXCEPT ![c] = "left"]
    /\ Disconnect(c)
    /\ UNCHANGED <<target, cursor, reached, audience>>
    /\ Tally

\* broadcast(): with nobody listed the loop body never runs, nothing is awaited.
Broadcast(s) ==
    /\ target[s] = NoClient /\ conns # <<>>
    /\ target' = [target EXCEPT ![s] = conns[1]]
    /\ cursor' = [cursor EXCEPT ![s] = 2]
    /\ reached' = [reached EXCEPT ![s] = {}]
    /\ audience' = [audience EXCEPT ![s] = Listed]
    /\ UNCHANGED <<conns, socket, removals>>

\* send_json returns.
Deliver(s) ==
    /\ target[s] # NoClient /\ socket[target[s]] = "open"
    /\ Moves(s, conns, {target[s]})
    /\ UNCHANGED <<conns, socket>>
    /\ Tally

\* send_json raises: the connection is dropped in the middle of the iteration.
DeliverFails(s) ==
    /\ target[s] # NoClient /\ socket[target[s]] \in {"broken", "left"}
    /\ Disconnect(target[s])
    /\ Moves(s, conns', {})
    /\ UNCHANGED socket
    /\ Tally

Sending(s) == Deliver(s) \/ DeliverFails(s)
Dashboard(c) == Connect(c) \/ Break(c) \/ Leave(c)
Next == (\E c \in Clients : Dashboard(c)) \/ (\E s \in Senders : Broadcast(s) \/ Sending(s))
Spec == Init /\ [][Next]_hubVars

-----------------------------------------------------------------------------
TypeOK ==
    /\ conns \in Seq(Clients)
    /\ socket \in [Clients -> {"new", "open", "broken", "left"}]
    /\ target \in [Senders -> Clients \cup {NoClient}]
    /\ cursor \in [Senders -> Nat \ {0}]
    /\ reached \in [Senders -> SUBSET Clients]
    /\ audience \in [Senders -> SUBSET Clients]
    /\ removals \in [Senders -> Nat]

\* No dashboard gets one message twice, however the list changes between the
\* awaits of the broadcast (socket_manager.py: connect, disconnect, broadcast).
NeverTwice == \A s \in Senders : target[s] \notin reached[s]

\* A dashboard that was listed when a broadcast began and still is when it returns
\* missed the message only because another one was removed meanwhile: each removal
\* costs at most one dashboard its message.
Missed(s) == (audience[s] \cap Listed') \ (reached[s] \cup {target[s]})
Removed(s) == removals[s] + Len(conns) - Len(conns')
MissedOnlyByRemoval ==
    [][\A s \in Senders : target[s] # NoClient /\ target'[s] = NoClient
           => Cardinality(Missed(s)) <= Removed(s)]_hubVars

\* What makes NeverTwice inductive: the list has no duplicates, new sockets are
\* not in it, and an iterator has never sent to what lies ahead of it.
Ahead(s) == {conns[i] : i \in {j \in DOMAIN conns : j >= cursor[s]}}
ListDistinct == \A i, j \in DOMAIN conns : conns[i] = conns[j] => i = j
OnlyJoined == \A c \in Clients : socket[c] = "new" =>
                 c \notin Listed /\ \A s \in Senders : c \notin reached[s] /\ c # target[s]
AheadUnsent == \A s \in Senders : target[s] # NoClient =>
                 Ahead(s) \cap (reached[s] \cup {target[s]}) = {}
HubInv == TypeOK /\ ListDistinct /\ OnlyJoined /\ AheadUnsent /\ NeverTwice

\* What makes MissedOnlyByRemoval hold: a listed dashboard of the audience lies ahead of
\* the iterator or was sent the message, but for at most one per removal.
Skipped(s) == (audience[s] \cap Listed) \ (reached[s] \cup {target[s]} \cup Ahead(s))
OnlyJoinedHeard == \A c \in Clients : socket[c] = "new" => \A s \in Senders : c \notin audience[s]
SkipsBounded == \A s \in Senders :
    IF target[s] = NoClient THEN removals[s] = 0 ELSE Cardinality(Skipped(s)) <= removals[s]
MissInv == HubInv /\ OnlyJoinedHeard /\ SkipsBounded
=============================================================================
