------------------------ MODULE WebSocketHub_proofs ------------------------
(***************************************************************************)
(* No dashboard is sent one message twice, and a message is missed only by *)
(* as many dashboards as were removed while it was sent, whatever the set  *)
(* of dashboards and of broadcasting coroutines: HubInv and MissInv are    *)
(* inductive.                                                              *)
(***************************************************************************)
EXTENDS WebSocketHub, FiniteSetTheorems, TLAPS

\* list.remove on a list without duplicates: one element shorter, still without
\* duplicates, without c, and nothing moves up past a position it was before.
LEMMA WithoutFacts ==
    ASSUME TypeOK, ListDistinct, NEW c \in Listed
    PROVE  /\ Without(c) \in Seq(Clients) /\ Len(Without(c)) = Len(conns) - 1
           /\ \A i, j \in DOMAIN Without(c) : Without(c)[i] = Without(c)[j] => i = j
           /\ \A i \in DOMAIN Without(c) :
                Without(c)[i] # c /\ \E j \in DOMAIN conns : j >= i /\ Without(c)[i] = conns[j]
<1> DEFINE n == Len(conns)
           p == Place(c)
<1>1. conns \in Seq(Clients) /\ n \in Nat /\ DOMAIN conns = 1..n
  BY DEF TypeOK
<1>2. p \in 1..n /\ conns[p] = c
  BY <1>1 DEF Place, Listed
<1>3. Without(c) = [i \in 1..(n - 1) |-> IF i < p THEN conns[i] ELSE conns[i + 1]]
  BY DEF Without
<1> HIDE DEF n, p
<1>4. \A i \in 1..(n - 1) : i \in 1..n /\ i + 1 \in 1..n
  BY <1>1
<1>5. \A i \in 1..(n - 1) : Without(c)[i] = IF i < p THEN conns[i] ELSE conns[i + 1]
  BY <1>3
<1>6. n - 1 \in Nat
  BY <1>1, <1>2
<1>7. \A i \in 1..n : conns[i] \in Clients
  BY <1>1 DEF n
<1>8. Without(c) \in [1..(n - 1) -> Clients]
  BY <1>3, <1>4, <1>7
<1>9. Without(c) \in Seq(Clients) /\ Len(Without(c)) = n - 1 /\ DOMAIN Without(c) = 1..(n - 1)
  BY <1>8, <1>6
<1>10. \A i, j \in 1..n : conns[i] = conns[j] => i = j
  BY <1>1 DEF ListDistinct
<1>11. ASSUME NEW i \in 1..(n - 1), NEW j \in 1..(n - 1), Without(c)[i] = Without(c)[j]
       PROVE  i = j
  BY <1>11, <1>5, <1>4, <1>10, <1>2, <1>1
<1>12. ASSUME NEW i \in 1..(n - 1)
       PROVE  Without(c)[i] # c /\ \E j \in 1..n : j >= i /\ Without(c)[i] = conns[j]
  BY <1>5, <1>4, <1>10, <1>2, <1>1
<1>13. QED
  BY <1>1, <1>9, <1>11, <1>12 DEF n

\* disconnect() leaves a duplicate-free sublist in which nothing moved up.
LEMMA DisconnectFacts ==
    ASSUME TypeOK, ListDistinct, NEW c, Disconnect(c)
    PROVE  /\ conns' \in Seq(Clients) /\ Len(conns') <= Len(conns) /\ Len(conns') \in Nat
           /\ ListDistinct' /\ c \notin Listed'
           /\ \A i \in DOMAIN conns' : \E j \in DOMAIN conns : j >= i /\ conns'[i] = conns[j]
<1>0. conns \in Seq(Clients) /\ Len(conns) \in Nat /\ DOMAIN conns = 1..Len(conns)
  BY DEF TypeOK
<1>1. CASE c \in Listed
  <2>1. conns' = Without(c)
    BY <1>1 DEF Disconnect
  <2>2. /\ Without(c) \in Seq(Clients) /\ Len(Without(c)) = Len(conns) - 1
        /\ \A i, j \in DOMAIN Without(c) : Without(c)[i] = Without(c)[j] => i = j
        /\ \A i \in DOMAIN Without(c) :
             Without(c)[i] # c /\ \E j \in DOMAIN conns : j >= i /\ Without(c)[i] = conns[j]
    BY <1>1, WithoutFacts
  <2>3. Len(conns) - 1 \in Nat
    BY <1>0, <1>1 DEF Listed
  <2>4. c \notin Listed'
    BY <2>1, <2>2 DEF Listed
  <2>5. ListDistinct'
    BY <2>1, <2>2 DEF ListDistinct
  <2>6. QED
    BY <2>1, <2>2, <2>3, <2>4, <2>5, <1>0
<1>2. CASE c \notin Listed
  <2>1. conns' = conns
    BY <1>2 DEF Disconnect
  <2>2. QED
    BY <2>1, <1>0, <1>2 DEF ListDistinct, Listed
<1>3. QED
  BY <1>1, <1>2

\* Nobody is connected at the start.
LEMMA HubInvInit == ASSUME HubAssumption PROVE Init => HubInv
<1> SUFFICES ASSUME Init PROVE HubInv
  OBVIOUS
<1>1. conns = <<>> /\ DOMAIN conns = {} /\ Listed = {}
  BY DEF Init, Listed
<1>2. TypeOK
  BY <1>1 DEF Init, TypeOK
<1>3. ListDistinct /\ OnlyJoined /\ AheadUnsent /\ NeverTwice
  BY <1>1 DEF HubAssumption, Init, ListDistinct, OnlyJoined, AheadUnsent, NeverTwice
<1>4. QED
  BY <1>2, <1>3 DEF HubInv

-----------------------------------------------------------------------------
\* What a list that only lost elements means for the iterators that are not moved.
LEMMA Shrinks ==
    ASSUME HubInv, NEW r \in Senders, target'[r] = target[r], cursor'[r] = cursor[r],
           reached'[r] = reached[r],
           \A i \in DOMAIN conns' : \E j \in DOMAIN conns : j >= i /\ conns'[i] = conns[j],
           conns' \in Seq(Clients)
    PROVE  /\ Listed' \subseteq Listed /\ target'[r] \notin reached'[r]
           /\ target'[r] # NoClient => Ahead(r)' \cap (reached'[r] \cup {target'[r]}) = {}
<1>1. Listed' \subseteq Listed
  BY DEF Listed
<1>2. conns \in Seq(Clients) /\ DOMAIN conns \subseteq Nat /\ DOMAIN conns' \subseteq Nat
      /\ cursor[r] \in Nat
  BY DEF HubInv, TypeOK
<1>3. Ahead(r)' = {conns'[i] : i \in {j \in DOMAIN conns' : j >= cursor[r]}}
  BY DEF Ahead
<1>4. ASSUME NEW x \in Ahead(r)' PROVE x \in Ahead(r)
  <2>1. PICK i \in DOMAIN conns' : i >= cursor[r] /\ x = conns'[i]
    BY <1>3, <1>4
  <2>2. PICK j \in DOMAIN conns : j >= i /\ conns'[i] = conns[j]
    BY <2>1
  <2>3. j >= cursor[r]
    BY <2>1, <2>2, <1>2
  <2>4. QED
    BY <2>1, <2>2, <2>3 DEF Ahead
<1>5. QED
  BY <1>1, <1>4 DEF HubInv, AheadUnsent, NeverTwice

\* The iterator of s moves over the list as it is now: what it picks was ahead of
\* it, and so was all that is ahead of it now.
LEMMA MovesFacts ==
    ASSUME HubInv, NEW s \in Senders, target[s] # NoClient,
           conns' \in Seq(Clients), ListDistinct',
           \A i \in DOMAIN conns' : \E j \in DOMAIN conns : j >= i /\ conns'[i] = conns[j],
           NEW sent, sent \subseteq {target[s]}, Moves(s, conns', sent)
    PROVE  /\ target' \in [Senders -> Clients \cup {NoClient}]
           /\ cursor' \in [Senders -> Nat \ {0}]
           /\ reached' \in [Senders -> SUBSET Clients] /\ audience' \in [Senders -> SUBSET Clients]
           /\ Listed' \subseteq Listed /\ AheadUnsent' /\ NeverTwice'
           /\ \A r \in Senders : /\ reached'[r] \subseteq reached[r] \cup ({target[r]} \ {NoClient})
                                 /\ target'[r] \in {target[r], NoClient} \cup Listed
<1> DEFINE n == Len(conns')
<1>1. /\ TypeOK /\ n \in Nat /\ DOMAIN conns' = 1..n /\ cursor[s] \in Nat \ {0}
      /\ target[s] \in Clients /\ sent \subseteq Clients
  BY DEF HubInv, TypeOK
<1>2. Listed' \subseteq Listed
  BY DEF Listed
<1>3. \A r \in Senders \ {s} :
         target'[r] = target[r] /\ cursor'[r] = cursor[r] /\ reached'[r] = reached[r]
  BY <1>1 DEF Moves, TypeOK
<1>4. \A r \in Senders \ {s} :
         /\ target'[r] \notin reached'[r]
         /\ target'[r] # NoClient => Ahead(r)' \cap (reached'[r] \cup {target'[r]}) = {}
  BY <1>3, Shrinks
<1>5. CASE Exhausted(s, conns')
  <2>1. /\ target' = [target EXCEPT ![s] = NoClient] /\ cursor' = [cursor EXCEPT ![s] = 1]
        /\ reached' = [reached EXCEPT ![s] = {}] /\ audience' = [audience EXCEPT ![s] = {}]
    BY <1>5 DEF Moves
  <2>2. target'[s] = NoClient /\ reached'[s] = {}
    BY <2>1, <1>1 DEF TypeOK
  <2>3. AheadUnsent' /\ NeverTwice'
    BY <2>2, <1>4 DEF AheadUnsent, NeverTwice
  <2>4. QED
    BY <2>1, <2>2, <2>3, <1>1, <1>2, <1>3 DEF TypeOK
<1>6. CASE ~Exhausted(s, conns')
  <2> DEFINE k == cursor[s]
  <2>1. /\ target' = [target EXCEPT ![s] = conns'[k]] /\ cursor' = [cursor EXCEPT ![s] = k + 1]
        /\ reached' = [reached EXCEPT ![s] = @ \cup sent] /\ audience' = audience
    BY <1>6 DEF Moves
  <2>2. k \in 1..n /\ conns'[k] \in Clients /\ conns'[k] \in Listed'
    BY <1>6, <1>1 DEF Exhausted, Listed
  <2>3. target'[s] = conns'[k] /\ cursor'[s] = k + 1 /\ reached'[s] = reached[s] \cup sent
    BY <2>1, <1>1 DEF TypeOK
  <2>4. \A i \in 1..n : i >= k => conns'[i] \in Ahead(s)
    <3> SUFFICES ASSUME NEW i \in 1..n, i >= k PROVE conns'[i] \in Ahead(s)
      OBVIOUS
    <3>1. PICK j \in DOMAIN conns : j >= i /\ conns'[i] = conns[j]
      BY <1>1
    <3>2. j >= k
      BY <3>1, <1>1 DEF TypeOK
    <3>3. QED
      BY <3>1, <3>2 DEF Ahead
  <2>5. Ahead(s) \cap (reached[s] \cup {target[s]}) = {}
    BY DEF HubInv, AheadUnsent
  <2>6. target'[s] \notin reached'[s]
    BY <2>2, <2>3, <2>4, <2>5, <1>1
  <2>7. \A x \in Ahead(s)' : \E i \in 1..n : i >= k + 1 /\ x = conns'[i]
    BY <2>3, <1>1 DEF Ahead
  <2>8. \A x \in Ahead(s)' : x \in Ahead(s) /\ x # conns'[k]
    BY <2>7, <2>4, <2>2, <1>1 DEF ListDistinct
  <2>9. Ahead(s)' \cap (reached'[s] \cup {target'[s]}) = {}
    BY <2>8, <2>5, <2>3
  <2>10. AheadUnsent' /\ NeverTwice'
    BY <2>6, <2>9, <1>4 DEF AheadUnsent, NeverTwice
  <2>11. QED
    BY <2>1, <2>2, <2>3, <2>10, <1>1, <1>2, <1>3 DEF TypeOK
<1>7. QED
  BY <1>5, <1>6

\* A send that was awaited is over, whether it succeeded or failed.
LEMMA SendStep ==
    ASSUME HubAssumption, HubInv, NEW s \in Senders, target[s] # NoClient, UNCHANGED socket, Tally,
           conns' \in Seq(Clients), Len(conns') <= Len(conns), ListDistinct',
           \A i \in DOMAIN conns' : \E j \in DOMAIN conns : j >= i /\ conns'[i] = conns[j],
           NEW sent, sent \subseteq {target[s]}, Moves(s, conns', sent)
    PROVE  HubInv'
<1>1. /\ target' \in [Senders -> Clients \cup {NoClient}]
      /\ cursor' \in [Senders -> Nat \ {0}]
      /\ reached' \in [Senders -> SUBSET Clients] /\ audience' \in [Senders -> SUBSET Clients]
      /\ Listed' \subseteq Listed /\ AheadUnsent' /\ NeverTwice'
      /\ \A r \in Senders : /\ reached'[r] \subseteq reached[r] \cup ({target[r]} \ {NoClient})
                            /\ target'[r] \in {target[r], NoClient} \cup Listed
  BY MovesFacts
<1>2. removals' \in [Senders -> Nat]
  <2>1. \A r \in Senders : removals[r] \in Nat
    BY DEF HubInv, TypeOK
  <2>2. Len(conns) \in Nat /\ Len(conns') \in Nat
    BY DEF HubInv, TypeOK
  <2>3. \A r \in Senders : removals[r] + Len(conns) - Len(conns') \in Nat
    BY <2>1, <2>2
  <2>4. QED
    BY <2>3 DEF Tally
<1>3. TypeOK'
  BY <1>1, <1>2 DEF HubInv, TypeOK
<1>4. ASSUME NEW c \in Clients, socket'[c] = "new"
      PROVE  c \notin Listed' /\ \A r \in Senders : c \notin reached'[r] /\ c # target'[r]
  <2>1. c \notin Listed /\ c # NoClient /\ \A r \in Senders : c \notin reached[r] /\ c # target[r]
    BY <1>4 DEF HubAssumption, HubInv, OnlyJoined
  <2>2. \A r \in Senders : c \notin reached'[r]
    BY <1>1, <2>1
  <2>3. \A r \in Senders : c # target'[r]
    BY <1>1, <2>1
  <2>4. QED
    BY <1>1, <2>1, <2>2, <2>3
<1>5. QED
  BY <1>1, <1>3, <1>4 DEF HubInv, OnlyJoined

\* One case per action of the hub.
LEMMA HubInvStep == ASSUME HubAssumption PROVE HubInv /\ [Next]_hubVars => HubInv'
<1> SUFFICES ASSUME HubInv, [Next]_hubVars PROVE HubInv'
  OBVIOUS
<1>0. TypeOK /\ ListDistinct /\ conns \in Seq(Clients) /\ Len(conns) \in Nat
      /\ DOMAIN conns = 1..Len(conns)
  BY DEF HubInv, TypeOK
<1>1. ASSUME NEW c \in Clients, Connect(c) PROVE HubInv'
  <2>1. conns' = Append(conns, c) /\ socket[c] = "new" /\ socket' = [socket EXCEPT ![c] = "open"]
        /\ UNCHANGED <<target, cursor, reached, audience, removals>>
    BY <1>1 DEF Connect, Joined
  <2>2. /\ conns' \in Seq(Clients) /\ DOMAIN conns' = 1..(Len(conns) + 1)
        /\ conns'[Len(conns) + 1] = c /\ \A i \in 1..Len(conns) : conns'[i] = conns[i]
    BY <2>1, <1>0
  <2>3. c \notin Listed /\ \A s \in Senders : c \notin reached[s] /\ c # target[s]
    BY <2>1 DEF HubInv, OnlyJoined
  <2>4. Listed' = Listed \cup {c}
    BY <2>2, <1>0 DEF Listed
  <2>5. ListDistinct'
    BY <2>2, <2>3, <1>0 DEF ListDistinct, Listed
  <2>6. TypeOK'
    BY <2>1, <2>2, <1>0 DEF TypeOK
  <2>7. OnlyJoined'
    BY <2>1, <2>4, <1>0 DEF HubInv, OnlyJoined, TypeOK
  <2>8. \A s \in Senders : Ahead(s)' \subseteq Ahead(s) \cup {c}
    BY <2>1, <2>2, <1>0 DEF Ahead
  <2>9. AheadUnsent' /\ NeverTwice'
    BY <2>1, <2>3, <2>8 DEF HubInv, AheadUnsent, NeverTwice
  <2>10. QED
    BY <2>5, <2>6, <2>7, <2>9 DEF HubInv
<1>2. ASSUME NEW c \in Clients, Break(c) PROVE HubInv'
  <2>1. TypeOK' /\ OnlyJoined'
    BY <1>2, <1>0 DEF Break, HubInv, TypeOK, OnlyJoined, Listed
  <2>2. ListDistinct' /\ AheadUnsent' /\ NeverTwice'
    BY <1>2 DEF Break, HubInv, ListDistinct, AheadUnsent, NeverTwice, Ahead
  <2>3. QED
    BY <2>1, <2>2 DEF HubInv
<1>3. ASSUME NEW c \in Clients, Leave(c) PROVE HubInv'
  <2>1. /\ Disconnect(c) /\ Tally /\ socket' = [socket EXCEPT ![c] = "left"]
        /\ UNCHANGED <<target, cursor, reached, audience>>
    BY <1>3 DEF Leave
  <2>2. /\ conns' \in Seq(Clients) /\ Len(conns') <= Len(conns) /\ Len(conns') \in Nat
        /\ ListDistinct'
        /\ \A i \in DOMAIN conns' : \E j \in DOMAIN conns : j >= i /\ conns'[i] = conns[j]
    BY <2>1, <1>0, DisconnectFacts
  <2>3. \A r \in Senders :
           /\ target'[r] \notin reached'[r]
           /\ target'[r] # NoClient => Ahead(r)' \cap (reached'[r] \cup {target'[r]}) = {}
    BY <2>1, <2>2, Shrinks
  <2>4. Listed' \subseteq Listed
    BY <2>2 DEF Listed
  <2>5. \A r \in Senders : removals[r] + Len(conns) - Len(conns') \in Nat
    BY <2>2, <1>0 DEF TypeOK
  <2>6. TypeOK'
    BY <2>1, <2>2, <2>5, <1>0 DEF TypeOK, Tally
  <2>7. OnlyJoined'
    BY <2>1, <2>4, <1>0 DEF HubInv, OnlyJoined, TypeOK
  <2>8. QED
    BY <2>2, <2>3, <2>6, <2>7 DEF HubInv, AheadUnsent, NeverTwice
<1>4. ASSUME NEW s \in Senders, Broadcast(s) PROVE HubInv'
  <2>1. /\ target[s] = NoClient /\ conns # <<>> /\ target' = [target EXCEPT ![s] = conns[1]]
        /\ cursor' = [cursor EXCEPT ![s] = 2] /\ audience' = [audience EXCEPT ![s] = Listed]
        /\ reached' = [reached EXCEPT ![s] = {}] /\ UNCHANGED <<conns, socket, removals>>
    BY <1>4 DEF Broadcast
  <2>2. 1 \in 1..Len(conns) /\ conns[1] \in Clients /\ conns[1] \in Listed /\ Listed \subseteq Clients
    BY <2>1, <1>0 DEF Listed
  <2>3. TypeOK'
    BY <2>1, <2>2, <1>0 DEF TypeOK
  <2>4. OnlyJoined'
    BY <2>1, <2>2, <1>0 DEF HubInv, OnlyJoined, TypeOK, Listed
  <2>5. ListDistinct'
    BY <2>1, <1>0 DEF ListDistinct
  <2>6. target'[s] = conns[1] /\ reached'[s] = {} /\ cursor'[s] = 2
    BY <2>1, <1>0 DEF TypeOK
  <2>7. \A x \in Ahead(s)' : x # conns[1]
    <3>1. \A x \in Ahead(s)' : \E i \in DOMAIN conns : i >= 2 /\ x = conns[i]
      BY <2>1, <2>6 DEF Ahead
    <3>2. QED
      BY <3>1, <2>2, <1>0 DEF ListDistinct
  <2>8. \A r \in Senders \ {s} : /\ target'[r] = target[r] /\ reached'[r] = reached[r]
                                /\ Ahead(r)' = Ahead(r)
    BY <2>1, <1>0 DEF TypeOK, Ahead
  <2>9. AheadUnsent' /\ NeverTwice'
    BY <2>6, <2>7, <2>8 DEF HubInv, AheadUnsent, NeverTwice
  <2>10. QED
    BY <2>3, <2>4, <2>5, <2>9 DEF HubInv
<1>5. ASSUME NEW s \in Senders, Deliver(s) PROVE HubInv'
  <2>1. /\ target[s] # NoClient /\ Moves(s, conns, {target[s]}) /\ Tally
        /\ UNCHANGED <<conns, socket>>
    BY <1>5 DEF Deliver
  <2>2. /\ Moves(s, conns', {target[s]}) /\ conns' \in Seq(Clients) /\ ListDistinct'
        /\ Len(conns') <= Len(conns) /\ UNCHANGED socket
        /\ \A i \in DOMAIN conns' : \E j \in DOMAIN conns : j >= i /\ conns'[i] = conns[j]
    BY <2>1, <1>0 DEF ListDistinct
  <2>3. QED
    BY <2>1, <2>2, SendStep
<1>6. ASSUME NEW s \in Senders, DeliverFails(s) PROVE HubInv'
  <2>1. /\ target[s] # NoClient /\ Disconnect(target[s]) /\ Moves(s, conns', {}) /\ Tally
        /\ UNCHANGED socket
    BY <1>6 DEF DeliverFails
  <2>2. /\ conns' \in Seq(Clients) /\ Len(conns') <= Len(conns) /\ ListDistinct'
        /\ \A i \in DOMAIN conns' : \E j \in DOMAIN conns : j >= i /\ conns'[i] = conns[j]
    BY <2>1, <1>0, DisconnectFacts
  <2>3. QED
    BY <2>1, <2>2, SendStep
<1>7. CASE UNCHANGED hubVars
  BY <1>7 DEF hubVars, HubInv, TypeOK, ListDistinct, OnlyJoined, AheadUnsent, NeverTwice, Listed,
              Ahead
<1>8. QED
  BY <1>1, <1>2, <1>3, <1>4, <1>5, <1>6, <1>7 DEF Next, Dashboard, Sending

\* The inductive invariant of the hub.
THEOREM HubInvariant == ASSUME HubAssumption PROVE Spec => []HubInv
  BY HubInvInit, HubInvStep, PTL DEF Spec

\* No dashboard is sent a message twice (socket_manager.py: broadcast's iteration).
THEOREM SentOnce == ASSUME HubAssumption PROVE Spec => []NeverTwice
<1>1. HubInv => NeverTwice
  BY DEF HubInv
<1>2. QED
  BY HubInvariant, <1>1, PTL

-----------------------------------------------------------------------------
(* Who misses a message.  Over(s, L) are the dashboards of the audience of *)
(* s that are in the list L, behind its iterator, and were not sent to.    *)

Over(s, L) ==
    (audience[s] \cap {L[i] : i \in DOMAIN L})
        \ (reached[s] \cup {target[s]} \cup {L[i] : i \in {j \in DOMAIN L : j >= cursor[s]}})

LEMMA OverIsSkipped == \A s \in Senders : Over(s, conns) = Skipped(s)
BY DEF Over, Skipped, Listed, Ahead

LEMMA ListedFinite == ASSUME conns \in Seq(Clients) PROVE IsFiniteSet(Listed)
<1>1. conns \in Surjection(1..Len(conns), Listed)
  BY DEF Surjection, Listed
<1>2. Len(conns) \in Int
  OBVIOUS
<1>3. IsFiniteSet(1..Len(conns))
  BY <1>2, FS_Interval
<1>4. QED
  BY <1>1, <1>3, FS_Surjection

\* A removal moves what comes after it down by one place.
LEMMA WithoutShifts ==
    ASSUME conns \in Seq(Clients), NEW c, NEW i \in DOMAIN Without(c)
    PROVE  \/ i \in DOMAIN conns /\ Without(c)[i] = conns[i]
           \/ i + 1 \in DOMAIN conns /\ Without(c)[i] = conns[i + 1]
<1>1. /\ DOMAIN Without(c) = 1..(Len(conns) - 1)
      /\ Without(c)[i] = IF i < Place(c) THEN conns[i] ELSE conns[i + 1]
  BY DEF Without
<1>2. i \in DOMAIN conns /\ i + 1 \in DOMAIN conns
  BY <1>1
<1>3. QED
  BY <1>1, <1>2

\* So it passes over one dashboard at most: the one its iterator would have read next.
LEMMA RemovalSkips ==
    ASSUME TypeOK, ListDistinct, NEW s \in Senders, NEW c,
           conns' = conns \/ Disconnect(c)
    PROVE  /\ IsFiniteSet(Over(s, conns')) /\ Cardinality(Over(s, conns')) \in Nat
           /\ Cardinality(Over(s, conns')) <= Cardinality(Skipped(s)) + Len(conns) - Len(conns')
<1>1. conns \in Seq(Clients) /\ DOMAIN conns = 1..Len(conns) /\ Len(conns) \in Nat
      /\ cursor[s] \in Nat
  BY DEF TypeOK
<1>2. IsFiniteSet(Skipped(s)) /\ Cardinality(Skipped(s)) \in Nat
  BY <1>1, ListedFinite, FS_Subset, FS_CardinalityType DEF Skipped
<1>3. CASE conns' = conns
  BY <1>1, <1>2, <1>3, OverIsSkipped
<1>4. CASE conns' # conns
  <2>1. c \in Listed /\ conns' = Without(c)
    BY <1>4 DEF Disconnect
  <2>2. Len(conns') = Len(conns) - 1 /\ DOMAIN conns' \subseteq Nat
    BY <2>1, WithoutFacts
  <2>3. Over(s, conns') \subseteq Skipped(s) \cup {conns[cursor[s]]}
    <3> SUFFICES ASSUME NEW x \in Over(s, conns'), x # conns[cursor[s]] PROVE x \in Skipped(s)
      OBVIOUS
    <3>1. PICK i \in DOMAIN conns' : x = conns'[i]
      BY DEF Over
    <3>2. i < cursor[s] /\ i \in Nat
      BY <3>1, <2>2, <1>1 DEF Over
    <3>3. PICK j \in DOMAIN conns : x = conns[j] /\ j < cursor[s]
      BY <3>1, <3>2, <2>1, <1>1, WithoutShifts
    <3>4. x \notin Ahead(s)
      BY <3>3, <1>1 DEF Ahead, ListDistinct
    <3>5. QED
      BY <3>3, <3>4 DEF Over, Skipped, Listed
  <2>4. /\ IsFiniteSet(Skipped(s) \cup {conns[cursor[s]]})
        /\ Cardinality(Skipped(s) \cup {conns[cursor[s]]}) <= Cardinality(Skipped(s)) + 1
        /\ Cardinality(Skipped(s) \cup {conns[cursor[s]]}) \in Nat
    <3> DEFINE x == conns[cursor[s]]
    <3> HIDE DEF x
    <3>1. /\ IsFiniteSet(Skipped(s) \cup {x})
          /\ Cardinality(Skipped(s) \cup {x}) =
                IF x \in Skipped(s) THEN Cardinality(Skipped(s)) ELSE Cardinality(Skipped(s)) + 1
      BY <1>2, FS_AddElement
    <3>2. QED
      BY <3>1, <1>2 DEF x
  <2>5. IsFiniteSet(Over(s, conns'))
        /\ Cardinality(Over(s, conns')) <= Cardinality(Skipped(s) \cup {conns[cursor[s]]})
    BY <2>3, <2>4, FS_Subset
  <2>6. QED
    BY <2>2, <2>4, <2>5, <1>1, <1>2, FS_CardinalityType
<1>5. QED
  BY <1>3, <1>4

\* An iterator that moves on to its next dashboard leaves nobody else behind.
LEMMA MoveSkips ==
    ASSUME TypeOK, NEW s \in Senders, target[s] # NoClient,
           conns' \in Seq(Clients), ~Exhausted(s, conns'),
           NEW sent, sent = {target[s]} \/ (sent = {} /\ target[s] \notin Listed'),
           Moves(s, conns', sent)
    PROVE  Skipped(s)' \subseteq Over(s, conns')
<1> DEFINE k == cursor[s]
<1>1. /\ target'[s] = conns'[k] /\ cursor'[s] = k + 1 /\ k \in Nat
      /\ reached'[s] = reached[s] \cup sent /\ audience' = audience
  BY DEF Moves, TypeOK
<1>2. DOMAIN conns' \subseteq Nat
  OBVIOUS
<1> SUFFICES ASSUME NEW x \in Skipped(s)' PROVE x \in Over(s, conns')
  OBVIOUS
<1>3. /\ x \in audience[s] /\ x \in Listed' /\ x \notin reached[s] \cup sent
      /\ x # conns'[k] /\ x \notin Ahead(s)'
  BY <1>1 DEF Skipped
<1>4. x # target[s]
  BY <1>3
<1>5. \A i \in DOMAIN conns' : i >= k => x # conns'[i]
  <2> SUFFICES ASSUME NEW i \in DOMAIN conns', i >= k PROVE x # conns'[i]
    OBVIOUS
  <2>1. CASE i = k
    BY <2>1, <1>3
  <2>2. CASE i # k
    <3>1. i >= k + 1
      BY <2>2, <1>1, <1>2
    <3>2. QED
      BY <3>1, <1>1, <1>3 DEF Ahead
  <2>3. QED
    BY <2>1, <2>2
<1>6. QED
  BY <1>3, <1>4, <1>5 DEF Over, Listed

\* The two parts of MissInv that say who was not passed over.
LEMMA MissInit == Init => OnlyJoinedHeard /\ SkipsBounded
BY DEF Init, OnlyJoinedHeard, SkipsBounded

\* A broadcast whose iterator does not move.
LEMMA StaysBounded ==
    ASSUME HubInv, SkipsBounded, NEW c, conns' = conns \/ Disconnect(c), Tally,
           NEW s \in Senders, target'[s] = target[s], cursor'[s] = cursor[s],
           reached'[s] = reached[s], audience'[s] = audience[s]
    PROVE  IF target'[s] = NoClient THEN removals'[s] = 0
           ELSE Cardinality(Skipped(s)') <= removals'[s]
<1>1. CASE target[s] = NoClient
  BY <1>1 DEF Tally
<1>2. CASE target[s] # NoClient
  <2>1. Skipped(s)' = Over(s, conns')
    BY DEF Skipped, Over, Listed, Ahead
  <2>2. Cardinality(Skipped(s)) <= removals[s] /\ removals[s] \in Nat
    BY <1>2 DEF SkipsBounded, HubInv, TypeOK
  <2>3. removals'[s] = removals[s] + Len(conns) - Len(conns')
    BY <1>2 DEF Tally
  <2>4. Cardinality(Over(s, conns')) <= Cardinality(Skipped(s)) + Len(conns) - Len(conns')
        /\ Cardinality(Over(s, conns')) \in Nat
    BY RemovalSkips DEF HubInv
  <2>5. Cardinality(Skipped(s)) \in Nat
    BY ListedFinite, FS_Subset, FS_CardinalityType DEF Skipped, HubInv, TypeOK
  <2>6. Len(conns) \in Nat /\ Len(conns') \in Nat
    BY DisconnectFacts DEF HubInv, TypeOK
  <2>7. QED
    BY <1>2, <2>1, <2>2, <2>3, <2>4, <2>5, <2>6
<1>3. QED
  BY <1>1, <1>2

\* A send is over: the iterator of s moves, the others do not.
LEMMA SendBounded ==
    ASSUME HubInv, OnlyJoinedHeard, SkipsBounded, NEW s \in Senders, target[s] # NoClient,
           NEW sent, sent = {target[s]} \/ (sent = {} /\ target[s] \notin Listed'),
           conns' = conns \/ Disconnect(target[s]),
           Moves(s, conns', sent), Tally, UNCHANGED socket
    PROVE  OnlyJoinedHeard' /\ SkipsBounded'
<1>1. \A r \in Senders \ {s} : /\ target'[r] = target[r] /\ cursor'[r] = cursor[r]
                                /\ reached'[r] = reached[r] /\ audience'[r] = audience[r]
  BY DEF Moves, HubInv, TypeOK
<1>2. \A r \in Senders : audience'[r] \subseteq audience[r]
  BY DEF Moves, HubInv, TypeOK
<1>3. OnlyJoinedHeard'
  BY <1>2 DEF OnlyJoinedHeard
<1>4. IF target'[s] = NoClient THEN removals'[s] = 0
      ELSE Cardinality(Skipped(s)') <= removals'[s]
  <2>1. CASE target'[s] = NoClient
    BY <2>1 DEF Tally
  <2>2. CASE target'[s] # NoClient
    <3>1. ~Exhausted(s, conns')
      BY <2>2 DEF Moves, HubInv, TypeOK
    <3>2. conns' \in Seq(Clients) /\ Len(conns') \in Nat /\ Len(conns) \in Nat
      BY DisconnectFacts DEF HubInv, TypeOK
    <3>3. Skipped(s)' \subseteq Over(s, conns')
      BY <3>1, <3>2, MoveSkips DEF HubInv
    <3>4. /\ IsFiniteSet(Over(s, conns')) /\ Cardinality(Over(s, conns')) \in Nat
          /\ Cardinality(Over(s, conns')) <= Cardinality(Skipped(s)) + Len(conns) - Len(conns')
      BY RemovalSkips DEF HubInv
    <3>5. /\ Cardinality(Skipped(s)') <= Cardinality(Over(s, conns'))
          /\ Cardinality(Skipped(s)') \in Nat
      BY <3>3, <3>4, FS_Subset, FS_CardinalityType
    <3>6. Cardinality(Skipped(s)) \in Nat
      BY ListedFinite, FS_Subset, FS_CardinalityType DEF Skipped, HubInv, TypeOK
    <3>7. Cardinality(Skipped(s)) <= removals[s] /\ removals[s] \in Nat
      BY DEF SkipsBounded, HubInv, TypeOK
    <3>8. removals'[s] = removals[s] + Len(conns) - Len(conns')
      BY <2>2 DEF Tally
    <3>9. QED
      BY <2>2, <3>2, <3>4, <3>5, <3>6, <3>7, <3>8
  <2>3. QED
    BY <2>1, <2>2
<1>5. QED
  BY <1>1, <1>3, <1>4, StaysBounded DEF SkipsBounded

LEMMA MissStep ==
    ASSUME HubInv, OnlyJoinedHeard, SkipsBounded, [Next]_hubVars
    PROVE  OnlyJoinedHeard' /\ SkipsBounded'
<1>0. conns \in Seq(Clients) /\ Len(conns) \in Nat /\ DOMAIN conns = 1..Len(conns)
  BY DEF HubInv, TypeOK
<1>1. ASSUME NEW c \in Clients, Connect(c) PROVE OnlyJoinedHeard' /\ SkipsBounded'
  <2>1. /\ conns' = Append(conns, c) /\ socket[c] = "new"
        /\ socket' = [socket EXCEPT ![c] = "open"]
        /\ UNCHANGED <<target, cursor, reached, audience, removals>>
    BY <1>1 DEF Connect, Joined
  <2>2. /\ DOMAIN conns' = 1..(Len(conns) + 1)
        /\ conns'[Len(conns) + 1] = c /\ \A i \in 1..Len(conns) : conns'[i] = conns[i]
    BY <2>1, <1>0
  <2>3. ASSUME NEW s \in Senders PROVE Skipped(s)' \subseteq Skipped(s)
    <3>1. Listed' \subseteq Listed \cup {c} /\ Ahead(s) \subseteq Ahead(s)'
      BY <2>1, <2>2, <1>0 DEF Listed, Ahead
    <3>2. c \notin audience[s]
      BY <2>1 DEF OnlyJoinedHeard
    <3>3. QED
      BY <2>1, <3>1, <3>2 DEF Skipped
  <2>4. \A s \in Senders : IsFiniteSet(Skipped(s)) /\ Cardinality(Skipped(s)) \in Nat
    BY <1>0, ListedFinite, FS_Subset, FS_CardinalityType DEF Skipped
  <2>5. \A s \in Senders : /\ Cardinality(Skipped(s)') <= Cardinality(Skipped(s))
                           /\ Cardinality(Skipped(s)') \in Nat
    BY <2>3, <2>4, FS_Subset, FS_CardinalityType
  <2>6. SkipsBounded'
    BY <2>1, <2>4, <2>5 DEF SkipsBounded, HubInv, TypeOK
  <2>7. QED
    BY <2>1, <2>6 DEF OnlyJoinedHeard, HubInv, TypeOK
<1>2. ASSUME NEW c \in Clients, Break(c) PROVE OnlyJoinedHeard' /\ SkipsBounded'
  <2>1. \A r \in Senders : Skipped(r)' = Skipped(r)
    BY <1>2 DEF Break, Skipped, Listed, Ahead
  <2>2. UNCHANGED <<target, removals, audience>> /\ socket' = [socket EXCEPT ![c] = "broken"]
    BY <1>2 DEF Break
  <2>3. QED
    BY <2>1, <2>2 DEF OnlyJoinedHeard, SkipsBounded, HubInv, TypeOK
<1>3. ASSUME NEW c \in Clients, Leave(c) PROVE OnlyJoinedHeard' /\ SkipsBounded'
  <2>1. SkipsBounded'
    BY <1>3, StaysBounded DEF Leave, SkipsBounded
  <2>2. OnlyJoinedHeard'
    BY <1>3 DEF Leave, OnlyJoinedHeard, HubInv, TypeOK
  <2>3. QED
    BY <2>1, <2>2
<1>4. ASSUME NEW s \in Senders, Broadcast(s) PROVE OnlyJoinedHeard' /\ SkipsBounded'
  <2>1. /\ target[s] = NoClient /\ conns # <<>> /\ target' = [target EXCEPT ![s] = conns[1]]
        /\ cursor' = [cursor EXCEPT ![s] = 2] /\ audience' = [audience EXCEPT ![s] = Listed]
        /\ reached' = [reached EXCEPT ![s] = {}] /\ UNCHANGED <<conns, socket, removals>>
    BY <1>4 DEF Broadcast
  <2>2. target'[s] = conns[1] /\ cursor'[s] = 2 /\ audience'[s] = Listed /\ reached'[s] = {}
    BY <2>1 DEF HubInv, TypeOK
  <2>3. Skipped(s)' = {}
    BY <2>1, <2>2, <1>0 DEF Skipped, Listed, Ahead
  <2>4. removals'[s] = 0
    BY <2>1 DEF SkipsBounded
  <2>5. \A r \in Senders \ {s} : Skipped(r)' = Skipped(r) /\ target'[r] = target[r]
    BY <2>1 DEF Skipped, Listed, Ahead, HubInv, TypeOK
  <2>6. SkipsBounded'
    <3>1. Cardinality(Skipped(s)') <= removals'[s]
      <4>1. Cardinality({}) = 0
        BY FS_EmptySet
      <4>2. QED
        BY <2>3, <2>4, <4>1
    <3>2. ASSUME NEW r \in Senders, r # s
          PROVE  IF target'[r] = NoClient THEN removals'[r] = 0
                 ELSE Cardinality(Skipped(r)') <= removals'[r]
      BY <2>1, <2>5, <3>2 DEF SkipsBounded
    <3>3. QED
      BY <2>4, <3>1, <3>2 DEF SkipsBounded
  <2>7. OnlyJoinedHeard'
    BY <2>1 DEF OnlyJoinedHeard, HubInv, OnlyJoined, TypeOK
  <2>8. QED
    BY <2>6, <2>7
<1>5. ASSUME NEW s \in Senders, Deliver(s) PROVE OnlyJoinedHeard' /\ SkipsBounded'
  BY <1>5, SendBounded DEF Deliver
<1>6. ASSUME NEW s \in Senders, DeliverFails(s) PROVE OnlyJoinedHeard' /\ SkipsBounded'
  <2>1. target[s] \notin Listed'
    BY <1>6, DisconnectFacts DEF DeliverFails, HubInv
  <2>2. QED
    BY <1>6, <2>1, SendBounded DEF DeliverFails
<1>7. CASE UNCHANGED hubVars
  BY <1>7 DEF hubVars, OnlyJoinedHeard, SkipsBounded, Skipped, Listed, Ahead
<1>8. QED
  BY <1>1, <1>2, <1>3, <1>4, <1>5, <1>6, <1>7 DEF Next, Dashboard, Sending

\* A broadcast returns when its iterator is exhausted: nobody lies ahead of it.
LEMMA ReturnMisses ==
    ASSUME HubAssumption, MissInv, [Next]_hubVars, NEW s \in Senders, target[s] # NoClient,
           target'[s] = NoClient
    PROVE  Cardinality(Missed(s)) <= Removed(s)
<1>1. PICK sent : /\ Moves(s, conns', sent)
                  /\ conns' = conns \/ Disconnect(target[s])
  <2>1. ~UNCHANGED target
    OBVIOUS
  <2>2. PICK r \in Senders : Broadcast(r) \/ Sending(r)
    BY <2>1 DEF Next, Dashboard, Connect, Break, Leave, hubVars
  <2>3. r = s /\ Sending(s)
    <3>1. ASSUME Broadcast(r) PROVE FALSE
      <4>1. target[r] = NoClient /\ target' = [target EXCEPT ![r] = conns[1]]
        BY <3>1 DEF Broadcast
      <4>2. QED
        BY <4>1 DEF MissInv, HubInv, TypeOK
    <3>2. r = s
      BY <2>2, <3>1 DEF Sending, Deliver, DeliverFails, Moves, MissInv, HubInv, TypeOK
    <3>3. QED
      BY <2>2, <3>1, <3>2
  <2>4. QED
    BY <2>3 DEF Sending, Deliver, DeliverFails
<1>2. /\ conns \in Seq(Clients) /\ Len(conns) \in Nat /\ cursor[s] \in Nat
      /\ conns' \in Seq(Clients) /\ Len(conns') \in Nat /\ target[s] \in Clients
  BY <1>1, DisconnectFacts DEF MissInv, HubInv, TypeOK
<1>3. cursor[s] > Len(conns')
  <2> SUFFICES ASSUME ~Exhausted(s, conns') PROVE FALSE
    BY DEF Exhausted
  <2>1. target'[s] = conns'[cursor[s]]
    BY <1>1 DEF Moves, MissInv, HubInv, TypeOK
  <2>2. cursor[s] \in 1..Len(conns')
    BY <1>2 DEF Exhausted, MissInv, HubInv, TypeOK
  <2>3. conns'[cursor[s]] \in Clients
    BY <1>2, <2>2
  <2>4. QED
    BY <2>1, <2>3 DEF HubAssumption
<1>4. Missed(s) = Over(s, conns')
  <2>1. \A j \in DOMAIN conns' : ~(j >= cursor[s])
    BY <1>2, <1>3
  <2>2. QED
    BY <2>1 DEF Missed, Over, Listed
<1>5. /\ Cardinality(Over(s, conns')) <= Cardinality(Skipped(s)) + Len(conns) - Len(conns')
      /\ Cardinality(Over(s, conns')) \in Nat
  BY <1>1, RemovalSkips DEF MissInv, HubInv
<1>6. Cardinality(Skipped(s)) \in Nat
  BY <1>2, ListedFinite, FS_Subset, FS_CardinalityType DEF Skipped
<1>7. Cardinality(Skipped(s)) <= removals[s] /\ removals[s] \in Nat
  BY DEF MissInv, SkipsBounded, HubInv, TypeOK
<1>8. QED
  BY <1>2, <1>4, <1>5, <1>6, <1>7 DEF Removed

\* MissInv, inductive.
THEOREM MissInvariant == ASSUME HubAssumption PROVE Spec => []MissInv
<1>1. Init => MissInv
  BY HubInvInit, MissInit DEF MissInv
<1>2. MissInv /\ [Next]_hubVars => MissInv'
  BY HubInvStep, MissStep DEF MissInv
<1>3. QED
  BY <1>1, <1>2, PTL DEF Spec

\* A dashboard of the audience that is still listed when a broadcast returns missed the message
\* only because of a removal meanwhile, and each removal costs one dashboard at most
\* (socket_manager.py: broadcast's iteration beside connect and disconnect).
THEOREM MissesAreRemovals == ASSUME HubAssumption PROVE Spec => MissedOnlyByRemoval
<1>1. MissInv /\ [Next]_hubVars =>
          [\A s \in Senders : target[s] # NoClient /\ target'[s] = NoClient
              => Cardinality(Missed(s)) <= Removed(s)]_hubVars
  BY ReturnMisses
<1>2. QED
  BY <1>1, MissInvariant, PTL DEF Spec, MissedOnlyByRemoval

=============================================================================
