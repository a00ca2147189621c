------------------------ MODULE BulkVideoQueue_proofs ------------------------
(***************************************************************************)
(* Machine-checked proofs about BulkVideoQueue, for every number of        *)
(* batches, every set of accounts and videos, and every value of the       *)
(* switches.                                                               *)
(***************************************************************************)
EXTENDS BulkVideoQueue, FiniteSetTheorems, TLAPS

\* What the unfinished batches hold.
LiveHolds == UNION {Holds(b) : b \in Live}

\* The part of IndInv that is about videos, spares and claims.
BookInv == ClaimTypes /\ ItemsExist /\ OneOwner /\ ClaimsExact /\ UsedApart

\* A used video of an unfinished batch is one that batch holds.
LEMMA UsedGone ==
    ASSUME ItemsExist, ClaimTypes
    PROVE  LiveHolds \cup Used = LiveHolds \cup Gone
<1>1. ASSUME NEW k \in Items, item[k] \in Spent, k[1] \in Live
      PROVE  video[k] \in LiveHolds
  <2>1. video[k] # NoVideo BY <1>1 DEF ItemsExist, Spent
  <2>2. k \in ItemsOf(k[1]) BY <2>1 DEF ItemsOf
  <2>3. video[k] \in Holds(k[1]) BY <2>2 DEF Holds
  <2>4. QED BY <1>1, <2>3 DEF LiveHolds
<1>2. QED BY <1>1 DEF Used, Gone

\* Hence the claims, without the statuses of the items of unfinished batches.
LEMMA ClaimsAre ==
    ASSUME ItemsExist, ClaimTypes
    PROVE  ClaimsExact <=> claimed = LiveHolds \cup Gone
BY UsedGone DEF ClaimsExact, LiveHolds

\* The same, after a step.
LEMMA ClaimsAreNext ==
    ASSUME ItemsExist', ClaimTypes'
    PROVE  ClaimsExact' <=> claimed' = (LiveHolds \cup Gone)'
<1>1. (LiveHolds \cup Used)' = (LiveHolds \cup Gone)'
  <2>1. ASSUME NEW k \in Items, item'[k] \in Spent, k[1] \in Live'
        PROVE  video'[k] \in LiveHolds'
    <3>1. video'[k] # NoVideo BY <2>1 DEF ItemsExist, Spent
    <3>2. k \in ItemsOf(k[1])' BY <3>1 DEF ItemsOf
    <3>3. video'[k] \in Holds(k[1])' BY <3>2 DEF Holds
    <3>4. QED BY <2>1, <3>3 DEF LiveHolds
  <2>2. QED BY <2>1 DEF Used, Gone
<1>2. QED BY <1>1 DEF ClaimsExact, LiveHolds

-----------------------------------------------------------------------------
(* Steps that leave the books alone, but for statuses of live items.       *)

\* Statuses of live items may change as long as no item appears or disappears.
LEMMA Marked ==
    ASSUME BookInv, ClaimTypes',
           UNCHANGED <<bstatus, video, spares, rejected, claimed>>,
           \A i \in Items : item'[i] = "none" <=> item[i] = "none",
           \A i \in Items : i[1] \notin Live => item'[i] = item[i]
    PROVE  BookInv'
<1> USE DEF BookInv
<1>1. Live' = Live BY DEF Live
<1>2. \A b \in Batches : ItemsOf(b)' = ItemsOf(b) BY DEF ItemsOf
<1>3. \A b \in Batches : Holds(b)' = Holds(b) BY <1>2 DEF Holds
<1>4. ItemsExist' BY DEF ItemsExist
<1>5. OneOwner' BY <1>1 DEF OneOwner
<1>6. LiveHolds' = LiveHolds BY <1>1, <1>3 DEF LiveHolds, Live
<1>7. Gone' = Gone
  <2>1. {k \in Items : item[k] \in Spent /\ k[1] \notin Live}'
            = {k \in Items : item[k] \in Spent /\ k[1] \notin Live}
      BY <1>1
  <2>2. QED BY <2>1 DEF Gone
<1>8. ClaimsExact' BY <1>4, <1>6, <1>7, ClaimsAre, ClaimsAreNext
<1>9. UsedApart' BY <1>1, <1>7 DEF UsedApart
<1>10. QED BY <1>4, <1>5, <1>8, <1>9

\* A step that leaves batches, items and claims alone keeps the books.
LEMMA BooksStill ==
    ASSUME BookInv, UNCHANGED <<bstatus, claimVars>>
    PROVE  BookInv'
<1>1. ClaimTypes' BY DEF BookInv, ClaimTypes, claimVars
<1>2. QED BY <1>1, Marked DEF claimVars

-----------------------------------------------------------------------------
(* The end of batches.                                                     *)

\* What the finally clauses release is held by the batches that end, and nobody
\* needs it any more; what they hold beyond that has been used.
LEMMA FreedHeld ==
    ASSUME BookInv, NEW B \in SUBSET Batches, B \subseteq Live
    PROVE  /\ Freed(B) \subseteq UNION {Holds(b) : b \in B}
           /\ \A b \in B : Holds(b) \ Freed(B) \subseteq Used
<1>1. Freed(B) \subseteq UNION {Holds(b) : b \in B}
    BY DEF Freed, Holds, ItemsOf
<1>2. ASSUME NEW b \in B, NEW v \in Holds(b), v \notin Freed(B)
      PROVE  v \in Used
  <2>1. CASE v \in rejected[b] BY <2>1 DEF Used
  <2>2. CASE v \in spares[b] BY <2>2, <1>2 DEF Freed
  <2>3. CASE v \in {video[i] : i \in ItemsOf(b)}
    <3>1. PICK i \in ItemsOf(b) : v = video[i] BY <2>3
    <3>2. i \in Items BY <3>1 DEF ItemsOf
    <3>3. item[i] \in Spent BY <3>1, <3>2, <1>2 DEF Freed
    <3>4. QED BY <3>1, <3>2, <3>3 DEF Used
  <2>4. QED BY <1>2, <2>1, <2>2, <2>3 DEF Holds
<1>3. QED BY <1>1, <1>2

\* What an unfinished batch holds that is not used is held by it alone.
LEMMA FreedAlone ==
    ASSUME BookInv, NEW B \in SUBSET Batches, B \subseteq Live
    PROVE  /\ Freed(B) \cap Used = {}
           /\ \A c \in Live \ B : Freed(B) \cap Holds(c) = {}
<1> USE DEF BookInv
<1>1. ASSUME NEW b \in B, NEW i \in ItemsOf(b), item[i] \notin Spent
      PROVE  /\ video[i] \notin Used
             /\ \A c \in Live \ B : video[i] \notin Holds(c)
  <2>1. i \in Items /\ i[1] = b /\ i[1] \in Live /\ video[i] # NoVideo
      BY <1>1 DEF ItemsOf
  <2>2. video[i] \notin Gone BY <2>1 DEF UsedApart
  <2>3. \A k \in Items : item[k] \in Spent => video[k] # video[i]
    <3>1. ASSUME NEW k \in Items, item[k] \in Spent, video[k] = video[i] PROVE FALSE
      <4>1. CASE k[1] \notin Live BY <2>2, <3>1, <4>1 DEF Gone
      <4>2. CASE k[1] \in Live
        <5>1. k = i BY <2>1, <3>1, <4>2 DEF OneOwner
        <5>2. QED BY <5>1, <3>1, <1>1
      <4>3. QED BY <4>1, <4>2
    <3>2. QED BY <3>1
  <2>4. \A c \in Batches : video[i] \notin rejected[c] BY <2>2 DEF Gone
  <2>5. video[i] \notin Used BY <2>3, <2>4 DEF Used
  <2>6. ASSUME NEW c \in Live \ B PROVE video[i] \notin Holds(c)
    <3>1. c \in Batches /\ c # b BY <1>1 DEF Live
    <3>2. video[i] \notin spares[c] BY <2>1, <3>1, <2>6 DEF OneOwner
    <3>3. ASSUME NEW k \in ItemsOf(c), video[k] = video[i] PROVE FALSE
      <4>1. k \in Items /\ k[1] = c /\ k[1] \in Live BY <2>6 DEF ItemsOf
      <4>2. k = i BY <2>1, <3>3, <4>1 DEF OneOwner
      <4>3. QED BY <2>1, <3>1, <4>1, <4>2
    <3>4. QED BY <2>4, <3>1, <3>2, <3>3 DEF Holds
  <2>7. QED BY <2>5, <2>6
<1>2. ASSUME NEW b \in B, NEW v \in spares[b]
      PROVE  v \notin Used /\ \A c \in Live \ B : v \notin Holds(c)
  <2>1. b \in Batches /\ b \in Live /\ v \in Videos BY <1>2 DEF ClaimTypes
  <2>2. v \notin Gone BY <2>1, <1>2 DEF UsedApart
  <2>3. \A k \in Items : k[1] \in Live => video[k] # v BY <2>1, <1>2 DEF OneOwner
  <2>4. \A k \in Items : item[k] \in Spent => video[k] # v
    <3>1. ASSUME NEW k \in Items, item[k] \in Spent, video[k] = v PROVE FALSE
      <4>1. k[1] \notin Live BY <3>1, <2>3
      <4>2. QED BY <3>1, <4>1, <2>2 DEF Gone
    <3>2. QED BY <3>1
  <2>5. \A c \in Batches : v \notin rejected[c] BY <2>2 DEF Gone
  <2>6. v \notin Used BY <2>4, <2>5 DEF Used
  <2>7. ASSUME NEW c \in Live \ B PROVE v \notin Holds(c)
    <3>1. c \in Batches /\ c # b BY <1>2 DEF Live
    <3>2. v \notin spares[c] BY <2>1, <2>7, <3>1, <1>2 DEF OneOwner
    <3>3. \A k \in ItemsOf(c) : video[k] # v BY <2>3, <2>7 DEF ItemsOf
    <3>4. QED BY <2>5, <3>1, <3>2, <3>3 DEF Holds
  <2>8. QED BY <2>6, <2>7
<1>3. ASSUME NEW v \in Freed(B) PROVE v \notin Used /\ \A c \in Live \ B : v \notin Holds(c)
  <2>1. CASE \E b \in B : v \in spares[b] BY <2>1, <1>2
  <2>2. CASE \E b \in B : \E i \in ItemsOf(b) : item[i] \notin Spent /\ v = video[i]
    BY <2>2, <1>1
  <2>3. QED BY <1>3, <2>1, <2>2 DEF Freed
<1>4. QED BY <1>3

\* The end of batches releases what no other batch needs and nothing used.
LEMMA Concluded ==
    ASSUME BookInv, NEW B \in SUBSET Batches, B \subseteq Live,
           ClaimTypes', Live' = Live \ B, claimed' = claimed \ Freed(B),
           \A b \in Batches : bstatus'[b] = "none" => bstatus[b] = "none",
           UNCHANGED <<video, item, spares, rejected>>
    PROVE  BookInv'
<1> USE DEF BookInv
<1>1. \A b \in Batches : ItemsOf(b)' = ItemsOf(b) BY DEF ItemsOf
<1>2. \A b \in Batches : Holds(b)' = Holds(b) BY <1>1 DEF Holds
<1>3. Used' = Used BY DEF Used
<1>4. ItemsExist' BY DEF ItemsExist
<1>5. OneOwner' BY DEF OneOwner
<1>6. ClaimsExact'
  <2>1. claimed = LiveHolds \cup Used BY DEF ClaimsExact, LiveHolds
  <2>2. LiveHolds' = UNION {Holds(b) : b \in Live \ B}
      BY <1>2 DEF LiveHolds, Live
  <2>3. LiveHolds' \cup Used \subseteq claimed'
      BY <2>1, <2>2, FreedAlone DEF LiveHolds
  <2>4. ASSUME NEW v \in claimed' PROVE v \in LiveHolds' \cup Used
    <3>1. v \in LiveHolds \cup Used /\ v \notin Freed(B) BY <2>1, <2>4
    <3>2. CASE v \in Used BY <3>2
    <3>3. CASE v \in LiveHolds
      <4>1. PICK b \in Live : v \in Holds(b) BY <3>3 DEF LiveHolds
      <4>2. CASE b \in B BY <4>1, <4>2, <3>1, FreedHeld
      <4>3. CASE b \notin B BY <4>1, <4>3, <2>2
      <4>4. QED BY <4>2, <4>3
    <3>4. QED BY <3>1, <3>2, <3>3
  <2>5. claimed' = LiveHolds' \cup Used' BY <2>3, <2>4, <1>3
  <2>6. QED BY <2>5 DEF ClaimsExact, LiveHolds
<1>7. UsedApart'
  <2>1. \A k \in Items : item[k] \in Spent => video[k] # NoVideo
      BY DEF ItemsExist, Spent
  <2>2. ASSUME NEW i \in Items, i[1] \in Live' PROVE video'[i] \notin Gone'
    <3>1. i[1] \in Live /\ i[1] \notin B /\ video[i] \notin Gone
        BY <2>2 DEF UsedApart
    <3>2. ASSUME NEW k \in Items, item[k] \in Spent, k[1] \notin Live', video[k] = video[i]
          PROVE  FALSE
      <4>1. CASE k[1] \in Live
        <5>1. k = i BY <2>1, <3>1, <3>2, <4>1 DEF OneOwner
        <5>2. QED BY <5>1, <3>2, <2>2
      <4>2. CASE k[1] \notin Live BY <3>1, <3>2, <4>2 DEF Gone
      <4>3. QED BY <4>1, <4>2
    <3>3. QED BY <3>1, <3>2 DEF Gone
  <2>3. ASSUME NEW b \in Live' PROVE spares'[b] \cap Gone' = {}
    <3>1. b \in Live /\ b \in Batches /\ b \notin B /\ spares[b] \cap Gone = {}
        BY <2>3 DEF UsedApart, Live
    <3>2. ASSUME NEW k \in Items, item[k] \in Spent, k[1] \notin Live', video[k] \in spares[b]
          PROVE  FALSE
      <4>1. CASE k[1] \in Live BY <3>1, <3>2, <4>1 DEF OneOwner
      <4>2. CASE k[1] \notin Live BY <3>1, <3>2, <4>2 DEF Gone
      <4>3. QED BY <4>1, <4>2
    <3>3. QED BY <3>1, <3>2 DEF Gone
  <2>4. QED BY <2>2, <2>3 DEF UsedApart
<1>8. QED BY <1>4, <1>5, <1>6, <1>7

-----------------------------------------------------------------------------
(* A batch begins, a spare replaces a duplicate, the process restarts.     *)

\* A batch that begins to run keeps what it has.
LEMMA Started ==
    ASSUME BookInv, NEW b \in Batches, BatchStart(b)
    PROVE  BookInv' /\ Live' = Live
<1> USE DEF BookInv
<1>1. bstatus[b] = "PENDING" /\ bstatus' = [bstatus EXCEPT ![b] = "RUNNING"]
      /\ UNCHANGED claimVars
    BY DEF BatchStart
<1>2. ClaimTypes' BY <1>1 DEF ClaimTypes, claimVars
<1>3. Live' = Live /\ \A c \in Batches : bstatus'[c] = "none" <=> bstatus[c] = "none"
    BY <1>1 DEF ClaimTypes, Live
<1>4. \A c \in Batches : Holds(c)' = Holds(c) BY <1>1 DEF Holds, ItemsOf, claimVars
<1>5. Used' = Used /\ Gone' = Gone BY <1>1, <1>3 DEF Used, Gone, claimVars
<1>6. ItemsExist' BY <1>1, <1>3 DEF ItemsExist, claimVars
<1>7. OneOwner' BY <1>1, <1>3 DEF OneOwner, claimVars
<1>8. ClaimsExact' BY <1>1, <1>3, <1>4, <1>5 DEF ClaimsExact, claimVars, Live
<1>9. UsedApart' BY <1>1, <1>3, <1>5 DEF UsedApart, claimVars
<1>10. QED BY <1>2, <1>3, <1>6, <1>7, <1>8, <1>9

\* add(): the new batch gets videos that nobody had.
LEMMA AddedFacts ==
    ASSUME BookInv, NEW b \in Batches, NEW A \in SUBSET Accounts, NEW per \in PerAccount,
           NEW offered \in SUBSET Videos, NEW own \in Injection(A \X (1 .. per), offered \ claimed),
           bstatus[b] = "none",
           video' = [i \in Items |->
                     IF i[1] = b /\ <<i[2], i[3]>> \in DOMAIN own
                     THEN own[<<i[2], i[3]>>] ELSE video[i]],
           item' = [i \in Items |->
                     IF i[1] = b /\ <<i[2], i[3]>> \in DOMAIN own
                     THEN "PENDING" ELSE item[i]],
           spares' = [spares EXCEPT ![b] = (offered \ claimed) \ Range(own)]
    PROVE  /\ \A i \in Items : i[1] # b => video'[i] = video[i] /\ item'[i] = item[i]
           /\ \A i \in Items : i[1] = b => \/ video'[i] = NoVideo /\ item'[i] = "none"
                                           \/ video'[i] \in Range(own) /\ item'[i] = "PENDING"
           /\ \A i, k \in Items : i[1] = b /\ k[1] = b /\ video'[i] = video'[k]
                                  /\ video'[i] # NoVideo => i = k
           /\ \A i \in Items : i[1] = b /\ video'[i] # NoVideo
                                  => video'[<<i[1], i[2], 1>>] # NoVideo
           /\ \A v \in Range(own) : \E i \in Items : i[1] = b /\ video'[i] = v
           /\ Range(own) \subseteq offered \ claimed
<1> USE BulkAssumption DEF BookInv
<1> DEFINE D == A \X (1 .. per)
<1>1. own \in [D -> offered \ claimed] /\ DOMAIN own = D
      /\ \A x, y \in D : own[x] = own[y] => x = y
    BY DEF Injection, IsInjective
<1>2. per \in Nat \ {0} /\ 1 .. per \subseteq Slots BY DEF Slots
<1>3. \A i \in Items : i = <<i[1], i[2], i[3]>> /\ i[1] \in Batches /\ i[2] \in Accounts
                       /\ i[3] \in Slots
    BY DEF Items
<1>4. \A x \in D : x = <<x[1], x[2]>> /\ x[1] \in A /\ x[2] \in 1 .. per
    OBVIOUS
<1>5. Range(own) = {own[x] : x \in D} BY <1>1 DEF Range
<1>6. Range(own) \subseteq offered \ claimed BY <1>1, <1>5
<1>7. \A i \in Items : i[1] # b => video'[i] = video[i] /\ item'[i] = item[i]
    OBVIOUS
<1>8. \A i \in Items : i[1] = b => video[i] = NoVideo /\ item[i] = "none"
    BY DEF ItemsExist
<1>9. \A i \in Items : i[1] = b /\ <<i[2], i[3]>> \in D
          => video'[i] = own[<<i[2], i[3]>>] /\ item'[i] = "PENDING"
             /\ video'[i] \in Range(own) /\ video'[i] # NoVideo
    BY <1>1, <1>5, <1>6
<1>10. \A i \in Items : i[1] = b /\ <<i[2], i[3]>> \notin D
          => video'[i] = NoVideo /\ item'[i] = "none"
    BY <1>1, <1>8
<1>11. \A i, k \in Items : i[1] = b /\ k[1] = b /\ video'[i] = video'[k]
                           /\ video'[i] # NoVideo => i = k
  <2>1. SUFFICES ASSUME NEW i \in Items, NEW k \in Items, i[1] = b, k[1] = b,
                        video'[i] = video'[k], video'[i] # NoVideo
                 PROVE  i = k
      OBVIOUS
  <2>2. <<i[2], i[3]>> \in D /\ <<k[2], k[3]>> \in D BY <2>1, <1>10
  <2>3. own[<<i[2], i[3]>>] = own[<<k[2], k[3]>>] BY <2>1, <2>2, <1>9
  <2>4. <<i[2], i[3]>> = <<k[2], k[3]>> BY <2>2, <2>3, <1>1
  <2>5. i[2] = k[2] /\ i[3] = k[3] BY <2>4
  <2>6. QED BY <2>1, <2>5, <1>3
<1>12. \A i \in Items : i[1] = b /\ video'[i] # NoVideo => video'[<<i[1], i[2], 1>>] # NoVideo
  <2>1. SUFFICES ASSUME NEW i \in Items, i[1] = b, video'[i] # NoVideo
                 PROVE  video'[<<i[1], i[2], 1>>] # NoVideo
      OBVIOUS
  <2>2. <<i[2], i[3]>> \in D BY <2>1, <1>10
  <2>3. <<i[2], 1>> \in D BY <2>2, <1>2
  <2>4. <<i[1], i[2], 1>> \in Items BY <1>2, <1>3 DEF Items
  <2>5. QED BY <2>1, <2>3, <2>4, <1>9
<1>13. \A v \in Range(own) : \E i \in Items : i[1] = b /\ video'[i] = v
  <2>1. SUFFICES ASSUME NEW v \in Range(own)
                 PROVE  \E i \in Items : i[1] = b /\ video'[i] = v
      OBVIOUS
  <2>2. PICK x \in D : v = own[x] BY <2>1, <1>5
  <2>3. <<b, x[1], x[2]>> \in Items BY <1>2, <1>4 DEF Items
  <2>4. <<x[1], x[2]>> \in D /\ own[<<x[1], x[2]>>] = v BY <2>2, <1>4
  <2>5. video'[<<b, x[1], x[2]>>] = v BY <2>3, <2>4, <1>9
  <2>6. QED BY <2>3, <2>5
<1>14. QED
  <2>1. \A i \in Items : i[1] = b => \/ video'[i] = NoVideo /\ item'[i] = "none"
                                     \/ video'[i] \in Range(own) /\ item'[i] = "PENDING"
      BY <1>9, <1>10
  <2>2. QED BY <2>1, <1>6, <1>7, <1>11, <1>12, <1>13

\* What every add() does, once its assignment is chosen: S are the assigned videos.
AddsWith(b, free, S) ==
    /\ bstatus[b] = "none" /\ b \notin Live
    /\ bstatus' = [bstatus EXCEPT ![b] = "PENDING"]
    /\ spares' = [spares EXCEPT ![b] = free \ S]
    /\ claimed' = claimed \cup free
    /\ rejected' = rejected
    /\ ClaimTypes'
    /\ \A i \in Items : i[1] # b => video'[i] = video[i] /\ item'[i] = item[i]
    /\ \A i \in Items : i[1] = b => \/ video'[i] = NoVideo /\ item'[i] = "none"
                                    \/ video'[i] \in S /\ item'[i] = "PENDING"
    /\ \A i, k \in Items : i[1] = b /\ k[1] = b /\ video'[i] = video'[k]
                           /\ video'[i] # NoVideo => i = k
    /\ \A i \in Items : i[1] = b /\ video'[i] # NoVideo
                           => video'[<<i[1], i[2], 1>>] # NoVideo
    /\ \A v \in S : \E i \in Items : i[1] = b /\ video'[i] = v

\* add() chooses some assigned videos and keeps the rest as spares.
LEMMA AddShape ==
    ASSUME BookInv, NEW b \in Batches, NEW A \in SUBSET Accounts, NEW per \in PerAccount,
           NEW offered \in SUBSET Videos, Add(b, A, per, offered)
    PROVE  \E S \in SUBSET (offered \ claimed) : AddsWith(b, offered \ claimed, S)
<1> USE BulkAssumption
<1>1. PICK own \in Injection(A \X (1 .. per), offered \ claimed) :
        /\ video' = [i \in Items |->
                     IF i[1] = b /\ <<i[2], i[3]>> \in DOMAIN own
                     THEN own[<<i[2], i[3]>>] ELSE video[i]]
        /\ item' = [i \in Items |->
                     IF i[1] = b /\ <<i[2], i[3]>> \in DOMAIN own
                     THEN "PENDING" ELSE item[i]]
        /\ spares' = [spares EXCEPT ![b] = (offered \ claimed) \ Range(own)]
        /\ claimed' = claimed \cup (offered \ claimed)
    BY DEF Add, Available, Assignments, Claimed
<1>2. bstatus[b] = "none" /\ bstatus' = [bstatus EXCEPT ![b] = "PENDING"]
      /\ rejected' = rejected
    BY DEF Add
<1>3. b \notin Live BY <1>2 DEF Live
<1>4. /\ \A i \in Items : i[1] # b => video'[i] = video[i] /\ item'[i] = item[i]
      /\ \A i \in Items : i[1] = b => \/ video'[i] = NoVideo /\ item'[i] = "none"
                                      \/ video'[i] \in Range(own) /\ item'[i] = "PENDING"
      /\ \A i, k \in Items : i[1] = b /\ k[1] = b /\ video'[i] = video'[k]
                             /\ video'[i] # NoVideo => i = k
      /\ \A i \in Items : i[1] = b /\ video'[i] # NoVideo
                             => video'[<<i[1], i[2], 1>>] # NoVideo
      /\ \A v \in Range(own) : \E i \in Items : i[1] = b /\ video'[i] = v
      /\ Range(own) \subseteq offered \ claimed
    BY <1>1, <1>2, AddedFacts
<1>5. ClaimTypes'
  <2>1. ClaimTypes BY DEF BookInv
  <2>2. video' \in [Items -> Videos \cup {NoVideo}]
    <3>1. \A i \in Items : video'[i] \in Videos \cup {NoVideo} BY <2>1, <1>4 DEF ClaimTypes
    <3>2. QED BY <3>1, <1>1
  <2>3. item' \in [Items -> {"none", "PENDING", "SUBMITTING", "RUNNING"} \cup Settled]
    <3>1. \A i \in Items : item'[i] \in {"none", "PENDING", "SUBMITTING", "RUNNING"} \cup Settled
        BY <2>1, <1>4 DEF ClaimTypes
    <3>2. QED BY <3>1, <1>1
  <2>4. bstatus' \in [Batches -> {"none", "PENDING", "RUNNING", "forgotten"} \cup Finished]
      BY <2>1, <1>2 DEF ClaimTypes
  <2>5. spares' \in [Batches -> SUBSET Videos] BY <2>1, <1>1 DEF ClaimTypes
  <2>6. rejected' \in [Batches -> SUBSET Videos] /\ claimed' \subseteq Videos
      BY <2>1, <1>1, <1>2 DEF ClaimTypes
  <2>7. QED BY <2>2, <2>3, <2>4, <2>5, <2>6 DEF ClaimTypes
<1>6. QED
  <2>1. Range(own) \in SUBSET (offered \ claimed) BY <1>4
  <2>2. QED BY <2>1, <1>1, <1>2, <1>3, <1>4, <1>5 DEF AddsWith

\* After add() the new batch holds exactly what was offered and unclaimed.
LEMMA Added ==
    ASSUME BookInv, NEW b \in Batches, NEW A \in SUBSET Accounts, NEW per \in PerAccount,
           NEW offered \in SUBSET Videos, Add(b, A, per, offered)
    PROVE  /\ BookInv'
           /\ b \notin Live /\ Live' = Live \cup {b}
           /\ Holds(b)' = offered \ claimed /\ claimed' = claimed \cup (offered \ claimed)
           /\ \A c \in Batches : c # b => Holds(c)' = Holds(c)
           /\ \A i \in Items : video[i] # NoVideo => video'[i] # NoVideo
<1> USE BulkAssumption DEF BookInv
<1> DEFINE free == offered \ claimed
<1>0. PICK S \in SUBSET free : AddsWith(b, free, S) BY AddShape
<1>1. /\ bstatus[b] = "none" /\ b \notin Live
      /\ bstatus' = [bstatus EXCEPT ![b] = "PENDING"]
      /\ spares' = [spares EXCEPT ![b] = free \ S]
      /\ claimed' = claimed \cup free
      /\ rejected' = rejected
      /\ ClaimTypes'
      /\ \A i \in Items : i[1] # b => video'[i] = video[i] /\ item'[i] = item[i]
      /\ \A i \in Items : i[1] = b => \/ video'[i] = NoVideo /\ item'[i] = "none"
                                      \/ video'[i] \in S /\ item'[i] = "PENDING"
      /\ \A i, k \in Items : i[1] = b /\ k[1] = b /\ video'[i] = video'[k]
                             /\ video'[i] # NoVideo => i = k
      /\ \A i \in Items : i[1] = b /\ video'[i] # NoVideo
                             => video'[<<i[1], i[2], 1>>] # NoVideo
      /\ \A v \in S : \E i \in Items : i[1] = b /\ video'[i] = v
    BY <1>0 DEF AddsWith
<1>2. NoVideo \notin free /\ free \cap claimed = {} /\ free \subseteq Videos OBVIOUS
<1>3. Live' = Live \cup {b} BY <1>1 DEF Live, ClaimTypes
<1>4. spares'[b] = free \ S /\ \A c \in Batches : c # b => spares'[c] = spares[c]
    BY <1>1 DEF ClaimTypes
<1>5. rejected[b] = {} /\ \A i \in Items : i[1] = b => video[i] = NoVideo
    BY <1>1 DEF ItemsExist
<1>6. \A c \in Batches : c # b => ItemsOf(c)' = ItemsOf(c)
    BY <1>1 DEF ItemsOf
<1>7. \A c \in Batches : c # b => Holds(c)' = Holds(c)
  <2>1. SUFFICES ASSUME NEW c \in Batches, c # b PROVE Holds(c)' = Holds(c)
      OBVIOUS
  <2>2. \A i \in ItemsOf(c) : video'[i] = video[i] BY <2>1, <1>1 DEF ItemsOf
  <2>3. QED BY <2>1, <2>2, <1>1, <1>4, <1>6 DEF Holds
<1>8. Holds(b)' = free
  <2>1. \A i \in Items : i[1] = b => video'[i] \in S \cup {NoVideo} BY <1>1
  <2>2. {video'[i] : i \in ItemsOf(b)'} = S
    <3>1. {video'[i] : i \in ItemsOf(b)'} \subseteq S BY <2>1 DEF ItemsOf
    <3>2. ASSUME NEW v \in S PROVE v \in {video'[i] : i \in ItemsOf(b)'}
      <4>1. PICK i \in Items : i[1] = b /\ video'[i] = v BY <1>1
      <4>2. video'[i] # NoVideo BY <4>1, <1>2
      <4>3. i \in ItemsOf(b)' BY <4>1, <4>2 DEF ItemsOf
      <4>4. QED BY <4>1, <4>3
    <3>3. QED BY <3>1, <3>2
  <2>3. Holds(b)' = {video'[i] : i \in ItemsOf(b)'} \cup spares'[b] \cup rejected'[b]
      BY DEF Holds
  <2>4. QED BY <2>2, <2>3, <1>1, <1>4, <1>5
<1>9. Gone' = Gone /\ Gone \subseteq claimed
  <2>1. \A k \in Items : item'[k] \in Spent /\ k[1] \notin Live'
            <=> item[k] \in Spent /\ k[1] \notin Live
    <3>1. ASSUME NEW k \in Items, k[1] = b PROVE item'[k] \notin Spent /\ item[k] \notin Spent
      BY <1>1, <1>5, <3>1 DEF Spent, ItemsExist
    <3>2. QED BY <3>1, <1>1, <1>3
  <2>2. \A k \in Items : item[k] \in Spent /\ k[1] \notin Live => video'[k] = video[k]
    <3>1. ASSUME NEW k \in Items, item[k] \in Spent PROVE video'[k] = video[k]
      <4>1. k[1] # b BY <3>1, <1>5 DEF Spent, ItemsExist
      <4>2. QED BY <4>1, <1>1
    <3>2. QED BY <3>1
  <2>3. Gone' = Gone BY <2>1, <2>2, <1>1 DEF Gone
  <2>4. QED BY <2>3, ClaimsAre
<1>10. \A c \in Live : Holds(c) \subseteq claimed BY DEF ClaimsExact
<1>11. ItemsExist'
  <2>1. \A i \in Items : item'[i] = "none" <=> video'[i] = NoVideo
    <3>1. ASSUME NEW i \in Items, i[1] = b PROVE item'[i] = "none" <=> video'[i] = NoVideo
        BY <1>1, <1>2, <3>1
    <3>2. ASSUME NEW i \in Items, i[1] # b PROVE item'[i] = "none" <=> video'[i] = NoVideo
        BY <1>1, <3>2 DEF ItemsExist
    <3>3. QED BY <3>1, <3>2
  <2>2. \A i \in Items : video'[i] # NoVideo => video'[<<i[1], i[2], 1>>] # NoVideo
    <3>1. ASSUME NEW i \in Items, i[1] # b, video'[i] # NoVideo
          PROVE  video'[<<i[1], i[2], 1>>] # NoVideo
      <4>1. video[<<i[1], i[2], 1>>] # NoVideo BY <1>1, <3>1 DEF ItemsExist
      <4>2. 1 \in Slots
        <5>1. i[3] \in Slots BY DEF Items
        <5>2. QED BY <5>1 DEF Slots
      <4>3. <<i[1], i[2], 1>> \in Items BY <4>2 DEF Items
      <4>4. QED BY <4>1, <4>3, <1>1, <3>1
    <3>2. QED BY <3>1, <1>1
  <2>3. \A c \in Batches : bstatus'[c] = "none" =>
           /\ spares'[c] = {} /\ rejected'[c] = {}
           /\ \A i \in Items : i[1] = c => video'[i] = NoVideo
    <3>1. ASSUME NEW c \in Batches, bstatus'[c] = "none"
          PROVE  c # b /\ bstatus[c] = "none"
        BY <3>1, <1>1 DEF ClaimTypes
    <3>2. QED BY <3>1, <1>1, <1>4 DEF ItemsExist
  <2>4. QED BY <2>1, <2>2, <2>3 DEF ItemsExist
<1>12. OneOwner'
  <2>1. \A i \in Items : i[1] \in Live /\ video[i] # NoVideo => video[i] \in claimed
    <3>1. ASSUME NEW i \in Items, i[1] \in Live, video[i] # NoVideo PROVE video[i] \in claimed
      <4>1. video[i] \in Holds(i[1]) BY <3>1 DEF Holds, ItemsOf
      <4>2. QED BY <4>1, <3>1, <1>10
    <3>2. QED BY <3>1
  <2>2. \A c \in Live : spares[c] \subseteq claimed BY <1>10 DEF Holds
  <2>3. ASSUME NEW i \in Items, NEW k \in Items, i[1] \in Live', k[1] \in Live',
               video'[i] = video'[k], video'[i] # NoVideo
        PROVE  i = k
    <3>1. CASE i[1] = b /\ k[1] = b BY <3>1, <2>3, <1>1
    <3>2. CASE i[1] # b /\ k[1] # b BY <3>2, <2>3, <1>1, <1>3 DEF OneOwner
    <3>3. CASE i[1] = b /\ k[1] # b
      <4>1. video'[i] \in S BY <3>3, <2>3, <1>1
      <4>2. video[k] \in claimed BY <3>3, <2>3, <2>1, <1>1, <1>3
      <4>3. QED BY <4>1, <4>2, <3>3, <2>3, <1>1, <1>2
    <3>4. CASE i[1] # b /\ k[1] = b
      <4>1. video'[k] \in S BY <3>4, <2>3, <1>1
      <4>2. video[i] \in claimed BY <3>4, <2>3, <2>1, <1>1, <1>3
      <4>3. QED BY <4>1, <4>2, <3>4, <2>3, <1>1, <1>2
    <3>5. QED BY <3>1, <3>2, <3>3, <3>4
  <2>4. ASSUME NEW i \in Items, NEW c \in Batches, i[1] \in Live', c \in Live'
        PROVE  video'[i] \notin spares'[c]
    <3>0. NoVideo \notin spares'[c] BY <1>1 DEF ClaimTypes
    <3>1. CASE i[1] = b /\ c = b BY <3>1, <3>0, <1>1, <1>4
    <3>2. CASE i[1] # b /\ c # b BY <3>2, <2>4, <1>1, <1>3, <1>4 DEF OneOwner
    <3>3. CASE i[1] = b /\ c # b
      <4>1. spares'[c] \subseteq claimed BY <3>3, <2>4, <2>2, <1>3, <1>4
      <4>2. video'[i] \in S \cup {NoVideo} BY <3>3, <1>1
      <4>3. QED BY <4>1, <4>2, <3>0, <1>2
    <3>4. CASE i[1] # b /\ c = b
      <4>1. video'[i] = video[i] /\ i[1] \in Live BY <3>4, <2>4, <1>1, <1>3
      <4>2. video'[i] = NoVideo \/ video'[i] \in claimed BY <4>1, <2>1
      <4>3. QED BY <4>2, <3>0, <3>4, <1>2, <1>4
    <3>5. QED BY <3>1, <3>2, <3>3, <3>4
  <2>5. ASSUME NEW c \in Live', NEW d \in Live', c # d
        PROVE  spares'[c] \cap spares'[d] = {}
    <3>1. c \in Batches /\ d \in Batches BY <2>5 DEF Live
    <3>2. CASE c # b /\ d # b BY <3>1, <3>2, <2>5, <1>3, <1>4 DEF OneOwner
    <3>3. CASE c = b BY <3>1, <3>3, <2>5, <2>2, <1>2, <1>3, <1>4
    <3>4. CASE d = b BY <3>1, <3>4, <2>5, <2>2, <1>2, <1>3, <1>4
    <3>5. QED BY <3>2, <3>3, <3>4
  <2>6. QED BY <2>3, <2>4, <2>5 DEF OneOwner
<1>13. ClaimsExact'
  <2>1. LiveHolds' = LiveHolds \cup free
    <3>1. \A c \in Live : c \in Batches /\ c # b BY <1>1 DEF Live
    <3>2. LiveHolds' = UNION {Holds(c)' : c \in Live \cup {b}} BY <1>3 DEF LiveHolds
    <3>3. \A c \in Live : Holds(c)' = Holds(c) BY <3>1, <1>7
    <3>4. QED BY <3>2, <3>3, <1>8 DEF LiveHolds
  <2>2. claimed = LiveHolds \cup Gone BY ClaimsAre
  <2>3. claimed' = LiveHolds' \cup Gone' BY <2>1, <2>2, <1>1, <1>9
  <2>4. QED BY <2>3, <1>1, <1>11, ClaimsAreNext
<1>14. UsedApart'
  <2>1. ASSUME NEW i \in Items, i[1] \in Live' PROVE video'[i] \notin Gone
    <3>0. NoVideo \notin Gone BY <1>9 DEF ClaimTypes
    <3>1. CASE i[1] = b BY <3>0, <3>1, <1>1, <1>2, <1>9
    <3>2. CASE i[1] # b BY <3>2, <2>1, <1>1, <1>3 DEF UsedApart
    <3>3. QED BY <3>1, <3>2
  <2>2. ASSUME NEW c \in Live' PROVE spares'[c] \cap Gone = {}
    <3>1. c \in Batches BY <2>2 DEF Live
    <3>2. CASE c = b BY <3>2, <1>2, <1>4, <1>9
    <3>3. CASE c # b BY <3>1, <3>3, <2>2, <1>3, <1>4 DEF UsedApart
    <3>4. QED BY <3>2, <3>3
  <2>3. QED BY <2>1, <2>2, <1>9 DEF UsedApart
<1>15. \A i \in Items : video[i] # NoVideo => video'[i] # NoVideo
    BY <1>1, <1>5
<1>16. QED
  <2>1. BookInv' BY <1>1, <1>11, <1>12, <1>13, <1>14
  <2>2. QED BY <2>1, <1>1, <1>3, <1>7, <1>8, <1>15

\* A duplicate's video stays with its batch, in the history; the spare becomes the
\* item's.
LEMMA Replaced ==
    ASSUME BookInv, RunnerTypes, RunnersOwned, NEW r \in Runners, NEW s \in Videos, Replace(r, s)
    PROVE  /\ BookInv' /\ Live' = Live
           /\ \A c \in Live : Holds(c)' = Holds(c)
           /\ \A i \in Items : video'[i] = NoVideo <=> video[i] = NoVideo
<1> USE BulkAssumption DEF BookInv
<1> DEFINE b == r[1]
           i == It(r, at[r])
           v == video[i]
<1>1. /\ pc[r] = "settling" /\ verdict[i] = "duplicate" /\ s \in spares[b]
      /\ spares' = [spares EXCEPT ![b] = @ \ {s}]
      /\ rejected' = [rejected EXCEPT ![b] = @ \cup {v}]
      /\ video' = [video EXCEPT ![i] = s]
      /\ UNCHANGED <<bstatus, item, claimed>>
    BY DEF Replace, TakeSpare, batchVars
<1>2. b \in Live /\ b \in Batches /\ i \in Items /\ i[1] = b
  <2>1. at[r] \in Slots BY <1>1 DEF RunnersOwned, RunnerTypes
  <2>2. i \in Items /\ i[1] = b BY <2>1 DEF Items, Runners, It
  <2>3. b \in Live BY <1>1 DEF RunnersOwned, Live, Runners
  <2>4. QED BY <2>2, <2>3 DEF Live
<1>3. v \in Videos /\ v # NoVideo BY <1>1, <1>2 DEF RunnersOwned, ClaimTypes
<1>4. Live' = Live BY <1>1 DEF Live
<1>5. video'[i] = s /\ \A k \in Items : k # i => video'[k] = video[k]
    BY <1>1, <1>2 DEF ClaimTypes
<1>6. /\ spares'[b] = spares[b] \ {s} /\ rejected'[b] = rejected[b] \cup {v}
      /\ \A c \in Batches : c # b => spares'[c] = spares[c] /\ rejected'[c] = rejected[c]
    BY <1>1, <1>2 DEF ClaimTypes
<1>7. s # NoVideo OBVIOUS
<1>8. \A k \in Items : video'[k] = NoVideo <=> video[k] = NoVideo
    BY <1>3, <1>5, <1>7
<1>9. ClaimTypes'
  <2>1. video' \in [Items -> Videos \cup {NoVideo}] BY <1>1 DEF ClaimTypes
  <2>2. spares' \in [Batches -> SUBSET Videos] BY <1>1 DEF ClaimTypes
  <2>3. rejected' \in [Batches -> SUBSET Videos] BY <1>1, <1>3 DEF ClaimTypes
  <2>4. QED BY <2>1, <2>2, <2>3, <1>1 DEF ClaimTypes
<1>10. \A c \in Batches : ItemsOf(c)' = ItemsOf(c) BY <1>8 DEF ItemsOf
<1>11. \A c \in Live : Holds(c)' = Holds(c)
  <2>1. ASSUME NEW c \in Live, c # b PROVE Holds(c)' = Holds(c)
    <3>1. \A k \in ItemsOf(c) : video'[k] = video[k] BY <2>1, <1>2, <1>5 DEF ItemsOf
    <3>2. QED BY <2>1, <3>1, <1>6, <1>10 DEF Holds, Live
  <2>2. Holds(b)' = Holds(b)
    <3>1. i \in ItemsOf(b) BY <1>2, <1>3 DEF ItemsOf
    <3>2. \A k \in ItemsOf(b) : k # i => video'[k] = video[k] BY <1>5 DEF ItemsOf
    <3>3. Holds(b)' = {video'[k] : k \in ItemsOf(b)} \cup spares'[b] \cup rejected'[b]
        BY <1>2, <1>10 DEF Holds
    <3>4. Holds(b)' \subseteq Holds(b)
        BY <3>1, <3>2, <3>3, <1>1, <1>5, <1>6 DEF Holds
    <3>5. ASSUME NEW w \in Holds(b) PROVE w \in Holds(b)'
      <4>1. CASE w \in {video[k] : k \in ItemsOf(b)}
        <5>1. PICK k \in ItemsOf(b) : w = video[k] BY <4>1
        <5>2. CASE k = i BY <5>1, <5>2, <3>3, <1>6
        <5>3. CASE k # i
          <6>1. w = video'[k] BY <5>1, <5>3, <3>2
          <6>2. QED BY <6>1, <3>3
        <5>4. QED BY <5>2, <5>3
      <4>2. CASE w \in spares[b]
        <5>1. CASE w = s BY <5>1, <3>1, <3>3, <1>5
        <5>2. CASE w # s BY <4>2, <5>2, <3>3, <1>6
        <5>3. QED BY <5>1, <5>2
      <4>3. CASE w \in rejected[b] BY <4>3, <3>3, <1>6
      <4>4. QED BY <3>5, <4>1, <4>2, <4>3 DEF Holds
    <3>6. QED BY <3>4, <3>5
  <2>3. QED BY <2>1, <2>2
<1>12. ItemsExist'
  <2>1. \A k \in Items : item'[k] = "none" <=> video'[k] = NoVideo
      BY <1>1, <1>8 DEF ItemsExist
  <2>2. \A k \in Items : video'[k] # NoVideo => video'[<<k[1], k[2], 1>>] # NoVideo
    <3>1. ASSUME NEW k \in Items PROVE <<k[1], k[2], 1>> \in Items
      <4>1. k[3] \in Slots BY DEF Items
      <4>2. 1 \in Slots BY <4>1 DEF Slots
      <4>3. QED BY <4>2 DEF Items
    <3>2. QED BY <3>1, <1>8 DEF ItemsExist
  <2>3. \A c \in Batches : bstatus'[c] = "none" =>
           /\ spares'[c] = {} /\ rejected'[c] = {}
           /\ \A k \in Items : k[1] = c => video'[k] = NoVideo
    <3>1. bstatus[b] # "none" BY <1>2 DEF Live
    <3>2. QED BY <3>1, <1>1, <1>6, <1>8 DEF ItemsExist
  <2>4. QED BY <2>1, <2>2, <2>3 DEF ItemsExist
<1>13. Gone' = Gone \cup {v}
  <2>1. \A k \in Items : item[k] \in Spent /\ k[1] \notin Live => video'[k] = video[k]
      BY <1>2, <1>5
  <2>2. UNION {rejected'[c] : c \in Batches} = (UNION {rejected[c] : c \in Batches}) \cup {v}
    <3>1. \A c \in Batches : rejected[c] \subseteq rejected'[c] BY <1>6
    <3>2. \A c \in Batches : rejected'[c] \subseteq rejected[c] \cup {v} BY <1>6
    <3>3. v \in rejected'[b] BY <1>6
    <3>4. QED BY <3>1, <3>2, <3>3, <1>2
  <2>3. QED BY <2>1, <2>2, <1>1, <1>4 DEF Gone
<1>14. OneOwner'
  <2>1. \A k \in Items : k[1] \in Live => video[k] # s BY <1>1, <1>2 DEF OneOwner
  <2>2. ASSUME NEW k \in Items, NEW l \in Items, k[1] \in Live, l[1] \in Live,
               video'[k] = video'[l], video'[k] # NoVideo
        PROVE  k = l
    <3>1. CASE k = i BY <3>1, <2>1, <2>2, <1>5
    <3>2. CASE l = i BY <3>2, <2>1, <2>2, <1>5
    <3>3. CASE k # i /\ l # i BY <3>3, <2>2, <1>5 DEF OneOwner
    <3>4. QED BY <3>1, <3>2, <3>3
  <2>3. ASSUME NEW k \in Items, NEW c \in Batches, k[1] \in Live, c \in Live
        PROVE  video'[k] \notin spares'[c]
    <3>1. CASE k = i /\ c = b BY <3>1, <1>5, <1>6
    <3>2. CASE k = i /\ c # b BY <3>2, <2>3, <1>1, <1>2, <1>5, <1>6 DEF OneOwner
    <3>3. CASE k # i BY <3>3, <2>3, <1>5, <1>6 DEF OneOwner
    <3>4. QED BY <3>1, <3>2, <3>3
  <2>4. ASSUME NEW c \in Live, NEW d \in Live, c # d
        PROVE  spares'[c] \cap spares'[d] = {}
    <3>1. spares'[c] \subseteq spares[c] /\ spares'[d] \subseteq spares[d]
        BY <1>6 DEF Live
    <3>2. QED BY <2>4, <3>1 DEF OneOwner
  <2>5. QED BY <2>2, <2>3, <2>4, <1>4 DEF OneOwner
<1>15. ClaimsExact'
  <2>1. LiveHolds' = LiveHolds BY <1>4, <1>11 DEF LiveHolds
  <2>2. v \in LiveHolds
    <3>1. v \in Holds(b) BY <1>2, <1>3 DEF Holds, ItemsOf
    <3>2. QED BY <3>1, <1>2 DEF LiveHolds
  <2>3. claimed = LiveHolds \cup Gone BY ClaimsAre
  <2>4. claimed' = LiveHolds' \cup Gone' BY <2>1, <2>2, <2>3, <1>1, <1>13
  <2>5. QED BY <2>4, <1>9, <1>12, ClaimsAreNext
<1>16. UsedApart'
  <2>1. ASSUME NEW k \in Items, k[1] \in Live PROVE video'[k] \notin Gone \cup {v}
    <3>1. CASE k = i
      <4>1. s \notin Gone BY <1>1, <1>2 DEF UsedApart
      <4>2. s # v BY <1>1, <1>2 DEF OneOwner
      <4>3. QED BY <3>1, <4>1, <4>2, <1>5
    <3>2. CASE k # i
      <4>1. video[k] # v BY <2>1, <3>2, <1>2, <1>3 DEF OneOwner
      <4>2. QED BY <2>1, <3>2, <4>1, <1>5 DEF UsedApart
    <3>3. QED BY <3>1, <3>2
  <2>2. ASSUME NEW c \in Live PROVE spares'[c] \cap (Gone \cup {v}) = {}
    <3>1. spares'[c] \subseteq spares[c] /\ c \in Batches BY <1>6 DEF Live
    <3>2. v \notin spares[c] BY <2>2, <3>1, <1>2 DEF OneOwner
    <3>3. QED BY <2>2, <3>1, <3>2 DEF UsedApart
  <2>3. QED BY <2>1, <2>2, <1>4, <1>13 DEF UsedApart
<1>17. BookInv' BY <1>9, <1>12, <1>14, <1>15, <1>16
<1>18. QED BY <1>4, <1>8, <1>11, <1>17

-----------------------------------------------------------------------------
(* Steps of a runner.                                                      *)

\* The inductive invariant is about the books and about the runners.
LEMMA IndInvParts == IndInv <=> BookInv /\ RunnerTypes /\ RunnersOwned
BY DEF IndInv, BookInv

\* The slots of a runner are the items of its account in its batch.
LEMMA SlotFacts ==
    ASSUME NEW r \in Runners
    PROVE  /\ SlotsOf(r) \subseteq Slots /\ Slots \subseteq Nat \ {0}
           /\ \A n \in Slots : It(r, n) \in Items /\ 1 \in Slots
           /\ \A n \in Slots : n \in SlotsOf(r) <=> video[It(r, n)] # NoVideo
           /\ \A n \in Slots : It(r, n)[1] = r[1] /\ It(r, n)[2] = r[2] /\ It(r, n)[3] = n
<1>1. Slots \subseteq Nat \ {0} BY BulkAssumption DEF Slots
<1>2. \A n \in Slots : 1 \in Slots BY BulkAssumption DEF Slots
<1>3. \A n \in Slots : It(r, n) \in Items BY DEF Items, Runners, It
<1>4. QED BY <1>1, <1>2, <1>3 DEF SlotsOf, It

\* The items of the task under way exist.
LEMMA CurrentOwned ==
    ASSUME RunnerTypes, RunnersOwned, NEW r \in Runners
    PROVE  Current(r) \subseteq SlotsOf(r)
<1>1. CASE at[r] = 0 BY <1>1 DEF Current
<1>2. CASE at[r] # 0
  <2>1. at[r] \in Slots /\ video[It(r, at[r])] # NoVideo
      BY <1>2 DEF RunnerTypes, RunnersOwned
  <2>2. at[r] \in SlotsOf(r) BY <2>1, SlotFacts
  <2>3. QED BY <1>2, <2>2 DEF Current
<1>3. QED BY <1>1, <1>2

\* A runner that works marks items of its own, which its batch still holds.
LEMMA MarkStep ==
    ASSUME BookInv, RunnersOwned, NEW r \in Runners, pc[r] \notin {"idle", "over"},
           NEW S \in SUBSET SlotsOf(r),
           NEW st \in {"SUBMITTING", "RUNNING", "DONE", "ERROR", "DUPLICATE", "SWALLOWED"},
           Mark(r, S, st), UNCHANGED <<bstatus, video, spares, rejected, claimed>>
    PROVE  BookInv'
<1> USE DEF BookInv
<1>1. r[1] \in Live BY DEF RunnersOwned, Live, Runners
<1>2. item' = [i \in Items |-> IF i[1] = r[1] /\ i[2] = r[2] /\ i[3] \in S
                               THEN st ELSE item[i]]
    BY DEF Mark
<1>3. \A i \in Items : i[1] = r[1] /\ i[2] = r[2] /\ i[3] \in S => item[i] # "none"
  <2>1. ASSUME NEW i \in Items, i[1] = r[1], i[2] = r[2], i[3] \in S PROVE item[i] # "none"
    <3>1. i = It(r, i[3]) /\ i[3] \in Slots BY <2>1 DEF Items, It
    <3>2. video[i] # NoVideo BY <2>1, <3>1, SlotFacts
    <3>3. QED BY <3>2 DEF ItemsExist
  <2>2. QED BY <2>1
<1>4. ClaimTypes' BY <1>2 DEF ClaimTypes, Settled
<1>5. \A i \in Items : item'[i] = "none" <=> item[i] = "none" BY <1>2, <1>3
<1>6. \A i \in Items : i[1] \notin Live => item'[i] = item[i] BY <1>1, <1>2
<1>7. QED BY <1>4, <1>5, <1>6, Marked

\* Where a runner goes, and with which item.
LEMMA RunnerMoves ==
    ASSUME RunnersOwned, NEW r \in Runners, bstatus' = bstatus, RunnerTypes,
           \A i \in Items : video'[i] = NoVideo <=> video[i] = NoVideo,
           RunnerTypes',
           \A q \in Runners : q # r => pc'[q] = pc[q] /\ at'[q] = at[q],
           pc'[r] = "over" \/ pc[r] \notin {"idle", "over"},
           at'[r] = 0 \/ at'[r] \in SlotsOf(r),
           pc'[r] \in {"settling", "archiving"} => at'[r] # 0,
           \A i \in Items : verdict'[i] = "none" \/ video[i] # NoVideo
    PROVE  RunnersOwned'
<1>1. \A q \in Runners : SlotsOf(q)' = SlotsOf(q)
  <2>1. \A q \in Runners, n \in Slots : It(q, n) \in Items BY SlotFacts
  <2>2. QED BY <2>1 DEF SlotsOf, It
<1>2. \A q \in Runners : pc'[q] \notin {"idle", "over"} 
                            => bstatus'[q[1]] = "RUNNING" /\ SlotsOf(q)' # {}
    BY <1>1 DEF RunnersOwned
<1>3. \A q \in Runners : at'[q] # 0 => video'[It(q, at'[q])] # NoVideo
  <2>1. ASSUME NEW q \in Runners, at'[q] # 0 PROVE video'[It(q, at'[q])] # NoVideo
    <3>1. at'[q] \in Slots BY <2>1 DEF RunnerTypes
    <3>2. It(q, at'[q]) \in Items BY <3>1, SlotFacts
    <3>3. CASE q = r BY <2>1, <3>1, <3>2, <3>3, SlotFacts
    <3>4. CASE q # r BY <2>1, <3>2, <3>4 DEF RunnersOwned
    <3>5. QED BY <3>3, <3>4
  <2>2. QED BY <2>1
<1>4. \A q \in Runners : pc'[q] \in {"settling", "archiving"} => at'[q] # 0
    BY DEF RunnersOwned
<1>5. \A i \in Items : verdict'[i] # "none" => video'[i] # NoVideo OBVIOUS
<1>6. QED BY <1>2, <1>3, <1>4, <1>5 DEF RunnersOwned

\* The next item of the loop exists, or the runner is over.
LEMMA Advances ==
    ASSUME RunnerTypes, NEW r \in Runners, NEW n, Advance(r, n)
    PROVE  /\ pc' \in [Runners -> {"idle", "free", "asking", "submitting", "polling",
                                    "settling", "archiving", "over"}]
           /\ at' \in [Runners -> {0} \cup Slots]
           /\ \A q \in Runners : q # r => pc'[q] = pc[q] /\ at'[q] = at[q]
           /\ \/ pc'[r] = "over" /\ at'[r] = 0
              \/ pc'[r] = "settling" /\ at'[r] \in SlotsOf(r) /\ at'[r] # 0
<1>1. CASE n + 1 \in SlotsOf(r)
  <2>1. at' = [at EXCEPT ![r] = n + 1] /\ pc' = [pc EXCEPT ![r] = "settling"]
      BY <1>1 DEF Advance
  <2>2. n + 1 \in Slots /\ n + 1 # 0 BY <1>1, SlotFacts
  <2>3. QED BY <1>1, <2>1, <2>2 DEF RunnerTypes
<1>2. CASE n + 1 \notin SlotsOf(r)
  <2>1. at' = [at EXCEPT ![r] = 0] /\ pc' = [pc EXCEPT ![r] = "over"]
      BY <1>2 DEF Advance
  <2>2. QED BY <2>1 DEF RunnerTypes
<1>3. QED BY <1>1, <1>2

\* Nothing a batch holds changes while the files stay where they are.
LEMMA SameHolds ==
    ASSUME UNCHANGED <<bstatus, video, spares, rejected>>
    PROVE  Live' = Live /\ \A c \in Batches : Holds(c)' = Holds(c)
<1>1. \A c \in Batches : ItemsOf(c)' = ItemsOf(c) BY DEF ItemsOf
<1>2. QED BY <1>1 DEF Live, Holds

\* A submission that fails settles the items of that task and no others.
LEMMA Fails ==
    ASSUME IndInv, NEW r \in Runners, pc[r] \notin {"idle", "over"}, SubmissionFails(r),
           UNCHANGED <<bstatus, video, spares, rejected, claimed, verdict>>
    PROVE  IndInv'
<1>1. BookInv /\ RunnerTypes /\ RunnersOwned BY IndInvParts
<1>2. BookInv'
  <2>1. Current(r) \in SUBSET SlotsOf(r) BY <1>1, CurrentOwned
  <2>2. Mark(r, Current(r), "ERROR") BY DEF SubmissionFails
  <2>3. QED BY <1>1, <2>1, <2>2, MarkStep
<1>3. RunnerTypes' /\ RunnersOwned'
  <2>1. CASE at[r] = 0
    <3>1. pc' = [pc EXCEPT ![r] = "over"] /\ at' = at BY <2>1 DEF SubmissionFails
    <3>2. RunnerTypes' BY <1>1, <3>1 DEF RunnerTypes
    <3>3. /\ \A q \in Runners : q # r => pc'[q] = pc[q] /\ at'[q] = at[q]
          /\ pc'[r] = "over" /\ at'[r] = 0
        BY <1>1, <2>1, <3>1 DEF RunnerTypes
    <3>4. \A i \in Items : verdict'[i] = "none" \/ video[i] # NoVideo
        BY <1>1 DEF RunnersOwned
    <3>5. RunnersOwned' BY <1>1, <3>2, <3>3, <3>4, RunnerMoves
    <3>6. QED BY <3>2, <3>5
  <2>2. CASE at[r] # 0
    <3>1. Advance(r, at[r]) BY <2>2 DEF SubmissionFails
    <3>2. RunnerTypes' BY <1>1, <3>1, Advances DEF RunnerTypes
    <3>3. /\ \A q \in Runners : q # r => pc'[q] = pc[q] /\ at'[q] = at[q]
          /\ \/ pc'[r] = "over" /\ at'[r] = 0
             \/ pc'[r] = "settling" /\ at'[r] \in SlotsOf(r) /\ at'[r] # 0
        BY <1>1, <3>1, Advances
    <3>4. \A i \in Items : verdict'[i] = "none" \/ video[i] # NoVideo
        BY <1>1 DEF RunnersOwned
    <3>5. RunnersOwned' BY <1>1, <3>2, <3>3, <3>4, RunnerMoves
    <3>6. QED BY <3>2, <3>5
  <2>3. QED BY <2>1, <2>2
<1>4. QED BY <1>2, <1>3, IndInvParts DEF IndInv, BookInv

\* A runner that goes on with its item: pc may change, at does not.
LEMMA GoesOn ==
    ASSUME RunnerTypes, RunnersOwned, NEW r \in Runners, pc[r] \notin {"idle", "over"},
           NEW p \in {"free", "asking", "submitting", "polling", "settling", "archiving"},
           p \in {"settling", "archiving"} => at[r] # 0,
           pc' = [pc EXCEPT ![r] = p], UNCHANGED <<at, bstatus>>,
           \A i \in Items : video'[i] = NoVideo <=> video[i] = NoVideo,
           DOMAIN verdict' = Items,
           \A i \in Items : verdict'[i] = "none" \/ video[i] # NoVideo
    PROVE  RunnerTypes' /\ RunnersOwned'
<1>1. RunnerTypes' BY DEF RunnerTypes
<1>2. \A q \in Runners : q # r => pc'[q] = pc[q] /\ at'[q] = at[q]
    BY DEF RunnerTypes
<1>3. pc'[r] = p BY DEF RunnerTypes
<1>4. at'[r] = 0 \/ at'[r] \in SlotsOf(r)
  <2>1. at[r] \in {0} \cup Slots BY DEF RunnerTypes
  <2>2. at[r] # 0 => video[It(r, at[r])] # NoVideo BY DEF RunnersOwned
  <2>3. QED BY <2>1, <2>2, SlotFacts
<1>5. RunnersOwned' BY <1>1, <1>2, <1>3, <1>4, RunnerMoves
<1>6. QED BY <1>1, <1>5

\* The runner looks at a verdict once.
LEMMA ReadOnce ==
    ASSUME RunnerTypes, RunnersOwned, NEW r \in Runners, Read(r)
    PROVE  /\ DOMAIN verdict' = Items
           /\ \A i \in Items : verdict'[i] = "none" \/ video[i] # NoVideo
<1>1. verdict' = [verdict EXCEPT ![It(r, at[r])] = "none"] BY DEF Read
<1>2. DOMAIN verdict' = Items BY <1>1 DEF RunnerTypes
<1>3. \A i \in Items : verdict'[i] = "none" \/ verdict'[i] = verdict[i]
    BY <1>1 DEF RunnerTypes
<1>4. QED BY <1>2, <1>3 DEF RunnersOwned

-----------------------------------------------------------------------------
(* The actions of a runner, one by one.                                    *)

\* What every step of a runner keeps: the invariant, and what each batch holds.
RunnerKeeps ==
    /\ IndInv'
    /\ Live' = Live /\ claimed' = claimed
    /\ \A c \in Live : Holds(c)' = Holds(c)

\* A refused or abandoned submission.
LEMMA RunnerFails ==
    ASSUME IndInv, NEW r \in Runners, GiveUp(r) \/ SubmitRefused(r)
    PROVE  RunnerKeeps
<1>1. /\ pc[r] \in {"asking", "free"} /\ SubmissionFails(r)
      /\ UNCHANGED <<bstatus, video, spares, rejected, claimed, verdict>>
    BY DEF GiveUp, SubmitRefused, Asks
<1>2. IndInv' BY <1>1, Fails
<1>3. QED BY <1>1, <1>2, SameHolds DEF RunnerKeeps, Live

\* Waiting, and a submission that begins.
LEMMA RunnerSubmits ==
    ASSUME IndInv, NEW r \in Runners, Sleep(r) \/ Submit(r)
    PROVE  RunnerKeeps
<1>0. BookInv /\ RunnerTypes /\ RunnersOwned BY IndInvParts
<1>1. UNCHANGED <<bstatus, video, spares, rejected, claimed, verdict, at>>
      /\ pc[r] \in {"asking", "free"}
    BY DEF Sleep, Submit, batchVars, claimVars, Asks
<1>2. BookInv'
  <2>1. CASE Sleep(r) BY <2>1, <1>0, BooksStill DEF Sleep, batchVars, claimVars
  <2>2. CASE Submit(r)
    <3>1. Mark(r, Current(r), "SUBMITTING") BY <2>2 DEF Submit
    <3>2. Current(r) \in SUBSET SlotsOf(r) BY <1>0, CurrentOwned
    <3>3. QED BY <1>0, <1>1, <3>1, <3>2, MarkStep
  <2>3. QED BY <2>1, <2>2
<1>3. PICK p \in {"free", "submitting"} : pc' = [pc EXCEPT ![r] = p]
    BY DEF Sleep, Submit
<1>4. RunnerTypes' /\ RunnersOwned'
  <2>1. DOMAIN verdict' = Items /\ \A i \in Items : verdict'[i] = "none" \/ video[i] # NoVideo
      BY <1>0, <1>1 DEF RunnersOwned, RunnerTypes
  <2>2. QED BY <1>0, <1>1, <1>3, <2>1, GoesOn
<1>5. QED BY <1>1, <1>2, <1>4, SameHolds DEF RunnerKeeps, Live, IndInv, BookInv

\* submit_task returns.
LEMMA RunnerReturns ==
    ASSUME IndInv, NEW r \in Runners, SubmitReturns(r)
    PROVE  RunnerKeeps
<1>0. BookInv /\ RunnerTypes /\ RunnersOwned BY IndInvParts
<1>1. UNCHANGED <<bstatus, video, spares, rejected, claimed, verdict>>
      /\ pc[r] = "submitting"
    BY DEF SubmitReturns
<1>2. IndInv'
  <2>1. CASE r[2] \notin busy
    <3>1. SubmissionFails(r) BY <2>1 DEF SubmitReturns
    <3>2. QED BY <1>1, <3>1, Fails
  <2>2. CASE r[2] \in busy
    <3>1. Mark(r, Current(r), "RUNNING") /\ pc' = [pc EXCEPT ![r] = "polling"] /\ at' = at
        BY <2>2 DEF SubmitReturns
    <3>2. Current(r) \in SUBSET SlotsOf(r) BY <1>0, CurrentOwned
    <3>3. BookInv' BY <1>0, <1>1, <3>1, <3>2, MarkStep
    <3>4. DOMAIN verdict' = Items /\ \A i \in Items : verdict'[i] = "none" \/ video[i] # NoVideo
        BY <1>0, <1>1 DEF RunnersOwned, RunnerTypes
    <3>5. RunnerTypes' /\ RunnersOwned' BY <1>0, <1>1, <3>1, <3>4, GoesOn
    <3>6. QED BY <3>3, <3>5 DEF IndInv, BookInv
  <2>3. QED BY <2>1, <2>2
<1>3. QED BY <1>1, <1>2, SameHolds DEF RunnerKeeps, Live

\* The account is free again and the results are read.
LEMMA RunnerPolls ==
    ASSUME IndInv, NEW r \in Runners, Poll(r)
    PROVE  RunnerKeeps
<1>0. BookInv /\ RunnerTypes /\ RunnersOwned BY IndInvParts
<1>1. /\ UNCHANGED <<batchVars, claimVars>> /\ pc[r] = "polling"
      /\ pc' = [pc EXCEPT ![r] = "settling"]
      /\ at' = [at EXCEPT ![r] = IF @ = 0 THEN 1 ELSE @]
    BY DEF Poll
<1>2. UNCHANGED <<bstatus, video, spares, rejected, claimed>>
    BY <1>1 DEF batchVars, claimVars
<1>3. BookInv' BY <1>0, <1>1, BooksStill DEF batchVars
<1>4. at'[r] \in SlotsOf(r) /\ at'[r] # 0
  <2>1. CASE at[r] # 0
    <3>1. at[r] \in Slots /\ video[It(r, at[r])] # NoVideo
        BY <1>0, <2>1 DEF RunnersOwned, RunnerTypes
    <3>2. at'[r] = at[r] BY <1>0, <1>1, <2>1 DEF RunnerTypes
    <3>3. QED BY <2>1, <3>1, <3>2, SlotFacts
  <2>2. CASE at[r] = 0
    <3>1. PICK n \in Slots : video[It(r, n)] # NoVideo
        BY <1>0, <1>1, SlotFacts DEF RunnersOwned
    <3>2. video[It(r, 1)] # NoVideo
      <4>1. It(r, n) \in Items BY SlotFacts
      <4>2. video[<<It(r, n)[1], It(r, n)[2], 1>>] # NoVideo
          BY <1>0, <3>1, <4>1 DEF BookInv, ItemsExist
      <4>3. QED BY <4>2 DEF It
    <3>3. at'[r] = 1 BY <1>0, <1>1, <2>2 DEF RunnerTypes
    <3>4. QED BY <3>1, <3>2, <3>3, SlotFacts
  <2>3. QED BY <2>1, <2>2
<1>5. /\ \A q \in Runners : q # r => pc'[q] = pc[q] /\ at'[q] = at[q]
      /\ pc'[r] = "settling"
    BY <1>0, <1>1 DEF RunnerTypes
<1>6. verdict' = [i \in Items |->
           IF i[1] = r[1] /\ i[2] = r[2] /\ i[3] \in Current(r)
           THEN Result(r, video[i]) ELSE verdict[i]]
    BY DEF Poll
<1>7. RunnerTypes'
  <2>1. pc' \in [Runners -> {"idle", "free", "asking", "submitting", "polling", "settling",
                           "archiving", "over"}]
      BY <1>0, <1>1 DEF RunnerTypes
  <2>2. at' \in [Runners -> {0} \cup Slots]
    <3>1. \A q \in Runners : at'[q] \in {0} \cup Slots
        BY <1>0, <1>4, <1>5, SlotFacts DEF RunnerTypes
    <3>2. QED BY <1>0, <1>1, <3>1 DEF RunnerTypes
  <2>3. DOMAIN verdict' = Items BY <1>6
  <2>4. QED BY <2>1, <2>2, <2>3 DEF RunnerTypes
<1>8. \A i \in Items : verdict'[i] = "none" \/ video[i] # NoVideo
  <2>1. ASSUME NEW i \in Items, i[1] = r[1], i[2] = r[2], i[3] \in Current(r)
        PROVE  video[i] # NoVideo
    <3>1. i[3] \in SlotsOf(r) /\ i[3] \in Slots BY <1>0, <2>1, CurrentOwned, SlotFacts
    <3>2. i = It(r, i[3]) BY <2>1 DEF Items, It
    <3>3. QED BY <3>1, <3>2, SlotFacts
  <2>2. QED BY <2>1, <1>0, <1>6 DEF RunnersOwned
<1>9. RunnersOwned' BY <1>0, <1>1, <1>2, <1>4, <1>5, <1>7, <1>8, RunnerMoves
<1>10. QED BY <1>2, <1>3, <1>7, <1>9, SameHolds DEF RunnerKeeps, Live, IndInv, BookInv

\* An item is settled without a replacement.
LEMMA RunnerSettles ==
    ASSUME IndInv, NEW r \in Runners, SettleDone(r) \/ SettleFailed(r)
    PROVE  RunnerKeeps
<1>0. BookInv /\ RunnerTypes /\ RunnersOwned BY IndInvParts
<1>1. /\ UNCHANGED <<bstatus, video, spares, rejected, claimed>>
      /\ pc[r] = "settling" /\ Read(r)
    BY DEF SettleDone, SettleFailed, batchVars
<1>2. at[r] \in SlotsOf(r) /\ at[r] # 0
  <2>1. at[r] # 0 BY <1>0, <1>1 DEF RunnersOwned
  <2>2. at[r] \in Slots /\ video[It(r, at[r])] # NoVideo
      BY <1>0, <2>1 DEF RunnersOwned, RunnerTypes
  <2>3. QED BY <2>1, <2>2, SlotFacts
<1>3. DOMAIN verdict' = Items /\ \A i \in Items : verdict'[i] = "none" \/ video[i] # NoVideo
    BY <1>0, <1>1, ReadOnce
<1>4. PICK st \in {"DONE", "ERROR", "DUPLICATE", "SWALLOWED"} : Mark(r, {at[r]}, st)
  <2>1. CASE SettleDone(r) BY <2>1 DEF SettleDone
  <2>2. CASE SettleFailed(r)
    <3>1. verdict[It(r, at[r])] \in {"swallowed", "error", "duplicate"}
        BY <2>2 DEF SettleFailed
    <3>2. CASE verdict[It(r, at[r])] = "duplicate" BY <2>2, <3>2 DEF SettleFailed
    <3>3. CASE verdict[It(r, at[r])] = "swallowed" BY <2>2, <3>3 DEF SettleFailed
    <3>4. CASE verdict[It(r, at[r])] = "error" BY <2>2, <3>4 DEF SettleFailed
    <3>5. QED BY <3>1, <3>2, <3>3, <3>4
  <2>3. QED BY <2>1, <2>2
<1>5. BookInv'
  <2>1. {at[r]} \in SUBSET SlotsOf(r) BY <1>2
  <2>2. QED BY <1>0, <1>1, <1>4, <2>1, MarkStep
<1>6. RunnerTypes' /\ RunnersOwned'
  <2>1. CASE SettleDone(r)
    <3>1. pc' = [pc EXCEPT ![r] = "archiving"] /\ at' = at BY <2>1 DEF SettleDone
    <3>2. QED BY <1>0, <1>1, <1>2, <1>3, <3>1, GoesOn
  <2>2. CASE SettleFailed(r)
    <3>1. Advance(r, at[r]) BY <2>2 DEF SettleFailed
    <3>2. RunnerTypes' BY <1>0, <1>3, <3>1, Advances DEF RunnerTypes
    <3>3. /\ \A q \in Runners : q # r => pc'[q] = pc[q] /\ at'[q] = at[q]
          /\ \/ pc'[r] = "over" /\ at'[r] = 0
             \/ pc'[r] = "settling" /\ at'[r] \in SlotsOf(r) /\ at'[r] # 0
        BY <1>0, <3>1, Advances
    <3>4. RunnersOwned' BY <1>0, <1>1, <1>3, <3>2, <3>3, RunnerMoves
    <3>5. QED BY <3>2, <3>4
  <2>3. QED BY <2>1, <2>2
<1>7. QED BY <1>1, <1>5, <1>6, SameHolds DEF RunnerKeeps, Live, IndInv, BookInv

\* A duplicate is replaced by a spare.
LEMMA RunnerReplaces ==
    ASSUME IndInv, NEW r \in Runners, NEW s \in Videos, Replace(r, s)
    PROVE  RunnerKeeps
<1>0. BookInv /\ RunnerTypes /\ RunnersOwned BY IndInvParts
<1>1. /\ UNCHANGED <<bstatus, claimed, at>> /\ pc[r] = "settling" /\ Read(r)
      /\ pc' = [pc EXCEPT ![r] = "asking"]
    BY DEF Replace, batchVars
<1>2. /\ BookInv' /\ Live' = Live
      /\ \A c \in Live : Holds(c)' = Holds(c)
      /\ \A i \in Items : video'[i] = NoVideo <=> video[i] = NoVideo
    BY <1>0, Replaced
<1>3. DOMAIN verdict' = Items /\ \A i \in Items : verdict'[i] = "none" \/ video[i] # NoVideo
    BY <1>0, <1>1, ReadOnce
<1>4. RunnerTypes' /\ RunnersOwned' BY <1>0, <1>1, <1>2, <1>3, GoesOn
<1>5. QED BY <1>1, <1>2, <1>4 DEF RunnerKeeps, IndInv, BookInv

\* The archive thread returns.
LEMMA RunnerArchives ==
    ASSUME IndInv, NEW r \in Runners, NEW ok \in BOOLEAN, ArchiveEnds(r, ok)
    PROVE  RunnerKeeps
<1>0. BookInv /\ RunnerTypes /\ RunnersOwned BY IndInvParts
<1>1. /\ UNCHANGED <<bstatus, claimVars, verdict>> /\ pc[r] = "archiving"
      /\ Advance(r, at[r])
    BY DEF ArchiveEnds
<1>2. BookInv' BY <1>0, <1>1, BooksStill
<1>3. UNCHANGED <<video, spares, rejected, claimed>> BY <1>1 DEF claimVars
<1>4. RunnerTypes' BY <1>0, <1>1, Advances DEF RunnerTypes
<1>5. /\ \A q \in Runners : q # r => pc'[q] = pc[q] /\ at'[q] = at[q]
      /\ \/ pc'[r] = "over" /\ at'[r] = 0
         \/ pc'[r] = "settling" /\ at'[r] \in SlotsOf(r) /\ at'[r] # 0
    BY <1>0, <1>1, Advances
<1>6. \A i \in Items : verdict'[i] = "none" \/ video[i] # NoVideo
    BY <1>0, <1>1 DEF RunnersOwned
<1>7. RunnersOwned' BY <1>0, <1>1, <1>3, <1>4, <1>5, <1>6, RunnerMoves
<1>8. QED BY <1>1, <1>2, <1>3, <1>4, <1>7, SameHolds
          DEF RunnerKeeps, Live, IndInv, BookInv

\* Hence every step of a runner.
LEMMA RunnerStepKeeps ==
    ASSUME IndInv, NEW r \in Runners, RunnerStep(r)
    PROVE  RunnerKeeps
BY RunnerFails, RunnerSubmits, RunnerReturns, RunnerPolls, RunnerSettles, RunnerReplaces,
   RunnerArchives DEF RunnerStep

-----------------------------------------------------------------------------
(* Batches, tasks and the operator.                                        *)

\* Tasks of the dispatcher, other tasks, a cancellation or a stop touch no batch.
LEMMA Steady ==
    ASSUME IndInv, UNCHANGED <<bstatus, claimVars, runVars>>
    PROVE  RunnerKeeps
<1>0. BookInv /\ RunnerTypes /\ RunnersOwned BY IndInvParts
<1>1. BookInv' BY <1>0, BooksStill
<1>2. UNCHANGED <<video, spares, rejected, claimed, pc, at, verdict>>
    BY DEF claimVars, runVars
<1>3. RunnerTypes' BY <1>0, <1>2 DEF RunnerTypes
<1>4. \A q \in Runners : SlotsOf(q)' = SlotsOf(q) BY <1>2 DEF SlotsOf
<1>5. RunnersOwned' BY <1>0, <1>2, <1>4 DEF RunnersOwned, It
<1>6. QED BY <1>1, <1>2, <1>3, <1>5, SameHolds DEF RunnerKeeps, Live, IndInv, BookInv

\* What the end of the batches B leaves.
BatchesEnd(B) ==
    /\ IndInv'
    /\ B \subseteq Live /\ Live' = Live \ B /\ claimed' = claimed \ Freed(B)
    /\ \A c \in Batches : Holds(c)' = Holds(c)

\* Batches end once their runners are over, or with them.
LEMMA Ends ==
    ASSUME IndInv, NEW B \in SUBSET Live,
           bstatus' \in [Batches -> {"none", "PENDING", "RUNNING", "forgotten"} \cup Finished],
           \A b \in Batches : bstatus'[b] = IF b \in B THEN bstatus'[b] ELSE bstatus[b],
           \A b \in B : bstatus'[b] \in Finished,
           \A r \in Runners : pc'[r] \in {pc[r], "over"},
           RunnerTypes',
           \A r \in Runners : r[1] \in B => pc'[r] \in {"idle", "over"},
           claimed' = claimed \ Freed(B),
           UNCHANGED <<video, item, spares, rejected, at, verdict>>
    PROVE  BatchesEnd(B)
<1>0. BookInv /\ RunnerTypes /\ RunnersOwned BY IndInvParts
<1>1. B \in SUBSET Batches /\ \A b \in B : bstatus[b] \in {"PENDING", "RUNNING"}
    BY DEF Live
<1>2. Live' = Live \ B
  <2>1. \A b \in B : bstatus'[b] \notin {"PENDING", "RUNNING"} BY DEF Finished
  <2>2. \A b \in Batches : b \notin B => bstatus'[b] = bstatus[b] OBVIOUS
  <2>3. QED BY <1>1, <2>1, <2>2 DEF Live
<1>3. ClaimTypes' BY <1>0 DEF BookInv, ClaimTypes
<1>4. \A b \in Batches : bstatus'[b] = "none" => bstatus[b] = "none"
  <2>1. \A b \in B : bstatus'[b] # "none" BY DEF Finished
  <2>2. QED BY <2>1
<1>5. BookInv' BY <1>0, <1>1, <1>2, <1>3, <1>4, Concluded
<1>6. \A c \in Batches : Holds(c)' = Holds(c) BY DEF Holds, ItemsOf
<1>7. RunnersOwned'
  <2>1. \A r \in Runners : SlotsOf(r)' = SlotsOf(r) BY DEF SlotsOf
  <2>2. \A r \in Runners : pc'[r] \notin {"idle", "over"} =>
            bstatus'[r[1]] = "RUNNING" /\ SlotsOf(r)' # {}
    <3>1. ASSUME NEW r \in Runners, pc'[r] \notin {"idle", "over"}
          PROVE  bstatus'[r[1]] = "RUNNING" /\ SlotsOf(r)' # {}
      <4>1. r[1] \notin B /\ pc'[r] = pc[r] /\ r[1] \in Batches BY <3>1 DEF Runners
      <4>2. bstatus'[r[1]] = bstatus[r[1]] BY <4>1
      <4>3. QED BY <1>0, <2>1, <3>1, <4>1, <4>2 DEF RunnersOwned
    <3>2. QED BY <3>1
  <2>3. \A r \in Runners : at'[r] # 0 => video'[It(r, at'[r])] # NoVideo
      BY <1>0 DEF RunnersOwned
  <2>4. \A r \in Runners : pc'[r] \in {"settling", "archiving"} => at'[r] # 0
      BY <1>0 DEF RunnersOwned
  <2>5. \A i \in Items : verdict'[i] # "none" => video'[i] # NoVideo
      BY <1>0 DEF RunnersOwned
  <2>6. QED BY <2>2, <2>3, <2>4, <2>5 DEF RunnersOwned
<1>8. QED BY <1>2, <1>5, <1>6, <1>7 DEF BatchesEnd, IndInv, BookInv

\* The finally clause of _run ends one batch.
LEMMA BatchEnds ==
    ASSUME IndInv, NEW b \in Batches, BatchSkipped(b) \/ BatchEnd(b)
    PROVE  BatchesEnd({b})
<1>0. BookInv /\ RunnerTypes /\ RunnersOwned BY IndInvParts
<1>1. /\ bstatus[b] \in {"PENDING", "RUNNING"}
      /\ claimed' = claimed \ Freed({b})
      /\ UNCHANGED <<video, item, spares, rejected, pc, at, verdict>>
    BY DEF BatchSkipped, BatchEnd, runVars
<1>2. PICK o \in Finished : bstatus' = [bstatus EXCEPT ![b] = o]
  <2>1. CASE BatchSkipped(b) BY <2>1 DEF BatchSkipped, Finished
  <2>2. CASE BatchEnd(b)
    <3>1. Outcome(b) \in Finished BY DEF Outcome, Finished
    <3>2. QED BY <2>2, <3>1 DEF BatchEnd
  <2>3. QED BY <2>1, <2>2
<1>3. {b} \in SUBSET Live BY <1>1 DEF Live
<1>4. bstatus' \in [Batches -> {"none", "PENDING", "RUNNING", "forgotten"} \cup Finished]
    BY <1>0, <1>2 DEF BookInv, ClaimTypes
<1>5. /\ \A c \in Batches : c # b => bstatus'[c] = bstatus[c]
      /\ bstatus'[b] \in Finished
    BY <1>0, <1>2 DEF BookInv, ClaimTypes
<1>6. \A r \in Runners : r[1] = b => pc[r] \in {"idle", "over"}
  <2>1. CASE BatchSkipped(b)
    <3>1. bstatus[b] # "RUNNING" BY <2>1 DEF BatchSkipped
    <3>2. QED BY <1>0, <3>1 DEF RunnersOwned
  <2>2. CASE BatchEnd(b)
    <3>1. ASSUME NEW r \in Runners, r[1] = b PROVE pc[r] \in {"idle", "over"}
      <4>1. r = <<b, r[2]>> /\ r[2] \in Accounts BY <3>1 DEF Runners
      <4>2. CASE SlotsOf(r) = {} BY <1>0, <4>2 DEF RunnersOwned
      <4>3. CASE SlotsOf(r) # {}
        <5>1. r[2] \in AccountsOf(b) BY <4>1, <4>3 DEF AccountsOf
        <5>2. pc[<<b, r[2]>>] = "over" BY <2>2, <5>1 DEF BatchEnd
        <5>3. QED BY <4>1, <5>2
      <4>4. QED BY <4>2, <4>3
    <3>2. QED BY <3>1
  <2>3. QED BY <2>1, <2>2
<1>7. RunnerTypes' BY <1>0, <1>1 DEF RunnerTypes
<1>8. QED BY <1>1, <1>3, <1>4, <1>5, <1>6, <1>7, Ends

\* Shutting down ends all of them.
LEMMA ShutdownEnds ==
    ASSUME IndInv, NEW begun \in SUBSET Batches, Shutdown(begun)
    PROVE  BatchesEnd(begun)
<1>0. BookInv /\ RunnerTypes /\ RunnersOwned BY IndInvParts
<1>1. /\ bstatus' = [b \in Batches |-> IF b \in begun THEN "CANCELLED" ELSE bstatus[b]]
      /\ pc' = [r \in Runners |-> IF r[1] \in begun THEN "over" ELSE pc[r]]
      /\ claimed' = claimed \ Freed(begun)
      /\ UNCHANGED <<video, item, spares, rejected, at, verdict>>
    BY DEF Shutdown
<1>2. bstatus' \in [Batches -> {"none", "PENDING", "RUNNING", "forgotten"} \cup Finished]
    BY <1>0, <1>1 DEF BookInv, ClaimTypes, Finished
<1>3. /\ \A b \in begun : bstatus'[b] \in Finished
      /\ \A b \in Batches : bstatus'[b] = IF b \in begun THEN bstatus'[b] ELSE bstatus[b]
    BY <1>1 DEF Finished
<1>4. /\ \A r \in Runners : pc'[r] \in {pc[r], "over"}
      /\ \A r \in Runners : r[1] \in begun => pc'[r] \in {"idle", "over"}
      /\ RunnerTypes'
    BY <1>0, <1>1 DEF RunnerTypes
<1>5. begun \in SUBSET Live BY DEF Shutdown
<1>6. QED BY <1>1, <1>2, <1>3, <1>4, <1>5, Ends

\* The runners of a pending batch have not begun.
LEMMA BatchBegins ==
    ASSUME IndInv, NEW b \in Batches, BatchStart(b)
    PROVE  RunnerKeeps
<1>0. BookInv /\ RunnerTypes /\ RunnersOwned BY IndInvParts
<1>1. /\ bstatus[b] = "PENDING" /\ bstatus' = [bstatus EXCEPT ![b] = "RUNNING"]
      /\ pc' = [r \in Runners |-> IF r[1] = b /\ SlotsOf(r) # {} THEN "free" ELSE pc[r]]
      /\ UNCHANGED <<claimVars, at, verdict>>
    BY DEF BatchStart
<1>2. UNCHANGED <<video, item, spares, rejected, claimed>> BY <1>1 DEF claimVars
<1>3. BookInv' /\ Live' = Live BY <1>0, Started
<1>4. RunnerTypes' BY <1>0, <1>1 DEF RunnerTypes
<1>5. RunnersOwned'
  <2>1. \A r \in Runners : SlotsOf(r)' = SlotsOf(r) BY <1>2 DEF SlotsOf
  <2>2. ASSUME NEW r \in Runners, pc'[r] \notin {"idle", "over"}
        PROVE  bstatus'[r[1]] = "RUNNING" /\ SlotsOf(r)' # {}
    <3>1. r[1] \in Batches BY DEF Runners
    <3>2. CASE r[1] = b
      <4>1. bstatus'[b] = "RUNNING" BY <1>0, <1>1 DEF BookInv, ClaimTypes
      <4>2. SlotsOf(r) # {} BY <1>0, <1>1, <2>2, <3>2 DEF RunnersOwned
      <4>3. QED BY <2>1, <3>2, <4>1, <4>2
    <3>3. CASE r[1] # b
      <4>1. pc'[r] = pc[r] /\ bstatus'[r[1]] = bstatus[r[1]]
          BY <1>0, <1>1, <3>1, <3>3 DEF BookInv, ClaimTypes
      <4>2. QED BY <1>0, <2>1, <2>2, <4>1 DEF RunnersOwned
    <3>4. QED BY <3>2, <3>3
  <2>3. \A r \in Runners : at'[r] # 0 => video'[It(r, at'[r])] # NoVideo
      BY <1>0, <1>1, <1>2 DEF RunnersOwned
  <2>4. \A r \in Runners : pc'[r] \in {"settling", "archiving"} => at'[r] # 0
      BY <1>0, <1>1 DEF RunnersOwned
  <2>5. \A i \in Items : verdict'[i] # "none" => video'[i] # NoVideo
      BY <1>0, <1>1, <1>2 DEF RunnersOwned
  <2>6. QED BY <2>2, <2>3, <2>4, <2>5 DEF RunnersOwned
<1>6. \A c \in Batches : Holds(c)' = Holds(c) BY <1>2 DEF Holds, ItemsOf
<1>7. QED BY <1>2, <1>3, <1>4, <1>5, <1>6 DEF RunnerKeeps, Live, IndInv, BookInv

\* The new batch has no runner at work yet.
LEMMA AddKeeps ==
    ASSUME IndInv, NEW b \in Batches, NEW A \in SUBSET Accounts, NEW per \in PerAccount,
           NEW offered \in SUBSET Videos, Add(b, A, per, offered)
    PROVE  IndInv'
<1>0. BookInv /\ RunnerTypes /\ RunnersOwned BY IndInvParts
<1>1. /\ bstatus[b] = "none" /\ bstatus' = [bstatus EXCEPT ![b] = "PENDING"]
      /\ UNCHANGED runVars
    BY DEF Add
<1>2. UNCHANGED <<pc, at, verdict>> BY <1>1 DEF runVars
<1>3. BookInv' /\ \A i \in Items : video[i] # NoVideo => video'[i] # NoVideo
    BY <1>0, Added
<1>4. RunnerTypes' BY <1>0, <1>2 DEF RunnerTypes
<1>5. RunnersOwned'
  <2>1. ASSUME NEW r \in Runners, pc'[r] \notin {"idle", "over"}
        PROVE  bstatus'[r[1]] = "RUNNING" /\ SlotsOf(r)' # {}
    <3>1. bstatus[r[1]] = "RUNNING" /\ SlotsOf(r) # {} BY <1>0, <1>2, <2>1 DEF RunnersOwned
    <3>2. r[1] \in Batches /\ r[1] # b BY <1>1, <3>1 DEF Runners
    <3>3. bstatus'[r[1]] = "RUNNING"
        BY <1>0, <1>1, <3>1, <3>2 DEF BookInv, ClaimTypes
    <3>4. PICK n \in Slots : video[It(r, n)] # NoVideo BY <3>1, SlotFacts
    <3>5. It(r, n) \in Items BY SlotFacts
    <3>6. video'[It(r, n)] # NoVideo BY <1>3, <3>4, <3>5
    <3>7. n \in SlotsOf(r)' BY <3>6 DEF SlotsOf, It
    <3>8. QED BY <3>3, <3>7
  <2>2. ASSUME NEW r \in Runners, at'[r] # 0 PROVE video'[It(r, at'[r])] # NoVideo
    <3>1. video[It(r, at[r])] # NoVideo /\ at[r] \in Slots
        BY <1>0, <1>2, <2>2 DEF RunnersOwned, RunnerTypes
    <3>2. It(r, at[r]) \in Items BY <3>1, SlotFacts
    <3>3. QED BY <1>2, <1>3, <3>1, <3>2
  <2>3. \A r \in Runners : pc'[r] \in {"settling", "archiving"} => at'[r] # 0
      BY <1>0, <1>2 DEF RunnersOwned
  <2>4. \A i \in Items : verdict'[i] # "none" => video'[i] # NoVideo
      BY <1>0, <1>2, <1>3 DEF RunnersOwned
  <2>5. QED BY <2>1, <2>2, <2>3, <2>4 DEF RunnersOwned
<1>6. QED BY <1>3, <1>4, <1>5 DEF IndInv, BookInv

\* A backend that has just started: no batch of this lifetime.
Fresh ==
    /\ bstatus \in [Batches -> {"none", "forgotten"}]
    /\ video = [i \in Items |-> NoVideo] /\ item = [i \in Items |-> "none"]
    /\ spares = [b \in Batches |-> {}] /\ rejected = [b \in Batches |-> {}]
    /\ claimed = {}
    /\ pc = [r \in Runners |-> "idle"] /\ at = [r \in Runners |-> 0]
    /\ verdict = [i \in Items |-> "none"]

\* The invariant holds when the backend starts, and
LEMMA FreshInv == Fresh => IndInv
<1> SUFFICES ASSUME Fresh PROVE IndInv
    OBVIOUS
<1> USE DEF Fresh
<1>1. Live = {} BY DEF Live
<1>2. \A b \in Batches : rejected[b] = {} OBVIOUS
<1>3. \A i \in Items : video[i] = NoVideo /\ item[i] = "none" OBVIOUS
<1>4. Used = {} /\ Gone = {} BY <1>2, <1>3 DEF Used, Gone, Spent
<1>5. ClaimTypes BY DEF ClaimTypes
<1>6. RunnerTypes BY DEF RunnerTypes
<1>7. ItemsExist
  <2>1. \A i \in Items : <<i[1], i[2], 1>> \in Items
    <3>1. ASSUME NEW i \in Items PROVE <<i[1], i[2], 1>> \in Items
      <4>1. i[3] \in Slots BY DEF Items
      <4>2. 1 \in Slots BY <4>1, BulkAssumption DEF Slots
      <4>3. QED BY <4>2 DEF Items
    <3>2. QED BY <3>1
  <2>2. QED BY <1>3, <2>1 DEF ItemsExist
<1>8. RunnersOwned BY DEF RunnersOwned
<1>9. OneOwner BY <1>1 DEF OneOwner
<1>10. ClaimsExact BY <1>1, <1>4 DEF ClaimsExact
<1>11. UsedApart BY <1>1 DEF UsedApart
<1>12. QED BY <1>5, <1>6, <1>7, <1>8, <1>9, <1>10, <1>11 DEF IndInv

\* ... starts again.
LEMMA FreshNext == Fresh' => IndInv' /\ Live' = {}
<1>1. Fresh' => IndInv' BY FreshInv, PTL
<1>2. Fresh' => Live' = {} BY DEF Fresh, Live
<1>3. QED BY <1>1, <1>2

\* The first start.
LEMMA InitFresh == Init => Fresh
BY DEF Init, Fresh

\* A restart.
LEMMA RestartFresh == IndInv /\ Restart => Fresh'
<1> SUFFICES ASSUME IndInv, Restart PROVE Fresh'
    OBVIOUS
<1>1. bstatus' = [b \in Batches |-> IF bstatus[b] = "none" THEN "none" ELSE "forgotten"]
    BY DEF Restart
<1>2. bstatus' \in [Batches -> {"none", "forgotten"}] BY <1>1
<1>3. QED BY <1>2 DEF Restart, Fresh

-----------------------------------------------------------------------------
(* The invariant and the refinement.                                       *)

\* Files only leave the library.
LibraryTyped == library \subseteq Videos

\* What a scan may list are files of the library, those that are done included.
LEMMA ScannedTyped == IndInv /\ LibraryTyped => Scanned \subseteq Videos
<1> SUFFICES ASSUME IndInv, LibraryTyped PROVE Scanned \subseteq Videos
    OBVIOUS
<1>1. ASSUME NEW i \in Items, item[i] = "DONE" PROVE video[i] \in Videos
    BY <1>1 DEF IndInv, ClaimTypes, ItemsExist
<1>2. QED BY <1>1 DEF Scanned, LibraryTyped

\* Only archive_posted_video moves a file.
LEMMA LibraryStep == LibraryTyped /\ [Next]_vars => LibraryTyped'
<1> SUFFICES ASSUME LibraryTyped, [Next]_vars PROVE LibraryTyped'
    OBVIOUS
<1> USE DEF LibraryTyped
<1>1. CASE UNCHANGED vars BY <1>1 DEF vars, lifeVars
<1>2. ASSUME NEW r \in Runners, RunnerStep(r) PROVE LibraryTyped'
  <2>1. CASE \E ok \in BOOLEAN : ArchiveEnds(r, ok) BY <2>1 DEF ArchiveEnds
  <2>2. CASE GiveUp(r) \/ Sleep(r) \/ Submit(r) \/ SubmitRefused(r)
      BY <2>2 DEF GiveUp, Sleep, Submit, SubmitRefused, lifeVars
  <2>3. CASE SubmitReturns(r) \/ Poll(r) \/ SettleDone(r)
      BY <2>3 DEF SubmitReturns, Poll, SettleDone, lifeVars
  <2>4. CASE SettleFailed(r) \/ \E s \in Videos : Replace(r, s)
      BY <2>4 DEF SettleFailed, Replace, lifeVars
  <2>5. QED BY <1>2, <2>1, <2>2, <2>3, <2>4 DEF RunnerStep
<1>3. ASSUME NEW b \in Batches, BatchStep(b) PROVE LibraryTyped'
    BY <1>3 DEF BatchStep, BatchStart, BatchSkipped, BatchEnd, lifeVars
<1>4. ASSUME NEW j \in Jobs, JobStep(j) PROVE LibraryTyped'
  <2>1. CASE JobStarts(j) \/ JobDropped(j) \/ JobDenied(j) \/ JobFails(j)
      BY <2>1 DEF JobStarts, JobDropped, JobDenied, JobFails, lifeVars
  <2>2. CASE LoginFails(j) \/ JobReports(j) \/ JobReleases(j)
      BY <2>2 DEF LoginFails, JobReports, JobReleases, lifeVars
  <2>3. CASE \E res \in Verdicts : Publish(j, res) \/ RecordFails(j, res)
      BY <2>3 DEF Publish, RecordFails
  <2>4. QED BY <1>4, <2>1, <2>2, <2>3 DEF JobStep
<1>5. ASSUME NEW a \in Accounts, OtherStep(a) PROVE LibraryTyped'
    BY <1>5 DEF OtherStep, OtherSubmits, OtherDropped, OtherReleases, OtherReports, lifeVars
<1>6. CASE OperatorStep
    BY <1>6 DEF OperatorStep, Add, Cancel, EmergencyStop, Shutdown, Restart, lifeVars
<1>7. QED BY <1>1, <1>2, <1>3, <1>4, <1>5, <1>6 DEF Next

\* Steps of the dispatcher touch neither the batches nor the runners.
LEMMA DispatcherKeeps ==
    ASSUME IndInv,
           \/ \E j \in Jobs : JobStep(j)
           \/ \E a \in Accounts : OtherStep(a)
           \/ \E b \in Batches : Cancel(b)
           \/ EmergencyStop
           \/ UNCHANGED vars
    PROVE  RunnerKeeps
<1>1. ASSUME NEW j \in Jobs, JobStep(j) PROVE UNCHANGED <<bstatus, claimVars, runVars>>
  <2>1. CASE JobStarts(j) \/ JobDropped(j) \/ JobDenied(j) \/ JobFails(j)
      BY <2>1 DEF JobStarts, JobDropped, JobDenied, JobFails, batchVars
  <2>2. CASE LoginFails(j) \/ JobReports(j) \/ JobReleases(j)
      BY <2>2 DEF LoginFails, JobReports, JobReleases, batchVars
  <2>3. CASE \E res \in Verdicts : Publish(j, res) \/ RecordFails(j, res)
      BY <2>3 DEF Publish, RecordFails, batchVars
  <2>4. QED BY <1>1, <2>1, <2>2, <2>3 DEF JobStep
<1>2. ASSUME NEW a \in Accounts, OtherStep(a) PROVE UNCHANGED <<bstatus, claimVars, runVars>>
    BY <1>2 DEF OtherStep, OtherSubmits, OtherDropped, OtherReleases, OtherReports, batchVars
<1>3. CASE (\E b \in Batches : Cancel(b)) \/ EmergencyStop \/ UNCHANGED vars
    BY <1>3, Steady DEF Cancel, EmergencyStop, vars, batchVars
<1>4. QED BY <1>1, <1>2, <1>3, Steady

\* What a step is for the library: nothing, a new batch, the end of batches, or a
\* new lifetime.
LEMMA StepShape ==
    ASSUME IndInv, LibraryTyped, [Next]_vars
    PROVE  \/ RunnerKeeps
           \/ \E b \in Batches, A \in SUBSET Accounts, per \in PerAccount,
                 offered \in SUBSET Videos : Add(b, A, per, offered)
           \/ \E B \in SUBSET Batches : BatchesEnd(B)
           \/ Fresh'
<1>1. CASE \E r \in Runners : RunnerStep(r) BY <1>1, RunnerStepKeeps
<1>2. ASSUME NEW b \in Batches, BatchStep(b)
      PROVE  RunnerKeeps \/ BatchesEnd({b})
    BY <1>2, BatchBegins, BatchEnds DEF BatchStep
<1>3. CASE \/ \E j \in Jobs : JobStep(j)
           \/ \E a \in Accounts : OtherStep(a)
           \/ UNCHANGED vars
    BY <1>3, DispatcherKeeps
<1>4. CASE OperatorStep
  <2>1. CASE (\E b \in Batches : Cancel(b)) \/ EmergencyStop BY <2>1, DispatcherKeeps
  <2>2. ASSUME NEW begun \in SUBSET Batches, Shutdown(begun)
        PROVE  \E B \in SUBSET Batches : BatchesEnd(B)
      BY <2>2, ShutdownEnds
  <2>3. CASE Restart BY <2>3, RestartFresh
  <2>4. ASSUME NEW b \in Batches, NEW A \in SUBSET Accounts \ {{}}, NEW per \in PerAccount,
               NEW offered \in SUBSET Scanned, Add(b, A, per, offered)
        PROVE  \E c \in Batches, D \in SUBSET Accounts, p \in PerAccount,
                  o \in SUBSET Videos : Add(c, D, p, o)
    <3>1. offered \in SUBSET Videos BY ScannedTyped
    <3>2. A \in SUBSET Accounts OBVIOUS
    <3>3. QED BY <2>4, <3>1, <3>2
  <2>5. QED BY <1>4, <2>1, <2>2, <2>3, <2>4 DEF OperatorStep
<1>5. QED
  <2>1. ASSUME NEW b \in Batches, BatchStep(b)
        PROVE  RunnerKeeps \/ \E B \in SUBSET Batches : BatchesEnd(B)
    <3>1. {b} \in SUBSET Batches OBVIOUS
    <3>2. QED BY <2>1, <1>2, <3>1
  <2>2. QED BY <1>1, <1>3, <1>4, <2>1 DEF Next

\* The invariant is inductive.
LEMMA IndInvStep == IndInv /\ LibraryTyped /\ [Next]_vars => IndInv'
<1> SUFFICES ASSUME IndInv, LibraryTyped, [Next]_vars PROVE IndInv'
    OBVIOUS
<1>1. CASE RunnerKeeps BY <1>1 DEF RunnerKeeps
<1>2. CASE \E b \in Batches, A \in SUBSET Accounts, per \in PerAccount,
              offered \in SUBSET Videos : Add(b, A, per, offered)
    BY <1>2, AddKeeps
<1>3. CASE \E B \in SUBSET Batches : BatchesEnd(B) BY <1>3 DEF BatchesEnd
<1>4. CASE Fresh' BY <1>4, FreshNext
<1>5. QED BY <1>1, <1>2, <1>3, <1>4, StepShape

\* It holds at first.
LEMMA InitInv == Init => IndInv /\ LibraryTyped
<1>1. Init => LibraryTyped BY DEF Init, LibraryTyped
<1>2. QED BY <1>1, InitFresh, FreshInv

\* Hence it holds always.
LEMMA Invariants == Spec => [](IndInv /\ LibraryTyped)
<1>1. QED BY InitInv, IndInvStep, LibraryStep, PTL DEF Spec

\* The claims, the items and the spares agree at every step of every behaviour.
THEOREM BooksAgree == Spec => []IndInv
<1>1. IndInv /\ LibraryTyped => IndInv OBVIOUS
<1>2. QED BY <1>1, Invariants, PTL

\* No video is ever given to two items, two spares, or an item and a spare of
\* unfinished batches, however add(), replacements, cancellations, stops, lost tasks
\* and restarts interleave.
THEOREM EveryVideoHasOneOwner == Spec => []OneOwner
<1>1. IndInv => OneOwner BY DEF IndInv
<1>2. QED BY <1>1, BooksAgree, PTL

\* A key is claimed exactly while an unfinished batch holds its video, or after the
\* video was posted or rejected: no batch that ends in any way leaks a claim or
\* gives one back that another still needs.
THEOREM ClaimsAreExact == Spec => []ClaimsExact
<1>1. IndInv => ClaimsExact BY DEF IndInv
<1>2. QED BY <1>1, BooksAgree, PTL

-----------------------------------------------------------------------------
\* kept and spent, as the refinement maps them.
KeptNow  == [b \in Batches |-> IF b \in Live THEN Holds(b) ELSE {}]
SpentNow == claimed \ LiveHolds

\* What VideoClaims sees kept is what the live batches hold.
LEMMA KeptUnion == UNION {KeptNow[b] : b \in Batches} = LiveHolds
<1>1. \A b \in Live : b \in Batches /\ KeptNow[b] = Holds(b) BY DEF Live, KeptNow
<1>2. \A b \in Batches : (KeptNow[b] = Holds(b) /\ b \in Live) \/ KeptNow[b] = {}
    BY DEF KeptNow
<1>3. QED BY <1>1, <1>2 DEF LiveHolds

\* A step that touches no batch is a stuttering step of VideoClaims.
LEMMA KeepsStutters ==
    ASSUME RunnerKeeps
    PROVE  KeptNow' = KeptNow /\ SpentNow' = SpentNow
<1>1. \A b \in Batches : (IF b \in Live THEN Holds(b) ELSE {})'
                            = IF b \in Live THEN Holds(b) ELSE {}
    BY DEF RunnerKeeps
<1>2. LiveHolds' = LiveHolds BY DEF RunnerKeeps, LiveHolds
<1>3. QED BY <1>1, <1>2 DEF KeptNow, SpentNow, RunnerKeeps

\* add() reserves what was offered and unclaimed.
LEMMA AddReserves ==
    ASSUME IndInv, NEW b \in Batches, NEW A \in SUBSET Accounts, NEW per \in PerAccount,
           NEW offered \in SUBSET Videos, Add(b, A, per, offered)
    PROVE  Claims!Reserve(b, offered \ claimed)
<1> DEFINE free == offered \ claimed
<1>0. BookInv BY IndInvParts
<1>1. /\ b \notin Live /\ Live' = Live \cup {b}
      /\ Holds(b)' = free /\ claimed' = claimed \cup free
      /\ \A c \in Batches : c # b => Holds(c)' = Holds(c)
    BY <1>0, Added
<1>2. LiveHolds \subseteq claimed BY <1>0 DEF BookInv, ClaimsExact, LiveHolds
<1>3. KeptNow[b] = {} BY <1>1 DEF KeptNow
<1>4. free \cap (LiveHolds \cup SpentNow) = {} BY <1>2 DEF SpentNow
<1>5. KeptNow' = [KeptNow EXCEPT ![b] = free]
  <2>1. \A c \in Batches : KeptNow'[c] = IF c = b THEN free ELSE KeptNow[c]
      BY <1>1 DEF KeptNow
  <2>2. QED BY <2>1 DEF KeptNow
<1>6. SpentNow' = SpentNow
  <2>1. \A c \in Live : c \in Batches /\ c # b BY <1>1 DEF Live
  <2>2. LiveHolds' = LiveHolds \cup free
    <3>1. LiveHolds' = UNION {Holds(c)' : c \in Live \cup {b}} BY <1>1 DEF LiveHolds
    <3>2. \A c \in Live : Holds(c)' = Holds(c) BY <1>1, <2>1
    <3>3. QED BY <1>1, <3>1, <3>2 DEF LiveHolds
  <2>3. QED BY <1>1, <2>2 DEF SpentNow
<1>7. QED BY <1>3, <1>4, <1>5, <1>6, KeptUnion
          DEF Claims!Reserve, Claims!Kept, KeptNow, SpentNow, LiveHolds

\* Batches that end spend what they do not release.
LEMMA EndsConclude ==
    ASSUME IndInv, NEW B \in SUBSET Batches, BatchesEnd(B)
    PROVE  \E S \in SUBSET Videos : Claims!Conclude(B, S)
<1>0. BookInv BY IndInvParts
<1>1. /\ B \subseteq Live /\ Live' = Live \ B /\ claimed' = claimed \ Freed(B)
      /\ \A c \in Batches : Holds(c)' = Holds(c)
    BY DEF BatchesEnd
<1> DEFINE Own  == UNION {Holds(b) : b \in B}
           Rest == UNION {Holds(c) : c \in Live \ B}
           S    == (Own \ Freed(B)) \ Rest
<1>2. \A c \in Live : Holds(c) \subseteq claimed BY <1>0 DEF BookInv, ClaimsExact
<1>3. Own \subseteq claimed /\ claimed \subseteq Videos
    BY <1>0, <1>1, <1>2 DEF BookInv, ClaimTypes
<1>4. Freed(B) \subseteq Own BY <1>0, <1>1, FreedHeld
<1>5. LiveHolds = Own \cup Rest BY <1>1 DEF LiveHolds
<1>6. LiveHolds' = Rest
  <2>1. \A c \in Live \ B : Holds(c)' = Holds(c) BY <1>1 DEF Live
  <2>2. LiveHolds' = UNION {Holds(c)' : c \in Live \ B} BY <1>1 DEF LiveHolds
  <2>3. QED BY <2>1, <2>2
<1>7. SpentNow' = SpentNow \cup S BY <1>1, <1>3, <1>4, <1>5, <1>6 DEF SpentNow
<1>8. UNION {KeptNow[b] : b \in B} = Own BY <1>1 DEF KeptNow
<1>9. KeptNow' = [b \in Batches |-> IF b \in B THEN {} ELSE KeptNow[b]]
    BY <1>1 DEF KeptNow
<1>10. S \in SUBSET Videos /\ S \subseteq Own BY <1>3
<1>11. Claims!Conclude(B, S)
    BY <1>7, <1>8, <1>9, <1>10 DEF Claims!Conclude, Claims!Kept, KeptNow, SpentNow, LiveHolds
<1> HIDE DEF S
<1>12. QED BY <1>10, <1>11 DEF Claims!Conclude

\* A new lifetime starts without claims, as VideoClaims says.
LEMMA FreshRestarts ==
    ASSUME Fresh', Live' = {}
    PROVE  Claims!Restart
<1>1. KeptNow' = [b \in Batches |-> {}] BY DEF KeptNow
<1>2. SpentNow' = {} BY DEF SpentNow, Fresh
<1>3. QED BY <1>1, <1>2 DEF Claims!Restart, KeptNow, SpentNow, LiveHolds

\* So does the first.
LEMMA FreshClaims == Init => Claims!Init
<1> SUFFICES ASSUME Init PROVE Claims!Init
    OBVIOUS
<1>1. Live = {} BY DEF Init, Live
<1>2. claimed = {} BY DEF Init
<1>3. QED BY <1>1, <1>2 DEF Claims!Init

\* Every step of the service is a step VideoClaims allows, or changes nothing there.
LEMMA ClaimsStep ==
    IndInv /\ LibraryTyped /\ [Next]_vars => [Claims!Next]_<<KeptNow, SpentNow>>
<1> SUFFICES ASSUME IndInv, LibraryTyped, [Next]_vars
             PROVE  [Claims!Next]_<<KeptNow, SpentNow>>
    OBVIOUS
<1>1. CASE RunnerKeeps BY <1>1, KeepsStutters
<1>2. ASSUME NEW b \in Batches, NEW A \in SUBSET Accounts, NEW per \in PerAccount,
             NEW offered \in SUBSET Videos, Add(b, A, per, offered)
      PROVE  Claims!Next
  <2>1. Claims!Reserve(b, offered \ claimed) BY <1>2, AddReserves
  <2>2. offered \ claimed \in SUBSET Videos OBVIOUS
  <2>3. \E c \in Batches, S \in SUBSET Videos : Claims!Reserve(c, S)
      BY <2>1, <2>2 DEF Claims!Reserve
  <2>4. QED BY <2>3 DEF Claims!Next
<1>3. ASSUME NEW B \in SUBSET Batches, BatchesEnd(B) PROVE Claims!Next
  <2>1. PICK S \in SUBSET Videos : Claims!Conclude(B, S) BY <1>3, EndsConclude
  <2>2. QED BY <2>1 DEF Claims!Next
<1>4. CASE Fresh' BY <1>4, FreshNext, FreshRestarts DEF Claims!Next
<1>5. QED BY <1>1, <1>2, <1>3, <1>4, StepShape

\* The service keeps the promise of VideoClaims, for any number of batches, accounts
\* and videos, through stops, lost tasks, shutdowns and restarts.
THEOREM ServiceKeepsClaims == Spec => KeepsClaims
<1>1. IndInv /\ LibraryTyped /\ [Next]_vars => [Claims!Next]_<<KeptNow, SpentNow>>
    BY ClaimsStep
<1>2. QED BY <1>1, FreshClaims, Invariants, PTL
          DEF Spec, KeepsClaims, Claims!Spec, KeptNow, SpentNow, LiveHolds
-----------------------------------------------------------------------------
(* What a step of a runner touches.                                        *)

\* An item belongs to one runner, and is one of its slots.
LEMMA ItemOf ==
    ASSUME NEW i \in Items
    PROVE  /\ RunnerOf(i) \in Runners /\ i[3] \in Slots /\ i = It(RunnerOf(i), i[3])
           /\ RunnerOf(i)[1] = i[1] /\ RunnerOf(i)[2] = i[2]
           /\ i[1] \in Batches /\ i[2] \in Accounts
           /\ \A r \in Runners : (i[1] = r[1] /\ i[2] = r[2]) <=> RunnerOf(i) = r
BY DEF Items, Runners, RunnerOf, It

\* Its items are those of its slots.
LEMMA ItOf ==
    ASSUME NEW r \in Runners, NEW n \in Slots
    PROVE  It(r, n) \in Items /\ RunnerOf(It(r, n)) = r /\ It(r, n)[3] = n
BY DEF Items, Runners, RunnerOf, It

\* A runner touches its own items only, and none that it has settled; no batch starts
\* or ends with it, and it confirms nothing.
RunnerFrame(r) ==
    /\ UNCHANGED <<bstatus, stops, stopping, other, others, confirmed>>
    /\ pc[r] \notin {"idle", "over"} /\ pc'[r] # "idle"
    /\ \A q \in Runners : SlotsOf(q)' = SlotsOf(q)
    /\ \A q \in Runners : q # r => pc'[q] = pc[q] /\ at'[q] = at[q] /\ sub'[q] = sub[q]
    /\ \A i \in Items : \/ item'[i] = item[i] /\ video'[i] = video[i]
                        \/ RunnerOf(i) = r /\ i[3] \in Ahead(r)
    /\ \A i \in Items : RunnerOf(i) # r => verdict'[i] = verdict[i]
    /\ \/ pc'[r] = "over"
       \/ \A n \in Ahead(r)' : /\ n \in Ahead(r)
                               /\ item'[It(r, n)] \in {item[It(r, n)], "SUBMITTING", "RUNNING"}

\* What Mark does to each item.
LEMMA Marks ==
    ASSUME NEW r \in Runners, NEW S, NEW st, Mark(r, S, st)
    PROVE  \A i \in Items : item'[i] = IF RunnerOf(i) = r /\ i[3] \in S THEN st ELSE item[i]
BY ItemOf DEF Mark

\* The items of the task under way are not settled.
LEMMA CurrentAhead ==
    ASSUME RunnerTypes, RunnersOwned, NEW r \in Runners, pc[r] # "archiving"
    PROVE  Current(r) \subseteq Ahead(r)
<1>1. Current(r) \subseteq SlotsOf(r) BY CurrentOwned
<1>2. QED BY <1>1 DEF Current, Ahead

\* The slot it settles.
LEMMA AtOwned ==
    ASSUME RunnerTypes, RunnersOwned, NEW r \in Runners, at[r] # 0
    PROVE  at[r] \in SlotsOf(r) /\ at[r] \in Slots /\ at[r] \in Nat
<1>1. at[r] \in Slots /\ video[It(r, at[r])] # NoVideo BY DEF RunnerTypes, RunnersOwned
<1>2. QED BY <1>1, SlotFacts

\* The loop over the slots only goes on.
LEMMA AdvanceAhead ==
    ASSUME RunnerTypes, RunnersOwned, NEW r \in Runners, at[r] # 0, Advance(r, at[r]),
           SlotsOf(r)' = SlotsOf(r)
    PROVE  pc'[r] = "over" \/ Ahead(r)' \subseteq Ahead(r) \ {at[r]}
<1>1. at[r] \in SlotsOf(r) /\ at[r] \in Nat BY AtOwned
<1>2. CASE at[r] + 1 \in SlotsOf(r)
  <2>1. at'[r] = at[r] + 1 BY <1>2 DEF Advance, RunnerTypes
  <2>2. SlotsOf(r) \subseteq Nat BY SlotFacts
  <2>3. \A n \in SlotsOf(r) : (at'[r] = 0 \/ n > at'[r] \/ n = at'[r]) => n > at[r]
      BY <1>1, <2>1, <2>2
  <2>4. QED BY <1>1, <2>2, <2>3 DEF Ahead
<1>3. CASE at[r] + 1 \notin SlotsOf(r) BY <1>3 DEF Advance, RunnerTypes
<1>4. QED BY <1>2, <1>3

\* Files stay, so slots do.
LEMMA SlotsStay ==
    ASSUME \A i \in Items : video'[i] = NoVideo <=> video[i] = NoVideo
    PROVE  \A q \in Runners : SlotsOf(q)' = SlotsOf(q)
<1>1. \A q \in Runners, n \in Slots : It(q, n) \in Items BY SlotFacts
<1>2. QED BY <1>1 DEF SlotsOf, It

\* A submission that fails.
LEMMA FailsFrame ==
    ASSUME IndInv, TasksCounted, NEW r \in Runners, pc[r] \in {"asking", "free", "submitting"},
           SubmissionFails(r),
           UNCHANGED <<bstatus, stops, stopping, other, others, confirmed, video, verdict>>,
           \A q \in Runners : q # r => sub'[q] = sub[q]
    PROVE  RunnerFrame(r)
<1>0. BookInv /\ RunnerTypes /\ RunnersOwned BY IndInvParts
<1>1. \A q \in Runners : SlotsOf(q)' = SlotsOf(q) BY SlotsStay
<1>2. \A i \in Items : item'[i] = IF RunnerOf(i) = r /\ i[3] \in Current(r) THEN "ERROR" ELSE item[i]
    BY Marks DEF SubmissionFails
<1>3. Current(r) \subseteq Ahead(r) BY <1>0, CurrentAhead
<1>4. /\ \A q \in Runners : q # r => pc'[q] = pc[q] /\ at'[q] = at[q]
      /\ pc'[r] # "idle"
  <2>1. CASE at[r] = 0 BY <1>0, <2>1 DEF SubmissionFails, RunnerTypes
  <2>2. CASE at[r] # 0
    <3>1. Advance(r, at[r]) BY <2>2 DEF SubmissionFails
    <3>2. QED BY <1>0, <3>1, Advances
  <2>3. QED BY <2>1, <2>2
<1>5. pc'[r] = "over" \/ \A n \in Ahead(r)' : n \in Ahead(r) /\ item'[It(r, n)] = item[It(r, n)]
  <2>1. CASE at[r] = 0 BY <1>0, <2>1 DEF SubmissionFails, RunnerTypes
  <2>2. CASE at[r] # 0
    <3>1. Advance(r, at[r]) BY <2>2 DEF SubmissionFails
    <3>2. pc'[r] = "over" \/ Ahead(r)' \subseteq Ahead(r) \ {at[r]}
        BY <1>0, <1>1, <2>2, <3>1, AdvanceAhead
    <3>3. Current(r) = {at[r]} BY <2>2 DEF Current
    <3>4. Ahead(r) \subseteq Slots BY DEF Ahead, SlotsOf
    <3>5. \A n \in Ahead(r) \ {at[r]} : item'[It(r, n)] = item[It(r, n)]
        BY <1>2, <3>3, <3>4, ItOf
    <3>6. QED BY <3>2, <3>5
  <2>3. QED BY <2>1, <2>2
<1>6. QED BY <1>1, <1>2, <1>3, <1>4, <1>5 DEF RunnerFrame

\* A refused or abandoned submission.
LEMMA FailFrame ==
    ASSUME IndInv, TasksCounted, NEW r \in Runners, GiveUp(r) \/ SubmitRefused(r)
    PROVE  RunnerFrame(r)
<1>1. /\ pc[r] \in {"asking", "free"} /\ SubmissionFails(r)
      /\ UNCHANGED <<bstatus, stops, stopping, other, others, confirmed, video, verdict>>
      /\ sub' = sub
    BY DEF GiveUp, SubmitRefused, Asks, dispVars, lifeVars
<1>2. QED BY <1>1, FailsFrame

\* A runner that goes on without changing its slot.
LEMMA StaysFrame ==
    ASSUME IndInv, NEW r \in Runners, pc[r] \notin {"idle", "over", "archiving"},
           NEW p \in {"free", "asking", "submitting", "polling", "archiving"},
           pc' = [pc EXCEPT ![r] = p],
           UNCHANGED <<at, bstatus, stops, stopping, other, others, confirmed>>,
           \A q \in Runners : q # r => sub'[q] = sub[q],
           \A i \in Items : video'[i] = NoVideo <=> video[i] = NoVideo,
           \A i \in Items : \/ item'[i] = item[i] /\ video'[i] = video[i]
                            \/ RunnerOf(i) = r /\ i[3] \in Current(r),
           \A i \in Items : RunnerOf(i) # r => verdict'[i] = verdict[i],
           p # "archiving" => \A i \in Items : item'[i] \in {item[i], "SUBMITTING", "RUNNING"},
           p = "archiving" => at[r] # 0
    PROVE  RunnerFrame(r)
<1>0. BookInv /\ RunnerTypes /\ RunnersOwned BY IndInvParts
<1>1. \A q \in Runners : SlotsOf(q)' = SlotsOf(q) BY SlotsStay
<1>2. pc'[r] = p /\ \A q \in Runners : q # r => pc'[q] = pc[q] BY <1>0 DEF RunnerTypes
<1>3. Current(r) \subseteq Ahead(r) BY <1>0, CurrentAhead
<1>4. \A n \in Ahead(r)' : /\ n \in Ahead(r)
                           /\ item'[It(r, n)] \in {item[It(r, n)], "SUBMITTING", "RUNNING"}
  <2>1. Ahead(r)' \subseteq Ahead(r) BY <1>1 DEF Ahead
  <2>2. ASSUME NEW n \in Ahead(r)'
        PROVE  item'[It(r, n)] \in {item[It(r, n)], "SUBMITTING", "RUNNING"}
    <3>1. n \in Slots BY <2>1 DEF Ahead, SlotsOf
    <3>2. It(r, n) \in Items /\ It(r, n)[3] = n BY <3>1, ItOf
    <3>3. CASE p # "archiving" BY <3>2, <3>3
    <3>4. CASE p = "archiving"
      <4>1. n # at[r]
        <5>1. at[r] # 0 /\ at'[r] = at[r] BY <3>4
        <5>2. at[r] \in Nat BY <1>0, <5>1, AtOwned
        <5>3. n \in Nat BY <3>1, SlotFacts
        <5>4. n > at[r] BY <1>2, <3>4, <5>1, <2>2 DEF Ahead
        <5>5. QED BY <5>2, <5>3, <5>4
      <4>2. n \notin Current(r) BY <3>4, <4>1 DEF Current
      <4>3. QED BY <3>2, <4>2
    <3>5. QED BY <3>3, <3>4
  <2>3. QED BY <2>1, <2>2
<1>5. QED BY <1>1, <1>2, <1>3, <1>4 DEF RunnerFrame

\* Waiting, and a submission that begins.
LEMMA SubmitFrame ==
    ASSUME IndInv, NEW r \in Runners, Sleep(r) \/ Submit(r)
    PROVE  RunnerFrame(r)
<1>0. BookInv /\ RunnerTypes /\ RunnersOwned BY IndInvParts
<1>1. /\ pc[r] \in {"asking", "free"}
      /\ UNCHANGED <<at, bstatus, stops, stopping, other, others, confirmed, sub, video, verdict>>
    BY DEF Sleep, Submit, Asks, batchVars, claimVars, dispVars, lifeVars
<1>2. PICK p \in {"free", "submitting"} : pc' = [pc EXCEPT ![r] = p]
    BY DEF Sleep, Submit
<1>3. \A i \in Items : item'[i] = item[i] \/ (RunnerOf(i) = r /\ i[3] \in Current(r)
                                              /\ item'[i] = "SUBMITTING")
  <2>1. CASE Sleep(r) BY <2>1 DEF Sleep, claimVars
  <2>2. CASE Submit(r)
    <3>1. Mark(r, Current(r), "SUBMITTING") BY <2>2 DEF Submit
    <3>2. QED BY <3>1, Marks
  <2>3. QED BY <2>1, <2>2
<1>4. QED BY <1>1, <1>2, <1>3, StaysFrame

\* submit_task returns.
LEMMA ReturnFrame ==
    ASSUME IndInv, TasksCounted, NEW r \in Runners, SubmitReturns(r)
    PROVE  RunnerFrame(r)
<1>1. /\ pc[r] = "submitting" /\ sub' = [sub EXCEPT ![r] = @ + 1]
      /\ UNCHANGED <<bstatus, stops, stopping, other, others, confirmed, video, verdict>>
    BY DEF SubmitReturns, dispVars, lifeVars
<1>2. \A q \in Runners : q # r => sub'[q] = sub[q] BY <1>1 DEF TasksCounted
<1>3. CASE r[2] \notin busy
  <2>1. SubmissionFails(r) BY <1>3 DEF SubmitReturns
  <2>2. QED BY <1>1, <1>2, <2>1, FailsFrame
<1>4. CASE r[2] \in busy
  <2>1. Mark(r, Current(r), "RUNNING") /\ pc' = [pc EXCEPT ![r] = "polling"] /\ at' = at
      BY <1>4 DEF SubmitReturns
  <2>2. \A i \in Items : item'[i] = item[i] \/ (RunnerOf(i) = r /\ i[3] \in Current(r)
                                                /\ item'[i] = "RUNNING")
      BY <2>1, Marks
  <2>3. QED BY <1>1, <1>2, <2>1, <2>2, StaysFrame
<1>5. QED BY <1>3, <1>4

\* The results are read: no item changes.
LEMMA PollFrame ==
    ASSUME IndInv, NEW r \in Runners, Poll(r)
    PROVE  RunnerFrame(r)
<1>0. BookInv /\ RunnerTypes /\ RunnersOwned BY IndInvParts
<1>1. /\ pc[r] = "polling" /\ pc' = [pc EXCEPT ![r] = "settling"]
      /\ at' = [at EXCEPT ![r] = IF @ = 0 THEN 1 ELSE @]
      /\ UNCHANGED <<bstatus, stops, stopping, other, others, confirmed, item, video, sub>>
    BY DEF Poll, batchVars, claimVars, dispVars, lifeVars
<1>2. \A q \in Runners : SlotsOf(q)' = SlotsOf(q) BY <1>1, SlotsStay
<1>3. /\ \A q \in Runners : q # r => pc'[q] = pc[q] /\ at'[q] = at[q]
      /\ pc'[r] = "settling"
    BY <1>0, <1>1 DEF RunnerTypes
<1>4. \A i \in Items : RunnerOf(i) # r => verdict'[i] = verdict[i]
    BY ItemOf DEF Poll
<1>5. Ahead(r)' \subseteq Ahead(r)
  <2>1. CASE at[r] = 0 BY <1>2, <2>1 DEF Ahead
  <2>2. CASE at[r] # 0
    <3>1. at'[r] = at[r] BY <1>0, <1>1, <2>2 DEF RunnerTypes
    <3>2. QED BY <1>1, <1>2, <3>1 DEF Ahead
  <2>3. QED BY <2>1, <2>2
<1>6. QED BY <1>1, <1>2, <1>3, <1>4, <1>5 DEF RunnerFrame

\* A verdict that has been looked at.
LEMMA Reads ==
    ASSUME RunnerTypes, RunnersOwned, NEW r \in Runners, at[r] # 0, Read(r)
    PROVE  /\ verdict'[It(r, at[r])] = "none"
           /\ \A i \in Items : i # It(r, at[r]) => verdict'[i] = verdict[i]
           /\ It(r, at[r]) \in Items
           /\ \A i \in Items : i = It(r, at[r]) <=> RunnerOf(i) = r /\ i[3] = at[r]
<1>1. at[r] \in Slots BY AtOwned
<1>2. It(r, at[r]) \in Items BY <1>1, ItOf
<1>3. \A i \in Items : i = It(r, at[r]) <=> RunnerOf(i) = r /\ i[3] = at[r]
    BY <1>1, ItOf, ItemOf
<1>4. QED BY <1>2, <1>3 DEF Read, RunnerTypes

\* The loop goes on to the next slot.
LEMMA AdvanceFrame ==
    ASSUME IndInv, NEW r \in Runners, pc[r] \in {"settling", "archiving"}, Advance(r, at[r]),
           UNCHANGED <<bstatus, stops, stopping, other, others, confirmed, video, sub>>,
           \A i \in Items : item'[i] = item[i] \/ (RunnerOf(i) = r /\ i[3] = at[r]
                                                   /\ pc[r] = "settling"),
           \A i \in Items : RunnerOf(i) # r => verdict'[i] = verdict[i]
    PROVE  RunnerFrame(r)
<1>0. BookInv /\ RunnerTypes /\ RunnersOwned BY IndInvParts
<1>1. at[r] # 0 BY <1>0 DEF RunnersOwned
<1>2. \A q \in Runners : SlotsOf(q)' = SlotsOf(q) BY SlotsStay
<1>3. pc'[r] = "over" \/ Ahead(r)' \subseteq Ahead(r) \ {at[r]}
    BY <1>0, <1>1, <1>2, AdvanceAhead
<1>4. pc[r] = "settling" => at[r] \in Ahead(r)
  <2>1. at[r] \in SlotsOf(r) BY <1>0, <1>1, AtOwned
  <2>2. QED BY <2>1 DEF Ahead
<1>5. \A n \in Ahead(r) \ {at[r]} : item'[It(r, n)] = item[It(r, n)]
  <2>1. Ahead(r) \subseteq Slots BY DEF Ahead, SlotsOf
  <2>2. QED BY <2>1, ItOf
<1>6. /\ \A q \in Runners : q # r => pc'[q] = pc[q] /\ at'[q] = at[q]
      /\ pc'[r] # "idle"
    BY <1>0, Advances
<1>7. \A i \in Items : \/ item'[i] = item[i] /\ video'[i] = video[i]
                       \/ RunnerOf(i) = r /\ i[3] \in Ahead(r)
    BY <1>4
<1>8. QED BY <1>2, <1>3, <1>5, <1>6, <1>7 DEF RunnerFrame

\* An item is settled.
LEMMA SettleFrame ==
    ASSUME IndInv, NEW r \in Runners, SettleDone(r) \/ SettleFailed(r)
    PROVE  RunnerFrame(r)
<1>0. BookInv /\ RunnerTypes /\ RunnersOwned BY IndInvParts
<1>1. /\ pc[r] = "settling" /\ Read(r)
      /\ UNCHANGED <<bstatus, stops, stopping, other, others, confirmed, video, sub>>
    BY DEF SettleDone, SettleFailed, batchVars, dispVars, lifeVars
<1>2. at[r] # 0 BY <1>0, <1>1 DEF RunnersOwned
<1>3. PICK st : Mark(r, {at[r]}, st) BY DEF SettleDone, SettleFailed
<1>4. \A i \in Items : item'[i] = item[i] \/ (RunnerOf(i) = r /\ i[3] = at[r])
    BY <1>3, Marks
<1>5. \A i \in Items : RunnerOf(i) # r => verdict'[i] = verdict[i]
    BY <1>0, <1>1, <1>2, Reads
<1>6. CASE SettleDone(r)
  <2>1. pc' = [pc EXCEPT ![r] = "archiving"] /\ at' = at BY <1>6 DEF SettleDone
  <2>2. Current(r) = {at[r]} BY <1>2 DEF Current
  <2>3. QED BY <1>1, <1>2, <1>4, <1>5, <2>1, <2>2, StaysFrame
<1>7. CASE SettleFailed(r)
  <2>1. Advance(r, at[r]) BY <1>7 DEF SettleFailed
  <2>2. QED BY <1>1, <1>4, <1>5, <2>1, AdvanceFrame
<1>8. QED BY <1>6, <1>7

\* A duplicate is replaced.
LEMMA ReplaceFrame ==
    ASSUME IndInv, NEW r \in Runners, NEW s \in Videos, Replace(r, s)
    PROVE  RunnerFrame(r)
<1>0. BookInv /\ RunnerTypes /\ RunnersOwned BY IndInvParts
<1>1. /\ pc[r] = "settling" /\ Read(r) /\ pc' = [pc EXCEPT ![r] = "asking"]
      /\ video' = [video EXCEPT ![It(r, at[r])] = s]
      /\ UNCHANGED <<at, bstatus, stops, stopping, other, others, confirmed, item, sub>>
    BY DEF Replace, batchVars, dispVars, lifeVars
<1>2. at[r] # 0 BY <1>0, <1>1 DEF RunnersOwned
<1>3. \A i \in Items : video'[i] = NoVideo <=> video[i] = NoVideo BY <1>0, Replaced
<1>4. \A i \in Items : RunnerOf(i) # r => verdict'[i] = verdict[i]
    BY <1>0, <1>1, <1>2, Reads
<1>5. Current(r) = {at[r]} BY <1>2 DEF Current
<1>6. \A i \in Items : video'[i] = video[i] \/ (RunnerOf(i) = r /\ i[3] \in Current(r))
    BY <1>0, <1>1, <1>2, <1>5, Reads DEF BookInv, ClaimTypes
<1>7. QED BY <1>1, <1>2, <1>3, <1>4, <1>6, StaysFrame

\* The archive thread returns: no item changes.
LEMMA ArchiveFrame ==
    ASSUME IndInv, NEW r \in Runners, NEW ok \in BOOLEAN, ArchiveEnds(r, ok)
    PROVE  RunnerFrame(r)
<1>1. /\ pc[r] = "archiving" /\ Advance(r, at[r])
      /\ UNCHANGED <<bstatus, stops, stopping, other, others, confirmed, video, item, sub, verdict>>
    BY DEF ArchiveEnds, claimVars, dispVars
<1>2. QED BY <1>1, AdvanceFrame

\* Hence every step of a runner.
LEMMA RunnerStepFrame ==
    ASSUME IndInv, TasksCounted, NEW r \in Runners, RunnerStep(r)
    PROVE  RunnerFrame(r)
BY FailFrame, SubmitFrame, ReturnFrame, PollFrame, SettleFrame, ReplaceFrame, ArchiveFrame
   DEF RunnerStep
-----------------------------------------------------------------------------
(* The order in which batches, slots and tasks follow each other.          *)

\* What OrderInv says of batches, items and runners.
Order == SettlesInOrder /\ RunsInTurn /\ SlotsFilled /\ TasksCounted

\* No video is claimed without being finite in number.
LEMMA RejectedFinite ==
    ASSUME ClaimTypes, NEW b \in Batches
    PROVE  IsFiniteSet(rejected[b]) /\ Cardinality(rejected[b]) \in Nat
<1>1. rejected[b] \subseteq Videos BY DEF ClaimTypes
<1>2. IsFiniteSet(rejected[b]) BY <1>1, BulkAssumption, FS_Subset
<1>3. QED BY <1>2, FS_CardinalityType

\* A runner keeps its own slots in order, and leaves those of others alone.
LEMMA RunnerSettlesInOrder ==
    ASSUME IndInv, SettlesInOrder, NEW r \in Runners, RunnerFrame(r)
    PROVE  SettlesInOrder'
<1>0. RunnersOwned BY IndInvParts
<1> USE DEF RunnerFrame
<1>1. bstatus[r[1]] = "RUNNING" BY <1>0 DEF RunnersOwned
<1>2. ASSUME NEW q \in Runners, bstatus'[q[1]] \in {"none", "PENDING"} PROVE pc'[q] = "idle"
  <2>1. q # r BY <1>1, <1>2
  <2>2. QED BY <1>2, <2>1 DEF SettlesInOrder
<1>3. ASSUME NEW q \in Runners, pc'[q] = "idle" PROVE at'[q] = 0
    BY <1>3 DEF SettlesInOrder
<1>4. ASSUME NEW q \in Runners, pc'[q] # "over", NEW n \in Ahead(q)'
      PROVE  item'[It(q, n)] \notin Settled
  <2>1. CASE q = r
    <3>1. n \in Ahead(r) /\ item'[It(r, n)] \in {item[It(r, n)], "SUBMITTING", "RUNNING"}
        BY <1>4, <2>1
    <3>2. item[It(r, n)] \notin Settled BY <3>1 DEF SettlesInOrder
    <3>3. QED BY <2>1, <3>1, <3>2 DEF Settled
  <2>2. CASE q # r
    <3>1. Ahead(q)' = Ahead(q) BY <2>2 DEF Ahead
    <3>2. n \in Slots BY <1>4, <3>1 DEF Ahead, SlotsOf
    <3>3. It(q, n) \in Items /\ RunnerOf(It(q, n)) # r BY <2>2, <3>2, ItOf
    <3>4. item'[It(q, n)] = item[It(q, n)] BY <3>3
    <3>5. QED BY <1>4, <2>2, <3>1, <3>4 DEF SettlesInOrder
  <2>3. QED BY <2>1, <2>2
<1>5. QED BY <1>2, <1>3, <1>4 DEF SettlesInOrder

\* A runner that submits nothing and replaces nothing.
LEMMA SameCounts ==
    ASSUME TasksCounted, NEW r \in Runners, UNCHANGED <<sub, rejected>>,
           \A q \in Runners : q # r => pc'[q] = pc[q],
           \/ pc'[r] \in {"settling", "archiving", "over"}
           \/ pc[r] \in {"free", "asking"} /\ pc'[r] \in {"free", "submitting"}
    PROVE  TasksCounted'
<1>1. ASSUME NEW q \in Runners
      PROVE  /\ pc'[q] = "polling" => sub'[q] > 0
             /\ pc'[q] \in {"idle", "free", "asking", "submitting"}
                   => sub'[q] <= Cardinality(rejected'[q[1]])
  <2>1. CASE q # r BY <2>1 DEF TasksCounted
  <2>2. CASE q = r BY <2>2 DEF TasksCounted
  <2>3. QED BY <2>1, <2>2
<1>2. QED BY <1>1 DEF TasksCounted

\* The payload is queued.
LEMMA ReturnCounts ==
    ASSUME IndInv, TasksCounted, NEW r \in Runners, SubmitReturns(r)
    PROVE  TasksCounted'
<1>0. RunnerTypes /\ ClaimTypes /\ r[1] \in Batches BY DEF IndInv, Runners
<1>1. /\ pc[r] = "submitting" /\ sub' = [sub EXCEPT ![r] = @ + 1] /\ rejected' = rejected
    BY DEF SubmitReturns
<1>2. RunnerFrame(r) BY ReturnFrame
<1>3. pc'[r] \in {"polling", "settling", "over"}
  <2>1. CASE r[2] \in busy BY <1>0, <2>1 DEF SubmitReturns, RunnerTypes
  <2>2. CASE r[2] \notin busy
    <3>1. SubmissionFails(r) BY <2>2 DEF SubmitReturns
    <3>2. CASE at[r] = 0 BY <1>0, <3>1, <3>2 DEF SubmissionFails, RunnerTypes
    <3>3. CASE at[r] # 0 BY <1>0, <3>1, <3>3, Advances DEF SubmissionFails
    <3>4. QED BY <3>2, <3>3
  <2>3. QED BY <2>1, <2>2
<1>4. sub' \in [Runners -> Nat] /\ sub'[r] = sub[r] + 1
      /\ \A q \in Runners : q # r => sub'[q] = sub[q] /\ pc'[q] = pc[q]
    BY <1>1, <1>2 DEF TasksCounted, RunnerFrame
<1>5. Cardinality(rejected[r[1]]) \in Nat BY <1>0, RejectedFinite
<1>6. ASSUME NEW q \in Runners
      PROVE  /\ pc'[q] = "polling" => sub'[q] > 0
             /\ sub'[q] <= Cardinality(rejected'[q[1]]) + 1
             /\ pc'[q] \in {"idle", "free", "asking", "submitting"}
                   => sub'[q] <= Cardinality(rejected'[q[1]])
  <2>1. CASE q # r BY <1>1, <1>4, <2>1 DEF TasksCounted
  <2>2. CASE q = r
    <3>1. sub[r] \in Nat /\ sub[r] <= Cardinality(rejected[r[1]]) BY <1>1 DEF TasksCounted
    <3>2. QED BY <1>1, <1>3, <1>4, <1>5, <2>2, <3>1
  <2>3. QED BY <2>1, <2>2
<1>7. QED BY <1>4, <1>6 DEF TasksCounted

\* A replacement is a rejected video, not rejected before, and one more task.
LEMMA ReplaceCounts ==
    ASSUME IndInv, TasksCounted, NEW r \in Runners, NEW s \in Videos, Replace(r, s)
    PROVE  TasksCounted'
<1>0. /\ RunnerTypes /\ RunnersOwned /\ ClaimTypes /\ UsedApart /\ r[1] \in Batches
    BY DEF IndInv, Runners
<1> DEFINE b == r[1]
           v == video[It(r, at[r])]
<1>1. /\ pc[r] = "settling" /\ sub' = sub
      /\ rejected' = [rejected EXCEPT ![b] = @ \cup {v}]
    BY DEF Replace
<1>2. RunnerFrame(r) BY ReplaceFrame
<1>3. v \notin rejected[b]
  <2>1. at[r] # 0 /\ bstatus[b] = "RUNNING" BY <1>0, <1>1 DEF RunnersOwned
  <2>2. at[r] \in Slots BY <1>0, <2>1, AtOwned
  <2>3. It(r, at[r]) \in Items /\ It(r, at[r])[1] = b BY <2>2, ItOf DEF It
  <2>4. b \in Live BY <1>0, <2>1 DEF Live
  <2>5. QED BY <1>0, <2>3, <2>4 DEF UsedApart, Gone
<1>4. IsFiniteSet(rejected[b]) /\ Cardinality(rejected[b]) \in Nat BY <1>0, RejectedFinite
<1>5. Cardinality(rejected[b] \cup {v}) = Cardinality(rejected[b]) + 1
    BY <1>3, <1>4, FS_AddElement
<1>6. /\ rejected'[b] = rejected[b] \cup {v}
      /\ \A c \in Batches : c # b => rejected'[c] = rejected[c]
    BY <1>0, <1>1 DEF ClaimTypes
<1>7. ASSUME NEW q \in Runners
      PROVE  /\ pc'[q] = "polling" => sub'[q] > 0
             /\ sub'[q] <= Cardinality(rejected'[q[1]]) + 1
             /\ pc'[q] \in {"idle", "free", "asking", "submitting"}
                   => sub'[q] <= Cardinality(rejected'[q[1]])
  <2>1. q[1] \in Batches /\ sub[q] \in Nat BY DEF Runners, TasksCounted
  <2>2. q # r => pc'[q] = pc[q] BY <1>2 DEF RunnerFrame
  <2>3. pc'[r] = "asking" BY <1>0 DEF Replace, RunnerTypes
  <2>4. CASE q[1] # b
    <3>1. q # r BY <2>4
    <3>2. rejected'[q[1]] = rejected[q[1]] BY <1>6, <2>1, <2>4
    <3>3. QED BY <1>1, <2>2, <3>1, <3>2 DEF TasksCounted
  <2>5. CASE q[1] = b
    <3>1. sub[q] <= Cardinality(rejected[b]) + 1 BY <2>5 DEF TasksCounted
    <3>2. Cardinality(rejected'[q[1]]) = Cardinality(rejected[b]) + 1 BY <1>5, <1>6, <2>5
    <3>3. pc'[q] = "polling" => sub[q] > 0 BY <2>2, <2>3 DEF TasksCounted
    <3>4. QED BY <1>1, <1>4, <2>1, <3>1, <3>2, <3>3
  <2>6. QED BY <2>4, <2>5
<1>8. QED BY <1>1, <1>7 DEF TasksCounted

\* The tasks of a runner, step by step.
LEMMA RunnerCounts ==
    ASSUME IndInv, TasksCounted, NEW r \in Runners, RunnerStep(r)
    PROVE  TasksCounted'
<1>0. RunnerTypes /\ RunnersOwned BY IndInvParts
<1>1. \A q \in Runners : q # r => pc'[q] = pc[q] BY RunnerStepFrame DEF RunnerFrame
<1>2. CASE GiveUp(r) \/ SubmitRefused(r)
  <2>1. SubmissionFails(r) /\ UNCHANGED <<sub, rejected>> BY <1>2 DEF GiveUp, SubmitRefused
  <2>2. pc'[r] \in {"settling", "over"}
    <3>1. CASE at[r] = 0 BY <1>0, <2>1, <3>1 DEF SubmissionFails, RunnerTypes
    <3>2. CASE at[r] # 0 BY <1>0, <2>1, <3>2, Advances DEF SubmissionFails
    <3>3. QED BY <3>1, <3>2
  <2>3. QED BY <1>1, <2>1, <2>2, SameCounts
<1>3. CASE Sleep(r) \/ Submit(r)
  <2>1. UNCHANGED <<sub, rejected>> BY <1>3 DEF Sleep, Submit, claimVars
  <2>2. pc[r] \in {"free", "asking"} /\ pc'[r] \in {"free", "submitting"}
      BY <1>0, <1>3 DEF Sleep, Submit, Asks, RunnerTypes
  <2>3. QED BY <1>1, <2>1, <2>2, SameCounts
<1>4. CASE Poll(r) \/ SettleDone(r)
  <2>1. UNCHANGED <<sub, rejected>> BY <1>4 DEF Poll, SettleDone, claimVars
  <2>2. pc'[r] \in {"settling", "archiving"} BY <1>0, <1>4 DEF Poll, SettleDone, RunnerTypes
  <2>3. QED BY <1>1, <2>1, <2>2, SameCounts
<1>5. CASE SettleFailed(r) \/ \E ok \in BOOLEAN : ArchiveEnds(r, ok)
  <2>1. UNCHANGED <<sub, rejected>> /\ Advance(r, at[r])
      BY <1>5 DEF SettleFailed, ArchiveEnds, claimVars
  <2>2. pc'[r] \in {"settling", "over"} BY <1>0, <2>1, Advances
  <2>3. QED BY <1>1, <2>1, <2>2, SameCounts
<1>6. QED BY <1>2, <1>3, <1>4, <1>5, ReturnCounts, ReplaceCounts DEF RunnerStep

\* A step of a runner keeps the order.
LEMMA RunnerOrder ==
    ASSUME IndInv, Order, NEW r \in Runners, RunnerStep(r)
    PROVE  Order'
<1>1. RunnerFrame(r) BY RunnerStepFrame DEF Order
<1>2. SettlesInOrder' BY <1>1, RunnerSettlesInOrder DEF Order
<1>3. RunsInTurn'
  <2>1. bstatus' = bstatus BY <1>1 DEF RunnerFrame
  <2>2. QED BY <2>1 DEF Order, RunsInTurn, Live
<1>4. SlotsFilled' BY <1>1 DEF RunnerFrame, Order, SlotsFilled
<1>5. TasksCounted' BY RunnerCounts DEF Order
<1>6. QED BY <1>2, <1>3, <1>4, <1>5 DEF Order

\* So does a step that touches neither batches nor runners.
LEMMA SteadyOrder ==
    ASSUME Order, UNCHANGED <<bstatus, claimVars, runVars>>
    PROVE  Order'
<1>1. UNCHANGED <<bstatus, video, item, rejected, pc, at, sub>> BY DEF claimVars, runVars
<1>2. \A q \in Runners : SlotsOf(q)' = SlotsOf(q) BY <1>1 DEF SlotsOf
<1>3. \A q \in Runners : Ahead(q)' = Ahead(q) BY <1>1, <1>2 DEF Ahead
<1>4. SettlesInOrder' BY <1>1, <1>3 DEF Order, SettlesInOrder
<1>5. RunsInTurn' BY <1>1 DEF Order, RunsInTurn, Live
<1>6. SlotsFilled' BY <1>2 DEF Order, SlotsFilled
<1>7. TasksCounted' BY <1>1 DEF Order, TasksCounted
<1>8. QED BY <1>4, <1>5, <1>6, <1>7 DEF Order

\* The batch that starts is the oldest, and its runners wait for it.
LEMMA StartOrder ==
    ASSUME IndInv, Order, NEW b \in Batches, BatchStart(b)
    PROVE  Order'
<1>0. ClaimTypes BY DEF IndInv
<1>1. /\ bstatus[b] = "PENDING" /\ LockFree(b) /\ bstatus' = [bstatus EXCEPT ![b] = "RUNNING"]
      /\ pc' = [r \in Runners |-> IF r[1] = b /\ SlotsOf(r) # {} THEN "free" ELSE pc[r]]
      /\ UNCHANGED <<video, item, rejected, at, sub>>
    BY DEF BatchStart, claimVars
<1>2. \A q \in Runners : SlotsOf(q)' = SlotsOf(q) BY <1>1 DEF SlotsOf
<1>3. \A q \in Runners : q[1] \in Batches /\ (q[1] = b => pc[q] = "idle" /\ at[q] = 0)
    BY <1>1 DEF Order, SettlesInOrder, Runners
<1>4. \A c \in Batches : bstatus'[c] = IF c = b THEN "RUNNING" ELSE bstatus[c]
    BY <1>0, <1>1 DEF ClaimTypes
<1>5. SettlesInOrder'
  <2>1. \A q \in Runners : bstatus'[q[1]] \in {"none", "PENDING"} => pc'[q] = "idle"
      BY <1>1, <1>3, <1>4 DEF Order, SettlesInOrder
  <2>2. \A q \in Runners : pc'[q] = "idle" => at'[q] = 0
      BY <1>1, <1>3 DEF Order, SettlesInOrder
  <2>3. ASSUME NEW q \in Runners, pc'[q] # "over" PROVE pc[q] # "over" /\ Ahead(q)' \subseteq Ahead(q)
    <3>1. CASE q[1] = b BY <1>2, <1>3, <3>1 DEF Ahead
    <3>2. CASE q[1] # b
      <4>1. pc'[q] = pc[q] /\ at'[q] = at[q] BY <1>1, <3>2
      <4>2. QED BY <1>2, <2>3, <4>1 DEF Ahead
    <3>3. QED BY <3>1, <3>2
  <2>4. QED BY <1>1, <2>1, <2>2, <2>3 DEF Order, SettlesInOrder
<1>6. RunsInTurn'
  <2>1. Live' = Live BY <1>1, <1>4 DEF Live
  <2>2. \A c \in Batches : c < b => c \notin Live
    <3>1. \A c \in Live : c >= b BY <1>1 DEF LockFree
    <3>2. Batches \subseteq Nat BY BulkAssumption DEF Batches
    <3>3. QED BY <3>1, <3>2
  <2>3. QED BY <1>1, <1>4, <2>1, <2>2 DEF Order, RunsInTurn
<1>7. SlotsFilled' BY <1>2 DEF Order, SlotsFilled
<1>8. TasksCounted'
  <2>1. \A q \in Runners : pc'[q] = pc[q] \/ (pc'[q] = "free" /\ pc[q] = "idle") BY <1>1, <1>3
  <2>2. QED BY <1>1, <2>1 DEF Order, TasksCounted
<1>9. QED BY <1>5, <1>6, <1>7, <1>8 DEF Order

\* The end of batches.
LEMMA EndOrder ==
    ASSUME IndInv, Order, NEW B \in SUBSET Live,
           \A b \in Batches : IF b \in B THEN bstatus'[b] \in Finished ELSE bstatus'[b] = bstatus[b],
           \A r \in Runners : pc'[r] = pc[r] \/ (pc'[r] = "over" /\ r[1] \in B),
           UNCHANGED <<video, item, rejected, at, sub>>
    PROVE  Order'
<1>1. \A q \in Runners : SlotsOf(q)' = SlotsOf(q) /\ q[1] \in Batches BY DEF SlotsOf, Runners
<1>2. SettlesInOrder'
  <2>1. ASSUME NEW q \in Runners, bstatus'[q[1]] \in {"none", "PENDING"} PROVE pc'[q] = "idle"
    <3>1. q[1] \notin B BY <1>1, <2>1 DEF Finished
    <3>2. QED BY <1>1, <2>1, <3>1 DEF Order, SettlesInOrder
  <2>2. \A q \in Runners : pc'[q] = "idle" => at'[q] = 0 BY DEF Order, SettlesInOrder
  <2>3. \A q \in Runners : pc'[q] # "over" => Ahead(q)' = Ahead(q) BY <1>1 DEF Ahead
  <2>4. QED BY <2>1, <2>2, <2>3 DEF Order, SettlesInOrder
<1>3. RunsInTurn'
  <2>1. Live' \subseteq Live BY DEF Live, Finished
  <2>2. \A c \in Batches : /\ bstatus'[c] # "none" <=> bstatus[c] # "none"
                           /\ bstatus'[c] = "RUNNING" => bstatus[c] = "RUNNING"
    BY DEF Live, Finished
  <2>3. QED BY <2>1, <2>2 DEF Order, RunsInTurn
<1>4. SlotsFilled' BY <1>1 DEF Order, SlotsFilled
<1>5. TasksCounted' BY DEF Order, TasksCounted
<1>6. QED BY <1>2, <1>3, <1>4, <1>5 DEF Order

\* The finally clause of _run.
LEMMA BatchEndOrder ==
    ASSUME IndInv, Order, NEW b \in Batches, BatchSkipped(b) \/ BatchEnd(b)
    PROVE  Order'
<1>0. ClaimTypes BY DEF IndInv
<1>1. PICK o \in Finished : bstatus' = [bstatus EXCEPT ![b] = o]
  <2>1. CASE BatchSkipped(b) BY <2>1 DEF BatchSkipped, Finished
  <2>2. CASE BatchEnd(b)
    <3>1. Outcome(b) \in Finished BY DEF Outcome, Finished
    <3>2. QED BY <2>2, <3>1 DEF BatchEnd
  <2>3. QED BY <2>1, <2>2
<1>2. {b} \in SUBSET Live BY DEF BatchSkipped, BatchEnd, Live
<1>3. UNCHANGED <<video, item, rejected, pc, at, sub>> BY DEF BatchSkipped, BatchEnd, runVars
<1>4. \A c \in Batches : IF c \in {b} THEN bstatus'[c] \in Finished ELSE bstatus'[c] = bstatus[c]
    BY <1>0, <1>1 DEF ClaimTypes
<1>5. QED BY <1>2, <1>3, <1>4, EndOrder

\* shutdown.
LEMMA ShutdownOrder ==
    ASSUME IndInv, Order, NEW begun \in SUBSET Batches, Shutdown(begun)
    PROVE  Order'
<1>0. RunnerTypes BY DEF IndInv
<1>1. /\ bstatus' = [b \in Batches |-> IF b \in begun THEN "CANCELLED" ELSE bstatus[b]]
      /\ pc' = [r \in Runners |-> IF r[1] \in begun THEN "over" ELSE pc[r]]
      /\ UNCHANGED <<video, item, rejected, at, sub>>
    BY DEF Shutdown
<1>2. begun \in SUBSET Live BY DEF Shutdown
<1>3. \A b \in Batches : IF b \in begun THEN bstatus'[b] \in Finished ELSE bstatus'[b] = bstatus[b]
    BY <1>1 DEF Finished
<1>4. \A r \in Runners : pc'[r] = pc[r] \/ (pc'[r] = "over" /\ r[1] \in begun) BY <1>1
<1>5. QED BY <1>1, <1>2, <1>3, <1>4, EndOrder

\* A new batch comes after all others, and its accounts get the same slots.
LEMMA AddOrder ==
    ASSUME IndInv, Order, NEW b \in Batches, NEW A \in SUBSET Accounts, NEW per \in PerAccount,
           NEW offered \in SUBSET Videos, Add(b, A, per, offered)
    PROVE  Order'
<1>0. ClaimTypes /\ ItemsExist BY DEF IndInv
<1>1. /\ bstatus[b] = "none" /\ \A c \in Batches : c < b => bstatus[c] # "none"
      /\ bstatus' = [bstatus EXCEPT ![b] = "PENDING"]
      /\ UNCHANGED <<rejected, pc, at, sub>>
    BY DEF Add, runVars
<1>2. PICK own \in Injection(A \X (1 .. per), offered \ claimed) :
        /\ video' = [i \in Items |->
               IF i[1] = b /\ <<i[2], i[3]>> \in DOMAIN own
               THEN own[<<i[2], i[3]>>] ELSE video[i]]
        /\ item' = [i \in Items |->
               IF i[1] = b /\ <<i[2], i[3]>> \in DOMAIN own
               THEN "PENDING" ELSE item[i]]
    BY DEF Add, Available, Assignments
<1>3. own \in [A \X (1 .. per) -> Videos] BY <1>2 DEF Injection
<1>4. \A c \in Batches : bstatus'[c] = IF c = b THEN "PENDING" ELSE bstatus[c]
    BY <1>0, <1>1 DEF ClaimTypes
<1>5. \A i \in Items : i[1] # b => video'[i] = video[i] /\ item'[i] = item[i] BY <1>2
<1>6. \A i \in Items : i[1] = b => video[i] = NoVideo /\ item[i] = "none"
    BY <1>0, <1>1 DEF ItemsExist
<1>7. \A i \in Items : i[1] = b => item'[i] \in {"none", "PENDING"} BY <1>2, <1>6
<1>8. \A q \in Runners : q[1] # b => SlotsOf(q)' = SlotsOf(q)
    BY <1>5, ItOf DEF SlotsOf, It
<1>9. \A q \in Runners : q[1] = b => SlotsOf(q)' = {} \/ SlotsOf(q)' = 1 .. per
  <2>1. ASSUME NEW q \in Runners, q[1] = b, NEW n \in Slots
        PROVE  video'[It(q, n)] # NoVideo <=> q[2] \in A /\ n \in 1 .. per
    <3>1. It(q, n) \in Items /\ It(q, n)[1] = b /\ It(q, n)[2] = q[2] /\ It(q, n)[3] = n
        BY <2>1, ItOf DEF It
    <3>2. CASE q[2] \in A /\ n \in 1 .. per
      <4>1. <<q[2], n>> \in DOMAIN own BY <1>3, <3>2
      <4>2. video'[It(q, n)] = own[<<q[2], n>>] BY <1>2, <3>1, <4>1
      <4>3. own[<<q[2], n>>] \in Videos BY <1>3, <3>2
      <4>4. QED BY <3>2, <4>2, <4>3, BulkAssumption
    <3>3. CASE ~(q[2] \in A /\ n \in 1 .. per)
      <4>1. <<q[2], n>> \notin DOMAIN own BY <1>3, <3>3
      <4>2. video'[It(q, n)] = video[It(q, n)] BY <1>2, <3>1, <4>1
      <4>3. QED BY <1>6, <3>1, <3>3, <4>2
    <3>4. QED BY <3>2, <3>3
  <2>2. 1 .. per \subseteq Slots BY DEF Slots
  <2>3. ASSUME NEW q \in Runners, q[1] = b PROVE SlotsOf(q)' = {} \/ SlotsOf(q)' = 1 .. per
    <3>1. \A n \in Slots : n \in SlotsOf(q)' <=> q[2] \in A /\ n \in 1 .. per
        BY <2>1, <2>3 DEF SlotsOf, It
    <3>2. SlotsOf(q)' \subseteq Slots BY DEF SlotsOf
    <3>3. QED BY <2>2, <3>1, <3>2
  <2>4. QED BY <2>3
<1>10. SettlesInOrder'
  <2>1. \A q \in Runners : q[1] \in Batches BY DEF Runners
  <2>2. \A q \in Runners : bstatus'[q[1]] \in {"none", "PENDING"} => pc'[q] = "idle"
      BY <1>1, <1>4, <2>1 DEF Order, SettlesInOrder
  <2>3. \A q \in Runners : pc'[q] = "idle" => at'[q] = 0 BY <1>1 DEF Order, SettlesInOrder
  <2>4. ASSUME NEW q \in Runners, pc'[q] # "over", NEW n \in Ahead(q)'
        PROVE  item'[It(q, n)] \notin Settled
    <3>1. n \in Slots BY <2>4 DEF Ahead, SlotsOf
    <3>2. It(q, n) \in Items /\ It(q, n)[1] = q[1] BY <3>1, ItOf DEF It
    <3>3. CASE q[1] = b BY <1>7, <3>2, <3>3 DEF Settled
    <3>4. CASE q[1] # b
      <4>1. Ahead(q)' = Ahead(q) BY <1>1, <1>8, <3>4 DEF Ahead
      <4>2. item'[It(q, n)] = item[It(q, n)] BY <1>5, <3>2, <3>4
      <4>3. QED BY <1>1, <2>4, <4>1, <4>2 DEF Order, SettlesInOrder
    <3>5. QED BY <3>3, <3>4
  <2>5. QED BY <2>2, <2>3, <2>4 DEF Order, SettlesInOrder
<1>11. RunsInTurn'
  <2>1. Live' = Live \cup {b} BY <1>1, <1>4 DEF Live
  <2>2. ASSUME NEW c \in Batches, NEW d \in Batches, c < d
        PROVE  /\ bstatus'[d] # "none" => bstatus'[c] # "none"
               /\ bstatus'[d] = "RUNNING" => c \notin Live'
    BY <1>1, <1>4, <2>1, <2>2 DEF Order, RunsInTurn
  <2>3. QED BY <2>2 DEF RunsInTurn
<1>12. SlotsFilled' BY <1>8, <1>9 DEF Order, SlotsFilled
<1>13. TasksCounted' BY <1>1 DEF Order, TasksCounted
<1>14. QED BY <1>10, <1>11, <1>12, <1>13 DEF Order

\* A backend that has just started.
Begun == /\ Fresh /\ sub = [r \in Runners |-> 0]
         /\ \A b, c \in Batches : b < c /\ bstatus[c] # "none" => bstatus[b] # "none"

\* Everything is in order then.
LEMMA FreshOrder == Begun => Order
<1> SUFFICES ASSUME Begun PROVE Order
    OBVIOUS
<1> USE DEF Begun, Fresh
<1>1. \A q \in Runners : SlotsOf(q) = {}
  <2>1. \A q \in Runners, n \in Slots : video[It(q, n)] = NoVideo BY ItOf
  <2>2. QED BY <2>1 DEF SlotsOf, It
<1>2. SettlesInOrder BY <1>1 DEF SettlesInOrder, Ahead
<1>3. RunsInTurn
  <2>1. Live = {} BY DEF Live
  <2>2. QED BY <2>1 DEF RunsInTurn
<1>4. SlotsFilled BY <1>1 DEF SlotsFilled
<1>5. TasksCounted
  <2>1. \A q \in Runners : rejected[q[1]] = {} /\ sub[q] = 0 /\ pc[q] = "idle" BY DEF Runners
  <2>2. Cardinality({}) = 0 BY FS_EmptySet
  <2>3. \A q \in Runners : Cardinality(rejected[q[1]]) = 0 BY <2>1, <2>2
  <2>4. sub \in [Runners -> Nat] OBVIOUS
  <2>5. ASSUME NEW q \in Runners
        PROVE  /\ pc[q] = "polling" => sub[q] > 0
               /\ sub[q] <= Cardinality(rejected[q[1]]) + 1
               /\ sub[q] <= Cardinality(rejected[q[1]])
    <3>1. sub[q] = 0 /\ Cardinality(rejected[q[1]]) = 0 /\ pc[q] = "idle" BY <2>1, <2>3
    <3>2. QED BY ONLY <3>1
  <2>6. QED BY <2>4, <2>5 DEF TasksCounted
<1>6. QED BY <1>2, <1>3, <1>4, <1>5 DEF Order

\* The first start.
LEMMA InitOrder == Init => Order
<1> SUFFICES ASSUME Init PROVE Order
    OBVIOUS
<1>1. Fresh BY InitFresh
<1>2. sub = [r \in Runners |-> 0] /\ \A c \in Batches : bstatus[c] = "none" BY DEF Init
<1>3. QED BY <1>1, <1>2, FreshOrder DEF Begun

\* A restart: the batches of the old process are forgotten, the others still to come.
LEMMA RestartOrder ==
    ASSUME IndInv, Order, Restart
    PROVE  Order'
<1>1. Fresh' BY RestartFresh
<1>2. sub' = [r \in Runners |-> 0] BY DEF Restart
<1>3. \A b, c \in Batches : b < c /\ bstatus'[c] # "none" => bstatus'[b] # "none"
    BY DEF Restart, Order, RunsInTurn
<1>4. Begun' => Order' BY FreshOrder, PTL
<1>5. QED BY <1>1, <1>2, <1>3, <1>4 DEF Begun

-----------------------------------------------------------------------------
(* Tasks: their types, and the steps they take.                            *)

\* The payload a runner queues is a sequence of its current videos.
LEMMA PathsTyped ==
    ASSUME IndInv, SlotsFilled, NEW r \in Runners, pc[r] = "submitting"
    PROVE  /\ Paths(r) \in Seq(Videos)
           /\ \A v \in Range(Paths(r)) : \E n \in Current(r) : v = video[It(r, n)]
           /\ \A m, n \in DOMAIN Paths(r) : Paths(r)[m] = Paths(r)[n] =>
                 m = n \/ \E k, l \in Current(r) : k # l /\ video[It(r, k)] = video[It(r, l)]
           /\ Range(Paths(r)) # {}
<1>0. RunnerTypes /\ RunnersOwned /\ ClaimTypes BY DEF IndInv
<1>1. Current(r) \subseteq SlotsOf(r) BY <1>0, CurrentOwned
<1>2. \A n \in SlotsOf(r) : n \in Slots /\ video[It(r, n)] \in Videos
  <2>1. \A n \in Slots : It(r, n) \in Items BY ItOf
  <2>2. QED BY <1>0, <2>1, SlotFacts DEF ClaimTypes
<1>3. CASE at[r] = 0
  <2>1. SlotsOf(r) # {} BY <1>0 DEF RunnersOwned
  <2>2. PICK per \in PerAccount : SlotsOf(r) = 1 .. per BY <2>1 DEF SlotsFilled
  <2>3. per \in Nat BY BulkAssumption
  <2>4. Paths(r) = [n \in 1 .. per |-> video[It(r, n)]] BY <1>3, <2>2 DEF Paths
  <2>5. Paths(r) \in [1 .. per -> Videos] BY <1>2, <2>2, <2>4
  <2>6. Paths(r) \in Seq(Videos) BY <2>3, <2>5
  <2>7. Current(r) = 1 .. per /\ DOMAIN Paths(r) = 1 .. per BY <1>3, <2>2, <2>4 DEF Current
  <2>8. Range(Paths(r)) # {} BY <2>1, <2>2, <2>7 DEF Range
  <2>9. QED BY <2>4, <2>6, <2>7, <2>8 DEF Range
<1>4. CASE at[r] # 0
  <2>1. Current(r) = {at[r]} /\ Paths(r) = <<video[It(r, at[r])]>> BY <1>4 DEF Current, Paths
  <2>2. video[It(r, at[r])] \in Videos BY <1>1, <1>2, <2>1
  <2>3. Paths(r) \in Seq(Videos) BY <2>1, <2>2
  <2>4. DOMAIN Paths(r) = {1} /\ Paths(r)[1] = video[It(r, at[r])] BY <2>1
  <2>5. QED BY <2>1, <2>3, <2>4 DEF Range
<1>5. QED BY <1>3, <1>4

\* A task's name fits: a runner submits no more tasks than there are videos.
LEMMA TasksFit ==
    ASSUME IndInv, TasksCounted, NEW r \in Runners, pc[r] \notin {"idle", "over"}
    PROVE  Cardinality(rejected[r[1]]) + 1 <= Cardinality(Videos)
           /\ Cardinality(rejected[r[1]]) \in Nat /\ Cardinality(Videos) \in Nat
<1>0. RunnerTypes /\ RunnersOwned /\ ClaimTypes /\ UsedApart /\ r[1] \in Batches
    BY DEF IndInv, Runners
<1>1. bstatus[r[1]] = "RUNNING" /\ SlotsOf(r) # {} BY <1>0 DEF RunnersOwned
<1>2. PICK n \in Slots : n \in SlotsOf(r) BY <1>1 DEF SlotsOf
<1>3. It(r, n) \in Items /\ It(r, n)[1] = r[1] BY ItOf DEF It
<1>4. video[It(r, n)] # NoVideo BY <1>2, SlotFacts
<1>5. video[It(r, n)] \in Videos BY <1>0, <1>3, <1>4 DEF ClaimTypes
<1>6. video[It(r, n)] \notin rejected[r[1]] BY <1>0, <1>1, <1>3 DEF UsedApart, Gone, Live
<1>7. IsFiniteSet(rejected[r[1]]) /\ Cardinality(rejected[r[1]]) \in Nat
    BY <1>0, RejectedFinite
<1>8. rejected[r[1]] \cup {video[It(r, n)]} \subseteq Videos BY <1>0, <1>5 DEF ClaimTypes
<1>9. IsFiniteSet(Videos) BY BulkAssumption
<1>10. Cardinality(rejected[r[1]] \cup {video[It(r, n)]}) <= Cardinality(Videos)
    BY <1>8, <1>9, FS_Subset
<1>11. Cardinality(rejected[r[1]] \cup {video[It(r, n)]}) = Cardinality(rejected[r[1]]) + 1
    BY <1>6, <1>7, FS_AddElement
<1>12. Cardinality(Videos) \in Nat BY <1>9, FS_CardinalityType
<1>13. QED BY <1>7, <1>10, <1>11, <1>12

\* The task a runner polls, and the one it is about to queue.
LEMMA JobFits ==
    ASSUME IndInv, TasksCounted, NEW r \in Runners
    PROVE  /\ pc[r] = "polling" => Job(r) \in Jobs
           /\ pc[r] = "submitting" => <<r[1], r[2], sub[r] + 1>> \in Jobs
<1>1. r[1] \in Batches /\ r[2] \in Accounts /\ sub[r] \in Nat BY DEF Runners, TasksCounted
<1>2. CASE pc[r] = "polling"
  <2>1. sub[r] > 0 /\ sub[r] <= Cardinality(rejected[r[1]]) + 1 BY <1>2 DEF TasksCounted
  <2>2. /\ Cardinality(rejected[r[1]]) + 1 <= Cardinality(Videos)
        /\ Cardinality(rejected[r[1]]) \in Nat /\ Cardinality(Videos) \in Nat
      BY <1>2, TasksFit
  <2>3. sub[r] \in 1 .. Cardinality(Videos) BY <1>1, <2>1, <2>2
  <2>4. QED BY <1>1, <1>2, <2>3 DEF Jobs, Job
<1>3. CASE pc[r] = "submitting"
  <2>1. sub[r] <= Cardinality(rejected[r[1]]) BY <1>3 DEF TasksCounted
  <2>2. /\ Cardinality(rejected[r[1]]) + 1 <= Cardinality(Videos)
        /\ Cardinality(rejected[r[1]]) \in Nat /\ Cardinality(Videos) \in Nat
      BY <1>3, TasksFit
  <2>3. sub[r] + 1 \in 1 .. Cardinality(Videos) BY <1>1, <2>1, <2>2
  <2>4. QED BY <1>1, <1>3, <2>3 DEF Jobs
<1>4. QED BY <1>2, <1>3

\* The types of the tasks, step by step.
LEMMA JobTypesStep ==
    ASSUME IndInv, SlotsFilled, TasksCounted, JobTypes, Next
    PROVE  JobTypes'
<1> USE DEF JobTypes
<1>1. CASE UNCHANGED jobVars BY <1>1 DEF jobVars
<1>2. ASSUME NEW r \in Runners, RunnerStep(r) PROVE JobTypes'
  <2>1. CASE GiveUp(r) \/ Sleep(r) \/ SubmitRefused(r) \/ Submit(r) \/ SettleDone(r)
      BY <1>1, <2>1 DEF GiveUp, Sleep, SubmitRefused, Submit, SettleDone
  <2>2. CASE SettleFailed(r) \/ (\E s \in Videos : Replace(r, s))
             \/ \E ok \in BOOLEAN : ArchiveEnds(r, ok)
      BY <1>1, <2>2 DEF SettleFailed, Replace, ArchiveEnds
  <2>3. CASE SubmitReturns(r)
    <3>1. Paths(r) \in Seq(Videos) BY <2>3, PathsTyped DEF SubmitReturns
    <3>2. QED BY <2>3, <3>1 DEF SubmitReturns
  <2>4. CASE Poll(r)
    <3>1. NoResults \in [Videos -> {"none"} \cup Verdicts] BY DEF NoResults
    <3>2. QED BY <2>4, <3>1 DEF Poll
  <2>5. QED BY <1>2, <2>1, <2>2, <2>3, <2>4 DEF RunnerStep
<1>3. ASSUME NEW b \in Batches, BatchStep(b) PROVE JobTypes'
    BY <1>1, <1>3 DEF BatchStep, BatchStart, BatchSkipped, BatchEnd
<1>4. ASSUME NEW j \in Jobs, JobStep(j) PROVE JobTypes'
  <2>1. CASE JobStarts(j) \/ JobDropped(j) \/ JobDenied(j)
      BY <2>1 DEF JobStarts, JobDropped, JobDenied, JobTo
  <2>2. CASE JobFails(j) \/ JobReports(j) \/ JobReleases(j)
      BY <2>2 DEF JobFails, JobReports, JobReleases, JobTo
  <2>3. CASE LoginFails(j)
    <3>1. [v \in Videos |-> IF v \in Range(todo[j]) THEN "error" ELSE "none"]
              \in [Videos -> {"none"} \cup Verdicts]
        BY DEF Verdicts
    <3>2. QED BY <2>3, <3>1 DEF LoginFails, JobTo
  <2>4. ASSUME NEW res \in Verdicts, Publish(j, res) PROVE JobTypes'
    <3>1. todo[j] \in Seq(Videos) /\ todo[j] # <<>> BY <2>4 DEF Publish
    <3>2. Tail(todo[j]) \in Seq(Videos) BY <3>1
    <3>3. todo' = [todo EXCEPT ![j] = Tail(@)] /\ jst' = jst BY <2>4 DEF Publish
    <3>4. todo' \in [Jobs -> Seq(Videos)] BY <3>2, <3>3
    <3>5. sink' = [sink EXCEPT ![j][Head(todo[j])] = res] BY <2>4 DEF Publish
    <3>6. sink' \in [Jobs -> [Videos -> {"none"} \cup Verdicts]] BY <3>5
    <3>7. QED BY <3>3, <3>4, <3>6
  <2>5. ASSUME NEW res \in Verdicts, RecordFails(j, res) PROVE JobTypes'
      BY <2>5 DEF RecordFails, JobTo
  <2>6. QED BY <1>4, <2>1, <2>2, <2>3, <2>4, <2>5 DEF JobStep
<1>5. ASSUME NEW a \in Accounts, OtherStep(a) PROVE JobTypes'
    BY <1>1, <1>5 DEF OtherStep, OtherSubmits, OtherDropped, OtherReleases, OtherReports
<1>6. CASE OperatorStep
  <2>1. CASE EmergencyStop
    <3>1. jst' \in [Jobs -> {"none", "queued", "working", "closing", "over"}]
        BY <2>1 DEF EmergencyStop
    <3>2. QED BY <2>1, <3>1 DEF EmergencyStop
  <2>2. CASE Restart
    <3>1. NoResults \in [Videos -> {"none"} \cup Verdicts] BY DEF NoResults
    <3>2. <<>> \in Seq(Videos) OBVIOUS
    <3>3. QED BY <2>2, <3>1, <3>2 DEF Restart
  <2>3. CASE (\E begun \in SUBSET Batches : Shutdown(begun)) \/ \E b \in Batches : Cancel(b)
      BY <1>1, <2>3 DEF Shutdown, Cancel
  <2>4. ASSUME NEW b \in Batches, NEW A \in SUBSET Accounts, NEW per \in PerAccount,
               NEW offered \in SUBSET Scanned, Add(b, A, per, offered)
        PROVE  JobTypes'
      BY <1>1, <2>4 DEF Add
  <2>5. QED BY <1>6, <2>1, <2>2, <2>3, <2>4 DEF OperatorStep
<1>7. QED BY <1>2, <1>3, <1>4, <1>5, <1>6 DEF Next

\* So much for other tasks and stops: they are counted.
LEMMA CountsStep == CountsTyped /\ [Next]_vars => CountsTyped'
<1> SUFFICES ASSUME CountsTyped, [Next]_vars PROVE CountsTyped'
    OBVIOUS
<1> USE DEF CountsTyped
<1>1. CASE UNCHANGED <<others, stops, stale>> BY <1>1
<1>2. ASSUME NEW r \in Runners, RunnerStep(r) PROVE UNCHANGED <<others, stops, stale>>
  <2>1. CASE GiveUp(r) \/ Sleep(r) \/ Submit(r) \/ SubmitRefused(r)
      BY <2>1 DEF GiveUp, Sleep, Submit, SubmitRefused, dispVars
  <2>2. CASE SubmitReturns(r) \/ Poll(r) \/ SettleDone(r)
      BY <2>2 DEF SubmitReturns, Poll, SettleDone, dispVars
  <2>3. CASE SettleFailed(r) \/ (\E s \in Videos : Replace(r, s))
             \/ \E ok \in BOOLEAN : ArchiveEnds(r, ok)
      BY <2>3 DEF SettleFailed, Replace, ArchiveEnds, dispVars
  <2>4. QED BY <1>2, <2>1, <2>2, <2>3 DEF RunnerStep
<1>3. ASSUME NEW b \in Batches, BatchStep(b) PROVE UNCHANGED <<others, stops, stale>>
    BY <1>3 DEF BatchStep, BatchStart, BatchSkipped, BatchEnd, dispVars
<1>4. ASSUME NEW j \in Jobs, JobStep(j) PROVE CountsTyped'
  <2>1. CASE JobStarts(j) \/ JobDropped(j) \/ JobDenied(j) \/ JobFails(j)
      BY <2>1 DEF JobStarts, JobDropped, JobDenied, JobFails, dispVars
  <2>2. CASE LoginFails(j) \/ JobReports(j) \/ JobReleases(j)
      BY <2>2 DEF LoginFails, JobReports, JobReleases, dispVars
  <2>3. CASE \E res \in Verdicts : Publish(j, res) \/ RecordFails(j, res)
      BY <2>3 DEF Publish, RecordFails, dispVars
  <2>4. QED BY <1>4, <2>1, <2>2, <2>3 DEF JobStep
<1>5. ASSUME NEW a \in Accounts, OtherStep(a) PROVE CountsTyped'
  <2>1. CASE OtherSubmits(a)
    <3>1. others' = others + 1 /\ stops' = stops /\ stale' = stale BY <2>1 DEF OtherSubmits
    <3>2. QED BY <3>1
  <2>2. CASE OtherDropped(a) \/ OtherReleases(a) \/ \E ok \in BOOLEAN : OtherReports(a, ok)
    <3>1. others' = others /\ stops' = stops /\ stale' \in {{}, stale}
        BY <2>2 DEF OtherDropped, OtherReleases, OtherReports
    <3>2. QED BY <3>1
  <2>3. QED BY <1>5, <2>1, <2>2 DEF OtherStep
<1>6. CASE OperatorStep
  <2>1. CASE EmergencyStop
    <3>1. others' = others /\ stops' = stops + 1 BY <2>1 DEF EmergencyStop
    <3>2. \A h \in InHand : h \subseteq Jobs BY DEF InHand
    <3>3. stale' \subseteq Jobs BY <2>1, <3>2 DEF EmergencyStop
    <3>4. QED BY <3>1, <3>3
  <2>2. CASE (\E begun \in SUBSET Batches : Shutdown(begun)) \/ Restart
      BY <2>2 DEF Shutdown, Restart, dispVars
  <2>3. CASE \E b \in Batches : Cancel(b) BY <2>3 DEF Cancel, dispVars
  <2>4. ASSUME NEW b \in Batches, NEW A \in SUBSET Accounts, NEW per \in PerAccount,
               NEW offered \in SUBSET Scanned, Add(b, A, per, offered)
        PROVE  CountsTyped'
      BY <2>4 DEF Add, dispVars
  <2>5. QED BY <1>6, <2>1, <2>2, <2>3, <2>4 DEF OperatorStep
<1>7. UNCHANGED vars => UNCHANGED <<others, stops, stale>> BY DEF vars, dispVars
<1>8. QED BY <1>1, <1>2, <1>3, <1>4, <1>5, <1>6, <1>7 DEF Next

\* OrderInv is inductive, given that only files of the library are offered.
LEMMA OrderStep == OrderInv /\ LibraryTyped /\ [Next]_vars => OrderInv'
<1> SUFFICES ASSUME OrderInv, LibraryTyped, [Next]_vars PROVE OrderInv'
    OBVIOUS
<1>0. IndInv /\ Order /\ JobTypes BY DEF OrderInv, Order
<1>1. IndInv' BY <1>0, IndInvStep
<1>2. Order'
  <2>1. ASSUME NEW j \in Jobs, JobStep(j) PROVE UNCHANGED <<bstatus, claimVars, runVars>>
    <3>1. CASE JobStarts(j) \/ JobDropped(j) \/ JobDenied(j) \/ JobFails(j)
        BY <3>1 DEF JobStarts, JobDropped, JobDenied, JobFails, batchVars
    <3>2. CASE LoginFails(j) \/ JobReports(j) \/ JobReleases(j)
        BY <3>2 DEF LoginFails, JobReports, JobReleases, batchVars
    <3>3. CASE \E res \in Verdicts : Publish(j, res) \/ RecordFails(j, res)
        BY <3>3 DEF Publish, RecordFails, batchVars
    <3>4. QED BY <2>1, <3>1, <3>2, <3>3 DEF JobStep
  <2>2. ASSUME NEW a \in Accounts, OtherStep(a) PROVE UNCHANGED <<bstatus, claimVars, runVars>>
      BY <2>2 DEF OtherStep, OtherSubmits, OtherDropped, OtherReleases, OtherReports, batchVars
  <2>3. ASSUME (\E b \in Batches : Cancel(b)) \/ EmergencyStop \/ UNCHANGED vars
        PROVE  UNCHANGED <<bstatus, claimVars, runVars>>
      BY <2>3 DEF Cancel, EmergencyStop, vars, batchVars
  <2>4. ASSUME NEW b \in Batches, NEW A \in SUBSET Accounts \ {{}}, NEW per \in PerAccount,
               NEW offered \in SUBSET Scanned, Add(b, A, per, offered)
        PROVE  Order'
    <3>1. offered \in SUBSET Videos /\ A \in SUBSET Accounts BY <1>0, ScannedTyped
    <3>2. QED BY <1>0, <2>4, <3>1, AddOrder
  <2>5. ASSUME NEW b \in Batches, BatchStep(b) PROVE Order'
      BY <1>0, <2>5, StartOrder, BatchEndOrder DEF BatchStep
  <2>6. CASE OperatorStep
      BY <1>0, <2>3, <2>4, <2>6, SteadyOrder, ShutdownOrder, RestartOrder DEF OperatorStep
  <2>7. QED BY <1>0, <2>1, <2>2, <2>3, <2>5, <2>6, SteadyOrder, RunnerOrder DEF Next
<1>3. JobTypes'
  <2>1. CASE Next BY <1>0, <2>1, JobTypesStep DEF Order
  <2>2. CASE UNCHANGED vars BY <1>0, <2>2 DEF vars, jobVars, JobTypes
  <2>3. QED BY <2>1, <2>2
<1>4. CountsTyped' BY CountsStep DEF OrderInv
<1>5. QED BY <1>1, <1>2, <1>3, <1>4 DEF OrderInv, Order

\* It holds at first.
LEMMA InitOrderInv == Init => OrderInv
<1> SUFFICES ASSUME Init PROVE OrderInv
    OBVIOUS
<1>1. IndInv /\ Order BY InitInv, InitOrder
<1>2. JobTypes
  <2>1. NoResults \in [Videos -> {"none"} \cup Verdicts] BY DEF NoResults
  <2>2. <<>> \in Seq(Videos) OBVIOUS
  <2>3. QED BY <2>1, <2>2 DEF Init, JobTypes
<1>3. CountsTyped BY DEF Init, CountsTyped
<1>4. QED BY <1>1, <1>2, <1>3 DEF OrderInv, Order

\* Batches run one at a time and in order, a runner settles its slots in order and
\* submits no more tasks than it may, whatever stops, crashes and cancellations intervene
\* (_run, _run_account).
THEOREM RunsInOrder == Spec => []OrderInv
<1>1. Init => OrderInv /\ LibraryTyped BY InitInv, InitOrderInv
<1>2. (OrderInv /\ LibraryTyped) /\ [Next]_vars => (OrderInv /\ LibraryTyped)'
    BY OrderStep, LibraryStep
<1>3. QED BY <1>1, <1>2, PTL DEF Spec

\* No item is settled twice: a settled item keeps its status and its file for as long as
\* the process knows it (_run_account).
THEOREM ItemsStaySettled == Spec => SettledForGood
<1>1. OrderInv /\ [Next]_vars =>
        [\A i \in Items : item[i] \in Settled /\ bstatus'[i[1]] # "forgotten"
            => item'[i] = item[i] /\ video'[i] = video[i]]_vars
  <2> SUFFICES ASSUME OrderInv, Next, NEW i \in Items, item[i] \in Settled,
                      bstatus'[i[1]] # "forgotten"
               PROVE  item'[i] = item[i] /\ video'[i] = video[i]
      OBVIOUS
  <2>0. IndInv /\ Order /\ ClaimTypes /\ ItemsExist BY DEF OrderInv, Order, IndInv
  <2>1. ASSUME NEW r \in Runners, RunnerStep(r) PROVE item'[i] = item[i] /\ video'[i] = video[i]
    <3>1. RunnerFrame(r) BY <2>0, <2>1, RunnerStepFrame DEF Order
    <3>2. ASSUME RunnerOf(i) = r, i[3] \in Ahead(r) PROVE FALSE
      <4>1. i = It(r, i[3]) BY <3>2, ItemOf
      <4>2. QED BY <2>0, <3>1, <3>2, <4>1 DEF RunnerFrame, Order, SettlesInOrder
    <3>3. QED BY <3>1, <3>2 DEF RunnerFrame
  <2>2. ASSUME UNCHANGED <<item, video>> PROVE item'[i] = item[i] /\ video'[i] = video[i]
      BY <2>2
  <2>3. ASSUME NEW b \in Batches, BatchStep(b) PROVE UNCHANGED <<item, video>>
      BY <2>3 DEF BatchStep, BatchStart, BatchSkipped, BatchEnd, claimVars
  <2>4. ASSUME NEW j \in Jobs, JobStep(j) PROVE UNCHANGED <<item, video>>
    <3>1. CASE JobStarts(j) \/ JobDropped(j) \/ JobDenied(j) \/ JobFails(j)
        BY <3>1 DEF JobStarts, JobDropped, JobDenied, JobFails, claimVars
    <3>2. CASE LoginFails(j) \/ JobReports(j) \/ JobReleases(j)
        BY <3>2 DEF LoginFails, JobReports, JobReleases, claimVars
    <3>3. CASE \E res \in Verdicts : Publish(j, res) \/ RecordFails(j, res)
        BY <3>3 DEF Publish, RecordFails, claimVars
    <3>4. QED BY <2>4, <3>1, <3>2, <3>3 DEF JobStep
  <2>5. ASSUME NEW a \in Accounts, OtherStep(a) PROVE UNCHANGED <<item, video>>
      BY <2>5 DEF OtherStep, OtherSubmits, OtherDropped, OtherReleases, OtherReports, claimVars
  <2>6. CASE OperatorStep
    <3>1. CASE \/ (\E b \in Batches : Cancel(b)) \/ EmergencyStop
               \/ \E begun \in SUBSET Batches : Shutdown(begun)
        BY <3>1 DEF Cancel, EmergencyStop, Shutdown, claimVars
    <3>2. ASSUME Restart PROVE FALSE
      <4>1. i[1] \in Batches BY ItemOf
      <4>2. bstatus[i[1]] = "none" BY <3>2, <4>1 DEF Restart
      <4>3. item[i] = "none" BY <2>0, <4>1, <4>2 DEF ItemsExist
      <4>4. QED BY <4>3 DEF Settled
    <3>3. ASSUME NEW b \in Batches, NEW A \in SUBSET Accounts, NEW per \in PerAccount,
                 NEW offered \in SUBSET Scanned, Add(b, A, per, offered)
          PROVE  item'[i] = item[i] /\ video'[i] = video[i]
      <4>1. item[i] # "none" BY DEF Settled
      <4>2. i[1] # b BY <2>0, <3>3, <4>1 DEF ItemsExist, Add
      <4>3. QED BY <3>3, <4>2 DEF Add
    <3>4. QED BY <2>6, <3>1, <3>2, <3>3 DEF OperatorStep
  <2>7. QED BY <2>1, <2>2, <2>3, <2>4, <2>5, <2>6 DEF Next
<1>2. QED BY <1>1, RunsInOrder, PTL DEF Spec, SettledForGood
-----------------------------------------------------------------------------
(* What a runner reads, and the tasks it submits, until the first stop.    *)

\* Only one batch runs, so an account has one runner at work.
LEMMA OneAtWork ==
    ASSUME RunnersOwned, RunsInTurn, NEW q \in Runners, NEW r \in Runners, q[2] = r[2],
           pc[q] \notin {"idle", "over"}, pc[r] \notin {"idle", "over"}
    PROVE  q = r
<1>1. /\ q[1] \in Batches /\ bstatus[q[1]] = "RUNNING" /\ q[1] \in Live
      /\ r[1] \in Batches /\ bstatus[r[1]] = "RUNNING" /\ r[1] \in Live
    BY DEF RunnersOwned, Runners, Live
<1>2. q[1] \in Nat /\ r[1] \in Nat BY <1>1, BulkAssumption DEF Batches
<1>3. ~(q[1] < r[1]) /\ ~(r[1] < q[1]) BY <1>1 DEF RunsInTurn
<1>4. q[1] = r[1] BY <1>2, <1>3
<1>5. QED BY <1>4 DEF Runners

\* A task under way is the one its runner polls.
LEMMA TaskPolled ==
    ASSUME BusyForOne, NEW j \in Jobs, InFlight(j)
    PROVE  /\ RunnerOf(j) \in Runners /\ RunnerOf(j)[1] = j[1] /\ RunnerOf(j)[2] = j[2]
           /\ pc[RunnerOf(j)] = "polling" /\ j = Job(RunnerOf(j)) /\ j[2] \in busy
           /\ other[j[2]] = "none" /\ j[2] \in Accounts
<1>1. RunnerOf(j) \in Runners /\ RunnerOf(j)[1] = j[1] /\ RunnerOf(j)[2] = j[2]
      /\ j = <<j[1], j[2], j[3]>> /\ j[2] \in Accounts
    BY DEF Jobs, RunnerOf, Runners
<1>2. QED BY <1>1 DEF BusyForOne, Job

\* What a step of a runner does to the items it settles: a success it reads comes from
\* its task, is read of one video, and makes that item DONE.
ReadsOn(r) == \A i \in Items : RunnerOf(i) = r =>
    /\ verdict'[i] = "ok" =>
           /\ video'[i] = video[i]
           /\ \/ verdict[i] = "ok"
              \/ pc[r] = "polling" /\ i[3] \in Current(r) /\ Result(r, video[i]) = "ok"
    /\ verdict[i] = "ok" => video'[i] = video[i] /\ (verdict'[i] = "ok" \/ item'[i] = "DONE")
    /\ item'[i] = "DONE" => video'[i] = video[i] /\ (item[i] = "DONE" \/ verdict[i] = "ok")
    /\ pc[r] = "polling" /\ i[3] \in Current(r) =>
           verdict'[i] = Result(r, video[i]) /\ video'[i] = video[i]

\* What it does to tasks and to the account's status.
RunnerTasks(r) ==
    /\ succeeded' \subseteq succeeded
    /\ pc'[r] = "submitting" => r[2] \notin succeeded'
    /\ pc'[r] = "polling" => pc[r] = "submitting"
    /\ \/ sink' = sink
       \/ pc[r] = "polling" /\ sink' = [sink EXCEPT ![Job(r)] = NoResults]

\* The verdicts of a runner that keeps its slot.
LEMMA StayVerdicts ==
    ASSUME RunnerTypes, RunnersOwned, VerdictsAhead, NEW r \in Runners, RunnerFrame(r),
           at' = at, pc'[r] # "over",
           \A i \in Items : RunnerOf(i) = r /\ verdict'[i] # "none" =>
               verdict[i] # "none" /\ (pc[r] = "settling" => i[3] # at[r])
    PROVE  VerdictsAhead'
<1> SUFFICES ASSUME NEW i \in Items, verdict'[i] # "none"
             PROVE  /\ pc'[RunnerOf(i)] \notin {"idle", "over"} /\ at'[RunnerOf(i)] # 0
                    /\ \/ i[3] > at'[RunnerOf(i)]
                       \/ i[3] = at'[RunnerOf(i)] /\ pc'[RunnerOf(i)] = "settling"
    BY DEF VerdictsAhead
<1>1. RunnerOf(i) \in Runners BY ItemOf
<1>2. CASE RunnerOf(i) # r BY <1>1, <1>2 DEF RunnerFrame, VerdictsAhead
<1>3. CASE RunnerOf(i) = r BY <1>3 DEF RunnerFrame, VerdictsAhead
<1>4. QED BY <1>2, <1>3

\* The verdicts of a runner that goes on to the next slot: it leaves none behind.
LEMMA AdvanceVerdicts ==
    ASSUME RunnerTypes, RunnersOwned, SlotsFilled, VerdictsAhead, NEW r \in Runners,
           RunnerFrame(r), at[r] # 0, Advance(r, at[r]),
           \A i \in Items : RunnerOf(i) = r /\ verdict'[i] # "none" =>
               verdict[i] # "none" /\ (pc[r] = "settling" => i[3] # at[r])
    PROVE  VerdictsAhead'
<1> SUFFICES ASSUME NEW i \in Items, verdict'[i] # "none"
             PROVE  /\ pc'[RunnerOf(i)] \notin {"idle", "over"} /\ at'[RunnerOf(i)] # 0
                    /\ \/ i[3] > at'[RunnerOf(i)]
                       \/ i[3] = at'[RunnerOf(i)] /\ pc'[RunnerOf(i)] = "settling"
    BY DEF VerdictsAhead
<1>1. RunnerOf(i) \in Runners /\ i[3] \in Slots /\ i = It(RunnerOf(i), i[3]) BY ItemOf
<1>2. CASE RunnerOf(i) # r BY <1>1, <1>2 DEF RunnerFrame, VerdictsAhead
<1>3. CASE RunnerOf(i) = r
  <2>1. verdict[i] # "none" /\ i[3] > at[r] BY <1>3 DEF VerdictsAhead
  <2>2. video[i] # NoVideo BY <2>1 DEF RunnersOwned
  <2>3. i[3] \in SlotsOf(r) BY <1>1, <1>3, <2>2, SlotFacts
  <2>4. at[r] \in SlotsOf(r) /\ at[r] \in Nat BY AtOwned
  <2>5. PICK per \in PerAccount : SlotsOf(r) = 1 .. per BY <2>3 DEF SlotsFilled
  <2>6. per \in Nat BY BulkAssumption
  <2>7. i[3] \in 1 .. per /\ at[r] + 1 \in 1 .. per BY <2>1, <2>3, <2>4, <2>5, <2>6
  <2>8. at'[r] = at[r] + 1 /\ pc'[r] = "settling"
      BY <2>5, <2>7 DEF Advance, RunnerTypes
  <2>9. i[3] > at'[r] \/ i[3] = at'[r]
      BY <2>1, <2>4, <2>6, <2>7, <2>8
  <2>10. QED BY <1>3, <2>4, <2>8, <2>9
<1>4. QED BY <1>2, <1>3

\* A step that reads nothing.
LEMMA ReadsNothing ==
    ASSUME NEW r \in Runners, pc[r] # "polling", UNCHANGED <<verdict, video>>,
           \A i \in Items : item'[i] = "DONE" => item[i] = "DONE"
    PROVE  ReadsOn(r)
BY DEF ReadsOn

\* A submission that fails.
LEMMA FailsReads ==
    ASSUME IndInv, Order, VerdictsAhead, NEW r \in Runners,
           pc[r] \in {"asking", "free"}, SubmissionFails(r), RunnerFrame(r),
           UNCHANGED <<verdict, video, succeeded, sink>>
    PROVE  ReadsOn(r) /\ RunnerTasks(r) /\ VerdictsAhead'
<1>0. RunnerTypes /\ RunnersOwned /\ SlotsFilled BY DEF IndInv, Order
<1>1. \A i \in Items : item'[i] = "DONE" => item[i] = "DONE"
    BY Marks DEF SubmissionFails
<1>2. ReadsOn(r) BY <1>1, ReadsNothing
<1>3. pc'[r] \in {"settling", "over"}
  <2>1. CASE at[r] = 0 BY <1>0, <2>1 DEF SubmissionFails, RunnerTypes
  <2>2. CASE at[r] # 0 BY <1>0, <2>2, Advances DEF SubmissionFails
  <2>3. QED BY <2>1, <2>2
<1>4. RunnerTasks(r) BY <1>3 DEF RunnerTasks
<1>5. VerdictsAhead'
  <2>1. CASE at[r] # 0
    <3>1. Advance(r, at[r]) BY <2>1 DEF SubmissionFails
    <3>2. QED BY <1>0, <2>1, <3>1, AdvanceVerdicts
  <2>2. CASE at[r] = 0
    <3>1. \A i \in Items : RunnerOf(i) = r => verdict[i] = "none" BY <2>2 DEF VerdictsAhead
    <3>2. \A i \in Items : RunnerOf(i) \in Runners BY ItemOf
    <3>3. QED BY <3>1, <3>2 DEF RunnerFrame, VerdictsAhead
  <2>3. QED BY <2>1, <2>2
<1>6. QED BY <1>2, <1>4, <1>5

\* Asking for a task, giving up, waiting.
LEMMA AskReads ==
    ASSUME IndInv, Order, VerdictsAhead, NEW r \in Runners,
           GiveUp(r) \/ SubmitRefused(r) \/ Sleep(r) \/ Submit(r)
    PROVE  ReadsOn(r) /\ RunnerTasks(r) /\ VerdictsAhead'
<1>0. RunnerTypes /\ RunnersOwned BY DEF IndInv
<1>1. RunnerFrame(r) BY FailFrame, SubmitFrame DEF Order
<1>2. CASE GiveUp(r) \/ SubmitRefused(r)
  <2>1. /\ pc[r] \in {"asking", "free"} /\ SubmissionFails(r)
        /\ UNCHANGED <<verdict, video, succeeded, sink>>
      BY <1>2 DEF GiveUp, SubmitRefused, Asks, dispVars, jobVars
  <2>2. QED BY <1>1, <2>1, FailsReads
<1>3. CASE Sleep(r) \/ Submit(r)
  <2>1. /\ pc[r] \in {"asking", "free"} /\ UNCHANGED <<at, verdict, video, sink>>
        /\ succeeded' \subseteq succeeded
        /\ pc'[r] \in {"free", "submitting"}
        /\ pc'[r] = "submitting" => r[2] \notin succeeded'
      BY <1>0, <1>3 DEF Sleep, Submit, Asks, RunnerTypes, claimVars, dispVars, jobVars
  <2>2. \A i \in Items : item'[i] = "DONE" => item[i] = "DONE"
    <3>1. CASE Sleep(r) BY <3>1 DEF Sleep, claimVars
    <3>2. CASE Submit(r)
      <4>1. Mark(r, Current(r), "SUBMITTING") BY <3>2 DEF Submit
      <4>2. QED BY <4>1, Marks
    <3>3. QED BY <1>3, <3>1, <3>2
  <2>3. ReadsOn(r) BY <2>1, <2>2, ReadsNothing
  <2>4. RunnerTasks(r) BY <2>1 DEF RunnerTasks
  <2>5. VerdictsAhead' BY <1>0, <1>1, <2>1, StayVerdicts
  <2>6. QED BY <2>3, <2>4, <2>5
<1>4. QED BY <1>2, <1>3

\* The payload is queued; the account is still busy.
LEMMA ReturnReads ==
    ASSUME IndInv, Order, VerdictsAhead, BusyForOne, NEW r \in Runners, SubmitReturns(r)
    PROVE  /\ ReadsOn(r) /\ RunnerTasks(r) /\ VerdictsAhead'
           /\ pc'[r] = "polling" /\ r[2] \in busy /\ at' = at
<1>0. RunnerTypes /\ RunnersOwned BY DEF IndInv
<1>1. RunnerFrame(r) BY ReturnFrame DEF Order
<1>2. pc[r] = "submitting" /\ r[2] \in busy BY DEF SubmitReturns, BusyForOne
<1>3. /\ Mark(r, Current(r), "RUNNING") /\ pc' = [pc EXCEPT ![r] = "polling"] /\ at' = at
      /\ UNCHANGED <<verdict, video, succeeded, sink>>
    BY <1>2 DEF SubmitReturns, dispVars
<1>4. pc'[r] = "polling" BY <1>0, <1>3 DEF RunnerTypes
<1>5. \A i \in Items : item'[i] = "DONE" => item[i] = "DONE" BY <1>3, Marks
<1>6. ReadsOn(r) BY <1>2, <1>3, <1>5, ReadsNothing
<1>7. RunnerTasks(r) BY <1>2, <1>3, <1>4 DEF RunnerTasks
<1>8. VerdictsAhead' BY <1>0, <1>1, <1>2, <1>3, <1>4, StayVerdicts
<1>9. QED BY <1>2, <1>3, <1>4, <1>6, <1>7, <1>8

\* The results are read.
LEMMA PollReads ==
    ASSUME IndInv, Order, VerdictsAhead, NEW r \in Runners, Poll(r)
    PROVE  ReadsOn(r) /\ RunnerTasks(r) /\ VerdictsAhead'
<1>0. RunnerTypes /\ RunnersOwned BY DEF IndInv
<1>1. RunnerFrame(r) BY PollFrame
<1>2. /\ pc[r] = "polling" /\ UNCHANGED <<item, video, succeeded>>
      /\ verdict' = [i \in Items |->
           IF i[1] = r[1] /\ i[2] = r[2] /\ i[3] \in Current(r)
           THEN Result(r, video[i]) ELSE verdict[i]]
      /\ at' = [at EXCEPT ![r] = IF @ = 0 THEN 1 ELSE @]
      /\ pc' = [pc EXCEPT ![r] = "settling"]
      /\ sink' = sink \/ sink' = [sink EXCEPT ![Job(r)] = NoResults]
    BY DEF Poll, claimVars, dispVars
<1>3. \A i \in Items : verdict'[i] = IF RunnerOf(i) = r /\ i[3] \in Current(r)
                                     THEN Result(r, video[i]) ELSE verdict[i]
    BY <1>2, ItemOf
<1>4. pc'[r] = "settling" /\ at'[r] = IF at[r] = 0 THEN 1 ELSE at[r]
    BY <1>0, <1>2 DEF RunnerTypes
<1>5. ReadsOn(r)
  <2>1. ASSUME NEW i \in Items, RunnerOf(i) = r, verdict[i] = "ok" PROVE verdict'[i] = "ok"
    <3>1. at[r] # 0 /\ i[3] > at[r] BY <1>2, <2>1 DEF VerdictsAhead
    <3>2. Current(r) = {at[r]} /\ at[r] \in Nat BY <1>0, <3>1, AtOwned DEF Current
    <3>3. i[3] \in Nat BY ItemOf, SlotFacts
    <3>4. i[3] \notin Current(r) BY <3>1, <3>2, <3>3
    <3>5. QED BY <1>3, <2>1, <3>4
  <2>2. QED BY <1>2, <1>3, <2>1 DEF ReadsOn
<1>6. RunnerTasks(r) BY <1>2, <1>4 DEF RunnerTasks
<1>7. VerdictsAhead'
  <2> SUFFICES ASSUME NEW i \in Items, verdict'[i] # "none"
               PROVE  /\ pc'[RunnerOf(i)] \notin {"idle", "over"} /\ at'[RunnerOf(i)] # 0
                      /\ \/ i[3] > at'[RunnerOf(i)]
                         \/ i[3] = at'[RunnerOf(i)] /\ pc'[RunnerOf(i)] = "settling"
      BY DEF VerdictsAhead
  <2>1. RunnerOf(i) \in Runners BY ItemOf
  <2>2. CASE RunnerOf(i) # r BY <2>1, <2>2, <1>1 DEF RunnerFrame, VerdictsAhead
  <2>3. CASE RunnerOf(i) = r
    <3>1. i[3] \in Nat \ {0} BY ItemOf, SlotFacts
    <3>2. CASE at[r] = 0
      <4>1. i[3] > 1 \/ i[3] = 1 BY <3>1
      <4>2. QED BY <1>4, <2>3, <3>2, <4>1
    <3>3. CASE at[r] # 0
      <4>1. i[3] \in Current(r) => i[3] = at[r] BY <3>3 DEF Current
      <4>2. i[3] \notin Current(r) => i[3] > at[r]
          BY <1>2, <1>3, <2>3 DEF VerdictsAhead
      <4>3. QED BY <1>4, <2>3, <3>3, <4>1, <4>2
    <3>4. QED BY <3>2, <3>3
  <2>4. QED BY <2>2, <2>3
<1>8. QED BY <1>5, <1>6, <1>7

\* An item is settled, or replaced.
LEMMA SettleReads ==
    ASSUME IndInv, Order, VerdictsAhead, NEW r \in Runners,
           SettleDone(r) \/ SettleFailed(r) \/ \E s \in Videos : Replace(r, s)
    PROVE  ReadsOn(r) /\ RunnerTasks(r) /\ VerdictsAhead'
<1>0. RunnerTypes /\ RunnersOwned /\ SlotsFilled /\ ClaimTypes BY DEF IndInv, Order
<1>1. RunnerFrame(r) BY SettleFrame, ReplaceFrame
<1>2. pc[r] = "settling" /\ Read(r) /\ UNCHANGED <<succeeded, sink>>
    BY DEF SettleDone, SettleFailed, Replace, dispVars, jobVars
<1>3. at[r] # 0 BY <1>0, <1>2 DEF RunnersOwned
<1> DEFINE k == It(r, at[r])
<1>4. /\ verdict'[k] = "none" /\ \A i \in Items : i # k => verdict'[i] = verdict[i]
      /\ k \in Items /\ \A i \in Items : i = k <=> RunnerOf(i) = r /\ i[3] = at[r]
    BY <1>0, <1>2, <1>3, Reads
<1>5. \A i \in Items : RunnerOf(i) = r /\ verdict'[i] # "none" =>
          verdict[i] # "none" /\ i[3] # at[r]
    BY <1>4
<1>6. CASE SettleDone(r)
  <2>1. /\ Mark(r, {at[r]}, "DONE") /\ verdict[k] = "ok" /\ UNCHANGED <<at, video>>
        /\ pc' = [pc EXCEPT ![r] = "archiving"]
      BY <1>6 DEF SettleDone
  <2>2. \A i \in Items : item'[i] = IF i = k THEN "DONE" ELSE item[i]
      BY <1>4, <2>1, Marks
  <2>3. pc'[r] = "archiving" BY <1>0, <2>1 DEF RunnerTypes
  <2>4. ReadsOn(r) BY <1>2, <1>4, <2>1, <2>2 DEF ReadsOn
  <2>5. RunnerTasks(r) BY <1>2, <2>3 DEF RunnerTasks
  <2>6. VerdictsAhead' BY <1>0, <1>1, <1>5, <2>1, <2>3, StayVerdicts
  <2>7. QED BY <2>4, <2>5, <2>6
<1>7. CASE SettleFailed(r)
  <2>1. /\ verdict[k] # "ok" /\ UNCHANGED video /\ Advance(r, at[r])
        /\ \E st \in {"DUPLICATE", "SWALLOWED", "ERROR"} : Mark(r, {at[r]}, st)
    <3>1. verdict[k] \in {"swallowed", "error", "duplicate"} BY <1>7 DEF SettleFailed
    <3>2. CASE verdict[k] = "duplicate" BY <1>7, <3>2 DEF SettleFailed
    <3>3. CASE verdict[k] = "swallowed" BY <1>7, <3>3 DEF SettleFailed
    <3>4. CASE verdict[k] = "error" BY <1>7, <3>4 DEF SettleFailed
    <3>5. QED BY <3>1, <3>2, <3>3, <3>4
  <2>2. \A i \in Items : item'[i] = "DONE" => item[i] = "DONE" BY <2>1, Marks
  <2>3. pc'[r] \in {"settling", "over"} BY <1>0, <2>1, Advances
  <2>4. ReadsOn(r) BY <1>2, <1>4, <2>1, <2>2 DEF ReadsOn
  <2>5. RunnerTasks(r) BY <1>2, <2>3 DEF RunnerTasks
  <2>6. VerdictsAhead' BY <1>0, <1>1, <1>3, <1>5, <2>1, AdvanceVerdicts
  <2>7. QED BY <2>4, <2>5, <2>6
<1>8. ASSUME NEW s \in Videos, Replace(r, s)
      PROVE  ReadsOn(r) /\ RunnerTasks(r) /\ VerdictsAhead'
  <2>1. /\ verdict[k] = "duplicate" /\ UNCHANGED <<at, item>>
        /\ video' = [video EXCEPT ![k] = s] /\ pc' = [pc EXCEPT ![r] = "asking"]
      BY <1>8 DEF Replace
  <2>2. \A i \in Items : i # k => video'[i] = video[i] BY <1>0, <1>4, <2>1 DEF ClaimTypes
  <2>3. pc'[r] = "asking" BY <1>0, <2>1 DEF RunnerTypes
  <2>4. item[k] # "DONE"
    <3>1. at[r] \in SlotsOf(r) BY <1>0, <1>3, AtOwned
    <3>2. at[r] \in Ahead(r) BY <1>2, <3>1 DEF Ahead
    <3>3. QED BY <1>2, <3>2 DEF Order, SettlesInOrder, Settled
  <2>5. ReadsOn(r) BY <1>2, <1>4, <2>1, <2>2, <2>4 DEF ReadsOn
  <2>6. RunnerTasks(r) BY <1>2, <2>3 DEF RunnerTasks
  <2>7. VerdictsAhead' BY <1>0, <1>1, <1>5, <2>1, <2>3, StayVerdicts
  <2>8. QED BY <2>5, <2>6, <2>7
<1>9. QED BY <1>6, <1>7, <1>8

\* The archive thread returns.
LEMMA ArchiveReads ==
    ASSUME IndInv, Order, VerdictsAhead, NEW r \in Runners, NEW ok \in BOOLEAN,
           ArchiveEnds(r, ok)
    PROVE  ReadsOn(r) /\ RunnerTasks(r) /\ VerdictsAhead'
<1>0. RunnerTypes /\ RunnersOwned /\ SlotsFilled BY DEF IndInv, Order
<1>1. RunnerFrame(r) BY ArchiveFrame
<1>2. /\ pc[r] = "archiving" /\ Advance(r, at[r])
      /\ UNCHANGED <<item, video, verdict, succeeded, sink>>
    BY DEF ArchiveEnds, claimVars, dispVars, jobVars
<1>3. at[r] # 0 BY <1>0, <1>2 DEF RunnersOwned
<1>4. pc'[r] \in {"settling", "over"} BY <1>0, <1>2, Advances
<1>5. ReadsOn(r) BY <1>2, ReadsNothing
<1>6. RunnerTasks(r) BY <1>2, <1>4 DEF RunnerTasks
<1>7. VerdictsAhead' BY <1>0, <1>1, <1>2, <1>3, AdvanceVerdicts
<1>8. QED BY <1>5, <1>6, <1>7

\* Hence every step of a runner.
LEMMA RunnerReads ==
    ASSUME IndInv, Order, VerdictsAhead, BusyForOne, NEW r \in Runners, RunnerStep(r)
    PROVE  ReadsOn(r) /\ RunnerTasks(r) /\ VerdictsAhead'
BY AskReads, ReturnReads, PollReads, SettleReads, ArchiveReads DEF RunnerStep
-----------------------------------------------------------------------------
(* Tasks and what they confirm, as the runners step.                       *)

\* A runner that polls nothing, or no longer has to, has no task under way.
LEMMA NoTask ==
    ASSUME BusyForOne, NEW r \in Runners, pc[r] # "polling" \/ r[2] \notin busy,
           NEW j \in Jobs, InFlight(j)
    PROVE  RunnerOf(j) # r
BY TaskPolled

\* Tasks of two runners have two names.
LEMMA JobsApart ==
    ASSUME NEW q \in Runners, NEW r \in Runners, q # r, NEW m, NEW n
    PROVE  <<q[1], q[2], m>> # <<r[1], r[2], n>>
BY DEF Runners

\* Which steps of a runner touch the busy set or the tasks.
LEMMA RunnerCalls ==
    ASSUME IndInv, BusyForOne, NEW r \in Runners, RunnerStep(r), ~SubmitReturns(r)
    PROVE  /\ UNCHANGED <<jst, todo>>
           /\ pc[r] # "polling" \/ r[2] \notin busy
           /\ \/ busy' = busy /\ pc'[r] # "submitting"
              \/ Submit(r) /\ busy' = busy \cup {r[2]} /\ r[2] \notin busy
<1>0. RunnerTypes BY DEF IndInv
<1>1. CASE GiveUp(r) \/ SubmitRefused(r)
  <2>1. /\ pc[r] \in {"asking", "free"} /\ SubmissionFails(r)
        /\ UNCHANGED <<jst, todo, busy>>
      BY <1>1 DEF GiveUp, SubmitRefused, Asks, jobVars, dispVars
  <2>2. pc'[r] # "submitting"
    <3>1. CASE at[r] = 0 BY <1>0, <2>1, <3>1 DEF SubmissionFails, RunnerTypes
    <3>2. CASE at[r] # 0 BY <1>0, <2>1, <3>2, Advances DEF SubmissionFails
    <3>3. QED BY <3>1, <3>2
  <2>3. QED BY <2>1, <2>2
<1>2. CASE Sleep(r) BY <1>0, <1>2 DEF Sleep, RunnerTypes, jobVars, dispVars
<1>3. CASE Submit(r) BY <1>3 DEF Submit, Asks, jobVars
<1>4. CASE Poll(r) BY <1>0, <1>4 DEF Poll, RunnerTypes, dispVars
<1>5. CASE SettleDone(r) BY <1>0, <1>5 DEF SettleDone, RunnerTypes, jobVars, dispVars
<1>6. CASE SettleFailed(r)
  <2>1. pc[r] = "settling" /\ Advance(r, at[r]) /\ UNCHANGED <<jst, todo, busy>>
      BY <1>6 DEF SettleFailed, jobVars, dispVars
  <2>2. QED BY <1>0, <2>1, Advances
<1>7. CASE \E s \in Videos : Replace(r, s)
    BY <1>0, <1>7 DEF Replace, RunnerTypes, jobVars, dispVars
<1>8. CASE \E ok \in BOOLEAN : ArchiveEnds(r, ok)
  <2>1. pc[r] = "archiving" /\ Advance(r, at[r]) /\ UNCHANGED <<jst, todo, busy>>
      BY <1>8 DEF ArchiveEnds, jobVars, dispVars
  <2>2. QED BY <1>0, <2>1, Advances
<1>9. QED BY <1>1, <1>2, <1>3, <1>4, <1>5, <1>6, <1>7, <1>8 DEF RunnerStep

\* A task is queued: its account is busy, and the runner polls it.
LEMMA ReturnsQueued ==
    ASSUME OrderInv, VerdictsAhead, BusyForOne, NEW r \in Runners, SubmitReturns(r)
    PROVE  LET j == <<r[1], r[2], sub[r] + 1>> IN
           /\ j \in Jobs /\ RunnerOf(j) = r /\ j[3] = sub'[r] /\ j[2] = r[2]
           /\ pc[r] = "submitting" /\ pc'[r] = "polling" /\ at' = at
           /\ r[2] \in busy /\ other[r[2]] = "none" /\ busy' = busy /\ video' = video
           /\ \A k \in Jobs : /\ InFlight(k)' => k = j \/ InFlight(k)
                              /\ todo'[k] = IF k = j THEN Paths(r) ELSE todo[k]
<1> DEFINE j == <<r[1], r[2], sub[r] + 1>>
<1>0. IndInv /\ Order /\ TasksCounted /\ JobTypes BY DEF OrderInv, Order
<1>1. /\ pc[r] = "submitting" /\ sub' = [sub EXCEPT ![r] = @ + 1]
      /\ jst' = [jst EXCEPT ![j] = "queued"] /\ todo' = [todo EXCEPT ![j] = Paths(r)]
      /\ UNCHANGED <<busy, video>>
    BY DEF SubmitReturns, dispVars
<1>2. j \in Jobs BY <1>0, <1>1, JobFits
<1>3. RunnerOf(j) = r /\ j[2] = r[2] BY DEF RunnerOf, Runners
<1>4. j[3] = sub'[r] BY <1>0, <1>1 DEF TasksCounted
<1>5. pc'[r] = "polling" /\ r[2] \in busy /\ at' = at BY <1>0, ReturnReads
<1>6. other[r[2]] = "none" BY <1>1 DEF BusyForOne
<1>7. \A k \in Jobs : /\ InFlight(k)' => k = j \/ InFlight(k)
                      /\ todo'[k] = IF k = j THEN Paths(r) ELSE todo[k]
    BY <1>0, <1>1, <1>2 DEF JobTypes, InFlight
<1>8. QED BY <1>1, <1>2, <1>3, <1>4, <1>5, <1>6, <1>7

\* An account stays busy for one task.
LEMMA RunnerBusy ==
    ASSUME OrderInv, VerdictsAhead, BusyForOne, NEW r \in Runners, RunnerStep(r)
    PROVE  BusyForOne'
<1>0. IndInv /\ TasksCounted BY DEF OrderInv
<1>1. RunnerFrame(r) BY <1>0, RunnerStepFrame
<1>2. \A j \in Jobs : RunnerOf(j) \in Runners BY DEF Jobs, RunnerOf, Runners
<1>3. CASE ~SubmitReturns(r)
  <2>1. /\ UNCHANGED <<jst, todo>>
        /\ pc[r] # "polling" \/ r[2] \notin busy
        /\ \/ busy' = busy /\ pc'[r] # "submitting"
           \/ Submit(r) /\ busy' = busy \cup {r[2]} /\ r[2] \notin busy
      BY <1>0, <1>3, RunnerCalls
  <2>2. ASSUME NEW j \in Jobs, InFlight(j)'
        PROVE  /\ j[2] \in busy' /\ other'[j[2]] = "none"
               /\ pc'[RunnerOf(j)] = "polling" /\ j[3] = sub'[RunnerOf(j)]
    <3>1. InFlight(j) BY <2>1, <2>2 DEF InFlight
    <3>2. RunnerOf(j) # r BY <2>1, <3>1, NoTask
    <3>3. QED BY <1>1, <1>2, <2>1, <3>1, <3>2 DEF BusyForOne, RunnerFrame
  <2>3. ASSUME NEW q \in Runners, pc'[q] = "submitting"
        PROVE  q[2] \in busy' /\ other'[q[2]] = "none"
    <3>1. CASE q # r BY <1>1, <2>1, <2>3, <3>1 DEF BusyForOne, RunnerFrame
    <3>2. CASE q = r
      <4>1. r[2] \in Accounts BY DEF Runners
      <4>2. QED BY <1>1, <2>1, <2>3, <3>2, <4>1 DEF BusyForOne, RunnerFrame
    <3>3. QED BY <3>1, <3>2
  <2>4. QED BY <1>1, <2>1, <2>2, <2>3 DEF BusyForOne, RunnerFrame
<1>4. CASE SubmitReturns(r)
  <2> DEFINE new == <<r[1], r[2], sub[r] + 1>>
  <2>1. /\ new \in Jobs /\ RunnerOf(new) = r /\ new[3] = sub'[r] /\ new[2] = r[2]
        /\ pc[r] = "submitting" /\ pc'[r] = "polling"
        /\ r[2] \in busy /\ other[r[2]] = "none" /\ busy' = busy
        /\ \A k \in Jobs : InFlight(k)' => k = new \/ InFlight(k)
      BY <1>4, ReturnsQueued
  <2>2. ASSUME NEW j \in Jobs, InFlight(j)'
        PROVE  /\ j[2] \in busy' /\ other'[j[2]] = "none"
               /\ pc'[RunnerOf(j)] = "polling" /\ j[3] = sub'[RunnerOf(j)]
    <3>1. CASE j = new BY <1>1, <2>1, <3>1 DEF RunnerFrame
    <3>2. CASE j # new
      <4>1. InFlight(j) BY <2>1, <2>2, <3>2
      <4>2. RunnerOf(j) # r BY <2>1, <4>1, NoTask
      <4>3. QED BY <1>1, <1>2, <2>1, <4>1, <4>2 DEF BusyForOne, RunnerFrame
    <3>3. QED BY <3>1, <3>2
  <2>3. QED BY <1>1, <2>1, <2>2 DEF BusyForOne, RunnerFrame
<1>5. QED BY <1>3, <1>4

\* The videos of a task a runner is about to queue are unconfirmed.
LEMMA QueuedUnconfirmed ==
    ASSUME OrderInv, VerdictsAhead, ConfirmedAccounted, NEW r \in Runners,
           pc[r] = "submitting", NEW p \in confirmed, NEW n \in Current(r)
    PROVE  p[1] # video[It(r, n)]
<1> SUFFICES ASSUME p[1] = video[It(r, n)] PROVE FALSE
    OBVIOUS
<1>0. RunnerTypes /\ RunnersOwned /\ OneOwner /\ UsedApart /\ SettlesInOrder
    BY DEF OrderInv, IndInv
<1>1. n \in SlotsOf(r) /\ n \in Ahead(r) BY <1>0, CurrentOwned, CurrentAhead
<1>2. n \in Slots /\ video[It(r, n)] # NoVideo BY <1>1, SlotFacts
<1> DEFINE k == It(r, n)
<1>3. k \in Items /\ RunnerOf(k) = r /\ k[3] = n /\ k[1] = r[1] BY <1>2, ItOf DEF It
<1>4. k[1] \in Live BY <1>0, <1>3 DEF RunnersOwned, Live, Runners
<1>5. PICK i \in Items : Accounted(p, i) BY DEF ConfirmedAccounted
<1>6. video[i] = video[k] BY <1>5 DEF Accounted
<1>7. RunnerOf(i) \in Runners /\ RunnerOf(i)[1] = i[1] /\ i[1] \in Batches BY ItemOf
<1>8. item[i] # "DONE" => i[1] \in Live
  <2>1. item[i] # "DONE" => pc[RunnerOf(i)] \notin {"idle", "over"}
      BY <1>5 DEF Accounted, VerdictsAhead
  <2>2. QED BY <1>0, <1>7, <2>1 DEF RunnersOwned, Live
<1>9. i[1] \in Live
  <2>1. item[i] = "DONE" /\ i[1] \notin Live => video[i] \in Gone BY DEF Gone, Spent
  <2>2. video[k] \notin Gone BY <1>0, <1>3, <1>4 DEF UsedApart
  <2>3. QED BY <1>6, <1>8, <2>1, <2>2
<1>10. i = k BY <1>0, <1>2, <1>3, <1>4, <1>6, <1>9 DEF OneOwner
<1>11. item[k] # "DONE" BY <1>0, <1>1 DEF SettlesInOrder, Settled
<1>12. verdict[k] # "ok"
  <2>1. verdict[k] = "ok" => at[r] # 0 /\ n > at[r] BY <1>3 DEF VerdictsAhead
  <2>2. at[r] # 0 => n = at[r] BY DEF Current
  <2>3. n \in Nat BY <1>2, SlotFacts
  <2>4. QED BY <2>1, <2>2, <2>3
<1>13. QED BY <1>3, <1>5, <1>10, <1>11, <1>12 DEF Accounted

\* Tasks keep apart.
LEMMA RunnerApart ==
    ASSUME OrderInv, TasksAgree, NEW r \in Runners, RunnerStep(r)
    PROVE  TasksApart'
<1>0. /\ IndInv /\ TasksCounted /\ OneOwner /\ RunnersOwned /\ RunnerTypes /\ SlotsFilled
      /\ BusyForOne /\ VerdictsAhead /\ ConfirmedAccounted
    BY DEF OrderInv, IndInv, TasksAgree
<1>1. RunnerFrame(r) BY <1>0, RunnerStepFrame
<1>2. ASSUME NEW j \in Jobs, InFlight(j), RunnerOf(j) # r, todo'[j] = todo[j]
      PROVE  /\ \A v \in Range(todo'[j]) :
                    \E n \in Current(RunnerOf(j))' : v = video'[It(RunnerOf(j), n)]
             /\ IsInjective(todo'[j])
             /\ \A p \in confirmed' : p[1] \notin Range(todo'[j])
  <2> DEFINE q == RunnerOf(j)
  <2>1. q \in Runners BY DEF Jobs, RunnerOf, Runners
  <2>2. Current(q)' = Current(q) BY <1>1, <1>2, <2>1 DEF RunnerFrame, Current
  <2>3. \A n \in Current(q) : video'[It(q, n)] = video[It(q, n)]
    <3>1. \A n \in Current(q) : n \in Slots BY <1>0, <2>1, CurrentOwned, SlotFacts
    <3>2. \A n \in Slots : It(q, n) \in Items /\ RunnerOf(It(q, n)) = q BY <2>1, ItOf
    <3>3. QED BY <1>1, <1>2, <3>1, <3>2 DEF RunnerFrame
  <2>4. /\ \A v \in Range(todo[j]) : \E n \in Current(q) : v = video[It(q, n)]
        /\ IsInjective(todo[j])
        /\ \A p \in confirmed : p[1] \notin Range(todo[j])
      BY <1>2 DEF TasksAgree, TasksApart
  <2>5. \A v \in Range(todo[j]) : \E n \in Current(q) : v = video'[It(q, n)] BY <2>3, <2>4
  <2>6. confirmed' = confirmed BY <1>1 DEF RunnerFrame
  <2>7. QED BY <1>2, <2>2, <2>4, <2>5, <2>6
<1>3. CASE ~SubmitReturns(r)
  <2>1. UNCHANGED <<jst, todo>> /\ (pc[r] # "polling" \/ r[2] \notin busy)
      BY <1>0, <1>3, RunnerCalls
  <2>2. ASSUME NEW j \in Jobs, InFlight(j)'
        PROVE  InFlight(j) /\ RunnerOf(j) # r
    <3>1. InFlight(j) BY <2>1, <2>2 DEF InFlight
    <3>2. QED BY <1>0, <2>1, <3>1, NoTask
  <2>3. QED BY <1>2, <2>1, <2>2 DEF TasksApart
<1>4. CASE SubmitReturns(r)
  <2> DEFINE new == <<r[1], r[2], sub[r] + 1>>
  <2>1. /\ new \in Jobs /\ RunnerOf(new) = r
        /\ pc[r] = "submitting" /\ at' = at /\ video' = video
        /\ \A k \in Jobs : /\ InFlight(k)' => k = new \/ InFlight(k)
                           /\ todo'[k] = IF k = new THEN Paths(r) ELSE todo[k]
      BY <1>0, <1>4, ReturnsQueued
  <2>2. Current(r)' = Current(r) BY <1>1, <2>1 DEF RunnerFrame, Current
  <2>3. /\ \A v \in Range(Paths(r)) : \E n \in Current(r) : v = video[It(r, n)]
        /\ \A m, n \in DOMAIN Paths(r) : Paths(r)[m] = Paths(r)[n] =>
              m = n \/ \E k, l \in Current(r) : k # l /\ video[It(r, k)] = video[It(r, l)]
      BY <1>0, <2>1, PathsTyped
  <2>4. \A k, l \in Current(r) : video[It(r, k)] = video[It(r, l)] => k = l
    <3>1. \A k \in Current(r) : k \in Slots /\ video[It(r, k)] # NoVideo
        BY <1>0, CurrentOwned, SlotFacts
    <3>2. \A k \in Slots : It(r, k) \in Items /\ It(r, k)[1] = r[1] /\ It(r, k)[3] = k
        BY SlotFacts
    <3>3. r[1] \in Live BY <1>0, <2>1 DEF RunnersOwned, Live, Runners
    <3>4. ASSUME NEW k \in Current(r), NEW l \in Current(r), video[It(r, k)] = video[It(r, l)]
          PROVE  k = l
      <4>1. It(r, k) = It(r, l) BY <1>0, <3>1, <3>2, <3>3, <3>4 DEF OneOwner
      <4>2. QED BY <3>1, <3>2, <4>1
    <3>5. QED BY <3>4
  <2>5. IsInjective(Paths(r)) BY <2>3, <2>4 DEF IsInjective
  <2>6. \A p \in confirmed : p[1] \notin Range(Paths(r))
      BY <1>0, <2>1, <2>3, QueuedUnconfirmed
  <2>7. ASSUME NEW j \in Jobs, InFlight(j)'
        PROVE  /\ \A v \in Range(todo'[j]) :
                    \E n \in Current(RunnerOf(j))' : v = video'[It(RunnerOf(j), n)]
               /\ IsInjective(todo'[j])
               /\ \A p \in confirmed' : p[1] \notin Range(todo'[j])
    <3>1. CASE j = new
      <4>1. todo'[j] = Paths(r) /\ RunnerOf(j) = r BY <2>1, <3>1
      <4>2. confirmed' = confirmed BY <1>1 DEF RunnerFrame
      <4>3. QED BY <2>1, <2>2, <2>3, <2>5, <2>6, <4>1, <4>2
    <3>2. CASE j # new
      <4>1. InFlight(j) /\ todo'[j] = todo[j] BY <2>1, <2>7, <3>2
      <4>2. RunnerOf(j) # r BY <1>0, <2>1, <4>1, NoTask
      <4>3. QED BY <1>2, <4>1, <4>2
    <3>3. QED BY <3>1, <3>2
  <2>8. QED BY <2>7 DEF TasksApart
<1>5. QED BY <1>3, <1>4
\* A confirmed video stays accounted for.
LEMMA RunnerAccounts ==
    ASSUME OrderInv, TasksAgree, NEW r \in Runners, RunnerStep(r)
    PROVE  ConfirmedAccounted'
<1>0. /\ IndInv /\ TasksCounted /\ RunnersOwned /\ RunnerTypes /\ JobTypes /\ SettlesInOrder
      /\ Order /\ BusyForOne /\ VerdictsAhead /\ ConfirmedAccounted
    BY DEF OrderInv, IndInv, TasksAgree, Order
<1>1. RunnerFrame(r) BY <1>0, RunnerStepFrame
<1>2. ReadsOn(r) /\ RunnerTasks(r) BY <1>0, RunnerReads
<1>3. pc[r] = "polling" => Job(r) \in Jobs BY <1>0, JobFits
<1>4. \A j \in Jobs : j # Job(r) => sink'[j] = sink[j] BY <1>0, <1>2 DEF RunnerTasks, JobTypes
<1>5. \A j \in Jobs, v \in Videos : sink'[j][v] = "ok" => sink[j][v] = "ok"
  <2>1. CASE sink' = sink BY <2>1
  <2>2. CASE pc[r] = "polling" /\ sink' = [sink EXCEPT ![Job(r)] = NoResults]
    <3>1. sink'[Job(r)] = NoResults BY <1>0, <1>3, <2>2 DEF JobTypes
    <3>2. QED BY <1>4, <3>1 DEF NoResults
  <2>3. QED BY <1>2, <2>1, <2>2 DEF RunnerTasks
<1>6. ASSUME NEW p \in confirmed, NEW i \in Items, Accounted(p, i)
      PROVE  Accounted(p, i)'
  <2>0. /\ RunnerOf(i) \in Runners /\ i[3] \in Slots /\ i = It(RunnerOf(i), i[3])
        /\ p[1] \in Videos /\ p[2] \in Jobs
      BY <1>0, ItemOf DEF ConfirmedAccounted
  <2>1. CASE RunnerOf(i) # r
    <3> DEFINE q == RunnerOf(i)
    <3>1. /\ video'[i] = video[i] /\ item'[i] = item[i] /\ verdict'[i] = verdict[i]
          /\ pc'[q] = pc[q] /\ Current(q)' = Current(q) /\ Job(q)' = Job(q)
        BY <1>1, <2>0, <2>1 DEF RunnerFrame, Current, Job
    <3>2. p[2] = Job(q) => sink'[p[2]] = sink[p[2]]
      <4>1. Job(q) # Job(r) BY <2>0, <2>1, JobsApart DEF Job
      <4>2. QED BY <1>4, <2>0, <4>1
    <3>3. QED BY <1>6, <3>1, <3>2 DEF Accounted
  <2>2. CASE RunnerOf(i) = r
    <3>1. CASE item[i] = "DONE"
      <4>1. i[3] \notin Ahead(r) BY <1>0, <1>1, <2>0, <2>2, <3>1
          DEF SettlesInOrder, RunnerFrame, Settled
      <4>2. item'[i] = item[i] /\ video'[i] = video[i] BY <1>1, <4>1 DEF RunnerFrame
      <4>3. QED BY <1>6, <3>1, <4>2 DEF Accounted
    <3>2. CASE verdict[i] = "ok"
      <4>1. video'[i] = video[i] /\ (verdict'[i] = "ok" \/ item'[i] = "DONE")
          BY <1>2, <2>2, <3>2 DEF ReadsOn
      <4>2. QED BY <1>6, <4>1 DEF Accounted
    <3>3. CASE pc[r] = "polling" /\ i[3] \in Current(r) /\ p[2] = Job(r) /\ sink[p[2]][p[1]] = "ok"
      <4>1. verdict'[i] = Result(r, video[i]) /\ video'[i] = video[i]
          BY <1>2, <2>2, <3>3 DEF ReadsOn
      <4>2. video[i] = p[1] /\ sink[Job(r)][video[i]] = "ok" BY <1>6, <3>3 DEF Accounted
      <4>3. sink[Job(r)] # NoResults BY <2>0, <4>2 DEF NoResults
      <4>4. Result(r, video[i]) = "ok" BY <4>2, <4>3 DEF Result
      <4>5. QED BY <4>1, <4>2, <4>4 DEF Accounted
    <3>4. QED BY <1>6, <2>2, <3>1, <3>2, <3>3 DEF Accounted
  <2>3. QED BY <2>1, <2>2
<1>7. confirmed' = confirmed BY <1>1 DEF RunnerFrame
<1>8. \A p \in confirmed' : p[1] \in Videos /\ p[2] \in Jobs /\ \E i \in Items : Accounted(p, i)'
    BY <1>0, <1>6, <1>7 DEF ConfirmedAccounted
<1>9. \A j \in Jobs, v \in Videos : sink'[j][v] = "ok" => <<v, j>> \in confirmed'
    BY <1>0, <1>5, <1>7 DEF ConfirmedAccounted
<1>10. QED BY <1>8, <1>9 DEF ConfirmedAccounted

\* What is read as a success was one.
LEMMA RunnerMeant ==
    ASSUME OrderInv, TasksAgree, NEW r \in Runners, RunnerStep(r)
    PROVE  SuccessMeant'
<1>0. /\ IndInv /\ TasksCounted /\ RunnersOwned /\ RunnerTypes /\ JobTypes /\ ClaimTypes
      /\ Order /\ BusyForOne /\ VerdictsAhead /\ ConfirmedAccounted /\ SuccessMeant
    BY DEF OrderInv, IndInv, TasksAgree, Order
<1>1. RunnerFrame(r) BY <1>0, RunnerStepFrame
<1>2. ReadsOn(r) /\ RunnerTasks(r) BY <1>0, RunnerReads
<1>3. SUFFICES ASSUME others = 0
               PROVE  /\ \A a \in Accounts : other'[a] = "none"
                      /\ \A q \in Runners : q[2] \in succeeded' =>
                             /\ pc'[q] # "submitting"
                             /\ pc'[q] = "polling" => sink'[Job(q)'] # NoResults
                      /\ \A i \in Items : verdict'[i] = "ok" \/ item'[i] = "DONE" =>
                             \E p \in confirmed' : p[1] = video'[i]
    BY <1>1 DEF RunnerFrame, SuccessMeant
<1>4. \A a \in Accounts : other'[a] = "none" BY <1>0, <1>1, <1>3 DEF RunnerFrame, SuccessMeant
<1>5. ASSUME NEW q \in Runners, q[2] \in succeeded'
      PROVE  /\ pc'[q] # "submitting"
             /\ pc'[q] = "polling" => sink'[Job(q)'] # NoResults
  <2>1. q[2] \in succeeded BY <1>2, <1>5 DEF RunnerTasks
  <2>2. pc[q] # "submitting" /\ (pc[q] = "polling" => sink[Job(q)] # NoResults)
      BY <1>0, <1>3, <2>1 DEF SuccessMeant
  <2>3. CASE q = r BY <1>2, <1>5, <2>2, <2>3 DEF RunnerTasks
  <2>4. CASE q # r
    <3>1. pc'[q] = pc[q] /\ Job(q)' = Job(q) BY <1>1, <2>4 DEF RunnerFrame, Job
    <3>2. pc[q] = "polling" => sink'[Job(q)] = sink[Job(q)]
      <4>1. pc[q] = "polling" => Job(q) \in Jobs BY <1>0, JobFits
      <4>2. Job(q) # Job(r) BY <2>4, JobsApart DEF Job
      <4>3. QED BY <1>0, <1>2, <4>1, <4>2 DEF RunnerTasks, JobTypes
    <3>3. QED BY <2>2, <3>1, <3>2
  <2>5. QED BY <2>3, <2>4
<1>6. ASSUME NEW i \in Items, verdict'[i] = "ok" \/ item'[i] = "DONE"
      PROVE  \E p \in confirmed' : p[1] = video'[i]
  <2>0. RunnerOf(i) \in Runners /\ i = It(RunnerOf(i), i[3]) BY ItemOf
  <2>1. confirmed' = confirmed BY <1>1 DEF RunnerFrame
  <2>2. verdict[i] = "ok" \/ item[i] = "DONE" => \E p \in confirmed : p[1] = video[i]
      BY <1>0, <1>3 DEF SuccessMeant
  <2>3. CASE RunnerOf(i) # r BY <1>1, <1>6, <2>0, <2>1, <2>2, <2>3 DEF RunnerFrame
  <2>4. CASE RunnerOf(i) = r /\ (verdict[i] = "ok" \/ item'[i] = "DONE")
      BY <1>2, <2>1, <2>2, <2>4 DEF ReadsOn
  <2>5. CASE /\ RunnerOf(i) = r /\ video'[i] = video[i]
             /\ pc[r] = "polling" /\ i[3] \in Current(r) /\ Result(r, video[i]) = "ok"
    <3>1. r[2] \in succeeded => sink[Job(r)] # NoResults BY <1>0, <1>3, <2>5 DEF SuccessMeant
    <3>2. sink[Job(r)][video[i]] = "ok" BY <2>5, <3>1 DEF Result
    <3>3. Job(r) \in Jobs BY <1>0, <2>5, JobFits
    <3>4. i[3] \in SlotsOf(r) BY <1>0, <2>5, CurrentOwned
    <3>5. video[i] # NoVideo BY <2>0, <2>5, <3>4, SlotFacts
    <3>6. video[i] \in Videos BY <1>0, <3>5 DEF ClaimTypes
    <3>7. <<video[i], Job(r)>> \in confirmed BY <1>0, <3>2, <3>3, <3>6 DEF ConfirmedAccounted
    <3>8. QED BY <2>1, <2>5, <3>7
  <2>6. QED BY <1>2, <1>6, <2>3, <2>4, <2>5 DEF ReadsOn
<1>7. QED BY <1>4, <1>5, <1>6

\* Hence every step of a runner keeps tasks, verdicts and confirmations in agreement.
LEMMA RunnerAgrees ==
    ASSUME OrderInv, TasksAgree, NEW r \in Runners, RunnerStep(r)
    PROVE  TasksAgree'
<1>1. IndInv /\ Order /\ VerdictsAhead /\ BusyForOne /\ PublishedOnce /\ TasksCounted
    BY DEF OrderInv, Order, TasksAgree
<1>2. VerdictsAhead' BY <1>1, RunnerReads
<1>3. BusyForOne' BY <1>1, RunnerBusy
<1>4. PublishedOnce' BY <1>1, RunnerStepFrame DEF RunnerFrame, PublishedOnce
<1>5. QED BY <1>2, <1>3, <1>4, RunnerApart, RunnerAccounts, RunnerMeant DEF TasksAgree

-----------------------------------------------------------------------------
(* Tasks and what they confirm, as the rest steps.                         *)

\* Runners that start and items that are added disturb no task.
LEMMA CalmAgrees ==
    ASSUME OrderInv, TasksAgree,
           UNCHANGED <<at, sub, verdict, jst, todo, sink, busy, succeeded, other, others, confirmed>>,
           \A q \in Runners : pc'[q] = pc[q] \/ (pc[q] = "idle" /\ pc'[q] = "free"),
           \A i \in Items : \/ item'[i] = item[i] /\ video'[i] = video[i]
                            \/ pc[RunnerOf(i)] = "idle" /\ item[i] = "none" /\ item'[i] # "DONE"
    PROVE  TasksAgree'
<1>0. /\ RunnersOwned /\ RunnerTypes
      /\ BusyForOne /\ TasksApart /\ VerdictsAhead /\ ConfirmedAccounted /\ SuccessMeant
    BY DEF OrderInv, IndInv, TasksAgree
<1>1. \A j \in Jobs : RunnerOf(j) \in Runners /\ (InFlight(j)' <=> InFlight(j))
    BY DEF Jobs, RunnerOf, Runners, InFlight
<1>2. \A q \in Runners : Job(q)' = Job(q) BY DEF Job
<1>3. ASSUME NEW q \in Runners, pc[q] # "idle"
      PROVE  /\ pc'[q] = pc[q] /\ SlotsOf(q)' = SlotsOf(q) /\ Current(q)' = Current(q)
             /\ \A n \in Slots : video'[It(q, n)] = video[It(q, n)]
  <2>1. \A n \in Slots : It(q, n) \in Items /\ RunnerOf(It(q, n)) = q BY ItOf
  <2>2. \A n \in Slots : video'[It(q, n)] = video[It(q, n)] BY <1>3, <2>1
  <2>3. SlotsOf(q)' = SlotsOf(q) BY <2>2 DEF SlotsOf, It
  <2>4. Current(q)' = Current(q) BY <2>3 DEF Current
  <2>5. QED BY <1>3, <2>2, <2>3, <2>4
<1>4. BusyForOne' BY <1>0, <1>1, <1>3 DEF BusyForOne
<1>5. TasksApart'
  <2>1. ASSUME NEW j \in Jobs, InFlight(j)
        PROVE  /\ \A v \in Range(todo[j]) :
                    \E n \in Current(RunnerOf(j))' : v = video'[It(RunnerOf(j), n)]
               /\ IsInjective(todo[j])
               /\ \A p \in confirmed : p[1] \notin Range(todo[j])
    <3> DEFINE q == RunnerOf(j)
    <3>1. q \in Runners /\ pc[q] # "idle" BY <1>0, <2>1, TaskPolled
    <3>2. \A n \in Current(q) : n \in Slots BY <1>0, <3>1, CurrentOwned, SlotFacts
    <3>3. Current(q)' = Current(q) /\ \A n \in Current(q) : video'[It(q, n)] = video[It(q, n)]
        BY <1>3, <3>1, <3>2
    <3>4. \A v \in Range(todo[j]) : \E n \in Current(q) : v = video[It(q, n)]
        BY <1>0, <2>1 DEF TasksApart
    <3>5. \A v \in Range(todo[j]) : \E n \in Current(q)' : v = video'[It(q, n)]
        BY <3>3, <3>4
    <3>6. QED BY <1>0, <2>1, <3>5 DEF TasksApart
  <2>2. QED BY <1>1, <2>1 DEF TasksApart
<1>6. VerdictsAhead'
  <2>1. \A i \in Items : RunnerOf(i) \in Runners BY ItemOf
  <2>2. QED BY <1>0, <1>3, <2>1 DEF VerdictsAhead
<1>7. ConfirmedAccounted'
  <2>1. ASSUME NEW p \in confirmed, NEW i \in Items, Accounted(p, i) PROVE Accounted(p, i)'
    <3>1. RunnerOf(i) \in Runners BY ItemOf
    <3>2. CASE pc[RunnerOf(i)] = "idle"
      <4>1. item[i] = "DONE" BY <1>0, <2>1, <3>2 DEF Accounted, VerdictsAhead
      <4>2. QED BY <2>1, <4>1 DEF Accounted
    <3>3. CASE pc[RunnerOf(i)] # "idle"
      <4>1. item'[i] = item[i] /\ video'[i] = video[i] BY <3>3
      <4>2. QED BY <1>2, <1>3, <2>1, <3>1, <3>3, <4>1 DEF Accounted
    <3>4. QED BY <3>2, <3>3
  <2>2. QED BY <1>0, <2>1 DEF ConfirmedAccounted
<1>8. SuccessMeant'
  <2>1. ASSUME NEW i \in Items, verdict[i] = "ok" \/ item'[i] = "DONE"
        PROVE  item'[i] = item[i] /\ video'[i] = video[i]
      BY <1>0, <2>1 DEF VerdictsAhead
  <2>2. ASSUME NEW q \in Runners, pc'[q] \in {"submitting", "polling"} PROVE pc'[q] = pc[q]
      BY <2>2
  <2>3. QED BY <1>0, <1>2, <2>1, <2>2 DEF SuccessMeant
<1>9. PublishedOnce' BY DEF TasksAgree, PublishedOnce
<1>10. QED BY <1>4, <1>5, <1>6, <1>7, <1>8, <1>9 DEF TasksAgree
\* What the steps of tasks leave alone.
JobFrame ==
    UNCHANGED <<video, item, verdict, pc, at, sub, other, others>>

\* A step of a task that publishes nothing, and leaves no more tasks under way, only
\* has the busy set, the results and the status to answer for.
LEMMA TaskAgrees ==
    ASSUME OrderInv, TasksAgree, JobFrame, UNCHANGED <<todo, confirmed>>,
           \A k \in Jobs : InFlight(k)' => InFlight(k) /\ k[2] \in busy',
           \A q \in Runners : pc[q] = "submitting" => q[2] \in busy',
           \A a \in Accounts : other[a] # "none" => a \in busy',
           \A k \in Jobs, v \in Videos : sink'[k][v] = "ok" <=> sink[k][v] = "ok",
           others = 0 => \A q \in Runners : q[2] \in succeeded' =>
               pc[q] # "submitting" /\ (pc[q] = "polling" => sink'[Job(q)] # NoResults)
    PROVE  TasksAgree'
<1> USE DEF JobFrame
<1>0. /\ BusyForOne /\ TasksApart /\ VerdictsAhead /\ ConfirmedAccounted /\ SuccessMeant
      /\ PublishedOnce
    BY DEF TasksAgree
<1>1. \A q \in Runners : Current(q)' = Current(q) /\ Job(q)' = Job(q)
    BY DEF Current, SlotsOf, Job
<1>2. \A j \in Jobs : RunnerOf(j) \in Runners BY DEF Jobs, RunnerOf, Runners
<1>3. BusyForOne' BY <1>0 DEF BusyForOne
<1>4. TasksApart' BY <1>0, <1>1, <1>2 DEF TasksApart
<1>5. VerdictsAhead' BY <1>0 DEF VerdictsAhead
<1>6. ConfirmedAccounted'
  <2>1. ASSUME NEW p \in confirmed, NEW i \in Items, Accounted(p, i) PROVE Accounted(p, i)'
    <3>1. RunnerOf(i) \in Runners BY ItemOf
    <3>2. p[1] \in Videos /\ p[2] \in Jobs BY <1>0 DEF ConfirmedAccounted
    <3>3. QED BY <1>1, <2>1, <3>1, <3>2 DEF Accounted
  <2>2. QED BY <1>0, <2>1 DEF ConfirmedAccounted
<1>7. SuccessMeant'
  <2>1. others = 0 => \A q \in Runners : q[2] \in succeeded' =>
            pc'[q] # "submitting" /\ (pc'[q] = "polling" => sink'[Job(q)'] # NoResults)
      BY <1>1
  <2>2. QED BY <1>0, <2>1 DEF SuccessMeant
<1>8. PublishedOnce' BY <1>0 DEF PublishedOnce
<1>9. QED BY <1>3, <1>4, <1>5, <1>6, <1>7, <1>8 DEF TasksAgree

\* The tasks under way when one of them moves.
LEMMA TaskMoves ==
    ASSUME JobTypes, NEW j \in Jobs, NEW st, JobTo(j, st)
    PROVE  \A k \in Jobs : jst'[k] = IF k = j THEN st ELSE jst[k]
BY DEF JobTypes, JobTo

\* Nobody else has this account while its task is under way.
LEMMA OnlyTask ==
    ASSUME OrderInv, BusyForOne, NEW j \in Jobs, InFlight(j)
    PROVE  /\ \A k \in Jobs : InFlight(k) /\ k[2] = j[2] => k = j
           /\ \A q \in Runners : q[2] = j[2] /\ pc[q] \notin {"idle", "over"} =>
                  q = RunnerOf(j) /\ pc[q] = "polling" /\ Job(q) = j
           /\ other[j[2]] = "none"
<1>0. RunnersOwned /\ RunsInTurn BY DEF OrderInv, IndInv
<1>1. /\ RunnerOf(j) \in Runners /\ RunnerOf(j)[2] = j[2]
      /\ pc[RunnerOf(j)] = "polling" /\ j = Job(RunnerOf(j)) /\ other[j[2]] = "none"
    BY TaskPolled
<1>2. \A q \in Runners : q[2] = j[2] /\ pc[q] \notin {"idle", "over"} =>
          q = RunnerOf(j)
    BY <1>0, <1>1, OneAtWork
<1>3. ASSUME NEW k \in Jobs, InFlight(k), k[2] = j[2] PROVE k = j
  <2>1. /\ RunnerOf(k) \in Runners /\ RunnerOf(k)[2] = k[2]
        /\ pc[RunnerOf(k)] = "polling" /\ k = Job(RunnerOf(k))
      BY <1>3, TaskPolled
  <2>2. RunnerOf(k) = RunnerOf(j) BY <1>2, <1>3, <2>1
  <2>3. QED BY <1>1, <2>1, <2>2
<1>4. QED BY <1>1, <1>2, <1>3

\* A task starts, is denied, fails or ends.
LEMMA WorkAgrees ==
    ASSUME OrderInv, TasksAgree, NEW j \in Jobs,
           JobStarts(j) \/ JobDenied(j) \/ JobFails(j)
    PROVE  TasksAgree'
<1>0. JobTypes /\ BusyForOne /\ SuccessMeant BY DEF OrderInv, TasksAgree
<1>1. /\ JobFrame /\ UNCHANGED <<todo, confirmed, busy, sink>>
      /\ jst[j] \in {"queued", "working"} /\ succeeded' \subseteq succeeded
    BY DEF JobStarts, JobDenied, JobFails, SetSucceeded, JobFrame,
           claimVars, runVars, dispVars, lifeVars
<1>2. \E st : JobTo(j, st) BY DEF JobStarts, JobDenied, JobFails
<1>3. \A k \in Jobs : InFlight(k)' => InFlight(k)
  <2>1. \A k \in Jobs : k # j => jst'[k] = jst[k] BY <1>0, <1>2, TaskMoves
  <2>2. QED BY <1>1, <2>1 DEF InFlight
<1>4. \A k \in Jobs : InFlight(k)' => InFlight(k) /\ k[2] \in busy'
    BY <1>0, <1>1, <1>3 DEF BusyForOne
<1>5. /\ \A q \in Runners : pc[q] = "submitting" => q[2] \in busy'
      /\ \A a \in Accounts : other[a] # "none" => a \in busy'
    BY <1>0, <1>1 DEF BusyForOne
<1>6. others = 0 => \A q \in Runners : q[2] \in succeeded' =>
          pc[q] # "submitting" /\ (pc[q] = "polling" => sink'[Job(q)] # NoResults)
    BY <1>0, <1>1 DEF SuccessMeant
<1>7. QED BY <1>1, <1>4, <1>5, <1>6, TaskAgrees

\* The login fails: nothing was published.
LEMMA LoginAgrees ==
    ASSUME OrderInv, TasksAgree, NEW j \in Jobs, LoginFails(j)
    PROVE  TasksAgree'
<1>0. JobTypes /\ BusyForOne /\ SuccessMeant BY DEF OrderInv, TasksAgree
<1> DEFINE errors == [v \in Videos |-> IF v \in Range(todo[j]) THEN "error" ELSE "none"]
<1>1. /\ JobFrame /\ UNCHANGED <<todo, confirmed, busy>>
      /\ jst[j] = "working" /\ succeeded' = succeeded \ {j[2]} /\ JobTo(j, "closing")
      /\ sink[j] = NoResults /\ sink' = [sink EXCEPT ![j] = errors]
    BY DEF LoginFails, SetSucceeded, JobFrame, claimVars, runVars, dispVars, lifeVars
<1>2. \A k \in Jobs : sink'[k] = IF k = j THEN errors ELSE sink[k]
    BY <1>0, <1>1 DEF JobTypes
<1>3. \A k \in Jobs, v \in Videos : sink'[k][v] = "ok" <=> sink[k][v] = "ok"
    BY <1>1, <1>2 DEF NoResults
<1>4. \A k \in Jobs : InFlight(k)' => InFlight(k) /\ k[2] \in busy'
  <2>1. \A k \in Jobs : k # j => jst'[k] = jst[k] BY <1>0, <1>1, TaskMoves
  <2>2. \A k \in Jobs : InFlight(k)' => InFlight(k) BY <1>1, <2>1 DEF InFlight
  <2>3. QED BY <1>0, <1>1, <2>2 DEF BusyForOne
<1>5. /\ \A q \in Runners : pc[q] = "submitting" => q[2] \in busy'
      /\ \A a \in Accounts : other[a] # "none" => a \in busy'
    BY <1>0, <1>1 DEF BusyForOne
<1>6. ASSUME others = 0, NEW q \in Runners, q[2] \in succeeded'
      PROVE  pc[q] # "submitting" /\ (pc[q] = "polling" => sink'[Job(q)] # NoResults)
  <2>1. q[2] \in succeeded /\ q[2] # j[2] BY <1>1, <1>6
  <2>2. Job(q) # j BY <2>1 DEF Job
  <2>3. pc[q] = "polling" => Job(q) \in Jobs BY JobFits DEF OrderInv
  <2>4. QED BY <1>0, <1>2, <1>6, <2>1, <2>2, <2>3 DEF SuccessMeant
<1>7. QED BY <1>1, <1>3, <1>4, <1>5, <1>6, TaskAgrees

\* A task reports: its account is a SUCCESS when something was confirmed.
LEMMA ReportAgrees ==
    ASSUME OrderInv, TasksAgree, NEW j \in Jobs, JobReports(j)
    PROVE  TasksAgree'
<1>0. JobTypes /\ BusyForOne /\ SuccessMeant BY DEF OrderInv, TasksAgree
<1>1. /\ JobFrame /\ UNCHANGED <<todo, confirmed, busy, sink>>
      /\ jst[j] = "working" /\ JobTo(j, "closing")
      /\ SetSucceeded(j[2], \E v \in Videos : sink[j][v] = "ok")
    BY DEF JobReports, JobFrame, claimVars, runVars, dispVars, lifeVars
<1>2. \A k \in Jobs : InFlight(k)' => InFlight(k) /\ k[2] \in busy'
  <2>1. \A k \in Jobs : k # j => jst'[k] = jst[k] BY <1>0, <1>1, TaskMoves
  <2>2. \A k \in Jobs : InFlight(k)' => InFlight(k) BY <1>1, <2>1 DEF InFlight
  <2>3. QED BY <1>0, <1>1, <2>2 DEF BusyForOne
<1>3. /\ \A q \in Runners : pc[q] = "submitting" => q[2] \in busy'
      /\ \A a \in Accounts : other[a] # "none" => a \in busy'
    BY <1>0, <1>1 DEF BusyForOne
<1>4. InFlight(j) BY <1>1 DEF InFlight
<1>5. ASSUME others = 0, NEW q \in Runners, q[2] \in succeeded'
      PROVE  pc[q] # "submitting" /\ (pc[q] = "polling" => sink'[Job(q)] # NoResults)
  <2>1. CASE q[2] = j[2]
    <3>1. \E v \in Videos : sink[j][v] = "ok" BY <1>1, <1>5, <2>1 DEF SetSucceeded
    <3>2. sink'[j] # NoResults BY <1>1, <3>1 DEF NoResults
    <3>3. pc[q] \notin {"idle", "over"} => pc[q] = "polling" /\ Job(q) = j
        BY <1>0, <1>4, <2>1, OnlyTask
    <3>4. QED BY <3>2, <3>3
  <2>2. CASE q[2] # j[2]
    <3>1. q[2] \in succeeded BY <1>1, <1>5, <2>2 DEF SetSucceeded
    <3>2. QED BY <1>0, <1>1, <1>5, <3>1 DEF SuccessMeant
  <2>3. QED BY <2>1, <2>2
<1>6. QED BY <1>1, <1>2, <1>3, <1>5, TaskAgrees

\* A task releases its account, which is busy for it alone.
LEMMA ReleaseAgrees ==
    ASSUME OrderInv, TasksAgree, NEW j \in Jobs, JobReleases(j)
    PROVE  TasksAgree'
<1>0. JobTypes /\ BusyForOne /\ SuccessMeant BY DEF OrderInv, TasksAgree
<1>1. /\ JobFrame /\ UNCHANGED <<todo, confirmed, sink, succeeded>>
      /\ jst[j] = "closing" /\ JobTo(j, "over") /\ busy' = busy \ {j[2]}
    BY DEF JobReleases, Forget, JobFrame, claimVars, runVars, lifeVars
<1>2. InFlight(j) BY <1>1 DEF InFlight
<1>3. \A k \in Jobs : InFlight(k)' => InFlight(k) /\ k[2] \in busy'
  <2>1. \A k \in Jobs : jst'[k] = IF k = j THEN "over" ELSE jst[k] BY <1>0, <1>1, TaskMoves
  <2>2. \A k \in Jobs : InFlight(k)' => InFlight(k) /\ k # j BY <2>1 DEF InFlight
  <2>3. \A k \in Jobs : InFlight(k) /\ k # j => k[2] # j[2] BY <1>0, <1>2, OnlyTask
  <2>4. QED BY <1>0, <1>1, <2>2, <2>3 DEF BusyForOne
<1>4. \A q \in Runners : pc[q] = "submitting" => q[2] \in busy'
  <2>1. \A q \in Runners : pc[q] = "submitting" => q[2] # j[2] BY <1>0, <1>2, OnlyTask
  <2>2. QED BY <1>0, <1>1, <2>1 DEF BusyForOne
<1>5. \A a \in Accounts : other[a] # "none" => a \in busy'
  <2>1. other[j[2]] = "none" BY <1>0, <1>2, OnlyTask
  <2>2. QED BY <1>0, <1>1, <2>1 DEF BusyForOne
<1>6. others = 0 => \A q \in Runners : q[2] \in succeeded' =>
          pc[q] # "submitting" /\ (pc[q] = "polling" => sink'[Job(q)] # NoResults)
    BY <1>0, <1>1 DEF SuccessMeant
<1>7. QED BY <1>1, <1>3, <1>4, <1>5, <1>6, TaskAgrees

\* A video is published: it was left in this task only, and confirmed by none.
LEMMA PublishAgrees ==
    ASSUME OrderInv, TasksAgree, NEW j \in Jobs, NEW res \in Verdicts, Publish(j, res)
    PROVE  TasksAgree'
<1> DEFINE v == Head(todo[j])
           r == RunnerOf(j)
<1>0. /\ JobTypes /\ BusyForOne /\ TasksApart /\ VerdictsAhead /\ ConfirmedAccounted
      /\ SuccessMeant /\ PublishedOnce /\ RunnersOwned /\ RunnerTypes /\ OneOwner /\ IndInv
      /\ TasksCounted
    BY DEF OrderInv, IndInv, TasksAgree
<1>1. /\ JobFrame /\ UNCHANGED <<jst, busy, succeeded>>
      /\ jst[j] = "working" /\ todo[j] # <<>>
      /\ todo' = [todo EXCEPT ![j] = Tail(@)]
      /\ sink' = [sink EXCEPT ![j][v] = res]
      /\ confirmed' = IF res = "ok" THEN confirmed \cup {<<v, j>>} ELSE confirmed
    BY DEF Publish, JobFrame, claimVars, runVars, dispVars
<1>2. InFlight(j) /\ todo[j] \in Seq(Videos) BY <1>0, <1>1 DEF InFlight, JobTypes
<1>3. /\ v \in Videos /\ v \in Range(todo[j])
      /\ Range(Tail(todo[j])) \subseteq Range(todo[j])
      /\ IsInjective(Tail(todo[j])) /\ v \notin Range(Tail(todo[j]))
  <2>1. IsInjective(todo[j]) BY <1>0, <1>2 DEF TasksApart
  <2>2. PICK n \in Nat : DOMAIN todo[j] = 1 .. n /\ n = Len(todo[j]) BY <1>2
  <2>3. n >= 1 /\ v = todo[j][1] /\ v \in Videos BY <1>1, <1>2, <2>2
  <2>4. DOMAIN Tail(todo[j]) = 1 .. (n - 1) /\ \A m \in 1 .. (n - 1) : Tail(todo[j])[m] = todo[j][m + 1]
      BY <1>1, <1>2, <2>2, <2>3
  <2>5. \A m \in 1 .. (n - 1) : m + 1 \in DOMAIN todo[j] /\ m + 1 # 1 BY <2>2, <2>3
  <2>6. 1 \in DOMAIN todo[j] BY <2>2, <2>3
  <2>7. v \in Range(todo[j]) /\ Range(Tail(todo[j])) \subseteq Range(todo[j])
      BY <2>3, <2>4, <2>5, <2>6 DEF Range
  <2>8. \A m \in DOMAIN Tail(todo[j]) : Tail(todo[j])[m] # v
      BY <2>1, <2>3, <2>4, <2>5, <2>6 DEF IsInjective
  <2>9. \A l, m \in DOMAIN Tail(todo[j]) : Tail(todo[j])[l] = Tail(todo[j])[m] => l = m
    <3>1. ASSUME NEW l \in DOMAIN Tail(todo[j]), NEW m \in DOMAIN Tail(todo[j]),
                 Tail(todo[j])[l] = Tail(todo[j])[m]
          PROVE  l = m
      <4>1. l + 1 = m + 1 BY <2>1, <2>4, <2>5, <3>1 DEF IsInjective
      <4>2. l \in Nat /\ m \in Nat BY <2>2, <2>4
      <4>3. QED BY <4>1, <4>2
    <3>2. QED BY <3>1
  <2>10. QED BY <2>3, <2>7, <2>8, <2>9 DEF IsInjective, Range
<1>4. /\ r \in Runners /\ pc[r] = "polling" /\ j = Job(r)
    BY <1>0, <1>2, TaskPolled
<1>5. PICK n \in Current(r) : v = video[It(r, n)] BY <1>0, <1>2, <1>3 DEF TasksApart
<1>6. It(r, n) \in Items /\ RunnerOf(It(r, n)) = r /\ It(r, n)[3] = n /\ n \in Slots
      /\ It(r, n)[1] = r[1] /\ v # NoVideo
  <2>1. n \in SlotsOf(r) BY <1>0, <1>4, CurrentOwned
  <2>2. n \in Slots /\ v # NoVideo BY <1>4, <1>5, <2>1, SlotFacts
  <2>3. QED BY <1>4, <2>2, ItOf DEF It
<1>7. \A p \in confirmed : p[1] # v BY <1>0, <1>2, <1>3 DEF TasksApart
<1>8. /\ \A k \in Jobs : todo'[k] = IF k = j THEN Tail(todo[j]) ELSE todo[k]
      /\ \A k \in Jobs, w \in Videos : sink'[k][w] = IF k = j /\ w = v THEN res ELSE sink[k][w]
      /\ \A k \in Jobs : k # j => sink'[k] = sink[k]
    BY <1>0, <1>1, <1>3 DEF JobTypes
<1>9. \A q \in Runners : Current(q)' = Current(q) /\ Job(q)' = Job(q)
    BY <1>1 DEF Current, SlotsOf, Job, JobFrame
<1>10. ASSUME NEW k \in Jobs, InFlight(k), k # j PROVE v \notin Range(todo[k])
  <2> DEFINE q == RunnerOf(k)
  <2> SUFFICES ASSUME v \in Range(todo[k]) PROVE FALSE
      OBVIOUS
  <2>1. q \in Runners /\ pc[q] = "polling" /\ k = Job(q) BY <1>0, <1>10, TaskPolled
  <2>2. PICK m \in Current(q) : v = video[It(q, m)] BY <1>0, <1>10 DEF TasksApart
  <2>3. m \in SlotsOf(q) BY <1>0, <2>1, CurrentOwned
  <2>4. m \in Slots BY <2>1, <2>3, SlotFacts
  <2>5. It(q, m) \in Items /\ RunnerOf(It(q, m)) = q /\ It(q, m)[1] = q[1]
      BY <2>1, <2>4, ItOf DEF It
  <2>6. q[1] \in Live /\ r[1] \in Live BY <1>0, <1>4, <2>1 DEF RunnersOwned, Live, Runners
  <2>7. It(q, m) = It(r, n) BY <1>0, <1>5, <1>6, <2>2, <2>5, <2>6 DEF OneOwner
  <2>8. q = r BY <1>6, <2>5, <2>7
  <2>9. QED BY <1>4, <1>10, <2>1, <2>8
<1>11. BusyForOne' BY <1>0, <1>1 DEF BusyForOne, JobFrame, InFlight
<1>12. TasksApart'
  <2>1. ASSUME NEW k \in Jobs, InFlight(k)
        PROVE  /\ \A w \in Range(todo'[k]) :
                    \E m \in Current(RunnerOf(k))' : w = video'[It(RunnerOf(k), m)]
               /\ IsInjective(todo'[k])
               /\ \A p \in confirmed' : p[1] \notin Range(todo'[k])
    <3>1. Range(todo'[k]) \subseteq Range(todo[k]) /\ v \notin Range(todo'[k])
        BY <1>3, <1>8, <1>10, <2>1
    <3>2. IsInjective(todo'[k]) BY <1>0, <1>3, <1>8, <2>1 DEF TasksApart
    <3>3. \A p \in confirmed' : p[1] \notin Range(todo'[k])
        BY <1>0, <1>1, <2>1, <3>1 DEF TasksApart
    <3>4. RunnerOf(k) \in Runners BY DEF Jobs, RunnerOf, Runners
    <3>5. \A w \in Range(todo'[k]) :
              \E m \in Current(RunnerOf(k))' : w = video'[It(RunnerOf(k), m)]
        BY <1>0, <1>1, <1>9, <2>1, <3>1, <3>4 DEF TasksApart, JobFrame
    <3>6. QED BY <3>2, <3>3, <3>5
  <2>2. QED BY <1>1, <2>1 DEF TasksApart, InFlight
<1>13. VerdictsAhead' BY <1>0, <1>1 DEF VerdictsAhead, JobFrame
<1>14. ConfirmedAccounted'
  <2>1. ASSUME NEW p \in confirmed, NEW i \in Items, Accounted(p, i) PROVE Accounted(p, i)'
    <3>1. RunnerOf(i) \in Runners BY ItemOf
    <3>2. p[1] \in Videos /\ p[2] \in Jobs BY <1>0 DEF ConfirmedAccounted
    <3>3. sink'[p[2]][p[1]] = sink[p[2]][p[1]] BY <1>7, <1>8, <3>2
    <3>4. QED BY <1>1, <1>9, <2>1, <3>1, <3>3 DEF Accounted, JobFrame
  <2>2. ASSUME NEW p, p = <<v, j>>, res = "ok" PROVE Accounted(p, It(r, n))'
    <3>1. /\ video'[It(r, n)] = p[1] /\ pc'[r] = "polling" /\ n \in Current(r)'
          /\ p[2] = Job(r)' /\ sink'[p[2]][p[1]] = "ok"
        BY <1>1, <1>3, <1>4, <1>5, <1>8, <1>9, <2>2 DEF JobFrame
    <3>2. QED BY <1>6, <3>1 DEF Accounted
  <2>3. ASSUME NEW p \in confirmed'
        PROVE  p[1] \in Videos /\ p[2] \in Jobs /\ \E i \in Items : Accounted(p, i)'
    <3>1. CASE p \in confirmed BY <1>0, <2>1, <3>1 DEF ConfirmedAccounted
    <3>2. CASE res = "ok" /\ p = <<v, j>>
      <4>1. Accounted(p, It(r, n))' BY <2>2, <3>2
      <4>2. QED BY <1>3, <1>6, <3>2, <4>1
    <3>3. QED BY <1>1, <2>3, <3>1, <3>2
  <2>4. \A k \in Jobs, w \in Videos : sink'[k][w] = "ok" => <<w, k>> \in confirmed'
      BY <1>0, <1>1, <1>8 DEF ConfirmedAccounted
  <2>5. QED BY <2>3, <2>4 DEF ConfirmedAccounted
<1>15. SuccessMeant'
  <2>1. ASSUME others = 0, NEW q \in Runners, q[2] \in succeeded
        PROVE  pc[q] # "submitting" /\ (pc[q] = "polling" => sink'[Job(q)] # NoResults)
    <3>1. CASE Job(q) = j
      <4>1. sink'[j][v] = res /\ res # "none" BY <1>3, <1>8 DEF Verdicts
      <4>2. sink'[j] # NoResults BY <1>3, <4>1 DEF NoResults
      <4>3. QED BY <1>0, <2>1, <3>1, <4>2 DEF SuccessMeant
    <3>2. CASE Job(q) # j
      <4>1. pc[q] = "polling" => Job(q) \in Jobs BY <1>0, JobFits
      <4>2. QED BY <1>0, <1>8, <2>1, <3>2, <4>1 DEF SuccessMeant
    <3>3. QED BY <3>1, <3>2
  <2>2. others = 0 => \A i \in Items : verdict[i] = "ok" \/ item[i] = "DONE" =>
                          \E p \in confirmed : p[1] = video[i]
      BY <1>0 DEF SuccessMeant
  <2>3. confirmed \subseteq confirmed' BY <1>1
  <2>4. others = 0 => \A i \in Items : verdict[i] = "ok" \/ item[i] = "DONE" =>
                          \E p \in confirmed' : p[1] = video[i]
      BY <2>2, <2>3
  <2>5. others = 0 => \A a \in Accounts : other[a] = "none" BY <1>0 DEF SuccessMeant
  <2>6. QED BY <1>1, <1>9, <2>1, <2>4, <2>5 DEF SuccessMeant, JobFrame
<1>16. PublishedOnce'
  <2>1. ASSUME NEW p \in confirmed', NEW q \in confirmed', p[1] = q[1] PROVE p = q
    <3>1. CASE p \in confirmed /\ q \in confirmed BY <1>0, <2>1, <3>1 DEF PublishedOnce
    <3>2. CASE p \notin confirmed \/ q \notin confirmed BY <1>1, <1>7, <2>1, <3>2
    <3>3. QED BY <3>1, <3>2
  <2>2. QED BY <2>1 DEF PublishedOnce
<1>17. QED BY <1>11, <1>12, <1>13, <1>14, <1>15, <1>16 DEF TasksAgree

\* Hence every step of a task, as long as none is dropped and every result is recorded.
LEMMA JobAgrees ==
    ASSUME OrderInv, TasksAgree, Undisturbed, NEW j \in Jobs, JobStep(j)
    PROVE  TasksAgree'
<1>1. ~JobDropped(j) /\ \A res \in Verdicts : ~RecordFails(j, res)
    BY DEF JobDropped, RecordFails, Undisturbed, OrderInv, CountsTyped
<1>2. QED BY <1>1, WorkAgrees, LoginAgrees, ReportAgrees, ReleaseAgrees, PublishAgrees
    DEF JobStep
\* Other tasks of the account: it is not busy when they begin, and busy for them alone.
LEMMA OtherAgrees ==
    ASSUME OrderInv, TasksAgree, NEW a \in Accounts, OtherStep(a)
    PROVE  TasksAgree'
<1>0. /\ BusyForOne /\ TasksApart /\ VerdictsAhead /\ ConfirmedAccounted /\ SuccessMeant
      /\ PublishedOnce /\ CountsTyped
    BY DEF OrderInv, TasksAgree
<1>1. UNCHANGED <<video, item, verdict, pc, at, sub, jst, todo, sink, confirmed>>
    BY DEF OtherStep, OtherSubmits, OtherDropped, OtherReports, OtherReleases, claimVars, runVars, jobVars,
           lifeVars
<1>2. \A j \in Jobs : RunnerOf(j) \in Runners /\ j[2] \in Accounts BY DEF Jobs, RunnerOf, Runners
<1>3. \A q \in Runners : q[2] \in Accounts BY DEF Runners
<1>4. \A j \in Jobs : InFlight(j)' <=> InFlight(j) BY <1>1 DEF InFlight
<1>5. others' # 0 /\ BusyForOne'
  <2>1. CASE OtherSubmits(a)
    <3>1. /\ a \notin busy /\ other[a] = "none" /\ busy' = busy \cup {a} /\ others' = others + 1
          /\ other' = [other EXCEPT ![a] = "working"]
        BY <2>1 DEF OtherSubmits
    <3>2. others' # 0 BY <1>0, <3>1 DEF CountsTyped
    <3>3. \A c \in Accounts : other'[c] = IF c = a THEN "working" ELSE other[c]
        BY <1>0, <3>1 DEF BusyForOne
    <3>4. other' \in [Accounts -> {"none", "working", "closing"}] BY <1>0, <3>1 DEF BusyForOne
    <3>5. BusyForOne' BY <1>0, <1>1, <1>2, <1>3, <1>4, <3>1, <3>3, <3>4 DEF BusyForOne
    <3>6. QED BY <3>2, <3>5
  <2>2. CASE OtherDropped(a) \/ OtherReleases(a) \/ \E ok \in BOOLEAN : OtherReports(a, ok)
    <3>1. /\ other[a] # "none" /\ others' = others
          /\ \/ busy' = busy /\ other' = [other EXCEPT ![a] = "closing"]
             \/ busy' = busy \ {a} /\ other' = [other EXCEPT ![a] = "none"]
        BY <2>2 DEF OtherDropped, OtherReleases, OtherReports, Forget
    <3>2. others' # 0 BY <1>0, <3>1 DEF SuccessMeant
    <3>3. /\ \A c \in Accounts : c # a => other'[c] = other[c]
          /\ other'[a] # "none" => busy' = busy
        BY <1>0, <3>1 DEF BusyForOne
    <3>4. other' \in [Accounts -> {"none", "working", "closing"}] BY <1>0, <3>1 DEF BusyForOne
    <3>5. \A j \in Jobs : InFlight(j) => j[2] # a BY <1>0, <3>1 DEF BusyForOne
    <3>6. \A q \in Runners : pc[q] = "submitting" => q[2] # a BY <1>0, <3>1 DEF BusyForOne
    <3>7. \A c \in Accounts : c # a /\ c \in busy => c \in busy' BY <3>1
    <3>8. \A c \in Accounts : other'[c] # "none" => c \in busy'
      <4>1. \A c \in Accounts : other[c] # "none" => c \in busy BY <1>0 DEF BusyForOne
      <4>2. QED BY <3>1, <3>3, <3>7, <4>1
    <3>9. BusyForOne'
        BY <1>0, <1>1, <1>2, <1>3, <1>4, <3>3, <3>4, <3>5, <3>6, <3>7, <3>8 DEF BusyForOne
    <3>10. QED BY <3>2, <3>9
  <2>3. QED BY <2>1, <2>2 DEF OtherStep
<1>6. \A q \in Runners : Current(q)' = Current(q) /\ Job(q)' = Job(q)
    BY <1>1 DEF Current, SlotsOf, Job
<1>7. TasksApart' BY <1>0, <1>1, <1>2, <1>4, <1>6 DEF TasksApart
<1>8. VerdictsAhead' BY <1>0, <1>1 DEF VerdictsAhead
<1>9. ConfirmedAccounted'
  <2>1. \A i \in Items : RunnerOf(i) \in Runners BY ItemOf
  <2>2. \A p \in confirmed, i \in Items : Accounted(p, i) => Accounted(p, i)'
      BY <1>1, <1>6, <2>1 DEF Accounted
  <2>3. QED BY <1>0, <1>1, <2>2 DEF ConfirmedAccounted
<1>10. SuccessMeant' BY <1>5 DEF SuccessMeant
<1>11. PublishedOnce' BY <1>0, <1>1 DEF PublishedOnce
<1>12. QED BY <1>5, <1>7, <1>8, <1>9, <1>10, <1>11 DEF TasksAgree

\* Batches begin and end; only their runners move.
LEMMA BatchAgrees ==
    ASSUME OrderInv, TasksAgree, NEW b \in Batches, BatchStep(b)
    PROVE  TasksAgree'
<1>0. SettlesInOrder BY DEF OrderInv
<1>1. UNCHANGED <<at, sub, verdict, jst, todo, sink, busy, succeeded, other, others, confirmed,
                  video, item>>
  <2>1. CASE BatchStart(b)
      BY <2>1 DEF BatchStart, claimVars, jobVars, dispVars, lifeVars
  <2>2. CASE BatchSkipped(b) \/ BatchEnd(b)
      BY <2>2 DEF BatchSkipped, BatchEnd, runVars, jobVars, dispVars, lifeVars
  <2>3. QED BY <2>1, <2>2 DEF BatchStep
<1>2. \A q \in Runners : pc'[q] = pc[q] \/ (pc[q] = "idle" /\ pc'[q] = "free")
  <2>1. CASE BatchStart(b)
    <3>1. bstatus[b] = "PENDING"
          /\ pc' = [r \in Runners |-> IF r[1] = b /\ SlotsOf(r) # {} THEN "free" ELSE pc[r]]
        BY <2>1 DEF BatchStart
    <3>2. \A q \in Runners : q[1] = b => pc[q] = "idle" BY <1>0, <3>1 DEF SettlesInOrder
    <3>3. QED BY <3>1, <3>2
  <2>2. CASE BatchSkipped(b) \/ BatchEnd(b)
      BY <2>2 DEF BatchSkipped, BatchEnd, runVars
  <2>3. QED BY <2>1, <2>2 DEF BatchStep
<1>3. QED BY <1>1, <1>2, CalmAgrees

\* A batch is added, or is to be cancelled.
LEMMA QueueAgrees ==
    ASSUME OrderInv, TasksAgree, NEW b \in Batches,
           \/ Cancel(b)
           \/ \E A \in SUBSET Accounts \ {{}}, per \in PerAccount, offered \in SUBSET Scanned :
                  Add(b, A, per, offered)
    PROVE  TasksAgree'
<1>0. SettlesInOrder /\ ItemsExist BY DEF OrderInv, IndInv
<1>1. UNCHANGED <<pc, at, sub, verdict, jst, todo, sink, busy, succeeded, other, others, confirmed>>
    BY DEF Cancel, Add, runVars, jobVars, dispVars, lifeVars
<1>2. ASSUME NEW i \in Items
      PROVE  \/ item'[i] = item[i] /\ video'[i] = video[i]
             \/ pc[RunnerOf(i)] = "idle" /\ item[i] = "none" /\ item'[i] # "DONE"
  <2>1. CASE Cancel(b) BY <2>1 DEF Cancel, claimVars
  <2>2. ASSUME NEW A \in SUBSET Accounts, NEW per \in PerAccount, NEW offered \in SUBSET Scanned,
               Add(b, A, per, offered)
        PROVE  \/ item'[i] = item[i] /\ video'[i] = video[i]
               \/ pc[RunnerOf(i)] = "idle" /\ item[i] = "none" /\ item'[i] # "DONE"
    <3>1. RunnerOf(i) \in Runners /\ RunnerOf(i)[1] = i[1] BY ItemOf
    <3>2. bstatus[b] = "none" BY <2>2 DEF Add
    <3>3. CASE i[1] # b BY <2>2, <3>3 DEF Add
    <3>4. CASE i[1] = b
      <4>1. item[i] = "none" /\ pc[RunnerOf(i)] = "idle"
          BY <1>0, <3>1, <3>2, <3>4 DEF ItemsExist, SettlesInOrder
      <4>2. item'[i] \in {"PENDING", item[i]} BY <2>2 DEF Add
      <4>3. QED BY <4>1, <4>2
    <3>5. QED BY <3>3, <3>4
  <2>3. QED BY <2>1, <2>2
<1>3. QED BY <1>1, <1>2, CalmAgrees

\* A process in which nothing has run yet.
Blank ==
    /\ pc = [r \in Runners |-> "idle"]
    /\ item = [i \in Items |-> "none"] /\ verdict = [i \in Items |-> "none"]
    /\ jst = [j \in Jobs |-> "none"] /\ sink = [j \in Jobs |-> NoResults]
    /\ busy = {} /\ other = [a \in Accounts |-> "none"]
    /\ confirmed = {}

\* Nothing disagrees there.
LEMMA BlankAgrees == Blank => TasksAgree
<1> SUFFICES ASSUME Blank PROVE TasksAgree
    OBVIOUS
<1> USE DEF Blank
<1>1. \A j \in Jobs : ~InFlight(j) BY DEF InFlight
<1>2. BusyForOne BY <1>1 DEF BusyForOne
<1>3. TasksApart BY <1>1 DEF TasksApart
<1>4. VerdictsAhead BY DEF VerdictsAhead
<1>5. ConfirmedAccounted BY DEF ConfirmedAccounted, NoResults
<1>6. SuccessMeant BY DEF SuccessMeant
<1>7. PublishedOnce BY DEF PublishedOnce
<1>8. QED BY <1>2, <1>3, <1>4, <1>5, <1>6, <1>7 DEF TasksAgree

\* Nothing but a restart ends a disturbance.
LEMMA Disturbs ==
    ASSUME OrderInv, [Next]_vars, ~Restart, Undisturbed'
    PROVE  Undisturbed /\ ~EmergencyStop /\ \A begun \in SUBSET Batches : ~Shutdown(begun)
<1>0. IndInv /\ TasksCounted /\ CountsTyped BY DEF OrderInv
<1> USE DEF Undisturbed
<1>1. CASE UNCHANGED vars BY <1>1 DEF vars, dispVars, lifeVars, EmergencyStop, Shutdown, CountsTyped
<1>2. ~EmergencyStop BY <1>0 DEF EmergencyStop, CountsTyped
<1>3. \A begun \in SUBSET Batches : ~Shutdown(begun) BY DEF Shutdown
<1>4. ASSUME NEW r \in Runners, RunnerStep(r) PROVE UNCHANGED <<stops, stopping>>
    BY <1>0, <1>4, RunnerStepFrame DEF RunnerFrame
<1>5. ASSUME NEW b \in Batches, BatchStep(b) PROVE UNCHANGED <<stops, stopping>>
    BY <1>5 DEF BatchStep, BatchStart, BatchSkipped, BatchEnd, dispVars, lifeVars
<1>6. ASSUME NEW j \in Jobs, JobStep(j) PROVE UNCHANGED <<stops, stopping>>
  <2>1. CASE JobStarts(j) \/ JobDropped(j) \/ JobDenied(j) \/ JobFails(j)
      BY <2>1 DEF JobStarts, JobDropped, JobDenied, JobFails, dispVars, lifeVars
  <2>2. CASE LoginFails(j) \/ JobReports(j) \/ JobReleases(j)
      BY <2>2 DEF LoginFails, JobReports, JobReleases, dispVars, lifeVars
  <2>3. CASE \E res \in Verdicts : Publish(j, res) \/ RecordFails(j, res)
      BY <2>3 DEF Publish, RecordFails, dispVars, lifeVars
  <2>4. QED BY <1>6, <2>1, <2>2, <2>3 DEF JobStep
<1>7. ASSUME NEW a \in Accounts, OtherStep(a) PROVE UNCHANGED <<stops, stopping>>
    BY <1>7 DEF OtherStep, OtherSubmits, OtherDropped, OtherReleases, OtherReports, lifeVars
<1>8. CASE OperatorStep
  <2>1. ASSUME NEW b \in Batches, Cancel(b) PROVE UNCHANGED <<stops, stopping>>
      BY <2>1 DEF Cancel, dispVars, lifeVars
  <2>2. ASSUME NEW b \in Batches, NEW A \in SUBSET Accounts, NEW per \in PerAccount,
               NEW offered \in SUBSET Scanned, Add(b, A, per, offered)
        PROVE  UNCHANGED <<stops, stopping>>
      BY <2>2 DEF Add, dispVars, lifeVars
  <2>3. QED BY <1>2, <1>3, <1>8, <2>1, <2>2 DEF OperatorStep
<1>9. QED BY <1>1, <1>2, <1>3, <1>4, <1>5, <1>6, <1>7, <1>8 DEF Next

\* ConfirmInv is inductive.
LEMMA ConfirmStep == OrderInv /\ ConfirmInv /\ [Next]_vars => ConfirmInv'
<1> SUFFICES ASSUME OrderInv, ConfirmInv, [Next]_vars, Undisturbed'
             PROVE  TasksAgree'
    BY DEF ConfirmInv
<1>1. CASE Restart
  <2>1. Blank' BY <1>1 DEF Restart, Blank
  <2>2. Blank' => TasksAgree' BY BlankAgrees, PTL
  <2>3. QED BY <2>1, <2>2
<1>2. CASE ~Restart
  <2>1. Undisturbed /\ ~EmergencyStop /\ \A begun \in SUBSET Batches : ~Shutdown(begun)
      BY <1>2, Disturbs
  <2>2. TasksAgree BY <2>1 DEF ConfirmInv
  <2>3. CASE UNCHANGED vars
    <3>1. UNCHANGED <<pc, at, sub, verdict, jst, todo, sink, busy, succeeded, other, others,
                      confirmed, video, item>>
        BY <2>3 DEF vars, claimVars, runVars, jobVars, dispVars, lifeVars
    <3>2. QED BY <2>2, <3>1, CalmAgrees
  <2>4. CASE OperatorStep
      BY <1>2, <2>1, <2>2, <2>4, QueueAgrees DEF OperatorStep
  <2>5. QED BY <2>1, <2>2, <2>3, <2>4, RunnerAgrees, BatchAgrees, JobAgrees, OtherAgrees DEF Next
<1>3. QED BY <1>1, <1>2

\* Until the first emergency stop and the shutdown, tasks, verdicts and confirmations
\* agree: an account is busy for one task, a task confirms its own videos once, and its
\* runner reads of each what became of it (_run_account, submit_task, execute_video_batch).
THEOREM TasksStayAgreed == Spec => []ConfirmInv
<1>1. Init => ConfirmInv
  <2>1. Init => Blank BY DEF Init, Blank
  <2>2. QED BY <2>1, BlankAgrees DEF ConfirmInv
<1>2. QED BY <1>1, ConfirmStep, RunsInOrder, PTL DEF Spec

\* A confirmed post stays claimed for this backend lifetime (_run's finally clause), until an
\* emergency stop and if the database takes every result: no later batch is offered it.
THEOREM ConfirmedVideosStayClaimed == Spec => [](Undisturbed => ConfirmedStayClaimed)
<1>1. OrderInv /\ ConfirmInv => (Undisturbed => ConfirmedStayClaimed)
  <2> SUFFICES ASSUME OrderInv, TasksAgree, NEW p \in confirmed PROVE p[1] \in claimed
      BY DEF ConfirmInv, ConfirmedStayClaimed
  <2>0. /\ ClaimTypes /\ RunnersOwned /\ ClaimsExact /\ ConfirmedAccounted /\ VerdictsAhead
      BY DEF OrderInv, IndInv, TasksAgree
  <2>1. PICK i \in Items : Accounted(p, i) BY <2>0 DEF ConfirmedAccounted
  <2>2. video[i] = p[1] /\ p[1] # NoVideo
      BY <2>0, <2>1, BulkAssumption DEF Accounted, ConfirmedAccounted
  <2>3. CASE item[i] = "DONE"
    <3>1. video[i] \in Used BY <2>3 DEF Used, Spent
    <3>2. QED BY <2>0, <2>2, <3>1 DEF ClaimsExact
  <2>4. CASE item[i] # "DONE"
    <3>1. RunnerOf(i) \in Runners /\ RunnerOf(i)[1] = i[1] /\ i[1] \in Batches BY ItemOf
    <3>2. pc[RunnerOf(i)] \notin {"idle", "over"} BY <2>0, <2>1, <2>4 DEF Accounted, VerdictsAhead
    <3>3. i[1] \in Live BY <2>0, <3>1, <3>2 DEF RunnersOwned, Live
    <3>4. video[i] \in Holds(i[1]) BY <2>2 DEF Holds, ItemsOf
    <3>5. QED BY <2>0, <2>2, <3>3, <3>4 DEF ClaimsExact
  <2>5. QED BY <2>3, <2>4
<1>2. QED BY <1>1, RunsInOrder, TasksStayAgreed, PTL

\* No video is confirmed by two tasks, until an emergency stop or the shutdown and if the
\* database takes every result: neither of one batch, its replacements and retries, nor of two.
THEOREM VideosPublishedOnce == Spec => [](Undisturbed => PublishedOnce)
<1>1. ConfirmInv => (Undisturbed => PublishedOnce) BY DEF ConfirmInv, TasksAgree
<1>2. QED BY <1>1, TasksStayAgreed, PTL

\* Only a confirmed post is counted as done and moved to DA_DANG, until an emergency stop
\* or the shutdown, if the database takes every result, and as long as no other task of the
\* accounts touches their status.
THEOREM DoneMeansConfirmed == Spec => [](Undisturbed => DoneWasConfirmed)
<1>1. ConfirmInv => (Undisturbed => DoneWasConfirmed)
    BY DEF ConfirmInv, TasksAgree, SuccessMeant, DoneWasConfirmed
<1>2. QED BY <1>1, TasksStayAgreed, PTL
=============================================================================
