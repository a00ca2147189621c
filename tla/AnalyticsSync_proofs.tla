------------------------ MODULE AnalyticsSync_proofs ------------------------
(***************************************************************************)
(* What the clients of the analytics sync keep, for any number of          *)
(* accounts, clients, routes and detail tabs.  No Firefox is ever lost:    *)
(* FirefoxOwned is inductive once it is known who may touch a client's     *)
(* browser: the one coroutine past its start lock, or close(), and where   *)
(* each stands says what the browser is doing.  On that rest the pages     *)
(* that are kept while somebody else switches the route, and the permits   *)
(* of the detail tabs.                                                     *)
(***************************************************************************)
EXTENDS AnalyticsSync, FiniteSetTheorems, SequenceTheorems, TLAPS

\* The steps of a coroutine past the start lock, among its routes and its row, and elsewhere;
\* the steps of a reader.
Launch(a) ==
    \/ TakeStart(a) \/ TakeLaunch(a) \/ Closed(a) \/ Launched(a) \/ Opened(a) \/ LaunchFails(a)
    \/ Raised(a)
Rows(a) ==
    \/ Begin(a) \/ Write(a) \/ Told(a) \/ NextRoute(a) \/ LastRoute(a) \/ TakeGate(a)
    \/ TakeRoute(a) \/ Answered(a) \/ ProfileLoaded(a)
Pages(a) ==
    \/ Probe(a) \/ TakeWarm(a) \/ ApiTabOpens(a) \/ ApiLoaded(a) \/ Called(a) \/ TakeLock(a)
    \/ GridLoaded(a) \/ Crawled(a) \/ TakeDetails(a) \/ DetailsRead(a) \/ Filled(a) \/ TabsRead(a)
Reader(r) == Borrow(r) \/ TabOpens(r) \/ TabFails(r) \/ Return(r)

LEMMA CoroutineSteps ==
    ASSUME NEW a, Worker(a) \/ AfterDriver(a)
    PROVE  Launch(a) \/ Rows(a) \/ Pages(a)
  BY DEF Worker, AfterDriver, Launch, Rows, Pages

LEMMA ReaderSteps == ASSUME NEW r, Borrow(r) \/ TabAfterDriver(r) PROVE Reader(r)
  BY DEF TabAfterDriver, Reader

Browser == {"none", "booting", "paging", "up", "ending", "gone"}
Conts == {"api", "tabs"} \cup Locked
Locations ==
    {"over", "begin", "probe", "next", "gate", "gateRoute", "http", "lockProfile", "lockGrid",
     "lockCrawl", "lockFill", "details", "reads", "tabs", "warming", "apiOpen", "write", "telling",
     "start"} \cup Paged \cup Starting

Shapes ==
    /\ pc \in [Accounts -> Locations] /\ cont \in [Accounts -> Conts]
    /\ pw \in [Clients -> Browser]
    /\ firefox \in [Clients -> Int]
    /\ closer \in [Clients -> {"none", "waiting", "closing", "ended"}]

\* What its starter, or close(), knows of the browser of a client.
OneStarter == \A a, b \in At(Starting) : ClientOf[a] = ClientOf[b] => a = b
StarterKnows ==
    \A a \in Accounts :
        /\ pc[a] \in {"closing", "failing"} => pw[ClientOf[a]] \in {"ending", "gone"}
        /\ pc[a] = "launching" => pw[ClientOf[a]] = "booting"
        /\ pc[a] = "paging" => pw[ClientOf[a]] = "paging"
CloserKnows ==
    \A c \in Clients : closer[c] = "closing" =>
        /\ pw[c] \in {"none", "ending", "gone"}
        /\ At(Starting) \cap Of(c) = {}

SessionInv == Shapes /\ OneStarter /\ StarterKnows /\ CloserKnows /\ FirefoxOwned

-----------------------------------------------------------------------------
\* A step that touches no browser and takes no start lock.
Quiet ==
    /\ \E x, l : l \in Locations \ Starting /\ pc' = [pc EXCEPT ![x] = l]
    /\ cont' \in [Accounts -> Conts]
    /\ UNCHANGED <<pw, firefox, closer>>

\* It keeps the invariant: a starter may only have stopped being one.
LEMMA QuietKeeps == ASSUME AnalyticsAssumption, SessionInv, Quiet PROVE SessionInv'
<1>1. PICK x, l : l \in Locations \ Starting /\ pc' = [pc EXCEPT ![x] = l]
  BY DEF Quiet
<1>2. /\ cont' \in [Accounts -> Conts] /\ pw' = pw /\ firefox' = firefox /\ closer' = closer
  BY DEF Quiet
<1>3. Shapes'
  BY <1>1, <1>2 DEF SessionInv, Shapes
<1>4. \A a \in Accounts : pc'[a] = pc[a] \/ pc'[a] \notin Starting
  BY <1>1 DEF SessionInv, Shapes
<1>5. At(Starting)' \subseteq At(Starting)
  BY <1>4 DEF At
<1>6. OneStarter' /\ CloserKnows'
  BY <1>2, <1>5 DEF SessionInv, OneStarter, CloserKnows, Of
<1>7. StarterKnows'
  BY <1>2, <1>4 DEF SessionInv, StarterKnows, Starting
<1>8. QED
  BY <1>2, <1>3, <1>6, <1>7 DEF SessionInv, FirefoxOwned

\* The coroutine of a, past the start lock, goes to l and leaves the browser of its client
\* as p, which is what l says.
StarterGoes(a, l, p) ==
    /\ pc[a] \in Starting
    /\ pc' = [pc EXCEPT ![a] = l] /\ pw' = [pw EXCEPT ![ClientOf[a]] = p]
    /\ l \in {"closing", "failing"} => p \in {"ending", "gone"}
    /\ l = "launching" => p = "booting"
    /\ l = "paging" => p = "paging"
    /\ cont' \in [Accounts -> Conts] /\ closer' = closer

\* It keeps the invariant, if the count of Firefox processes is right.
LEMMA StarterMoves ==
    ASSUME AnalyticsAssumption, SessionInv, NEW a \in Accounts, NEW l \in Locations,
           NEW p \in Browser, StarterGoes(a, l, p),
           firefox' \in [Clients -> Int], FirefoxOwned'
    PROVE  SessionInv'
<1> USE DEF StarterGoes
<1>1. ClientOf[a] \in Clients
  BY DEF AnalyticsAssumption
<1>2. Shapes'
  BY <1>1 DEF SessionInv, Shapes
<1>3. /\ pc'[a] = l /\ pw'[ClientOf[a]] = p
      /\ \A b \in Accounts \ {a} : pc'[b] = pc[b]
      /\ \A c \in Clients \ {ClientOf[a]} : pw'[c] = pw[c]
  BY <1>1 DEF SessionInv, Shapes
<1>4. At(Starting)' \subseteq At(Starting)
  BY <1>3 DEF At
<1>5. OneStarter'
  BY <1>4 DEF SessionInv, OneStarter
<1>6. closer[ClientOf[a]] # "closing"
  BY <1>1 DEF SessionInv, CloserKnows, At, Of
<1>7. CloserKnows'
  BY <1>3, <1>4, <1>6 DEF SessionInv, CloserKnows, Of
<1>8. ASSUME NEW b \in Accounts \ {a}, pc[b] \in Starting PROVE ClientOf[b] # ClientOf[a]
  BY <1>8 DEF SessionInv, OneStarter, At
<1>9. StarterKnows'
  <2> SUFFICES ASSUME NEW b \in Accounts
               PROVE  /\ pc'[b] \in {"closing", "failing"} => pw'[ClientOf[b]] \in {"ending", "gone"}
                      /\ pc'[b] = "launching" => pw'[ClientOf[b]] = "booting"
                      /\ pc'[b] = "paging" => pw'[ClientOf[b]] = "paging"
    BY DEF StarterKnows
  <2>1. CASE b = a
    BY <1>3, <2>1
  <2>2. CASE b # a /\ pc[b] \notin Starting
    BY <1>3, <2>2 DEF Starting
  <2>3. CASE b # a /\ pc[b] \in Starting
    <3>1. ClientOf[b] \in Clients \ {ClientOf[a]}
      BY <1>8, <2>3 DEF AnalyticsAssumption
    <3>2. QED
      BY <1>3, <2>3, <3>1 DEF SessionInv, StarterKnows
  <2>4. QED
    BY <2>1, <2>2, <2>3
<1>10. QED
  BY <1>2, <1>5, <1>7, <1>9 DEF SessionInv

\* Who begins to close a browser takes its Firefox with it.
LEMMA EndingEnds ==
    ASSUME SessionInv, NEW c \in Clients, Ending(c)
    PROVE  /\ \E p \in {"ending", "gone"} : pw' = [pw EXCEPT ![c] = p]
           /\ firefox' \in [Clients -> Int] /\ FirefoxOwned'
<1>1. /\ \E p \in {"ending", "gone"} : pw' = [pw EXCEPT ![c] = p]
      /\ firefox' = [firefox EXCEPT ![c] =
             IF pw[c] \in {"booting", "paging", "up"} THEN @ - 1 ELSE @]
  BY DEF Ending
<1>2. firefox' \in [Clients -> Int]
  BY <1>1 DEF SessionInv, Shapes
<1>3. firefox'[c] = 0
  BY <1>1 DEF SessionInv, Shapes, FirefoxOwned
<1>4. \A d \in Clients \ {c} : firefox'[d] = firefox[d] /\ pw'[d] = pw[d]
  BY <1>1 DEF SessionInv, Shapes
<1>5. pw'[c] \in {"ending", "gone"}
  BY <1>1 DEF SessionInv, Shapes
<1>6. QED
  BY <1>1, <1>2, <1>3, <1>4, <1>5 DEF SessionInv, FirefoxOwned

\* A launch adds one Firefox where there was none.
LEMMA BootStarts ==
    ASSUME AnalyticsAssumption, SessionInv, NEW a \in Accounts, Boot(a),
           pc[a] \in Starting, pw[ClientOf[a]] \in {"none", "ending", "gone"}, cont' = cont,
           closer' = closer
    PROVE  SessionInv'
<1>1. ClientOf[a] \in Clients
  BY DEF AnalyticsAssumption
<1>2. /\ pc' = [pc EXCEPT ![a] = "launching"]
      /\ pw' = [pw EXCEPT ![ClientOf[a]] = "booting"]
      /\ firefox' = [firefox EXCEPT ![ClientOf[a]] = @ + 1]
  BY DEF Boot, Goto
<1>3. firefox' \in [Clients -> Int]
  BY <1>1, <1>2 DEF SessionInv, Shapes
<1>4. FirefoxOwned'
  <2>1. firefox'[ClientOf[a]] = 1
    <3>1. firefox[ClientOf[a]] = 0
      BY <1>1 DEF SessionInv, FirefoxOwned
    <3>2. firefox'[ClientOf[a]] = firefox[ClientOf[a]] + 1
      BY <1>1, <1>2 DEF SessionInv, Shapes
    <3>3. QED
      BY <3>1, <3>2
  <2>2. pw'[ClientOf[a]] = "booting"
    BY <1>1, <1>2 DEF SessionInv, Shapes
  <2>3. \A d \in Clients \ {ClientOf[a]} : firefox'[d] = firefox[d] /\ pw'[d] = pw[d]
    BY <1>1, <1>2 DEF SessionInv, Shapes
  <2>4. QED
    BY <2>1, <2>2, <2>3 DEF SessionInv, FirefoxOwned
<1>5. /\ "launching" \in Locations /\ "booting" \in Browser
      /\ StarterGoes(a, "launching", "booting")
  BY <1>2 DEF Locations, Browser, Starting, StarterGoes, SessionInv, Shapes
<1>6. QED
  BY <1>3, <1>4, <1>5, StarterMoves

-----------------------------------------------------------------------------
\* Where the coroutines of the accounts go.
LEMMA QuietPlaces ==
    /\ {"over", "begin", "probe", "next", "gate", "gateRoute", "http", "lockProfile", "lockGrid",
        "lockCrawl", "lockFill", "details", "reads", "tabs", "warming", "apiOpen", "write", "telling",
        "start", "calling", "apiLoad", "profile", "grid", "crawl", "fill"}
          \subseteq Locations \ Starting
    /\ {"api", "profile", "grid", "crawl", "fill", "tabs"} \subseteq Conts
  BY DEF Locations, Starting, Paged, Conts, Locked

\* The coroutine has its page: it is past the start lock and elsewhere.
LEMMA Enters ==
    ASSUME SessionInv, NEW a \in Accounts, NEW k \in Conts, Enter(a, k)
    PROVE  /\ \E l \in Locations \ Starting : pc' = [pc EXCEPT ![a] = l]
           /\ cont' \in [Accounts -> Conts]
           /\ k = cont[a] => cont' = cont
<1>1. cont \in [Accounts -> Conts]
  BY DEF SessionInv, Shapes
<1>2. cont' = [cont EXCEPT ![a] = k]
  BY DEF Enter
<1>3. k \in Locations \ Starting \/ k = "api"
  BY QuietPlaces DEF Conts, Locked
<1>4. \E l \in Locations \ Starting : pc' = [pc EXCEPT ![a] = l]
  BY <1>3, QuietPlaces DEF Enter, Goto
<1>5. QED
  BY <1>1, <1>2, <1>4

\* _ensure_page itself: the page is ready, or its turn at the start lock is awaited.
LEMMA Ensures ==
    ASSUME SessionInv, NEW a \in Accounts, NEW k \in Conts, Ensure(a, k),
           UNCHANGED <<pw, firefox, closer>>
    PROVE  Quiet
<1>1. CASE Enter(a, k)
  BY <1>1, Enters DEF Quiet
<1>2. CASE Goto(a, "start") /\ cont' = [cont EXCEPT ![a] = k]
  BY <1>2 DEF Goto, Quiet, Locations, Starting, SessionInv, Shapes
<1>3. QED
  BY <1>1, <1>2 DEF Ensure

\* The coroutine's own steps are quiet: it waits for _ensure_page before the start lock.
LEMMA Goes ==
    ASSUME SessionInv, NEW x, NEW l \in Locations \ Starting, Goto(x, l),
           cont' \in [Accounts -> Conts], UNCHANGED <<pw, firefox, closer>>
    PROVE  Quiet
  BY DEF Goto, Quiet

\* The row comes next, or the browser is tried on another route.
LEMMA FinishGoes ==
    ASSUME SessionInv, NEW a \in Accounts, Finish(a) \/ NextBrowser(a)
    PROVE  /\ \E l \in {"write", "lockProfile"} : Goto(a, l)
           /\ cont' \in [Accounts -> Conts]
<1>1. cont \in [Accounts -> Conts] /\ [cont EXCEPT ![a] = "api"] \in [Accounts -> Conts]
  BY QuietPlaces DEF SessionInv, Shapes
<1>2. QED
  BY <1>1 DEF Finish, NextBrowser

LEMMA FinishQuiet ==
    ASSUME SessionInv, NEW a \in Accounts, Finish(a) \/ NextBrowser(a),
           UNCHANGED <<pw, firefox, closer>>
    PROVE  Quiet
  BY FinishGoes, QuietPlaces, Goes

\* The batch, the rows, the routes and the browser profile.
LEMMA RowsQuiet == ASSUME SessionInv, NEW a \in Accounts, Rows(a) PROVE Quiet
<1> USE QuietPlaces DEF sessionVars, batchVars, Goto
<1>1. cont \in [Accounts -> Conts] /\ [cont EXCEPT ![a] = "tabs"] \in [Accounts -> Conts]
  BY DEF SessionInv, Shapes
<1>2. UNCHANGED <<pw, firefox, closer>>
  BY DEF Rows, Begin, Write, Told, NextRoute, LastRoute, TakeGate, TakeRoute, Answered, ProfileLoaded
<1>3. ASSUME NEW g, Profile(a, g) PROVE Quiet
  BY <1>1, <1>2, <1>3, FinishQuiet DEF Profile, Quiet
<1>4. CASE Begin(a) \/ Write(a) \/ Told(a)
  BY <1>1, <1>2, <1>4 DEF Begin, Write, Told, End, Quiet
<1>5. CASE NextRoute(a)
  <2>1. [pc EXCEPT ![a] = pc[a]] = pc
    BY DEF SessionInv, Shapes
  <2>2. QED
    BY <1>1, <1>2, <1>5, <2>1 DEF NextRoute, Quiet
<1>6. CASE LastRoute(a)
  BY <1>2, <1>6, FinishQuiet DEF LastRoute
<1>7. CASE TakeGate(a) \/ TakeRoute(a)
  BY <1>1, <1>2, <1>7 DEF TakeGate, TakeRoute, Quiet
<1>8. CASE Answered(a)
  BY <1>1, <1>2, <1>3, <1>8, FinishQuiet DEF Answered, Quiet
<1>9. CASE ProfileLoaded(a)
  BY <1>2, <1>3, <1>9, FinishQuiet DEF ProfileLoaded
<1>10. QED
  BY <1>4, <1>5, <1>6, <1>7, <1>8, <1>9 DEF Rows

\* The API tab and the videos.
LEMMA PagesQuiet == ASSUME SessionInv, NEW a \in Accounts, Pages(a) PROVE Quiet
<1> USE QuietPlaces DEF sessionVars
<1>1. cont \in [Accounts -> Conts] /\ [cont EXCEPT ![a] = "fill"] \in [Accounts -> Conts]
      /\ [cont EXCEPT ![a] = "tabs"] \in [Accounts -> Conts]
  BY DEF SessionInv, Shapes
<1>2. UNCHANGED <<pw, firefox, closer>>
  BY DEF Pages, Probe, TakeWarm, ApiTabOpens, ApiLoaded, Called, TakeLock, GridLoaded, Crawled,
         TakeDetails, DetailsRead, Filled, TabsRead
<1>3. ASSUME Missing(a) PROVE Quiet
  BY <1>1, <1>2, <1>3, Ensures, Goes, FinishQuiet DEF Missing
<1>4. CASE Probe(a)
  BY <1>1, <1>2, <1>4, Ensures, Goes DEF Probe
<1>5. CASE TakeLock(a)
  BY <1>1, <1>2, <1>5, Ensures DEF TakeLock
<1>6. CASE TakeWarm(a) \/ ApiTabOpens(a)
  BY <1>1, <1>2, <1>6, Goes DEF TakeWarm, ApiTabOpens
<1>7. CASE ApiLoaded(a) \/ Called(a)
  BY <1>1, <1>2, <1>7, Goes, FinishQuiet DEF ApiLoaded, Called, Profile
<1>8. CASE GridLoaded(a) \/ Crawled(a) \/ Filled(a) \/ TabsRead(a)
  BY <1>1, <1>2, <1>8, Goes, FinishQuiet DEF GridLoaded, Crawled, Filled, TabsRead
<1>9. CASE TakeDetails(a)
  BY <1>1, <1>2, <1>3, <1>9, Goes DEF TakeDetails
<1>10. CASE DetailsRead(a)
  BY <1>3, <1>10 DEF DetailsRead
<1>11. QED
  BY <1>4, <1>5, <1>6, <1>7, <1>8, <1>9, <1>10 DEF Pages

\* The readers touch no browser; a reader whose tab cannot be had lets its account go on.
LEMMA ReadersQuiet ==
    ASSUME SessionInv, NEW r \in Readers, Reader(r)
    PROVE  Quiet \/ UNCHANGED <<pc, cont, pw, firefox, closer>>
<1>1. cont \in [Accounts -> Conts]
  BY DEF SessionInv, Shapes
<1>2. UNCHANGED <<pw, firefox, closer>>
  BY DEF Reader, Borrow, TabOpens, TabFails, Return, sessionVars
<1>3. [cont EXCEPT ![owner[r]] = "api"] \in [Accounts -> Conts]
  BY <1>1, QuietPlaces
<1>4. ASSUME Raises(r) PROVE Quiet \/ UNCHANGED <<pc, cont>>
  BY <1>2, <1>3, <1>4, QuietPlaces, Goes DEF Raises, Finish
<1>5. QED
  BY <1>2, <1>4 DEF Reader, Borrow, TabOpens, TabFails, Return, workVars

\* Past the start lock: one case per await of _ensure_page.
LEMMA LaunchStep ==
    ASSUME AnalyticsAssumption, SessionInv, NEW a \in Accounts, Launch(a)
    PROVE  SessionInv'
<1>1. /\ ClientOf[a] \in Clients /\ cont \in [Accounts -> Conts] /\ firefox \in [Clients -> Int]
      /\ cont[a] \in Conts
  BY DEF AnalyticsAssumption, SessionInv, Shapes
<1>2. CASE TakeStart(a)
  <2>1. CASE Enter(a, cont[a])
    <3>1. UNCHANGED <<pw, firefox, closer>>
      BY <1>2 DEF TakeStart, sessionVars
    <3>2. QED
      BY <1>1, <2>1, <3>1, Enters, QuietKeeps DEF Quiet
  <2>2. CASE Goto(a, "launchWait") /\ cont' = cont
    <3>1. UNCHANGED <<pw, firefox, closer>> /\ StartFree(ClientOf[a])
      BY <1>2 DEF TakeStart, sessionVars
    <3>2. /\ pc'[a] = "launchWait"
          /\ \A b \in Accounts \ {a} : pc'[b] = pc[b]
          /\ Shapes'
      BY <2>2, <3>1 DEF Goto, SessionInv, Shapes, Locations, Starting
    <3>3. At(Starting)' \subseteq At(Starting) \cup {a}
      BY <3>2 DEF At
    <3>4. OneStarter' /\ CloserKnows'
      <4>1. closer[ClientOf[a]] # "closing"
            /\ \A b \in At(Starting) : ClientOf[b] # ClientOf[a]
        BY <3>1 DEF StartFree, At, Of
      <4>2. OneStarter'
        BY <3>3, <4>1 DEF SessionInv, OneStarter
      <4>3. CloserKnows'
        BY <3>1, <3>3, <4>1 DEF SessionInv, CloserKnows, Of
      <4>4. QED
        BY <4>2, <4>3
    <3>5. StarterKnows'
      BY <3>1, <3>2 DEF SessionInv, StarterKnows
    <3>6. QED
      BY <3>1, <3>2, <3>4, <3>5 DEF SessionInv, FirefoxOwned
  <2>3. QED
    BY <1>2, <2>1, <2>2 DEF TakeStart
<1>3. CASE TakeLaunch(a)
  <2>1. pc[a] \in Starting /\ cont' = cont /\ closer' = closer
    BY <1>3 DEF TakeLaunch, Starting
  <2>2. CASE KeepsOld(ClientOf[a]) /\ Boot(a)
    BY <1>1, <2>1, <2>2, BootStarts DEF KeepsOld
  <2>3. CASE Goto(a, "closing") /\ Ending(ClientOf[a])
    <3>1. PICK p \in {"ending", "gone"} : pw' = [pw EXCEPT ![ClientOf[a]] = p]
      BY <1>1, <2>3, EndingEnds
    <3>2. StarterGoes(a, "closing", p) /\ firefox' \in [Clients -> Int] /\ FirefoxOwned'
      BY <1>1, <2>1, <2>3, <3>1, EndingEnds DEF StarterGoes, Goto
    <3>3. QED
      BY <3>2, StarterMoves DEF Locations, Starting, Browser
  <2>4. QED
    BY <1>3, <2>2, <2>3 DEF TakeLaunch
<1>4. CASE Closed(a)
  BY <1>4, BootStarts DEF Closed, Starting, SessionInv, StarterKnows
<1>5. CASE Launched(a)
  <2>1. pw[ClientOf[a]] = "booting" /\ StarterGoes(a, "paging", "paging") /\ firefox' = firefox
    BY <1>1, <1>5 DEF Launched, StarterGoes, Goto, Starting, SessionInv, StarterKnows
  <2>2. FirefoxOwned'
    BY <1>1, <2>1 DEF StarterGoes, SessionInv, Shapes, FirefoxOwned
  <2>3. QED
    BY <1>1, <2>1, <2>2, StarterMoves DEF Locations, Starting, Browser
<1>6. CASE Opened(a)
  <2>1. /\ pw[ClientOf[a]] = "paging" /\ firefox' = firefox /\ Enter(a, cont[a])
        /\ pw' = [pw EXCEPT ![ClientOf[a]] = "up"] /\ closer' = closer /\ pc[a] \in Starting
    BY <1>6 DEF Opened, Starting, SessionInv, StarterKnows
  <2>2. PICK l \in Locations \ Starting : pc' = [pc EXCEPT ![a] = l]
    BY <1>1, <2>1, Enters
  <2>3. StarterGoes(a, l, "up")
    BY <1>1, <2>1, <2>2, Enters DEF StarterGoes, Starting
  <2>4. FirefoxOwned'
    BY <1>1, <2>1 DEF SessionInv, Shapes, FirefoxOwned
  <2>5. QED
    BY <1>1, <2>1, <2>3, <2>4, StarterMoves DEF Browser
<1>7. CASE LaunchFails(a)
  <2>1. PICK p \in {"ending", "gone"} : pw' = [pw EXCEPT ![ClientOf[a]] = p]
    BY <1>1, <1>7, EndingEnds DEF LaunchFails
  <2>2. StarterGoes(a, "failing", p) /\ firefox' \in [Clients -> Int] /\ FirefoxOwned'
    BY <1>1, <1>7, <2>1, EndingEnds DEF LaunchFails, StarterGoes, Goto, Starting
  <2>3. QED
    BY <2>2, StarterMoves DEF Locations, Starting, Browser
<1>8. CASE Raised(a)
  <2>1. /\ pc[a] = "failing" /\ firefox' = firefox /\ closer' = closer
        /\ pw' = [pw EXCEPT ![ClientOf[a]] = "none"] /\ pw[ClientOf[a]] \in {"ending", "gone"}
    BY <1>8 DEF Raised, SessionInv, StarterKnows
  <2>2. PICK l \in {"next", "write", "lockProfile"} : Goto(a, l) /\ cont' \in [Accounts -> Conts]
    <3>1. CASE Goto(a, "next") /\ cont' = cont
      BY <1>1, <3>1
    <3>2. CASE Finish(a) \/ NextBrowser(a)
      BY <3>2, FinishGoes
    <3>3. QED
      BY <1>8, <3>1, <3>2 DEF Raised
  <2>3. l \in Locations /\ StarterGoes(a, l, "none")
    BY <2>1, <2>2 DEF StarterGoes, Goto, Starting, Locations
  <2>4. FirefoxOwned'
    BY <1>1, <2>1 DEF SessionInv, Shapes, FirefoxOwned
  <2>5. QED
    BY <1>1, <2>1, <2>3, <2>4, StarterMoves DEF Browser
<1>9. QED
  BY <1>2, <1>3, <1>4, <1>5, <1>6, <1>7, <1>8 DEF Launch

\* The browser of c is gone: nobody starts it, or who does is closing it.
LEMMA GoneStep ==
    ASSUME AnalyticsAssumption, SessionInv, NEW c \in Clients, UNCHANGED <<pc, cont, closer>>,
           pw' = [pw EXCEPT ![c] = "gone"], pw[c] \in {"up", "ending"},
           firefox' \in [Clients -> Int], FirefoxOwned'
    PROVE  SessionInv'
<1>1. Shapes'
  BY DEF SessionInv, Shapes, Browser
<1>2. OneStarter'
  BY DEF SessionInv, OneStarter, At
<1>3. pw'[c] = "gone" /\ \A d \in Clients \ {c} : pw'[d] = pw[d]
  BY DEF SessionInv, Shapes
<1>4. CloserKnows'
  BY <1>3 DEF SessionInv, CloserKnows, At, Of
<1>5. ASSUME NEW a \in Accounts
      PROVE  /\ pc[a] \in {"closing", "failing"} => pw'[ClientOf[a]] \in {"ending", "gone"}
             /\ pc[a] = "launching" => pw'[ClientOf[a]] = "booting"
             /\ pc[a] = "paging" => pw'[ClientOf[a]] = "paging"
  <2>1. CASE ClientOf[a] = c
    BY <1>3, <2>1 DEF SessionInv, StarterKnows
  <2>2. CASE ClientOf[a] # c
    BY <1>3, <2>2 DEF AnalyticsAssumption, SessionInv, StarterKnows
  <2>3. QED
    BY <2>1, <2>2
<1>6. StarterKnows'
  BY <1>5 DEF StarterKnows
<1>7. QED
  BY <1>1, <1>2, <1>4, <1>6 DEF SessionInv

\* Only an open browser crashes; the process of one that is being closed does not count.
LEMMA CrashStep ==
    ASSUME AnalyticsAssumption, SessionInv, NEW c \in Clients, Crash(c) \/ PagesClose(c)
    PROVE  SessionInv'
<1>1. pw' = [pw EXCEPT ![c] = "gone"] /\ UNCHANGED <<pc, cont, closer>>
  BY DEF Crash, PagesClose, Cut
<1>2. CASE Crash(c)
  <2>1. pw[c] = "up" /\ firefox' = [firefox EXCEPT ![c] = @ - 1]
    BY <1>2 DEF Crash
  <2>2. firefox' \in [Clients -> Int] /\ firefox'[c] = 0
        /\ \A d \in Clients \ {c} : firefox'[d] = firefox[d]
    BY <2>1 DEF SessionInv, Shapes, FirefoxOwned
  <2>3. FirefoxOwned'
    BY <1>1, <2>2 DEF SessionInv, Shapes, FirefoxOwned
  <2>4. QED
    BY <1>1, <2>1, <2>2, <2>3, GoneStep
<1>3. CASE PagesClose(c)
  <2>1. pw[c] = "ending" /\ firefox' = firefox
    BY <1>3 DEF PagesClose
  <2>2. firefox' \in [Clients -> Int] /\ FirefoxOwned'
    BY <1>1, <2>1 DEF SessionInv, Shapes, FirefoxOwned
  <2>3. QED
    BY <1>1, <2>1, <2>2, GoneStep
<1>4. QED
  BY <1>2, <1>3

\* close() has the start lock: nobody is past it, and nobody will be until it has returned.
LEMMA CloserStep ==
    ASSUME AnalyticsAssumption, SessionInv, NEW c \in Clients, Closer(c)
    PROVE  SessionInv'
<1>1. CASE CloserTakes(c)
  <2>1. /\ closer' = [closer EXCEPT ![c] = "closing"] /\ UNCHANGED <<pc, cont>>
        /\ At(Starting) \cap Of(c) = {}
    BY <1>1 DEF CloserTakes, StartFree, workVars
  <2>2. /\ \A d \in Clients \ {c} : pw'[d] = pw[d]
        /\ pw' \in [Clients -> Browser] /\ pw'[c] \in {"none", "ending", "gone"}
        /\ firefox' \in [Clients -> Int] /\ FirefoxOwned'
    <3>1. CASE pw[c] = "none" /\ UNCHANGED <<pw, firefox>>
      BY <3>1 DEF SessionInv, Shapes, FirefoxOwned
    <3>2. CASE Ending(c)
      <4>1. PICK p \in {"ending", "gone"} : pw' = [pw EXCEPT ![c] = p]
        BY <3>2, EndingEnds
      <4>2. firefox' \in [Clients -> Int] /\ FirefoxOwned'
        BY <3>2, EndingEnds
      <4>3. QED
        BY <4>1, <4>2 DEF SessionInv, Shapes, Browser
    <3>3. QED
      BY <1>1, <3>1, <3>2 DEF CloserTakes
  <2>3. Shapes' /\ \A d \in Clients \ {c} : closer'[d] = closer[d]
    BY <2>1, <2>2 DEF SessionInv, Shapes
  <2>4. OneStarter' /\ CloserKnows'
    <3>1. OneStarter'
      BY <2>1 DEF SessionInv, OneStarter, At
    <3>2. CloserKnows'
      BY <2>1, <2>2, <2>3 DEF SessionInv, CloserKnows, At, Of
    <3>3. QED
      BY <3>1, <3>2
  <2>5. ASSUME NEW a \in Accounts, pc[a] \in Starting PROVE pw'[ClientOf[a]] = pw[ClientOf[a]]
    BY <2>1, <2>2, <2>5 DEF AnalyticsAssumption, At, Of
  <2>6. StarterKnows'
    BY <2>1, <2>5 DEF SessionInv, StarterKnows, Starting
  <2>7. QED
    BY <2>2, <2>3, <2>4, <2>6 DEF SessionInv
<1>2. CASE CloserEnds(c)
  <2>1. /\ closer[c] = "closing" /\ closer' = [closer EXCEPT ![c] = "ended"]
        /\ pw' = [pw EXCEPT ![c] = "none"] /\ UNCHANGED <<pc, cont, firefox>>
    BY <1>2 DEF CloserEnds
  <2>2. /\ Shapes' /\ pw'[c] = "none" /\ closer'[c] = "ended"
        /\ \A d \in Clients \ {c} : pw'[d] = pw[d] /\ closer'[d] = closer[d]
    BY <2>1 DEF SessionInv, Shapes, Browser
  <2>3. pw[c] \in {"none", "ending", "gone"} /\ At(Starting) \cap Of(c) = {}
    BY <2>1 DEF SessionInv, CloserKnows
  <2>4. FirefoxOwned' /\ CloserKnows' /\ OneStarter'
    BY <2>1, <2>2, <2>3 DEF SessionInv, FirefoxOwned, CloserKnows, OneStarter, At, Of
  <2>5. ASSUME NEW a \in Accounts, pc[a] \in Starting PROVE pw'[ClientOf[a]] = pw[ClientOf[a]]
    BY <2>2, <2>3, <2>5 DEF AnalyticsAssumption, At, Of
  <2>6. StarterKnows'
    BY <2>1, <2>5 DEF SessionInv, StarterKnows, Starting
  <2>7. QED
    BY <2>2, <2>4, <2>6 DEF SessionInv
<1>3. QED
  BY <1>1, <1>2 DEF Closer

\* A batch starts: its coroutines are at their beginning, and there were none.
LEMMA StartStep == ASSUME SessionInv, StartBatch PROVE SessionInv'
<1>1. PICK ids \in SUBSET Accounts :
          pc' = [a \in Accounts |-> IF a \in ids THEN "begin" ELSE pc[a]]
  BY DEF StartBatch
<1>2. UNCHANGED <<cont, pw, firefox, closer>>
  BY DEF StartBatch, sessionVars
<1>3. /\ Shapes'
      /\ \A a \in Accounts : pc'[a] = pc[a] \/ pc'[a] = "begin"
  BY <1>1, <1>2, QuietPlaces DEF SessionInv, Shapes
<1>4. At(Starting)' \subseteq At(Starting)
  BY <1>3 DEF At, Starting
<1>5. OneStarter' /\ CloserKnows' /\ StarterKnows'
  BY <1>2, <1>3, <1>4 DEF SessionInv, OneStarter, CloserKnows, StarterKnows, Of
<1>6. QED
  BY <1>2, <1>3, <1>5 DEF SessionInv, FirefoxOwned

\* One case per action.
LEMMA SessionStep == AnalyticsAssumption /\ SessionInv /\ [Next]_vars => SessionInv'
<1> SUFFICES ASSUME AnalyticsAssumption, SessionInv, [Next]_vars PROVE SessionInv'
  OBVIOUS
<1>1. ASSUME UNCHANGED <<pc, cont, pw, firefox, closer>> PROVE SessionInv'
  BY <1>1 DEF SessionInv, Shapes, OneStarter, StarterKnows, CloserKnows, FirefoxOwned, At
<1>2. ASSUME NEW a \in Accounts, Worker(a) \/ AfterDriver(a) PROVE SessionInv'
  BY <1>2, CoroutineSteps, RowsQuiet, PagesQuiet, QuietKeeps, LaunchStep
<1>3. ASSUME NEW r \in Readers, Borrow(r) \/ TabAfterDriver(r) PROVE SessionInv'
  BY <1>1, <1>3, ReaderSteps, ReadersQuiet, QuietKeeps
<1>4. ASSUME NEW c \in Clients, Closer(c) \/ PagesClose(c) \/ Crash(c) PROVE SessionInv'
  BY <1>4, CloserStep, CrashStep
<1>5. CASE \/ (\E a \in Accounts : Sell(a)) \/ (\E c \in Clients : TemplateSeen(c))
           \/ EndBatch \/ UNCHANGED vars
  BY <1>1, <1>5 DEF Sell, TemplateSeen, EndBatch, vars, workVars, sessionVars
<1>6. CASE Shutdown
  <2>1. closer' = [c \in Clients |-> "waiting"] /\ UNCHANGED <<pc, cont, pw, firefox>>
    BY <1>6 DEF Shutdown, workVars, sessionVars
  <2>2. QED
    BY <2>1 DEF SessionInv, Shapes, OneStarter, StarterKnows, CloserKnows, FirefoxOwned, At
<1>7. QED
  BY <1>2, <1>3, <1>4, <1>5, <1>6, StartStep DEF Next

LEMMA InitialSession == Init => SessionInv
<1> SUFFICES ASSUME Init PROVE SessionInv
  OBVIOUS
<1>1. Shapes
  BY QuietPlaces DEF Init, Shapes, Browser
<1>2. At(Starting) = {}
  BY DEF Init, At, Starting
<1>3. QED
  BY <1>1, <1>2 DEF Init, SessionInv, OneStarter, StarterKnows, CloserKnows, FirefoxOwned, Of

\* A client never has two Firefox processes, and never one that close() would not find.
THEOREM NoFirefoxLost == Spec => []FirefoxOwned
<1>1. Init => SessionInv
  BY InitialSession
<1>2. SessionInv => FirefoxOwned
  BY DEF SessionInv
<1>3. QED
  BY <1>1, <1>2, SessionStep, AnalyticsAssumption, PTL DEF Spec

-----------------------------------------------------------------------------
(* The pages.  A page kept under _lock, or by a crawl that awaits the      *)
(* detail gate, is on its account's route, closed or forgotten: the        *)
(* browser goes to another route only after Reset, which forgets the       *)
(* pages of everybody, and one that is not up has no page left, unless it  *)
(* is being closed on the same route.                                      *)

PageInv == KeptOnRoute /\ RouteChosen

\* What a step of the coroutine of a leaves alone, and what it answers for itself.
OthersStay(a) ==
    /\ \A b \in Accounts \ {a} : /\ pc'[b] = pc[b] /\ cont'[b] = cont[b]
                                 /\ idx'[b] = idx[b] /\ reached'[b] = reached[b]
    /\ stale \ {a} \subseteq stale'
Placed(a) ==
    /\ idx' \in [Accounts -> Nat \ {0}] /\ reached' \in [Accounts -> Seq(Nat \ {0})]
    /\ reached'[a] \in Seq(1..Len(RoutesOf[a]))
    /\ \/ idx'[a] <= Len(RoutesOf[a])
       \/ pc'[a] = "next" /\ idx'[a] = Len(RoutesOf[a]) + 1
Held(a) == a \notin stale' /\ Keeps(a)' => OnRoute(a)'
Fine(a) == OthersStay(a) /\ Placed(a) /\ Held(a)

\* The routes that were chosen stay so.
LEMMA OthersPlaced ==
    ASSUME RouteChosen, NEW a \in Accounts, OthersStay(a), Placed(a),
           pageOf' \in [Clients -> Routes \cup {NoRoute}]
    PROVE  RouteChosen'
<1>1. ASSUME NEW b \in Accounts
      PROVE  /\ reached'[b] \in Seq(1..Len(RoutesOf[b]))
             /\ \/ idx'[b] <= Len(RoutesOf[b])
                \/ pc'[b] = "next" /\ idx'[b] = Len(RoutesOf[b]) + 1
  <2>1. CASE b = a
    BY <2>1 DEF Placed
  <2>2. CASE b # a
    BY <2>2 DEF RouteChosen, OthersStay
  <2>3. QED
    BY <2>1, <2>2
<1>2. QED
  BY <1>1 DEF RouteChosen, Placed

\* A step after which the browsers of those who keep a page have the pages they had.
LEMMA PagesStay ==
    ASSUME PageInv, NEW a \in Accounts, Fine(a),
           pageOf' \in [Clients -> Routes \cup {NoRoute}],
           \A b \in Accounts \ ({a} \cup stale') :
               Keeps(b) /\ OnRoute(b) => /\ pw'[ClientOf[b]] \in {"up", "ending"}
                                         /\ pageOf'[ClientOf[b]] = pageOf[ClientOf[b]]
    PROVE  PageInv'
<1>1. RouteChosen'
  BY OthersPlaced DEF PageInv, Fine
<1>2. ASSUME NEW b \in Accounts \ stale', Keeps(b)' PROVE OnRoute(b)'
  <2>1. CASE b = a
    BY <1>2, <2>1 DEF Fine, Held
  <2>2. CASE b # a
    <3>1. b \notin stale /\ Keeps(b) /\ idx'[b] = idx[b]
      BY <1>2, <2>2 DEF Fine, OthersStay, Keeps, Crawling
    <3>2. OnRoute(b)
      BY <3>1 DEF PageInv, KeptOnRoute
    <3>3. QED
      BY <1>2, <2>2, <3>1, <3>2 DEF OnRoute, Route
  <2>3. QED
    BY <2>1, <2>2
<1>3. QED
  BY <1>1, <1>2 DEF PageInv, KeptOnRoute

\* A step that touches no browser.
LEMMA PageKept ==
    ASSUME PageInv, NEW a \in Accounts, Fine(a), UNCHANGED <<pw, pageOf>>
    PROVE  PageInv'
  BY PagesStay DEF OnRoute, PageInv, RouteChosen

\* A step on the browser of a, which has no page, or whose pages are forgotten.
LEMMA PageRenewed ==
    ASSUME AnalyticsAssumption, SessionInv, PageInv, NEW a \in Accounts, Fine(a),
           pw[ClientOf[a]] \notin {"up", "ending"} \/ HasPage(ClientOf[a]) \ {a} \subseteq stale',
           NEW p, pw' = [pw EXCEPT ![ClientOf[a]] = p],
           NEW q \in Routes \cup {NoRoute}, pageOf' = [pageOf EXCEPT ![ClientOf[a]] = q]
    PROVE  PageInv'
<1>1. pageOf' \in [Clients -> Routes \cup {NoRoute}]
  BY DEF PageInv, RouteChosen
<1>2. ASSUME NEW b \in Accounts \ ({a} \cup stale'), Keeps(b), OnRoute(b)
      PROVE  /\ pw'[ClientOf[b]] \in {"up", "ending"}
             /\ pageOf'[ClientOf[b]] = pageOf[ClientOf[b]]
  <2>1. ClientOf[b] # ClientOf[a]
    BY <1>2 DEF OnRoute, HasPage, Of, Keeps, Paged, Locked
  <2>2. ClientOf[b] \in Clients \ {ClientOf[a]}
    BY <2>1 DEF AnalyticsAssumption
  <2>3. pw'[ClientOf[b]] = pw[ClientOf[b]] /\ pageOf'[ClientOf[b]] = pageOf[ClientOf[b]]
    BY <2>2 DEF SessionInv, Shapes, PageInv, RouteChosen
  <2>4. QED
    BY <1>2, <2>3 DEF OnRoute
<1>3. QED
  BY <1>1, <1>2, PagesStay

\* Who begins to close a browser leaves its pages where they are.
LEMMA PageEnding ==
    ASSUME AnalyticsAssumption, SessionInv, PageInv, NEW a \in Accounts, Fine(a),
           NEW c \in Clients, Ending(c), pageOf' = pageOf
    PROVE  PageInv'
<1>1. ASSUME NEW b \in Accounts, OnRoute(b) PROVE pw'[ClientOf[b]] \in {"up", "ending"}
  <2>1. ClientOf[b] \in Clients /\ pw[ClientOf[b]] \in {"up", "ending"}
    BY <1>1 DEF OnRoute, AnalyticsAssumption
  <2>2. pw' = [pw EXCEPT ![c] = IF HasBrowser(c) THEN "ending" ELSE "gone"]
    BY DEF Ending
  <2>3. QED
    BY <2>1, <2>2 DEF HasBrowser, SessionInv, Shapes
<1>2. QED
  BY <1>1, PagesStay DEF PageInv, RouteChosen

\* A step outside the coroutines on the browser of c, whose pages are closed or forgotten.
LEMMA PageCut ==
    ASSUME AnalyticsAssumption, SessionInv, PageInv, NEW c \in Clients,
           NEW p, pw' = [pw EXCEPT ![c] = p],
           NEW q \in Routes \cup {NoRoute}, pageOf' = [pageOf EXCEPT ![c] = q],
           stale \cup HasPage(c) \subseteq stale', UNCHANGED <<pc, cont, idx, reached>>
    PROVE  PageInv'
<1>1. RouteChosen'
  BY DEF PageInv, RouteChosen
<1>2. ASSUME NEW b \in Accounts \ stale', Keeps(b)' PROVE OnRoute(b)'
  <2>1. Keeps(b) /\ b \notin stale /\ b \notin HasPage(c)
    BY <1>2 DEF Keeps, Crawling
  <2>2. ClientOf[b] \in Clients \ {c}
    BY <2>1 DEF HasPage, Keeps, Of, Paged, Locked, AnalyticsAssumption
  <2>3. OnRoute(b)
    BY <2>1 DEF PageInv, KeptOnRoute
  <2>4. pw'[ClientOf[b]] = pw[ClientOf[b]] /\ pageOf'[ClientOf[b]] = pageOf[ClientOf[b]]
    BY <2>2 DEF SessionInv, Shapes, PageInv, RouteChosen
  <2>5. QED
    BY <2>3, <2>4 DEF OnRoute, Route
<1>3. QED
  BY <1>1, <1>2 DEF PageInv, KeptOnRoute

-----------------------------------------------------------------------------
\* A coroutine that stays where it is among its candidates.
LEMMA StaysPlaced ==
    ASSUME PageInv, NEW a \in Accounts, pc[a] # "next", UNCHANGED <<idx, reached>>
    PROVE  Placed(a)
  BY DEF Placed, PageInv, RouteChosen

\* A coroutine that goes to l and keeps nothing there answers for itself.
LEMMA MovesFree ==
    ASSUME SessionInv, NEW a \in Accounts, NEW l, Goto(a, l), Placed(a), l \notin Locked,
           \A b \in Accounts \ {a} : /\ cont'[b] = cont[b] /\ idx'[b] = idx[b]
                                     /\ reached'[b] = reached[b],
           l \in {"details", "reads"} => cont'[a] # "crawl",
           stale \ {a} \subseteq stale'
    PROVE  Fine(a)
<1>1. pc'[a] = l /\ \A b \in Accounts \ {a} : pc'[b] = pc[b]
  BY DEF Goto, SessionInv, Shapes
<1>2. OthersStay(a)
  BY <1>1 DEF OthersStay
<1>3. Held(a)
  BY <1>1 DEF Held, Keeps, Crawling
<1>4. QED
  BY <1>2, <1>3 DEF Fine

LEMMA GoesFree ==
    ASSUME SessionInv, PageInv, NEW a \in Accounts, NEW l, Goto(a, l),
           pc[a] # "next", l \notin Locked,
           \A b \in Accounts \ {a} : cont'[b] = cont[b],
           l \in {"details", "reads"} => cont'[a] # "crawl",
           UNCHANGED <<idx, reached>>, stale \ {a} \subseteq stale'
    PROVE  Fine(a)
  BY StaysPlaced, MovesFree

\* The row comes next.
LEMMA FinishFine ==
    ASSUME SessionInv, PageInv, NEW a \in Accounts, Finish(a), pc[a] # "next",
           UNCHANGED <<idx, reached>>, stale \ {a} \subseteq stale'
    PROVE  Fine(a)
<1>1. Goto(a, "write") /\ \A b \in Accounts \ {a} : cont'[b] = cont[b]
  BY DEF Finish, SessionInv, Shapes
<1>2. QED
  BY <1>1, GoesFree DEF Locked

\* The browser is tried on a route that was reachable.
LEMMA NextBrowserFine ==
    ASSUME SessionInv, PageInv, NEW a \in Accounts, NextBrowser(a),
           pc[a] # "next" \/ reached[a] # <<>>, stale \ {a} \subseteq stale'
    PROVE  Fine(a)
<1>1. CASE reached[a] = <<>>
  BY <1>1, FinishFine DEF NextBrowser
<1>2. CASE reached[a] # <<>>
  <2>1. /\ Goto(a, "lockProfile") /\ cont' = cont
        /\ idx' = [idx EXCEPT ![a] = Head(reached[a])]
        /\ reached' = [reached EXCEPT ![a] = Tail(reached[a])]
    BY <1>2 DEF NextBrowser
  <2>2. /\ idx \in [Accounts -> Nat \ {0}] /\ reached \in [Accounts -> Seq(Nat \ {0})]
        /\ reached[a] \in Seq(Nat \ {0}) /\ reached[a] \in Seq(1..Len(RoutesOf[a]))
    BY DEF PageInv, RouteChosen
  <2>3. /\ Head(reached[a]) \in 1..Len(RoutesOf[a]) /\ Tail(reached[a]) \in Seq(1..Len(RoutesOf[a]))
        /\ Head(reached[a]) \in Nat \ {0} /\ Tail(reached[a]) \in Seq(Nat \ {0})
    BY <1>2, <2>2, HeadTailProperties
  <2>4. /\ idx'[a] = Head(reached[a]) /\ reached'[a] = Tail(reached[a])
        /\ idx' \in [Accounts -> Nat \ {0}] /\ reached' \in [Accounts -> Seq(Nat \ {0})]
        /\ \A b \in Accounts \ {a} : idx'[b] = idx[b] /\ reached'[b] = reached[b]
    BY <2>1, <2>2, <2>3
  <2>5. Placed(a)
    BY <2>3, <2>4 DEF Placed
  <2>6. QED
    BY <2>1, <2>4, <2>5, MovesFree DEF Locked
<1>3. QED
  BY <1>1, <1>2

\* The profile was read: the routes are forgotten.
LEMMA ProfileFine ==
    ASSUME SessionInv, PageInv, NEW a \in Accounts, NEW g, Profile(a, g), pc[a] # "next",
           idx' = idx, stale \ {a} \subseteq stale'
    PROVE  Fine(a)
<1>1. PICK l \in {"write", "lockGrid", "details"} : Goto(a, l)
  BY DEF Profile, Finish
<1>2. /\ cont'[a] # "crawl" /\ \A b \in Accounts \ {a} : cont'[b] = cont[b]
  BY DEF Profile, Finish, SessionInv, Shapes
<1>3. <<>> \in Seq(Nat \ {0}) /\ <<>> \in Seq(1..Len(RoutesOf[a]))
  BY EmptySeq
<1>4. /\ reached' \in [Accounts -> Seq(Nat \ {0})] /\ reached'[a] = <<>>
      /\ \A b \in Accounts \ {a} : reached'[b] = reached[b]
  BY <1>3 DEF Profile, PageInv, RouteChosen
<1>5. Placed(a)
  BY <1>3, <1>4 DEF Placed, PageInv, RouteChosen
<1>6. QED
  BY <1>1, <1>2, <1>4, <1>5, MovesFree DEF Locked

\* It has its page, on its route.
LEMMA EntersFine ==
    ASSUME SessionInv, PageInv, NEW a \in Accounts, NEW k, Enter(a, k), pc[a] # "next",
           UNCHANGED <<idx, reached>>, OnRoute(a)'
    PROVE  Fine(a)
<1>1. /\ stale' = stale \ {a} /\ cont' = [cont EXCEPT ![a] = k]
      /\ \A b \in Accounts \ {a} : pc'[b] = pc[b]
  BY DEF Enter, Goto, SessionInv, Shapes
<1>2. OthersStay(a)
  BY <1>1 DEF OthersStay, SessionInv, Shapes
<1>3. Placed(a)
  BY StaysPlaced
<1>4. QED
  BY <1>2, <1>3 DEF Fine, Held

\* _ensure_page before the start lock.
LEMMA EnsuresFine ==
    ASSUME SessionInv, PageInv, NEW a \in Accounts, NEW k, Ensure(a, k), pc[a] # "next",
           UNCHANGED <<idx, reached, pw, pageOf>>
    PROVE  Fine(a)
<1>1. CASE Ready(a) /\ Enter(a, k)
  BY <1>1, EntersFine DEF Ready, OnRoute, Route
<1>2. CASE Goto(a, "start") /\ cont' = [cont EXCEPT ![a] = k] /\ UNCHANGED stale
  BY <1>2, GoesFree DEF SessionInv, Shapes, Locked
<1>3. QED
  BY <1>1, <1>2 DEF Ensure

\* A coroutine that ends.
LEMMA EndFine ==
    ASSUME SessionInv, PageInv, AnalyticsAssumption, NEW a \in Accounts, End(a), UNCHANGED stale
    PROVE  Fine(a)
<1>1. RoutesOf[a] \in Seq(Routes) \ {<<>>} /\ Len(RoutesOf[a]) \in Nat \ {0}
  BY EmptySeq DEF AnalyticsAssumption
<1>2. <<>> \in Seq(Nat \ {0}) /\ <<>> \in Seq(1..Len(RoutesOf[a]))
  BY EmptySeq
<1>3. /\ Goto(a, "over") /\ cont' = cont
      /\ idx'[a] = 1 /\ reached'[a] = <<>>
      /\ idx' \in [Accounts -> Nat \ {0}] /\ reached' \in [Accounts -> Seq(Nat \ {0})]
      /\ \A b \in Accounts \ {a} : idx'[b] = idx[b] /\ reached'[b] = reached[b]
  BY <1>2 DEF End, PageInv, RouteChosen
<1>4. Placed(a)
  BY <1>1, <1>2, <1>3 DEF Placed
<1>5. QED
  BY <1>3, <1>4, MovesFree DEF Locked

\* The walk over the candidates stays among them.
LEMMA RoutesFine ==
    ASSUME SessionInv, PageInv, AnalyticsAssumption, NEW a \in Accounts,
           NEW l \in {"next", "gate", "gateRoute", "http", "write"},
           pc' = [pc EXCEPT ![a] = l], \A b \in Accounts \ {a} : cont'[b] = cont[b],
           stale' = stale,
           \/ idx' = idx /\ idx[a] <= Len(RoutesOf[a])
           \/ idx' = [idx EXCEPT ![a] = 1]
           \/ idx' = [idx EXCEPT ![a] = @ + 1] /\ l = "next" /\ idx[a] <= Len(RoutesOf[a]),
           \/ reached' = reached
           \/ reached' = [reached EXCEPT ![a] = Append(@, idx[a])] /\ idx[a] <= Len(RoutesOf[a])
    PROVE  Fine(a)
<1>1. /\ idx \in [Accounts -> Nat \ {0}] /\ idx[a] \in Nat \ {0}
      /\ reached \in [Accounts -> Seq(Nat \ {0})]
      /\ reached[a] \in Seq(Nat \ {0}) /\ reached[a] \in Seq(1..Len(RoutesOf[a]))
  BY DEF PageInv, RouteChosen
<1>2. RoutesOf[a] \in Seq(Routes) \ {<<>>} /\ Len(RoutesOf[a]) \in Nat \ {0}
  BY EmptySeq DEF AnalyticsAssumption
<1>3. pc'[a] = l
  BY DEF SessionInv, Shapes
<1>4. /\ idx' \in [Accounts -> Nat \ {0}]
      /\ idx'[a] <= Len(RoutesOf[a]) \/ (pc'[a] = "next" /\ idx'[a] = Len(RoutesOf[a]) + 1)
      /\ \A b \in Accounts \ {a} : idx'[b] = idx[b]
  BY <1>1, <1>2, <1>3
<1>5. /\ reached' \in [Accounts -> Seq(Nat \ {0})] /\ reached'[a] \in Seq(1..Len(RoutesOf[a]))
      /\ \A b \in Accounts \ {a} : reached'[b] = reached[b]
  <2>1. CASE reached' = reached
    BY <1>1, <2>1
  <2>2. CASE reached' = [reached EXCEPT ![a] = Append(@, idx[a])] /\ idx[a] <= Len(RoutesOf[a])
    <3>1. idx[a] \in 1..Len(RoutesOf[a])
      BY <1>1, <1>2, <2>2
    <3>2. Append(reached[a], idx[a]) \in Seq(Nat \ {0})
          /\ Append(reached[a], idx[a]) \in Seq(1..Len(RoutesOf[a]))
      BY <1>1, <3>1, AppendProperties
    <3>3. QED
      BY <1>1, <2>2, <3>2
  <2>3. QED
    BY <2>1, <2>2
<1>6. Placed(a)
  BY <1>4, <1>5 DEF Placed
<1>7. QED
  BY <1>4, <1>5, <1>6, MovesFree DEF Goto, Locked

\* The batch, the rows, the routes and the browser profile.
LEMMA RowsFine ==
    ASSUME AnalyticsAssumption, SessionInv, PageInv, NEW a \in Accounts, Rows(a)
    PROVE  Fine(a) /\ UNCHANGED <<pw, pageOf>>
<1> USE DEF sessionVars
<1>1. UNCHANGED <<pw, pageOf>>
  BY DEF Rows, Begin, Write, Told, NextRoute, LastRoute, TakeGate, TakeRoute, Answered, ProfileLoaded
<1>2. /\ pc[a] # "next" => idx[a] <= Len(RoutesOf[a])
      /\ pc = [pc EXCEPT ![a] = pc[a]] /\ cont \in [Accounts -> Conts]
  BY DEF SessionInv, Shapes, PageInv, RouteChosen
<1>3. CASE Begin(a)
  <2>1. CASE End(a)
    BY <1>3, <2>1, EndFine DEF Begin
  <2>2. CASE \E l \in {"next", "probe"} : Goto(a, l) /\ UNCHANGED <<cont, idx, reached>>
    BY <1>3, <2>2, GoesFree DEF Begin, Locked
  <2>3. QED
    BY <1>3, <2>1, <2>2 DEF Begin
<1>4. CASE Write(a) \/ Told(a)
  <2>1. CASE End(a)
    BY <1>4, <2>1, EndFine DEF Write, Told
  <2>2. CASE Goto(a, "telling") /\ UNCHANGED <<cont, idx, reached>>
    BY <1>4, <2>2, GoesFree DEF Write, Told, Locked
  <2>3. QED
    BY <1>4, <2>1, <2>2 DEF Write, Told
<1>5. CASE NextRoute(a)
  <2>1. /\ pc[a] = "next" /\ idx[a] <= Len(RoutesOf[a]) /\ UNCHANGED <<cont, stale>>
        /\ \/ pc' = [pc EXCEPT ![a] = "gate"] /\ idx' = idx
           \/ pc' = [pc EXCEPT ![a] = "next"] /\ idx' = [idx EXCEPT ![a] = @ + 1]
    BY <1>2, <1>5 DEF NextRoute, Goto
  <2>2. reached' = reached \/ reached' = [reached EXCEPT ![a] = Append(@, idx[a])]
    BY <1>5 DEF NextRoute, PageInv, RouteChosen
  <2>3. CASE pc' = [pc EXCEPT ![a] = "gate"] /\ idx' = idx
    BY <1>1, <2>1, <2>2, <2>3, RoutesFine
  <2>4. CASE pc' = [pc EXCEPT ![a] = "next"] /\ idx' = [idx EXCEPT ![a] = @ + 1]
    BY <1>1, <2>1, <2>2, <2>4, RoutesFine
  <2>5. QED
    BY <2>1, <2>3, <2>4
<1>6. CASE LastRoute(a)
  <2>1. CASE reached[a] # <<>> /\ NextBrowser(a)
    BY <1>6, <2>1, NextBrowserFine DEF LastRoute
  <2>2. CASE Finish(a) /\ idx' = [idx EXCEPT ![a] = 1] /\ UNCHANGED reached
    <3>1. /\ pc' = [pc EXCEPT ![a] = "write"] /\ stale' = stale /\ reached' = reached
          /\ \A b \in Accounts \ {a} : cont'[b] = cont[b]
      BY <1>2, <1>6, <2>2 DEF LastRoute, Finish, Goto
    <3>2. QED
      BY <1>1, <2>2, <3>1, RoutesFine
  <2>3. QED
    BY <1>6, <2>1, <2>2 DEF LastRoute
<1>7. CASE TakeGate(a) \/ TakeRoute(a)
  <2>1. /\ pc[a] # "next" /\ UNCHANGED <<cont, stale, reached>>
        /\ \/ pc' = [pc EXCEPT ![a] = "gateRoute"] /\ idx' = idx
           \/ pc' = [pc EXCEPT ![a] = "http"] /\ idx' = idx
           \/ pc' = [pc EXCEPT ![a] = "next"] /\ idx' = [idx EXCEPT ![a] = @ + 1]
    BY <1>7 DEF TakeGate, TakeRoute, Goto
  <2>2. CASE pc' = [pc EXCEPT ![a] = "gateRoute"] /\ idx' = idx
    BY <1>1, <1>2, <2>1, <2>2, RoutesFine
  <2>3. CASE pc' = [pc EXCEPT ![a] = "http"] /\ idx' = idx
    BY <1>1, <1>2, <2>1, <2>3, RoutesFine
  <2>4. CASE pc' = [pc EXCEPT ![a] = "next"] /\ idx' = [idx EXCEPT ![a] = @ + 1]
    BY <1>1, <1>2, <2>1, <2>4, RoutesFine
  <2>5. QED
    BY <2>1, <2>2, <2>3, <2>4
<1>8. CASE Answered(a)
  <2>1. pc[a] = "http" /\ stale' = stale /\ stale \ {a} \subseteq stale'
    BY <1>8 DEF Answered
  <2>2. CASE Profile(a, FALSE) /\ idx' = idx
    BY <1>1, <2>1, <2>2, ProfileFine
  <2>3. CASE /\ Goto(a, "next") /\ idx' = [idx EXCEPT ![a] = @ + 1]
             /\ UNCHANGED <<cont, reached>>
    BY <1>1, <1>2, <2>1, <2>3, RoutesFine DEF Goto
  <2>4. CASE Finish(a) /\ UNCHANGED <<idx, reached>>
    BY <1>1, <2>1, <2>4, FinishFine
  <2>5. QED
    BY <1>8, <2>2, <2>3, <2>4 DEF Answered
<1>9. CASE ProfileLoaded(a)
  <2>1. pc[a] = "profile" /\ stale' = stale \ {a}
    BY <1>9 DEF ProfileLoaded
  <2>2. QED
    BY <1>9, <2>1, ProfileFine, FinishFine, NextBrowserFine DEF ProfileLoaded
<1>10. QED
  BY <1>1, <1>3, <1>4, <1>5, <1>6, <1>7, <1>8, <1>9 DEF Rows

\* The API tab and the videos.
LEMMA PagesFine ==
    ASSUME SessionInv, PageInv, NEW a \in Accounts, Pages(a)
    PROVE  Fine(a) /\ UNCHANGED <<pw, pageOf>>
<1> USE DEF sessionVars
<1>1. /\ cont \in [Accounts -> Conts] /\ pc \in [Accounts -> Locations]
      /\ \A k : [cont EXCEPT ![a] = k][a] = k
      /\ \A k, b : b \in Accounts \ {a} => [cont EXCEPT ![a] = k][b] = cont[b]
  BY DEF SessionInv, Shapes
<1>2. UNCHANGED <<pw, pageOf, idx>> /\ pc[a] # "next"
  BY DEF Pages, Probe, TakeWarm, ApiTabOpens, ApiLoaded, Called, TakeLock, GridLoaded, Crawled,
         TakeDetails, DetailsRead, Filled, TabsRead
<1>3. ASSUME NEW l \in {"next", "calling", "apiOpen", "apiLoad", "lockCrawl", "lockFill"}, Goto(a, l),
             UNCHANGED <<cont, reached>>, stale \ {a} \subseteq stale'
      PROVE  Fine(a)
  BY <1>2, <1>3, GoesFree DEF Locked
<1>4. ASSUME NEW l, Goto(a, l), UNCHANGED <<cont, reached, stale>>, Keeps(a)
      PROVE  Fine(a)
  <2>1. OthersStay(a)
    BY <1>1, <1>2, <1>4 DEF OthersStay, Goto
  <2>2. Placed(a)
    BY <1>2, <1>4, StaysPlaced
  <2>3. Held(a)
    BY <1>2, <1>4 DEF Held, PageInv, KeptOnRoute, OnRoute, Route
  <2>4. QED
    BY <2>1, <2>2, <2>3 DEF Fine
<1>5. ASSUME Missing(a), reached' = reached, pc[a] \in {"details", "reads"} PROVE Fine(a)
  <2>1. CASE Finish(a) /\ stale' = stale \ {a}
    BY <1>2, <1>5, <2>1, FinishFine
  <2>2. CASE Ensure(a, "tabs")
    BY <1>2, <1>5, <2>2, EnsuresFine
  <2>3. CASE Goto(a, "lockFill") /\ UNCHANGED <<cont, stale>>
    BY <1>3, <1>5, <2>3
  <2>4. CASE cont[a] = "crawl" /\ Goto(a, "fill") /\ UNCHANGED <<cont, stale>>
    BY <1>4, <1>5, <2>4 DEF Keeps, Crawling
  <2>5. QED
    BY <1>5, <2>1, <2>2, <2>3, <2>4 DEF Missing
<1>7. CASE Probe(a)
  BY <1>2, <1>3, <1>7, EnsuresFine DEF Probe
<1>8. CASE TakeLock(a)
  BY <1>2, <1>8, EnsuresFine DEF TakeLock
<1>9. CASE TakeWarm(a) \/ ApiTabOpens(a)
  BY <1>3, <1>9 DEF TakeWarm, ApiTabOpens
<1>10. CASE ApiLoaded(a) \/ Called(a)
  <2>1. stale' = stale \ {a} /\ stale \ {a} \subseteq stale'
    BY <1>10 DEF ApiLoaded, Called
  <2>2. CASE Profile(a, TRUE)
    BY <1>2, <2>1, <2>2, ProfileFine
  <2>3. CASE Finish(a) /\ UNCHANGED reached
    BY <1>2, <2>1, <2>3, FinishFine
  <2>4. CASE \E l \in {"next", "calling"} : Goto(a, l) /\ UNCHANGED <<cont, reached>>
    BY <1>2, <1>3, <2>1, <2>4
  <2>5. QED
    BY <1>10, <2>2, <2>3, <2>4 DEF ApiLoaded, Called
<1>11. CASE GridLoaded(a)
  <2>1. stale' = stale \ {a} /\ stale \ {a} \subseteq stale' /\ reached' = reached
    BY <1>11 DEF GridLoaded
  <2>2. CASE \E k \in {"tabs", "fill"} : Goto(a, "details") /\ cont' = [cont EXCEPT ![a] = k]
    BY <1>1, <1>2, <2>1, <2>2, GoesFree DEF Locked
  <2>3. CASE Finish(a)
    BY <1>2, <2>1, <2>3, FinishFine
  <2>4. CASE Goto(a, "lockCrawl") /\ UNCHANGED cont
    BY <1>2, <1>3, <2>1, <2>4
  <2>5. QED
    BY <1>11, <2>2, <2>3, <2>4 DEF GridLoaded
<1>12. CASE Crawled(a)
  <2>1. reached' = reached /\ pc[a] = "crawl" /\ Keeps(a)
    BY <1>12 DEF Crawled, Keeps, Locked
  <2>2. CASE Finish(a) /\ stale' = stale \ {a}
    BY <1>2, <2>1, <2>2, FinishFine
  <2>3. CASE Goto(a, "details") /\ UNCHANGED <<cont, stale>>
    BY <1>2, <1>4, <2>1, <2>3
  <2>4. QED
    BY <1>12, <2>2, <2>3 DEF Crawled
<1>13. CASE TakeDetails(a)
  <2>1. CASE Goto(a, "reads") /\ UNCHANGED <<cont, stale>>
    <3>1. CASE cont[a] = "crawl"
      BY <1>4, <1>13, <2>1, <3>1 DEF TakeDetails, Keeps, Crawling
    <3>2. CASE cont[a] # "crawl"
      BY <1>2, <1>13, <2>1, <3>2, GoesFree DEF TakeDetails, Locked
    <3>3. QED
      BY <3>1, <3>2
  <2>2. QED
    BY <1>5, <1>13, <2>1 DEF TakeDetails
<1>14. CASE DetailsRead(a)
  BY <1>5, <1>14 DEF DetailsRead
<1>15. CASE Filled(a) \/ TabsRead(a)
  BY <1>2, <1>15, FinishFine DEF Filled, TabsRead
<1>16. QED
  BY <1>2, <1>7, <1>8, <1>9, <1>10, <1>11, <1>12, <1>13, <1>14, <1>15 DEF Pages

\* Past the start lock.
LEMMA LaunchPages ==
    ASSUME AnalyticsAssumption, SessionInv, PageInv, NEW a \in Accounts, Launch(a)
    PROVE  PageInv'
<1>1. /\ ClientOf[a] \in Clients /\ pageOf \in [Clients -> Routes \cup {NoRoute}]
      /\ pw \in [Clients -> Browser] /\ pc \in [Accounts -> Locations]
      /\ pageOf = [pageOf EXCEPT ![ClientOf[a]] = pageOf[ClientOf[a]]]
  BY DEF AnalyticsAssumption, SessionInv, Shapes, PageInv, RouteChosen
<1>2. CASE TakeStart(a)
  <2>1. UNCHANGED <<idx, reached, pw, pageOf>> /\ pc[a] = "start"
    BY <1>2 DEF TakeStart, sessionVars
  <2>2. CASE Ready(a) /\ Enter(a, cont[a])
    BY <2>1, <2>2, EntersFine, PageKept DEF Ready, OnRoute, Route
  <2>3. CASE Goto(a, "launchWait") /\ UNCHANGED <<cont, stale>>
    BY <2>1, <2>3, GoesFree, PageKept DEF Locked
  <2>4. QED
    BY <1>2, <2>2, <2>3 DEF TakeStart
<1>3. CASE TakeLaunch(a)
  <2>1. UNCHANGED <<cont, idx, reached, stale, pageOf>> /\ pc[a] = "launchWait"
    BY <1>3 DEF TakeLaunch
  <2>2. CASE KeepsOld(ClientOf[a]) /\ Boot(a)
    <3>1. pw' = [pw EXCEPT ![ClientOf[a]] = "booting"] /\ pw[ClientOf[a]] = "none"
          /\ Goto(a, "launching")
      BY <2>2 DEF Boot, KeepsOld
    <3>2. Fine(a)
      BY <2>1, <3>1, GoesFree DEF Locked
    <3>3. QED
      BY <1>1, <2>1, <3>1, <3>2, PageRenewed
  <2>3. CASE Goto(a, "closing") /\ Ending(ClientOf[a])
    <3>1. Fine(a)
      BY <2>1, <2>3, GoesFree DEF Locked
    <3>2. QED
      BY <1>1, <2>1, <2>3, <3>1, PageEnding
  <2>4. QED
    BY <1>3, <2>2, <2>3 DEF TakeLaunch
<1>4. CASE Closed(a)
  <2>1. /\ pw' = [pw EXCEPT ![ClientOf[a]] = "booting"]
        /\ stale' = stale \cup HasPage(ClientOf[a])
        /\ Goto(a, "launching") /\ UNCHANGED <<cont, idx, reached>> /\ pc[a] = "closing"
        /\ pageOf' = [pageOf EXCEPT ![ClientOf[a]] = NoRoute]
    BY <1>4 DEF Closed, Boot, Reset
  <2>2. Fine(a)
    BY <2>1, GoesFree DEF Locked
  <2>3. QED
    BY <2>1, <2>2, PageRenewed
<1>5. CASE Launched(a)
  <2>1. /\ pw' = [pw EXCEPT ![ClientOf[a]] = "paging"] /\ pw[ClientOf[a]] = "booting"
        /\ Goto(a, "paging") /\ UNCHANGED <<cont, idx, reached, stale, pageOf>> /\ pc[a] = "launching"
    BY <1>5 DEF Launched, SessionInv, StarterKnows
  <2>2. Fine(a)
    BY <2>1, GoesFree DEF Locked
  <2>3. QED
    BY <1>1, <2>1, <2>2, PageRenewed
<1>6. CASE Opened(a)
  <2>1. /\ pw' = [pw EXCEPT ![ClientOf[a]] = "up"] /\ pw[ClientOf[a]] = "paging"
        /\ Enter(a, cont[a]) /\ UNCHANGED <<idx, reached>> /\ pc[a] = "paging"
        /\ pageOf' = [pageOf EXCEPT ![ClientOf[a]] = Route(a)]
    BY <1>6 DEF Opened, SessionInv, StarterKnows
  <2>2. OnRoute(a)'
    BY <1>1, <2>1 DEF OnRoute, Route
  <2>3. Route(a) \in Routes
    <3>1. idx[a] \in 1..Len(RoutesOf[a]) /\ RoutesOf[a] \in Seq(Routes)
      BY <2>1 DEF AnalyticsAssumption, PageInv, RouteChosen
    <3>2. QED
      BY <3>1 DEF Route
  <2>4. Fine(a)
    BY <2>1, <2>2, EntersFine
  <2>5. QED
    BY <2>1, <2>3, <2>4, PageRenewed
<1>7. CASE LaunchFails(a)
  <2>1. UNCHANGED <<cont, idx, reached, stale, pageOf>> /\ Goto(a, "failing") /\ Ending(ClientOf[a])
        /\ pc[a] \in Starting
    BY <1>7 DEF LaunchFails, Starting
  <2>2. Fine(a)
    BY <2>1, GoesFree DEF Locked, Starting
  <2>3. QED
    BY <1>1, <2>1, <2>2, PageEnding
<1>8. CASE Raised(a)
  <2>1. /\ pw' = [pw EXCEPT ![ClientOf[a]] = "none"] /\ pc[a] = "failing"
        /\ stale' = stale \cup HasPage(ClientOf[a])
        /\ pageOf' = [pageOf EXCEPT ![ClientOf[a]] = NoRoute]
    BY <1>8 DEF Raised, Reset
  <2>2. Fine(a)
    <3>1. CASE Goto(a, "next") /\ UNCHANGED <<cont, idx, reached>>
      BY <2>1, <3>1, GoesFree DEF Locked
    <3>2. CASE NextBrowser(a)
      BY <2>1, <3>2, NextBrowserFine
    <3>3. CASE Finish(a) /\ UNCHANGED <<idx, reached>>
      BY <2>1, <3>3, FinishFine
    <3>4. QED
      BY <1>8, <3>1, <3>2, <3>3 DEF Raised
  <2>3. QED
    BY <2>1, <2>2, PageRenewed
<1>9. QED
  BY <1>2, <1>3, <1>4, <1>5, <1>6, <1>7, <1>8 DEF Launch

\* The readers of the detail tabs keep no page of their account.
LEMMA ReaderPages ==
    ASSUME SessionInv, PageInv, ReadersAwaited, NEW r \in Readers, Reader(r)
    PROVE  PageInv'
<1>1. UNCHANGED <<idx, reached, stale, pw, pageOf>>
  BY DEF Reader, Borrow, TabOpens, TabFails, Return, workVars, sessionVars
<1>2. CASE UNCHANGED <<pc, cont>>
  BY <1>1, <1>2 DEF PageInv, KeptOnRoute, RouteChosen, Keeps, Crawling, OnRoute, Route
<1>3. CASE Raises(r) /\ rpc[r] # "none" /\ r \notin left
  <2>1. owner[r] \in Accounts /\ pc[owner[r]] = "tabs" /\ Finish(owner[r])
    BY <1>3 DEF Raises, ReadersAwaited
  <2>2. Fine(owner[r])
    BY <1>1, <2>1, FinishFine
  <2>3. QED
    BY <1>1, <2>1, <2>2, PageKept
<1>4. QED
  BY <1>2, <1>3 DEF Reader, Borrow, TabOpens, TabFails, Return, Raises, workVars

LEMMA PageStep == SessionInv /\ PageInv /\ ReadersAwaited /\ BatchRuns /\ [Next]_vars => PageInv'
<1> SUFFICES ASSUME SessionInv, PageInv, ReadersAwaited, BatchRuns, [Next]_vars PROVE PageInv'
  OBVIOUS
<1> USE AnalyticsAssumption
<1>1. ASSUME UNCHANGED <<pc, cont, idx, reached, stale, pw, pageOf>> PROVE PageInv'
  BY <1>1 DEF PageInv, KeptOnRoute, RouteChosen, Keeps, Crawling, OnRoute, Route
<1>2. ASSUME NEW a \in Accounts, Worker(a) \/ AfterDriver(a) PROVE PageInv'
  BY <1>2, CoroutineSteps, RowsFine, PagesFine, PageKept, LaunchPages
<1>3. ASSUME NEW r \in Readers, Borrow(r) \/ TabAfterDriver(r) PROVE PageInv'
  BY <1>3, ReaderSteps, ReaderPages
<1>4. ASSUME NEW c \in Clients, CloserTakes(c) PROVE PageInv'
  <2>1. UNCHANGED <<pc, cont, idx, reached, stale, pageOf>>
    BY <1>4 DEF CloserTakes, workVars
  <2>2. CASE UNCHANGED pw
    BY <1>1, <2>1, <2>2
  <2>3. CASE Ending(c)
    <3>1. \A b \in Accounts : OnRoute(b) => pw'[ClientOf[b]] \in {"up", "ending"}
      BY <2>3 DEF Ending, HasBrowser, OnRoute, SessionInv, Shapes
    <3>2. QED
      BY <2>1, <3>1 DEF PageInv, KeptOnRoute, RouteChosen, Keeps, Crawling, OnRoute, Route
  <2>4. QED
    BY <1>4, <2>2, <2>3 DEF CloserTakes
<1>5. ASSUME NEW c \in Clients, CloserEnds(c) PROVE PageInv'
  <2>1. /\ pw' = [pw EXCEPT ![c] = "none"] /\ stale' = stale \cup HasPage(c)
        /\ pageOf' = [pageOf EXCEPT ![c] = NoRoute] /\ UNCHANGED <<pc, cont, idx, reached>>
    BY <1>5 DEF CloserEnds, Reset
  <2>2. QED
    BY <2>1, PageCut
<1>6. ASSUME NEW c \in Clients, PagesClose(c) \/ Crash(c) PROVE PageInv'
  <2>1. /\ pw' = [pw EXCEPT ![c] = "gone"] /\ stale \cup HasPage(c) \subseteq stale'
        /\ pageOf' = pageOf /\ UNCHANGED <<pc, cont, idx, reached>>
    BY <1>6 DEF PagesClose, Crash, Cut
  <2>2. pageOf' = [pageOf EXCEPT ![c] = pageOf[c]] /\ pageOf[c] \in Routes \cup {NoRoute}
    BY <2>1 DEF PageInv, RouteChosen
  <2>3. QED
    BY <2>1, <2>2, PageCut
<1>7. CASE StartBatch
  <2>1. UNCHANGED <<cont, idx, reached, stale, pw, pageOf>>
        /\ \A b \in Accounts : pc'[b] = pc[b] \/ pc'[b] = "begin"
    BY <1>7 DEF StartBatch, sessionVars
  <2>2. \A b \in Accounts : pc[b] = "over"
    BY <1>7 DEF StartBatch, BatchRuns
  <2>3. QED
    BY <2>1, <2>2 DEF PageInv, KeptOnRoute, RouteChosen, Keeps, Crawling, OnRoute, Route, Locked
<1>8. CASE \/ (\E a \in Accounts : Sell(a)) \/ (\E c \in Clients : TemplateSeen(c))
           \/ EndBatch \/ Shutdown \/ UNCHANGED vars
  BY <1>1, <1>8 DEF Sell, TemplateSeen, EndBatch, Shutdown, vars, workVars, sessionVars
<1>9. QED
  BY <1>2, <1>3, <1>4, <1>5, <1>6, <1>7, <1>8 DEF Next, Closer

-----------------------------------------------------------------------------
(* The detail tabs.  A permit is lent to a reader and comes back with its  *)
(* tab or its error; what else happens to an account leaves alone the      *)
(* readers that hold one.                                                  *)

Usable(c) == {r \in Lent(c) : rpc[r] \in {"opening", "reading"}}
TabTypes == free \in [Clients -> Int] /\ idle \in [Clients -> Nat]
TabInv == ReadersAwaited /\ BatchRuns /\ TabTypes /\ TabsBounded

\* Sets of readers are finite.
LEMMA LentFinite ==
    ASSUME NEW c
    PROVE  /\ IsFiniteSet(Lent(c)) /\ Cardinality(Lent(c)) \in Nat
           /\ IsFiniteSet(Usable(c)) /\ Cardinality(Usable(c)) \in Nat
           /\ Cardinality(Usable(c)) <= Cardinality(Lent(c))
<1>1. Lent(c) \subseteq Readers /\ Usable(c) \subseteq Lent(c)
  BY DEF Lent, Usable
<1>2. IsFiniteSet(Lent(c))
  BY <1>1, FS_Subset, AnalyticsAssumption
<1>3. IsFiniteSet(Usable(c)) /\ Cardinality(Usable(c)) <= Cardinality(Lent(c))
  BY <1>1, <1>2, FS_Subset
<1>4. QED
  BY <1>2, <1>3, FS_CardinalityType

\* Idle tabs may be closed or forgotten.
IdleKept == idle' \in [Clients -> Nat] /\ \A c \in Clients : idle'[c] <= idle[c]

LEMMA ResetIdle == ASSUME TabTypes, NEW c, Reset(c) PROVE IdleKept
<1>1. idle \in [Clients -> Nat] /\ idle' = [idle EXCEPT ![c] = 0]
  BY DEF Reset, TabTypes
<1>2. idle' \in [Clients -> Nat] /\ \A d \in Clients : idle'[d] = idle[d] \/ idle'[d] = 0
  BY <1>1
<1>3. QED
  BY <1>1, <1>2 DEF IdleKept

\* A step that lends no tab and takes none back.
LEMMA TabsSame ==
    ASSUME TabTypes, TabsBounded, free' = free, IdleKept,
           \A r \in Readers :
               \/ {rpc[r], rpc'[r]} \subseteq {"none", "wait"}
               \/ /\ owner'[r] = owner[r]
                  /\ rpc'[r] = rpc[r] \/ (rpc[r] = "opening" /\ rpc'[r] = "reading")
    PROVE  TabTypes' /\ TabsBounded'
<1>1. ASSUME NEW c \in Clients PROVE Lent(c)' = Lent(c) /\ Usable(c)' = Usable(c)
  BY DEF Lent, Usable
<1>2. ASSUME NEW c \in Clients
      PROVE  free'[c] + Cardinality(Lent(c)') = Tabs /\ idle'[c] + Cardinality(Usable(c)') <= Tabs
  <2>1. free[c] + Cardinality(Lent(c)) = Tabs /\ idle[c] + Cardinality(Usable(c)) <= Tabs
    BY DEF TabsBounded, Usable
  <2>2. /\ idle'[c] \in Nat /\ idle[c] \in Nat /\ idle'[c] <= idle[c]
        /\ Cardinality(Usable(c)) \in Nat /\ Tabs \in Nat
    BY LentFinite, AnalyticsAssumption DEF IdleKept, TabTypes
  <2>3. QED
    BY <1>1, <2>1, <2>2
<1>3. QED
  BY <1>2 DEF TabTypes, TabsBounded, Usable, IdleKept

\* The coroutine of a goes somewhere; readers it has assigned start where it waits for
\* them, and those that have not started may be taken from it.
Assigns(a) ==
    /\ \A b \in Accounts \ {a} : pc'[b] = pc[b]
    /\ pc[a] = "tabs" => {r \in Readers : owner[r] = a} \subseteq left
    /\ UNCHANGED <<free, left>> /\ IdleKept
    /\ rpc' \in [Readers -> ReaderStates] /\ owner' \in [Readers -> Accounts \cup {NoAccount}]
    /\ \A r \in Readers :
           /\ owner'[r] = owner[r] \/ (rpc[r] = "none" /\ owner'[r] \in {a, NoAccount})
           /\ \/ rpc'[r] = rpc[r]
              \/ rpc[r] = "none" /\ rpc'[r] = "wait" /\ owner'[r] = a /\ pc'[a] = "tabs"

LEMMA AssignKeeps ==
    ASSUME TabInv, NEW a \in Accounts, Assigns(a)
    PROVE  ReadersAwaited' /\ TabTypes' /\ TabsBounded'
<1> USE DEF Assigns
<1>1. TabTypes' /\ TabsBounded'
  <2>1. \A r \in Readers : \/ {rpc[r], rpc'[r]} \subseteq {"none", "wait"}
                           \/ owner'[r] = owner[r] /\ rpc'[r] = rpc[r]
    OBVIOUS
  <2>2. QED
    BY <2>1, TabsSame DEF TabInv
<1>2. ASSUME NEW r \in Readers, rpc'[r] # "none"
      PROVE  owner'[r] \in Accounts /\ (r \in left' \/ pc'[owner'[r]] = "tabs")
  <2>1. CASE rpc[r] = "none"
    BY <1>2, <2>1
  <2>2. CASE rpc[r] # "none"
    <3>1. /\ owner'[r] = owner[r] /\ owner[r] \in Accounts
          /\ r \in left \/ pc[owner[r]] = "tabs"
      BY <2>2 DEF TabInv, ReadersAwaited
    <3>2. QED
      BY <3>1
  <2>3. QED
    BY <2>1, <2>2
<1>3. QED
  BY <1>1, <1>2 DEF ReadersAwaited

\* Closing a browser takes its tabs, but no permit: those who hold one give it back later.
LEMMA TabsCut ==
    ASSUME TabInv, NEW c \in Clients, Cut(c), UNCHANGED <<pc, free, owner, left>>
    PROVE  ReadersAwaited' /\ TabTypes' /\ TabsBounded'
<1>1. /\ rpc' \in [Readers -> ReaderStates]
      /\ \A r \in Readers : /\ (rpc'[r] = "none") <=> (rpc[r] = "none")
                            /\ (rpc'[r] = "wait") <=> (rpc[r] = "wait")
                            /\ owner[r] \notin Of(c) => rpc'[r] = rpc[r]
                            /\ owner[r] \in Of(c) => rpc'[r] \notin {"opening", "reading"}
  BY DEF Cut, TabInv, ReadersAwaited, ReaderStates
<1>2. idle' = [idle EXCEPT ![c] = 0]
  BY DEF Cut
<1>3. ReadersAwaited'
  BY <1>1 DEF TabInv, ReadersAwaited
<1>4. TabTypes'
  BY <1>2 DEF TabInv, TabTypes
<1>5. ASSUME NEW d \in Clients PROVE Lent(d)' = Lent(d)
  BY <1>1 DEF Lent, Of
<1>6. Usable(c)' = {}
  BY <1>1 DEF Usable, Lent, Of
<1>7. ASSUME NEW d \in Clients \ {c} PROVE Usable(d)' = Usable(d) /\ idle'[d] = idle[d]
  BY <1>1, <1>2 DEF Usable, Lent, Of, TabInv, TabTypes
<1>8. ASSUME NEW d \in Clients PROVE idle'[d] + Cardinality(Usable(d)') <= Tabs
  <2>1. CASE d = c
    <3>1. idle'[c] = 0
      BY <1>2 DEF TabInv, TabTypes
    <3>2. Cardinality({}) = 0 /\ 0 <= Tabs
      BY FS_EmptySet, AnalyticsAssumption
    <3>3. QED
      BY <1>6, <2>1, <3>1, <3>2
  <2>2. CASE d # c
    BY <1>7, <2>2 DEF TabInv, TabsBounded, Usable
  <2>3. QED
    BY <2>1, <2>2
<1>9. TabsBounded'
  BY <1>5, <1>8 DEF TabInv, TabsBounded, Usable
<1>10. QED
  BY <1>3, <1>4, <1>9

\* One more tab of c is lent, or one less: the numbers that must come out.
LEMMA TabsRecount ==
    ASSUME TabInv, NEW c \in Clients, TabTypes',
           \A d \in Clients \ {c} : /\ Lent(d)' = Lent(d) /\ Usable(d)' = Usable(d)
                                    /\ free'[d] = free[d] /\ idle'[d] = idle[d],
           free'[c] + Cardinality(Lent(c)') = Tabs,
           idle'[c] + Cardinality(Usable(c)') <= Tabs
    PROVE  TabsBounded'
<1>1. ASSUME NEW d \in Clients
      PROVE  /\ free'[d] + Cardinality(Lent(d)') = Tabs
             /\ idle'[d] + Cardinality(Usable(d)') <= Tabs
  <2>1. CASE d = c
    BY <2>1
  <2>2. CASE d # c
    <3>1. free[d] + Cardinality(Lent(d)) = Tabs /\ idle[d] + Cardinality(Usable(d)) <= Tabs
      BY DEF TabInv, TabsBounded, Usable
    <3>2. /\ Lent(d)' = Lent(d) /\ Usable(d)' = Usable(d)
          /\ free'[d] = free[d] /\ idle'[d] = idle[d]
      BY <2>2
    <3>3. QED
      BY <3>1, <3>2
  <2>3. QED
    BY <2>1, <2>2
<1>2. QED
  BY <1>1 DEF TabsBounded, Usable

\* A reader that has its permit: it has a tab, or opens one, or asks a browser that is gone.
LEMMA Borrows ==
    ASSUME TabInv, NEW r \in Readers, Borrow(r), ~Raises(r)
    PROVE  TabInv'
<1>1. PICK c \in Clients : c = ClientOf[owner[r]]
  BY AnalyticsAssumption DEF Borrow, TabInv, ReadersAwaited
<1>2. /\ rpc[r] = "wait" /\ free[c] > 0 /\ free' = [free EXCEPT ![c] = @ - 1]
      /\ UNCHANGED <<pc, owner, left, running>>
  BY <1>1 DEF Borrow, batchVars
<1>3. PICK m \in {"opening", "openingCut", "reading"} :
          /\ rpc' = [rpc EXCEPT ![r] = m]
          /\ IF m = "reading" THEN idle[c] > 0 /\ idle' = [idle EXCEPT ![c] = @ - 1]
             ELSE ~(idle[c] > 0) /\ idle' = idle
  BY <1>1 DEF Borrow, TakesIdle
<1>4. owner[r] \in Accounts /\ (r \in left \/ pc[owner[r]] = "tabs")
  BY <1>2 DEF TabInv, ReadersAwaited
<1>5. owner[r] \in Of(c) /\ \A d \in Clients \ {c} : owner[r] \notin Of(d)
  BY <1>1, <1>4 DEF Of
<1>6. /\ rpc' \in [Readers -> ReaderStates] /\ rpc'[r] = m
      /\ \A q \in Readers \ {r} : rpc'[q] = rpc[q]
  BY <1>3 DEF TabInv, ReadersAwaited, ReaderStates
<1>7. ReadersAwaited' /\ BatchRuns'
  BY <1>2, <1>4, <1>6 DEF TabInv, ReadersAwaited, BatchRuns
<1>8. /\ TabTypes' /\ free[c] \in Int /\ idle[c] \in Nat /\ free'[c] = free[c] - 1
      /\ idle'[c] = IF m = "reading" THEN idle[c] - 1 ELSE idle[c]
      /\ m = "reading" <=> idle[c] > 0
      /\ \A d \in Clients \ {c} : free'[d] = free[d] /\ idle'[d] = idle[d]
  BY <1>2, <1>3 DEF TabInv, TabTypes
<1>9. r \notin Lent(c) /\ r \notin Usable(c)
  BY <1>2 DEF Lent, Usable
<1>10. /\ Lent(c)' = Lent(c) \cup {r}
       /\ Usable(c)' = IF m = "openingCut" THEN Usable(c) ELSE Usable(c) \cup {r}
  <2>1. owner[r] \in Of(c) /\ Of(c)' = Of(c)
    BY <1>5 DEF Of
  <2>2. Lent(c)' = Lent(c) \cup {r}
    BY <1>2, <1>6, <2>1 DEF Lent
  <2>3. Lent(c) \subseteq Readers
    BY DEF Lent
  <2>4. QED
    BY <1>6, <1>9, <2>2, <2>3 DEF Usable
<1>11. ASSUME NEW d \in Clients \ {c} PROVE Lent(d)' = Lent(d) /\ Usable(d)' = Usable(d)
  <2>1. owner[r] \notin Of(d) /\ Of(d)' = Of(d)
    BY <1>5 DEF Of
  <2>2. Lent(d)' = Lent(d)
    BY <1>2, <1>6, <2>1 DEF Lent
  <2>3. r \notin Lent(d) /\ Lent(d) \subseteq Readers
    BY <2>1 DEF Lent
  <2>4. QED
    BY <1>6, <2>2, <2>3 DEF Usable
<1>12. /\ Cardinality(Lent(c)') = Cardinality(Lent(c)) + 1
       /\ Cardinality(Usable(c)') \in {Cardinality(Usable(c)), Cardinality(Usable(c)) + 1}
  BY <1>9, <1>10, LentFinite, FS_AddElement
<1>13. free[c] + Cardinality(Lent(c)) = Tabs /\ idle[c] + Cardinality(Usable(c)) <= Tabs
  BY <1>4 DEF TabInv, TabsBounded, Usable
<1>14. /\ Cardinality(Lent(c)) \in Nat /\ Cardinality(Usable(c)) \in Nat /\ Tabs \in Nat
       /\ Cardinality(Usable(c)) <= Cardinality(Lent(c))
  BY LentFinite, AnalyticsAssumption
<1>15. free'[c] + Cardinality(Lent(c)') = Tabs
  BY <1>8, <1>12, <1>13, <1>14
<1>16. idle'[c] + Cardinality(Usable(c)') <= Tabs
  <2>1. Cardinality(Usable(c)') <= Cardinality(Usable(c)) + 1 /\ Cardinality(Usable(c)') \in Nat
    BY <1>12, <1>14
  <2>2. CASE idle[c] > 0
    BY <1>8, <1>13, <1>14, <2>1, <2>2
  <2>3. CASE ~(idle[c] > 0)
    BY <1>2, <1>8, <1>13, <1>14, <2>1, <2>3
  <2>4. QED
    BY <2>2, <2>3
<1>17. \A d \in Clients \ {c} : /\ Lent(d)' = Lent(d) /\ Usable(d)' = Usable(d)
                                /\ free'[d] = free[d] /\ idle'[d] = idle[d]
  BY <1>8, <1>11
<1>18. TabsBounded'
  BY <1>8, <1>15, <1>16, <1>17, TabsRecount
<1>19. QED
  BY <1>7, <1>8, <1>18 DEF TabInv

\* A reader that ends is gone from the lent ones, and from no others.
LEMMA ReaderLeaves ==
    ASSUME TabInv, NEW r \in Readers, rpc[r] # "none",
           rpc' = [rpc EXCEPT ![r] = "none"], owner' = [owner EXCEPT ![r] = NoAccount]
    PROVE  /\ \A d \in Clients : Lent(d)' = Lent(d) \ {r} /\ Usable(d)' = Usable(d) \ {r}
           /\ rpc' \in [Readers -> ReaderStates] /\ owner' \in [Readers -> Accounts \cup {NoAccount}]
           /\ rpc'[r] = "none"
           /\ \A q \in Readers \ {r} : rpc'[q] = rpc[q] /\ owner'[q] = owner[q]
<1>1. /\ rpc' \in [Readers -> ReaderStates] /\ owner' \in [Readers -> Accounts \cup {NoAccount}]
      /\ rpc'[r] = "none"
      /\ \A q \in Readers \ {r} : rpc'[q] = rpc[q] /\ owner'[q] = owner[q]
  BY DEF TabInv, ReadersAwaited, ReaderStates
<1>2. ASSUME NEW d \in Clients PROVE Lent(d)' = Lent(d) \ {r} /\ Usable(d)' = Usable(d) \ {r}
  BY <1>1 DEF Lent, Usable, Of
<1>3. QED
  BY <1>1, <1>2

\* Its gather, if it still waits, goes on without the others.
LEMMA RaisesAwaited ==
    ASSUME Shapes, TabInv, NEW r \in Readers, rpc[r] # "none", Raises(r), UNCHANGED running
    PROVE  ReadersAwaited' /\ BatchRuns'
<1>1. /\ rpc' = [rpc EXCEPT ![r] = "none"] /\ owner' = [owner EXCEPT ![r] = NoAccount]
  BY DEF Raises
<1>2. owner[r] \in Accounts /\ (r \in left \/ pc[owner[r]] = "tabs")
  BY DEF TabInv, ReadersAwaited
<1>3. CASE r \in left
  <2>1. left' = left \ {r} /\ pc' = pc
    BY <1>3 DEF Raises
  <2>2. QED
    BY <1>1, <2>1, ReaderLeaves DEF TabInv, ReadersAwaited, BatchRuns
<1>4. CASE r \notin left
  <2>1. /\ left' = left \cup {q \in Readers \ {r} : owner[q] = owner[r]}
        /\ pc' = [pc EXCEPT ![owner[r]] = "write"] /\ pc[owner[r]] = "tabs"
    BY <1>2, <1>4 DEF Raises, Finish, Goto
  <2>2. \A b \in Accounts \ {owner[r]} : pc'[b] = pc[b]
    BY <2>1 DEF Shapes
  <2>3. ASSUME NEW q \in Readers, rpc'[q] # "none"
        PROVE  owner'[q] \in Accounts /\ (q \in left' \/ pc'[owner'[q]] = "tabs")
    <3>1. q # r /\ rpc[q] # "none" /\ owner'[q] = owner[q]
      BY <1>1, <2>3, ReaderLeaves
    <3>2. owner[q] \in Accounts /\ (q \in left \/ pc[owner[q]] = "tabs")
      BY <3>1 DEF TabInv, ReadersAwaited
    <3>3. QED
      BY <2>1, <2>2, <3>1, <3>2
  <2>4. running
    BY <1>2, <2>1 DEF TabInv, BatchRuns
  <2>5. QED
    BY <1>1, <2>3, <2>4, ReaderLeaves DEF ReadersAwaited, BatchRuns
<1>5. QED
  BY <1>3, <1>4

\* A permit comes back; with a usable tab the tab is idle again.
LEMMA GivesBack ==
    ASSUME TabInv, NEW r \in Readers, rpc[r] \notin {"none", "wait"},
           rpc' = [rpc EXCEPT ![r] = "none"], owner' = [owner EXCEPT ![r] = NoAccount],
           free' = [free EXCEPT ![ClientOf[owner[r]]] = @ + 1],
           \/ idle' = idle
           \/ rpc[r] = "reading" /\ idle' = [idle EXCEPT ![ClientOf[owner[r]]] = @ + 1]
    PROVE  TabTypes' /\ TabsBounded'
<1>0. PICK c \in Clients : c = ClientOf[owner[r]]
  BY AnalyticsAssumption DEF TabInv, ReadersAwaited
<1>1. owner[r] \in Accounts
  BY DEF TabInv, ReadersAwaited
<1>2. owner[r] \in Of(c) /\ \A d \in Clients \ {c} : owner[r] \notin Of(d)
  BY <1>1, <1>0 DEF Of
<1>3. /\ free' = [free EXCEPT ![c] = @ + 1]
      /\ idle' = idle \/ (rpc[r] = "reading" /\ idle' = [idle EXCEPT ![c] = @ + 1])
  BY <1>0
<1>4. /\ TabTypes' /\ free[c] \in Int /\ idle[c] \in Nat /\ free'[c] = free[c] + 1
      /\ idle'[c] = idle[c] \/ (rpc[r] = "reading" /\ idle'[c] = idle[c] + 1)
      /\ \A d \in Clients \ {c} : free'[d] = free[d] /\ idle'[d] = idle[d]
  BY <1>1, <1>3 DEF TabInv, TabTypes
<1>5. r \in Lent(c) /\ (rpc[r] = "reading" => r \in Usable(c))
  BY <1>2 DEF Lent, Usable
<1>6. \A d \in Clients \ {c} : r \notin Lent(d) /\ r \notin Usable(d)
  BY <1>2 DEF Lent, Usable
<1>7. \A d \in Clients : Lent(d)' = Lent(d) \ {r} /\ Usable(d)' = Usable(d) \ {r}
  BY ReaderLeaves
<1>8. ASSUME NEW d \in Clients \ {c} PROVE Lent(d)' = Lent(d) /\ Usable(d)' = Usable(d)
  <2>1. r \notin Lent(d) /\ r \notin Usable(d)
    BY <1>6
  <2>2. Lent(d)' = Lent(d) \ {r} /\ Usable(d)' = Usable(d) \ {r}
    BY <1>7
  <2>3. QED
    BY <2>1, <2>2
<1>9. /\ Cardinality(Lent(c)') = Cardinality(Lent(c)) - 1
      /\ Cardinality(Usable(c)') = IF r \in Usable(c) THEN Cardinality(Usable(c)) - 1
                                                     ELSE Cardinality(Usable(c))
  <2>1. IsFiniteSet(Lent(c)) /\ IsFiniteSet(Usable(c))
    BY LentFinite
  <2>2. /\ Cardinality(Lent(c) \ {r}) = Cardinality(Lent(c)) - 1
        /\ Cardinality(Usable(c) \ {r}) = IF r \in Usable(c) THEN Cardinality(Usable(c)) - 1
                                                           ELSE Cardinality(Usable(c))
    BY <1>5, <2>1, FS_RemoveElement
  <2>3. Lent(c)' = Lent(c) \ {r} /\ Usable(c)' = Usable(c) \ {r}
    BY <1>1, <1>7
  <2>4. QED
    BY <2>2, <2>3
<1>10. free[c] + Cardinality(Lent(c)) = Tabs /\ idle[c] + Cardinality(Usable(c)) <= Tabs
  BY <1>1 DEF TabInv, TabsBounded, Usable
<1>11. Cardinality(Lent(c)) \in Nat /\ Cardinality(Usable(c)) \in Nat /\ Tabs \in Nat
  BY LentFinite, AnalyticsAssumption
<1>12. free'[c] + Cardinality(Lent(c)') = Tabs
  BY <1>4, <1>9, <1>10, <1>11
<1>13. idle'[c] + Cardinality(Usable(c)') <= Tabs
  BY <1>4, <1>5, <1>9, <1>10, <1>11
<1>14. \A d \in Clients \ {c} : /\ Lent(d)' = Lent(d) /\ Usable(d)' = Usable(d)
                                /\ free'[d] = free[d] /\ idle'[d] = idle[d]
  BY <1>4, <1>8
<1>15. TabsBounded'
  BY <1>1, <1>4, <1>12, <1>13, <1>14, TabsRecount
<1>16. QED
  BY <1>4, <1>15

\* The readers, whatever becomes of their tabs.
LEMMA ReaderTabs ==
    ASSUME Shapes, TabInv, NEW r \in Readers, Reader(r)
    PROVE  TabInv'
<1>1. CASE Borrow(r)
  <2>1. CASE ~Raises(r)
    BY <1>1, <2>1, Borrows
  <2>2. CASE Raises(r)
    <3>1. rpc[r] = "wait" /\ UNCHANGED <<free, idle, running>> /\ IdleKept
      <4>1. rpc[r] = "wait" /\ rpc'[r] = "none"
        BY <1>1, <2>2 DEF Borrow, Raises, TabInv, ReadersAwaited
      <4>2. UNCHANGED <<free, idle, running>>
        BY <1>1, <4>1 DEF Borrow, batchVars, TabInv, ReadersAwaited
      <4>3. QED
        BY <4>1, <4>2 DEF IdleKept, TabInv, TabTypes
    <3>2. \A q \in Readers : \/ {rpc[q], rpc'[q]} \subseteq {"none", "wait"}
                             \/ owner'[q] = owner[q] /\ rpc'[q] = rpc[q]
      BY <2>2, <3>1, ReaderLeaves DEF Raises
    <3>3. TabTypes' /\ TabsBounded'
      BY <3>1, <3>2, TabsSame DEF TabInv
    <3>4. QED
      BY <2>2, <3>1, <3>3, RaisesAwaited DEF TabInv
  <2>3. QED
    BY <2>1, <2>2
<1>2. CASE TabOpens(r)
  <2>1. /\ rpc[r] = "opening" /\ rpc' = [rpc EXCEPT ![r] = "reading"]
        /\ UNCHANGED <<free, idle, owner, left, pc, running>>
    BY <1>2 DEF TabOpens, workVars, sessionVars, batchVars
  <2>2. /\ rpc' \in [Readers -> ReaderStates] /\ rpc'[r] = "reading"
        /\ \A q \in Readers \ {r} : rpc'[q] = rpc[q]
    BY <2>1 DEF TabInv, ReadersAwaited, ReaderStates
  <2>3. ReadersAwaited' /\ BatchRuns'
    BY <2>1, <2>2 DEF TabInv, ReadersAwaited, BatchRuns
  <2>4. TabTypes' /\ TabsBounded'
    <3>1. IdleKept
      BY <2>1 DEF IdleKept, TabInv, TabTypes
    <3>2. QED
      BY <2>1, <2>2, <3>1, TabsSame DEF TabInv
  <2>5. QED
    BY <2>3, <2>4 DEF TabInv
<1>3. CASE TabFails(r)
  <2>1. /\ rpc[r] \in {"opening", "openingCut"} /\ Raises(r) /\ UNCHANGED <<idle, running>>
        /\ free' = [free EXCEPT ![ClientOf[owner[r]]] = free[ClientOf[owner[r]]] + 1]
    BY <1>3 DEF TabFails, PermitsAfterError, sessionVars, batchVars
  <2>2. rpc' = [rpc EXCEPT ![r] = "none"] /\ owner' = [owner EXCEPT ![r] = NoAccount]
    BY <2>1 DEF Raises
  <2>3. TabTypes' /\ TabsBounded'
    BY <2>1, <2>2, GivesBack
  <2>4. QED
    BY <2>1, <2>3, RaisesAwaited DEF TabInv
<1>4. CASE Return(r)
  <2>1. /\ rpc[r] \in {"reading", "readingCut"} /\ UNCHANGED <<pc, running>> /\ left' = left \ {r}
        /\ rpc' = [rpc EXCEPT ![r] = "none"] /\ owner' = [owner EXCEPT ![r] = NoAccount]
        /\ free' = [free EXCEPT ![ClientOf[owner[r]]] = @ + 1]
        /\ idle' = [idle EXCEPT ![ClientOf[owner[r]]] = IF rpc[r] = "reading" THEN @ + 1 ELSE @]
    BY <1>4 DEF Return, workVars, batchVars
  <2>2. \/ idle' = idle
        \/ rpc[r] = "reading" /\ idle' = [idle EXCEPT ![ClientOf[owner[r]]] = @ + 1]
    BY <2>1 DEF TabInv, TabTypes
  <2>3. TabTypes' /\ TabsBounded'
    BY <2>1, <2>2, GivesBack
  <2>4. ReadersAwaited' /\ BatchRuns'
    BY <2>1, ReaderLeaves DEF TabInv, ReadersAwaited, BatchRuns
  <2>5. QED
    BY <2>3, <2>4 DEF TabInv
<1>5. QED
  BY <1>1, <1>2, <1>3, <1>4 DEF Reader

\* A step of a coroutine that has nothing to do with readers.
LEMMA LeavesReaders ==
    ASSUME Shapes, TabInv, NEW a \in Accounts, pc' = pc \/ \E l : Goto(a, l), pc[a] # "tabs",
           IdleKept, UNCHANGED readVars
    PROVE  Assigns(a)
  BY DEF Assigns, Goto, Shapes, TabInv, ReadersAwaited, readVars

\* _ensure_page, entered with or without readers for the missing pages.
LEMMA EnsureAssigns ==
    ASSUME Shapes, TabInv, NEW a \in Accounts, NEW k, pc[a] # "tabs",
           Enter(a, k) \/ (Goto(a, "start") /\ UNCHANGED rpc) \/ (Goto(a, "launchWait") /\ UNCHANGED rpc),
           IdleKept, UNCHANGED <<free, left>>,
           \/ owner' = owner
           \/ \E R \in SUBSET {r \in Readers : owner[r] = NoAccount} :
                  owner' = [r \in Readers |-> IF r \in R THEN a ELSE owner[r]]
    PROVE  Assigns(a)
<1>1. /\ owner \in [Readers -> Accounts \cup {NoAccount}] /\ rpc \in [Readers -> ReaderStates]
      /\ \A r \in Readers : owner[r] = NoAccount => rpc[r] = "none"
  BY AnalyticsAssumption DEF TabInv, ReadersAwaited
<1>2. /\ owner' \in [Readers -> Accounts \cup {NoAccount}]
      /\ \A r \in Readers : owner'[r] = owner[r] \/ (rpc[r] = "none" /\ owner'[r] \in {a, NoAccount})
  BY <1>1
<1>3. /\ \A b \in Accounts \ {a} : pc'[b] = pc[b]
      /\ k = "tabs" /\ Enter(a, k) => pc'[a] = "tabs"
  BY DEF Enter, Goto, Shapes
<1>4. /\ rpc' \in [Readers -> ReaderStates]
      /\ \A r \in Readers :
             \/ rpc'[r] = rpc[r]
             \/ rpc[r] = "none" /\ rpc'[r] = "wait" /\ owner'[r] = a /\ pc'[a] = "tabs"
  <2>1. CASE UNCHANGED rpc
    BY <1>1, <2>1
  <2>2. CASE Enter(a, k)
    <3>1. rpc' = [r \in Readers |-> IF k = "tabs" /\ rpc[r] = "none" /\ owner'[r] = a
                                    THEN "wait" ELSE rpc[r]]
      BY <2>2 DEF Enter
    <3>2. QED
      BY <1>1, <1>3, <2>2, <3>1 DEF ReaderStates
  <2>3. QED
    BY <2>1, <2>2
<1>5. QED
  BY <1>2, <1>3, <1>4 DEF Assigns

\* What the coroutine of an account does to the readers.
LEMMA LaunchAssigns ==
    ASSUME Shapes, TabInv, NEW a \in Accounts, Launch(a)
    PROVE  Assigns(a)
<1> USE DEF sessionVars, readVars
<1>1. IdleKept
  <2>1. CASE \E c : Reset(c)
    BY <2>1, ResetIdle DEF TabInv
  <2>2. CASE idle' = idle
    BY <2>2 DEF IdleKept, TabInv, TabTypes
  <2>3. QED
    BY <2>1, <2>2 DEF Launch, TakeStart, TakeLaunch, Closed, Launched, Opened, LaunchFails, Raised
<1>2. CASE TakeStart(a) \/ Opened(a)
  <2>1. /\ pc[a] # "tabs" /\ UNCHANGED <<owner, free, left>>
        /\ Enter(a, cont[a]) \/ (Goto(a, "launchWait") /\ UNCHANGED rpc)
    BY <1>2 DEF TakeStart, Opened
  <2>2. QED
    BY <1>1, <2>1, EnsureAssigns
<1>3. CASE TakeLaunch(a) \/ Closed(a) \/ Launched(a) \/ LaunchFails(a)
  <2>1. (\E l : Goto(a, l)) /\ pc[a] # "tabs" /\ UNCHANGED readVars
    BY <1>3 DEF TakeLaunch, Closed, Launched, LaunchFails, Boot
  <2>2. QED
    BY <1>1, <2>1, LeavesReaders
<1>4. CASE Raised(a)
  <2>1. /\ pc[a] = "failing" /\ (\E l : Goto(a, l)) /\ UNCHANGED <<free, rpc, left>>
        /\ owner' = [r \in Readers |-> IF owner[r] = a /\ r \notin left THEN NoAccount ELSE owner[r]]
    BY <1>4 DEF Raised, Finish, NextBrowser
  <2>2. \A r \in Readers : owner[r] = a /\ r \notin left => rpc[r] = "none"
    BY <2>1 DEF TabInv, ReadersAwaited
  <2>3. QED
    BY <1>1, <2>1, <2>2 DEF Assigns, Goto, Shapes, TabInv, ReadersAwaited
<1>5. QED
  BY <1>2, <1>3, <1>4 DEF Launch

LEMMA WorkerAssigns ==
    ASSUME Shapes, TabInv, NEW a \in Accounts, Rows(a) \/ Pages(a)
    PROVE  Assigns(a)
<1> USE DEF sessionVars, readVars
<1>1. UNCHANGED <<idle, free, left>> /\ IdleKept
  <2>1. UNCHANGED <<idle, free, left>>
    BY DEF Rows, Begin, Write, Told, NextRoute, LastRoute, TakeGate, TakeRoute, Answered,
           ProfileLoaded, Pages, Probe, TakeWarm, ApiTabOpens, ApiLoaded, Called, TakeLock,
           GridLoaded, Crawled, TakeDetails, DetailsRead, Filled, TabsRead
  <2>2. QED
    BY <2>1 DEF IdleKept, TabInv, TabTypes
<1>2. CASE Rows(a)
  <2>1. pc[a] # "tabs" /\ UNCHANGED readVars
    BY <1>2 DEF Rows, Begin, Write, Told, NextRoute, LastRoute, TakeGate, TakeRoute, Answered,
                ProfileLoaded
  <2>2. pc' = pc \/ \E l : Goto(a, l)
    <3>1. CASE Begin(a) \/ Write(a) \/ Told(a)
      BY <3>1 DEF Begin, Write, Told, End
    <3>2. CASE NextRoute(a) \/ LastRoute(a) \/ TakeGate(a) \/ TakeRoute(a)
      BY <3>2 DEF NextRoute, LastRoute, NextBrowser, Finish, TakeGate, TakeRoute
    <3>3. CASE Answered(a) \/ ProfileLoaded(a)
      BY <3>3 DEF Answered, ProfileLoaded, Profile, NextBrowser, Finish
    <3>4. QED
      BY <1>2, <3>1, <3>2, <3>3 DEF Rows
  <2>3. QED
    BY <1>1, <2>1, <2>2, LeavesReaders
<1>3. CASE TakeWarm(a) \/ ApiTabOpens(a) \/ ApiLoaded(a) \/ Called(a)
  <2>1. (\E l : Goto(a, l)) /\ pc[a] # "tabs" /\ UNCHANGED readVars
    BY <1>3 DEF TakeWarm, ApiTabOpens, ApiLoaded, Called, Profile, Finish
  <2>2. QED
    BY <1>1, <2>1, LeavesReaders
<1>4. CASE GridLoaded(a) \/ Crawled(a) \/ Filled(a)
  <2>1. (\E l : Goto(a, l)) /\ pc[a] # "tabs" /\ UNCHANGED readVars
    BY <1>4 DEF GridLoaded, Crawled, Filled, Finish
  <2>2. QED
    BY <1>1, <2>1, LeavesReaders
<1>5. CASE TabsRead(a)
  BY <1>1, <1>5 DEF TabsRead, Assigns, Finish, Goto, Shapes, TabInv, ReadersAwaited
<1>6. CASE Probe(a) \/ TakeLock(a)
  <2>1. pc[a] # "tabs" /\ UNCHANGED owner
        /\ \/ \E k : Ensure(a, k)
           \/ Goto(a, "next") /\ UNCHANGED rpc
    BY <1>6 DEF Probe, TakeLock
  <2>2. QED
    BY <1>1, <2>1, EnsureAssigns, LeavesReaders DEF Ensure
<1>7. ASSUME Missing(a), pc[a] # "tabs" PROVE Assigns(a)
  <2>1. CASE UNCHANGED <<rpc, owner>>
    BY <1>1, <1>7, <2>1, LeavesReaders DEF Missing, Ensure, Enter, Finish
  <2>2. CASE /\ Ensure(a, "tabs")
             /\ \E R \in SUBSET {r \in Readers : owner[r] = NoAccount} :
                    owner' = [r \in Readers |-> IF r \in R THEN a ELSE owner[r]]
    BY <1>1, <1>7, <2>2, EnsureAssigns DEF Ensure
  <2>3. QED
    BY <1>7, <2>1, <2>2 DEF Missing
<1>8. CASE TakeDetails(a)
  <2>1. CASE Goto(a, "reads") /\ UNCHANGED <<rpc, owner>>
    BY <1>1, <1>8, <2>1, LeavesReaders DEF TakeDetails
  <2>2. QED
    BY <1>7, <1>8, <2>1 DEF TakeDetails
<1>9. CASE DetailsRead(a)
  BY <1>7, <1>9 DEF DetailsRead
<1>10. QED
  BY <1>2, <1>3, <1>4, <1>5, <1>6, <1>8, <1>9 DEF Pages

\* A coroutine that can move belongs to a batch.
LEMMA WorkerRuns ==
    ASSUME BatchRuns, NEW a \in Accounts, Launch(a) \/ Rows(a) \/ Pages(a)
    PROVE  BatchRuns'
<1>1. pc[a] # "over" /\ UNCHANGED running
  <2> USE DEF batchVars
  <2>1. CASE Rows(a)
    BY <2>1 DEF Rows, Begin, Write, Told, NextRoute, LastRoute, TakeGate, TakeRoute, Answered,
                ProfileLoaded
  <2>2. CASE Pages(a)
    BY <2>2 DEF Pages, Probe, TakeWarm, ApiTabOpens, ApiLoaded, Called, TakeLock, GridLoaded,
                Crawled, TakeDetails, DetailsRead, Filled, TabsRead
  <2>3. CASE Launch(a)
    BY <2>3 DEF Launch, TakeStart, TakeLaunch, Closed, Launched, Opened, LaunchFails, Raised
  <2>4. QED
    BY <2>1, <2>2, <2>3
<1>2. QED
  BY <1>1 DEF BatchRuns

\* One case per action.
LEMMA TabStep == Shapes /\ TabInv /\ [Next]_vars => TabInv'
<1> SUFFICES ASSUME Shapes, TabInv, [Next]_vars PROVE TabInv'
  OBVIOUS
<1>1. ASSUME UNCHANGED <<pc, running, readVars>>, IdleKept PROVE TabInv'
  <2>1. TabTypes' /\ TabsBounded'
    BY <1>1, TabsSame DEF TabInv, readVars
  <2>2. QED
    BY <1>1, <2>1 DEF TabInv, ReadersAwaited, BatchRuns, readVars
<1>2. ASSUME idle' = idle PROVE IdleKept
  BY <1>2 DEF IdleKept, TabInv, TabTypes
<1>3. ASSUME NEW a \in Accounts, Worker(a) \/ AfterDriver(a) PROVE TabInv'
  BY <1>3, CoroutineSteps, WorkerRuns, LaunchAssigns, WorkerAssigns, AssignKeeps DEF TabInv
<1>4. ASSUME NEW r \in Readers, Borrow(r) \/ TabAfterDriver(r) PROVE TabInv'
  BY <1>4, ReaderSteps, ReaderTabs
<1>5. ASSUME NEW c \in Clients, PagesClose(c) \/ Crash(c) PROVE TabInv'
  <2>1. Cut(c) /\ UNCHANGED <<pc, running, free, owner, left>>
    BY <1>5 DEF PagesClose, Crash, batchVars
  <2>2. QED
    BY <2>1, TabsCut DEF TabInv, BatchRuns
<1>6. ASSUME NEW c \in Clients, CloserTakes(c) PROVE TabInv'
  BY <1>1, <1>2, <1>6 DEF CloserTakes, batchVars, workVars
<1>7. ASSUME NEW c \in Clients, CloserEnds(c) PROVE TabInv'
  BY <1>1, <1>7, ResetIdle DEF CloserEnds, batchVars, TabInv
<1>8. CASE StartBatch
  <2>1. running' /\ UNCHANGED readVars /\ IdleKept /\ \A b \in Accounts : pc[b] = "over"
    BY <1>2, <1>8 DEF StartBatch, sessionVars, TabInv, BatchRuns
  <2>2. ReadersAwaited'
    BY <2>1 DEF TabInv, ReadersAwaited, readVars
  <2>3. TabTypes' /\ TabsBounded'
    BY <2>1, TabsSame DEF TabInv, readVars
  <2>4. QED
    BY <2>1, <2>2, <2>3 DEF TabInv, BatchRuns
<1>9. CASE EndBatch
  <2>1. UNCHANGED <<pc, readVars>> /\ IdleKept /\ \A b \in Accounts : pc[b] = "over"
    BY <1>2, <1>9 DEF EndBatch, At, sessionVars, workVars
  <2>2. TabTypes' /\ TabsBounded'
    BY <2>1, TabsSame DEF TabInv, readVars
  <2>3. QED
    BY <2>1, <2>2 DEF TabInv, ReadersAwaited, BatchRuns, readVars
<1>10. CASE \/ (\E a \in Accounts : Sell(a)) \/ (\E c \in Clients : TemplateSeen(c))
            \/ Shutdown \/ UNCHANGED vars
  BY <1>1, <1>2, <1>10 DEF Sell, TemplateSeen, Shutdown, vars, batchVars, workVars, sessionVars
<1>11. QED
  BY <1>3, <1>4, <1>5, <1>6, <1>7, <1>8, <1>9, <1>10 DEF Next, Closer

\* The browsers, the pages and the tabs together.
SyncInv == SessionInv /\ PageInv /\ TabInv

LEMMA InitialSync == Init => SyncInv
<1> SUFFICES ASSUME Init PROVE PageInv /\ TabInv
  BY InitialSession DEF SyncInv
<1>1. \A a \in Accounts : 1 <= Len(RoutesOf[a]) /\ 0 <= Len(RoutesOf[a])
  <2> TAKE a \in Accounts
  <2>1. RoutesOf[a] \in Seq(Routes) \ {<<>>}
    BY AnalyticsAssumption
  <2>2. QED
    BY <2>1
<1>2. RouteChosen
  BY <1>1, EmptySeq DEF Init, RouteChosen
<1>3. KeptOnRoute
  BY DEF Init, KeptOnRoute, Keeps, Crawling, Locked
<1>4. ReadersAwaited /\ BatchRuns /\ TabTypes
  BY AnalyticsAssumption DEF Init, ReadersAwaited, ReaderStates, BatchRuns, TabTypes
<1>5. ASSUME NEW c \in Clients PROVE Lent(c) = {} /\ Usable(c) = {}
  BY DEF Init, Lent, Usable
<1>6. Cardinality({}) = 0 /\ Tabs \in Nat
  BY FS_EmptySet, AnalyticsAssumption
<1>7. ASSUME NEW c \in Clients
      PROVE  free[c] + Cardinality(Lent(c)) = Tabs /\ idle[c] + Cardinality(Usable(c)) <= Tabs
  <2>1. free[c] = Tabs /\ idle[c] = 0
    BY DEF Init
  <2>2. QED
    BY <1>5, <1>6, <2>1
<1>8. TabsBounded
  BY <1>7 DEF TabsBounded, Usable
<1>9. QED
  BY <1>2, <1>3, <1>4, <1>8 DEF PageInv, TabInv

LEMMA SyncHolds == Spec => []SyncInv
<1>1. SyncInv /\ [Next]_vars => SyncInv'
  BY SessionStep, PageStep, TabStep, AnalyticsAssumption DEF SyncInv, SessionInv, TabInv
<1>2. QED
  BY <1>1, InitialSync, PTL DEF Spec

\* A page read under _lock is on its account's route until its browser is closed, although
\* the route is switched without that lock (_ensure_page, fetch_profile).
THEOREM PagesOnTheirRoute == Spec => []PageOnRoute
<1>1. SyncInv => PageOnRoute
  BY DEF SyncInv, PageInv, KeptOnRoute, Keeps, OnRoute, PageOnRoute, At
<1>2. QED
  BY <1>1, SyncHolds, PTL

\* The gate of the detail tabs loses no permit, and no browser has more tabs than permits
\* (_borrow_detail_tab, _return_detail_tab).
THEOREM NoPermitLost == Spec => []TabsBounded
<1>1. SyncInv => TabsBounded
  BY DEF SyncInv, TabInv
<1>2. QED
  BY <1>1, SyncHolds, PTL
=============================================================================
