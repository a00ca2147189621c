---------------------------- MODULE AnalyticsSync ----------------------------
(***************************************************************************)
(* The fast analytics sync (tiktok_fast_analytics_sync.py) and the hidden  *)
(* browsers it shares (tiktok_public_video_client.py).  A batch runs one   *)
(* coroutine per account.  It tries the item_list API in a tab of its      *)
(* client's browser, then plain HTTP over its routes, then the profile     *)
(* page, and reads the videos from the grid, over HTTP, in detail tabs or  *)
(* in the profile tab, before it writes the account's row.                 *)
(*                                                                         *)
(* A client has one browser, on one route.  Whoever needs another route    *)
(* closes it under the start lock, although others use its pages: they     *)
(* hold _lock, or no lock at all (the API tab, the detail tabs).  Until    *)
(* Playwright has closed its pages they are handed out on the old route.   *)
(* A close that raises is swallowed: the client forgets a browser that     *)
(* goes on running, and its pages with it.                                 *)
(*                                                                         *)
(* A step is what a coroutine does between two awaits.  Permits and locks  *)
(* taken with "async with" follow from where the coroutines are; the gate  *)
(* of the detail tabs, released by hand, is a counter.  What TikTok        *)
(* answers, which proxies answer, the pauses of plain HTTP and the age of  *)
(* what is cached are choices; what is written to the row is left out.     *)
(* The reads of one account inside its permit of the detail gate are one   *)
(* location.  What was read before a page was closed counts, so the end of *)
(* a read does not depend on it.  The tabs of a forgotten browser are      *)
(* taken to close with those of the next one.                              *)
(***************************************************************************)
EXTENDS Integers, Sequences, FiniteSets

CONSTANTS
    Accounts, Clients, Routes,
    ClientOf,       \* _video_client_for: by a hash of the account
    RoutesOf,       \* the candidate routes of each account, the assigned one first
    Signed,         \* the accounts with a stored secUid
    Readers,        \* bound: reads of video pages in detail tabs at once, numbered
    NoAccount, NoRoute,
    Limit,          \* the concurrency limit of a batch
    PerRoute,       \* plain HTTP requests at once on one route
    DetailGate,     \* permits of _detail_account_gate
    Tabs,           \* permits of _detail_tab_gate of a client
    BrowserRoutes,  \* FAST_ANALYTICS_BROWSER_ROUTE_ATTEMPTS
    MaxBatches,     \* bound
    ForSale,        \* accounts that may be sold
    MayStop         \* the backend may be shut down

ASSUME AnalyticsAssumption ==
    /\ ClientOf \in [Accounts -> Clients]
    /\ RoutesOf \in [Accounts -> Seq(Routes) \ {<<>>}]
    /\ NoRoute \notin Routes /\ NoAccount \notin Accounts
    /\ IsFiniteSet(Accounts) /\ IsFiniteSet(Readers)
    /\ Signed \subseteq Accounts /\ ForSale \subseteq Accounts
    /\ {Limit, PerRoute, DetailGate, Tabs, BrowserRoutes} \subseteq Nat \ {0}
    /\ MaxBatches \in Nat /\ MayStop \in BOOLEAN

VARIABLES
    batches, running,           \* batches so far; is_running
    sold,                       \* accounts whose row is in the group of the sold ones
    pc, cont,                   \* the coroutine of each account; what it needs the browser for
    idx, reached,               \* its route; the routes left for the browser
    stale,                      \* accounts whose page was closed, or is forgotten
    pw, pageOf,                 \* of each client: its browser; _route_key
    apiTab, template,           \* clients with an open API tab; with its _api_params
    idle, free,                 \* of each client: idle detail tabs; permits of their gate
    firefox,                    \* of each client: processes that nobody has begun to close
    closer,                     \* of each client: close(), called by shutdown()
    rpc, owner, left            \* the readers; those whose gather has gone on without them

batchVars == <<batches, running>>
workVars == <<pc, cont, idx, reached, stale>>
sessionVars == <<pw, pageOf, apiTab, template, idle, firefox>>
readVars == <<free, rpc, owner, left>>
vars == <<batchVars, sold, workVars, sessionVars, closer, readVars>>

Init ==
    /\ batches = 0 /\ running = FALSE
    /\ sold = {}
    /\ pc = [a \in Accounts |-> "over"] /\ cont = [a \in Accounts |-> "api"]
    /\ idx = [a \in Accounts |-> 1] /\ reached = [a \in Accounts |-> <<>>]
    /\ stale = {}
    /\ pw = [c \in Clients |-> "none"] /\ pageOf = [c \in Clients |-> NoRoute]
    /\ apiTab = {} /\ template = {} /\ idle = [c \in Clients |-> 0] /\ free = [c \in Clients |-> Tabs]
    /\ firefox = [c \in Clients |-> 0] /\ closer = [c \in Clients |-> "none"]
    /\ rpc = [r \in Readers |-> "none"] /\ owner = [r \in Readers |-> NoAccount]
    /\ left = {}

At(S) == {a \in Accounts : pc[a] \in S}
Of(c) == {a \in Accounts : ClientOf[a] = c}
Route(a) == RoutesOf[a][idx[a]]
Goto(a, l) == pc' = [pc EXCEPT ![a] = l]

\* The row comes next, whatever was read.
Finish(a) == Goto(a, "write") /\ cont' = [cont EXCEPT ![a] = "api"]

\* A coroutine ends, and its variables with it.
End(a) ==
    /\ Goto(a, "over") /\ UNCHANGED cont
    /\ idx' = [idx EXCEPT ![a] = 1] /\ reached' = [reached EXCEPT ![a] = <<>>]

-----------------------------------------------------------------------------
(* The browser of a client                                                 *)

\* Where coroutines hold a page of the browser; where they hold _lock; where
\* they hold the start lock.
Paged == {"calling", "apiLoad", "profile", "grid", "crawl", "fill"}
Locked == {"profile", "grid", "crawl", "fill"}
Starting == {"launchWait", "closing", "launching", "paging", "failing"}
Launching == {"closing", "launching", "paging", "failing"}
Crawling(a) == cont[a] = "crawl" /\ pc[a] \in {"details", "reads"}
HasPage(c) == {a \in Of(c) : pc[a] \in Paged \/ Crawling(a)}

LockFree(c) ==
    \A a \in Of(c) : /\ pc[a] \notin Locked /\ ~Crawling(a)
                     /\ ~(pc[a] \in Starting \cup {"start"} /\ cont[a] \in Locked)
\* A browser that opens pages; until they are closed it is "ending", then "gone".
HasBrowser(c) == pw[c] \in {"paging", "up", "ending"}
StartFree(c) == At(Starting) \cap Of(c) = {} /\ closer[c] # "closing"
LaunchFree == At(Launching) = {}

\* The page is open and on the route of the account.
Ready_AnyRoute(a) == pw[ClientOf[a]] \in {"up", "ending"} /\ pageOf[ClientOf[a]] # NoRoute
Ready(a) == pw[ClientOf[a]] \in {"up", "ending"} /\ pageOf[ClientOf[a]] = Route(a)
\* _api_tab_ready
ApiReady(c) == c \in apiTab \cap template

\* The coroutine has its page, and goes on to its next await.  (The readers it has
\* assigned to the missing videos start.)
Enter(a, k) ==
    /\ Goto(a, IF k # "api" THEN k ELSE IF ApiReady(ClientOf[a]) THEN "calling" ELSE "warming")
    /\ cont' = [cont EXCEPT ![a] = k]
    /\ stale' = stale \ {a}
    /\ rpc' = [r \in Readers |-> IF k = "tabs" /\ rpc[r] = "none" /\ owner'[r] = a
                                    THEN "wait" ELSE rpc[r]]

\* _ensure_page
Ensure(a, k) ==
    IF Ready(a) THEN Enter(a, k)
    ELSE /\ Goto(a, "start")
         /\ cont' = [cont EXCEPT ![a] = k]
         /\ UNCHANGED <<stale, rpc>>

TakeStart(a) ==
    /\ pc[a] = "start" /\ StartFree(ClientOf[a])
    /\ UNCHANGED owner
    /\ IF Ready(a) THEN Enter(a, cont[a]) ELSE Goto(a, "launchWait") /\ UNCHANGED <<cont, stale, rpc>>
    /\ UNCHANGED <<batchVars, sold, idx, reached, sessionVars, closer, free, left>>

\* _close_session_unlocked awaits __aexit__ ...
Ending(c) ==
    /\ pw' = [pw EXCEPT ![c] = IF HasBrowser(c) THEN "ending" ELSE "gone"]
    /\ firefox' = [firefox EXCEPT ![c] = IF pw[c] \in {"booting", "paging", "up"} THEN @ - 1 ELSE @]

\* ... which closes the pages under those who use them, as a crash does ...
Cut(c) ==
    /\ pw' = [pw EXCEPT ![c] = "gone"]
    /\ stale' = stale \cup HasPage(c) \cup (At({"apiOpen"}) \cap Of(c))
    /\ rpc' = [r \in Readers |-> IF owner[r] \notin Of(c) THEN rpc[r]
                                 ELSE CASE rpc[r] = "opening" -> "openingCut"
                                        [] rpc[r] = "reading" -> "readingCut"
                                        [] OTHER -> rpc[r]]
    /\ idle' = [idle EXCEPT ![c] = 0] /\ apiTab' = apiTab \ {c}
    /\ UNCHANGED <<pageOf, template>>

PagesClose(c) ==
    /\ pw[c] = "ending"
    /\ Cut(c)
    /\ UNCHANGED <<batchVars, sold, pc, cont, idx, reached, firefox, closer, free, owner, left>>

\* ... and then, or when __aexit__ has raised, forgets the browser and its pages.
Reset(c) ==
    /\ stale' = stale \cup HasPage(c)
    /\ pageOf' = [pageOf EXCEPT ![c] = NoRoute] /\ idle' = [idle EXCEPT ![c] = 0]
    /\ apiTab' = apiTab \ {c} /\ template' = template \ {c}

\* A launch begins: a process that close() will find through _invisible_pw.
Boot(a) ==
    /\ Goto(a, "launching")
    /\ pw' = [pw EXCEPT ![ClientOf[a]] = "booting"]
    /\ firefox' = [firefox EXCEPT ![ClientOf[a]] = @ + 1]

\* Under the launch lock, which all clients share, the old browser goes first.
KeepsOld_Always(c) == TRUE
KeepsOld(c) == pw[c] = "none"

TakeLaunch(a) ==
    /\ pc[a] = "launchWait" /\ LaunchFree
    /\ IF KeepsOld(ClientOf[a]) THEN Boot(a) ELSE Goto(a, "closing") /\ Ending(ClientOf[a])
    /\ UNCHANGED <<batchVars, sold, cont, idx, reached, stale, pageOf, apiTab, template, idle,
                   closer, readVars>>

Closed(a) ==
    /\ pc[a] = "closing"
    /\ Boot(a) /\ Reset(ClientOf[a])
    /\ UNCHANGED <<batchVars, sold, cont, idx, reached, closer, readVars>>

\* Firefox is up: detail tabs may open in it before its first page has.
Launched(a) ==
    /\ pc[a] = "launching"
    /\ Goto(a, "paging") /\ pw' = [pw EXCEPT ![ClientOf[a]] = "paging"]
    /\ UNCHANGED <<batchVars, sold, cont, idx, reached, stale, pageOf, apiTab, template,
                   idle, firefox, closer, readVars>>

Opened(a) ==
    /\ pc[a] = "paging"
    /\ pw' = [pw EXCEPT ![ClientOf[a]] = "up"]
    /\ pageOf' = [pageOf EXCEPT ![ClientOf[a]] = Route(a)]
    /\ UNCHANGED owner /\ Enter(a, cont[a])
    /\ UNCHANGED <<batchVars, sold, idx, reached, apiTab, template, idle, firefox,
                   closer, free, left>>

\* It times out or has no page: what there is of it is closed, then the error goes on.
LaunchFails(a) ==
    /\ pc[a] \in {"launching", "paging"}
    /\ Goto(a, "failing") /\ Ending(ClientOf[a])
    /\ UNCHANGED <<batchVars, sold, cont, idx, reached, stale, pageOf, apiTab, template, idle,
                   closer, readVars>>

\* The browser is tried on the next reachable route, or the profile was not read.
NextBrowser(a) ==
    IF reached[a] = <<>> THEN Finish(a) /\ UNCHANGED <<idx, reached>>
    ELSE /\ Goto(a, "lockProfile") /\ UNCHANGED cont
         /\ idx' = [idx EXCEPT ![a] = Head(reached[a])]
         /\ reached' = [reached EXCEPT ![a] = Tail(@)]

\* The API path goes on with plain HTTP, a profile with the next route; without videos
\* the sync is PARTIAL.
Raised(a) ==
    /\ pc[a] = "failing"
    /\ pw' = [pw EXCEPT ![ClientOf[a]] = "none"] /\ Reset(ClientOf[a])
    /\ CASE cont[a] = "api" -> Goto(a, "next") /\ UNCHANGED <<cont, idx, reached>>
         [] cont[a] = "profile" -> NextBrowser(a)
         [] OTHER -> Finish(a) /\ UNCHANGED <<idx, reached>>
    /\ owner' = [r \in Readers |-> IF owner[r] = a /\ r \notin left THEN NoAccount ELSE owner[r]]
    /\ UNCHANGED <<batchVars, sold, firefox, closer, free, rpc, left>>

\* The browser crashes.
Crash(c) ==
    /\ pw[c] = "up"
    /\ Cut(c) /\ firefox' = [firefox EXCEPT ![c] = @ - 1]
    /\ UNCHANGED <<batchVars, sold, pc, cont, idx, reached, closer, free, owner, left>>

\* shutdown() closes every client, under its start lock, while a batch goes on.
Shutdown ==
    /\ MayStop /\ \A c \in Clients : closer[c] = "none"
    /\ closer' = [c \in Clients |-> "waiting"]
    /\ UNCHANGED <<batchVars, sold, workVars, sessionVars, readVars>>

CloserTakes(c) ==
    /\ closer[c] = "waiting" /\ StartFree(c)
    /\ closer' = [closer EXCEPT ![c] = "closing"]
    /\ IF pw[c] = "none" THEN UNCHANGED <<pw, firefox>> ELSE Ending(c)
    /\ UNCHANGED <<batchVars, sold, workVars, pageOf, apiTab, template, idle, readVars>>

CloserEnds(c) ==
    /\ closer[c] = "closing"
    /\ closer' = [closer EXCEPT ![c] = "ended"]
    /\ pw' = [pw EXCEPT ![c] = "none"] /\ Reset(c)
    /\ UNCHANGED <<batchVars, sold, pc, cont, idx, reached, firefox, readVars>>

-----------------------------------------------------------------------------
(* The batch and its rows                                                  *)

\* start_batch, and the start of run_batch.
StartBatch ==
    /\ ~running /\ batches < MaxBatches
    /\ \E ids \in SUBSET Accounts \ {{}} :
           pc' = [a \in Accounts |-> IF a \in ids THEN "begin" ELSE pc[a]]
    /\ running' = TRUE /\ batches' = batches + 1
    /\ UNCHANGED <<sold, cont, idx, reached, stale, sessionVars, closer, readVars>>

\* gather returned.
EndBatch ==
    /\ running /\ At({"over"}) = Accounts
    /\ running' = FALSE
    /\ UNCHANGED <<batches, sold, workVars, sessionVars, closer, readVars>>

\* (A sale between two syncs of the account is seen by Begin as one during its first wait.)
Sell(a) ==
    /\ a \in ForSale \ sold /\ pc[a] # "over"
    /\ sold' = sold \cup {a}
    /\ UNCHANGED <<batchVars, workVars, sessionVars, closer, readVars>>

\* The account is sold, or what is cached is fresh; or the sync begins, and asks whether the
\* first route answers if the API can be tried.
Begin(a) ==
    /\ pc[a] = "begin"
    /\ \/ End(a)
       \/ /\ a \notin sold
          /\ \E l \in {"next"} \cup (IF a \in Signed THEN {"probe"} ELSE {}) : Goto(a, l)
          /\ UNCHANGED <<cont, idx, reached>>
    /\ UNCHANGED <<batchVars, sold, stale, sessionVars, closer, readVars>>

\* The row is read again: it may have been sold meanwhile.  Then it is saved and the
\* dashboards are told.
SkipsWrite(a) == a \in sold

Write(a) ==
    /\ pc[a] = "write"
    /\ IF SkipsWrite(a) THEN End(a)
       ELSE Goto(a, "telling") /\ UNCHANGED <<cont, idx, reached>>
    /\ UNCHANGED <<batchVars, sold, stale, sessionVars, closer, readVars>>

Told(a) ==
    /\ pc[a] = "telling"
    /\ End(a)
    /\ UNCHANGED <<batchVars, sold, stale, sessionVars, closer, readVars>>

-----------------------------------------------------------------------------
(* The profile                                                             *)

\* Metrics and identity were read.  The videos come next, unless there are none or those
\* in the database are fresh; the grid may be in the cache already.
Profile(a, grid) ==
    /\ \/ Finish(a)
       \/ \E l \in {"lockGrid"} \cup (IF grid THEN {"details"} ELSE {}) :
              Goto(a, l) /\ cont' = [cont EXCEPT ![a] = "tabs"]
    /\ reached' = [reached EXCEPT ![a] = <<>>]

\* fetch_profile_via_api
Probe(a) ==
    /\ pc[a] = "probe" /\ UNCHANGED owner
    /\ \/ Ensure(a, "api")
       \/ Goto(a, "next") /\ UNCHANGED <<cont, stale, rpc>>
    /\ UNCHANGED <<batchVars, sold, idx, reached, sessionVars, closer, free, left>>

\* _ensure_api_page once the warm lock is free; too many warm-ups give up, and without a
\* browser no tab opens.
TakeWarm(a) ==
    LET c == ClientOf[a] IN
    /\ pc[a] = "warming" /\ At({"apiOpen", "apiLoad"}) \cap Of(c) = {}
    /\ IF ApiReady(c) THEN Goto(a, "calling")
       ELSE \E l \in {"next"} \cup (IF c \in apiTab THEN {"apiLoad"}
                                    ELSE IF HasBrowser(c) THEN {"apiOpen"} ELSE {}) : Goto(a, l)
    /\ UNCHANGED <<batchVars, sold, cont, idx, reached, stale, sessionVars, closer, readVars>>

\* Whoever comes now calls in the tab at once if the template is there.
ApiTabOpens(a) ==
    /\ pc[a] = "apiOpen"
    /\ \/ Goto(a, "next") /\ UNCHANGED apiTab
       \/ a \notin stale /\ Goto(a, "apiLoad") /\ apiTab' = apiTab \cup {ClientOf[a]}
    /\ stale' = stale \ {a}
    /\ UNCHANGED <<batchVars, sold, cont, idx, reached, pw, pageOf, template, idle, firefox,
                   closer, readVars>>

\* _watch_for_api_template: a page in use, of whatever browser, asks for item_list.
TemplateSeen(c) ==
    /\ c \notin template /\ HasPage(c) # {}
    /\ template' = template \cup {c}
    /\ UNCHANGED <<batchVars, sold, workVars, pw, pageOf, apiTab, idle, firefox, closer, readVars>>

\* The profile loaded in the API tab.  Its page says all, or that the account is dead; or it
\* does not, and the calls follow if the tab is ready; metrics alone go on with plain HTTP.
ApiLoaded(a) ==
    /\ pc[a] = "apiLoad"
    /\ \/ Profile(a, TRUE)
       \/ Finish(a) /\ UNCHANGED reached
       \/ \E l \in {"next"} \cup (IF ApiReady(ClientOf[a]) THEN {"calling"} ELSE {}) :
              Goto(a, l) /\ UNCHANGED <<cont, reached>>
    /\ stale' = stale \ {a}
    /\ UNCHANGED <<batchVars, sold, idx, sessionVars, closer, readVars>>

\* The calls of one account.  Three failures in a row close the tab.
Called(a) ==
    /\ pc[a] = "calling"
    /\ \/ Profile(a, TRUE) /\ UNCHANGED apiTab
       \/ /\ Goto(a, "next") /\ UNCHANGED <<cont, reached>>
          /\ apiTab' \in {apiTab} \cup (IF a \in stale THEN {} ELSE {apiTab \ {ClientOf[a]}})
    /\ stale' = stale \ {a}
    /\ UNCHANGED <<batchVars, sold, idx, pw, pageOf, template, idle, firefox, closer, readVars>>

\* The next candidate route: unreachable, skipped because plain HTTP is paused, or
\* asked for.  After the last one the browser is tried on the first that were reachable.
NextRoute(a) ==
    /\ pc[a] = "next" /\ idx[a] <= Len(RoutesOf[a])
    /\ \/ idx' = [idx EXCEPT ![a] = @ + 1] /\ UNCHANGED <<pc, reached>>
       \/ /\ reached' = [reached EXCEPT ![a] = IF Len(@) < BrowserRoutes THEN Append(@, idx[a]) ELSE @]
          /\ \/ Goto(a, "gate") /\ UNCHANGED idx
             \/ idx' = [idx EXCEPT ![a] = @ + 1] /\ UNCHANGED pc
    /\ UNCHANGED <<batchVars, sold, cont, stale, sessionVars, closer, readVars>>

LastRoute(a) ==
    /\ pc[a] = "next" /\ idx[a] > Len(RoutesOf[a])
    /\ \/ reached[a] # <<>> /\ NextBrowser(a)
       \/ reached[a] = <<>> /\ Finish(a) /\ idx' = [idx EXCEPT ![a] = 1] /\ UNCHANGED reached
    /\ UNCHANGED <<batchVars, sold, stale, sessionVars, closer, readVars>>

\* run_limited: the global gate, then the gate of the route; paused meanwhile?
TakeGate(a) ==
    /\ pc[a] = "gate" /\ Cardinality(At({"gateRoute", "http"})) < Limit
    /\ Goto(a, "gateRoute")
    /\ UNCHANGED <<batchVars, sold, cont, idx, reached, stale, sessionVars, closer, readVars>>

TakeRoute(a) ==
    /\ pc[a] = "gateRoute" /\ Cardinality({b \in At({"http"}) : Route(b) = Route(a)}) < PerRoute
    /\ \/ Goto(a, "http") /\ UNCHANGED idx
       \/ Goto(a, "next") /\ idx' = [idx EXCEPT ![a] = @ + 1]
    /\ UNCHANGED <<batchVars, sold, cont, reached, stale, sessionVars, closer, readVars>>

\* A dead account ends the sync.
Answered(a) ==
    /\ pc[a] = "http"
    /\ \/ Profile(a, FALSE) /\ UNCHANGED idx
       \/ Goto(a, "next") /\ idx' = [idx EXCEPT ![a] = @ + 1] /\ UNCHANGED <<cont, reached>>
       \/ Finish(a) /\ UNCHANGED <<idx, reached>>
    /\ UNCHANGED <<batchVars, sold, stale, sessionVars, closer, readVars>>

\* Under _lock: the browser profile, the grid, the crawl, the missing video pages.
TakeLock(a) ==
    /\ pc[a] \in {"lockProfile", "lockGrid", "lockCrawl", "lockFill"} /\ LockFree(ClientOf[a])
    /\ UNCHANGED owner
    /\ Ensure(a, CASE pc[a] = "lockProfile" -> "profile" [] pc[a] = "lockGrid" -> "grid"
                   [] pc[a] = "lockCrawl" -> "crawl" [] pc[a] = "lockFill" -> "fill")
    /\ UNCHANGED <<batchVars, sold, idx, reached, sessionVars, closer, free, left>>

\* fetch_profile: read, or dead, or not read.
ProfileLoaded(a) ==
    /\ pc[a] = "profile"
    /\ \/ Profile(a, TRUE) /\ UNCHANGED idx
       \/ Finish(a) /\ UNCHANGED <<idx, reached>>
       \/ NextBrowser(a)
    /\ stale' = stale \ {a}
    /\ UNCHANGED <<batchVars, sold, sessionVars, closer, readVars>>

-----------------------------------------------------------------------------
(* The videos                                                              *)

\* _fetch_videos_via_grid: the grid says enough, or some pages are missing; without it the
\* known addresses are read, or all of them are collected first.
GridLoaded(a) ==
    /\ pc[a] = "grid"
    /\ \/ Finish(a)
       \/ Goto(a, "details") /\ cont' = [cont EXCEPT ![a] = "tabs"]
       \/ Goto(a, "details") /\ cont' = [cont EXCEPT ![a] = "fill"]
       \/ Goto(a, "lockCrawl") /\ UNCHANGED cont
    /\ stale' = stale \ {a}
    /\ UNCHANGED <<batchVars, sold, idx, reached, sessionVars, closer, readVars>>

\* The links were collected, or there are none.
Crawled(a) ==
    /\ pc[a] = "crawl"
    /\ \/ Finish(a) /\ stale' = stale \ {a}
       \/ Goto(a, "details") /\ UNCHANGED <<cont, stale>>
    /\ UNCHANGED <<batchVars, sold, idx, reached, sessionVars, closer, readVars>>

\* Which pages are still missing: none, or those of R, each read by a coroutine of its own in a
\* detail tab; the profile tab reads them one after the other.
Missing(a) ==
    \/ Finish(a) /\ stale' = stale \ {a} /\ UNCHANGED <<rpc, owner>>
    \/ /\ cont[a] = "tabs"
       /\ \E R \in SUBSET {r \in Readers : owner[r] = NoAccount} \ {{}} :
              /\ \A r \in R, q \in Readers \ R : owner[q] = NoAccount => r < q
              /\ owner' = [r \in Readers |-> IF r \in R THEN a ELSE owner[r]]
       /\ Ensure(a, "tabs")
    \/ cont[a] = "fill" /\ Goto(a, "lockFill") /\ UNCHANGED <<cont, stale, rpc, owner>>
    \/ cont[a] = "crawl" /\ Goto(a, "fill") /\ UNCHANGED <<cont, stale, rpc, owner>>

\* _fetch_video_details_http: a permit of the detail gate, or nothing at all while plain
\* HTTP is paused.
TakeDetails(a) ==
    /\ pc[a] = "details"
    /\ \/ /\ Cardinality(At({"reads"})) < DetailGate
          /\ Goto(a, "reads") /\ UNCHANGED <<cont, stale, rpc, owner>>
       \/ Missing(a)
    /\ UNCHANGED <<batchVars, sold, idx, reached, sessionVars, closer, free, left>>

DetailsRead(a) ==
    /\ pc[a] = "reads"
    /\ Missing(a)
    /\ UNCHANGED <<batchVars, sold, idx, reached, sessionVars, closer, free, left>>

\* What the profile tab could read; its errors are caught page by page.
Filled(a) ==
    /\ pc[a] = "fill"
    /\ Finish(a) /\ stale' = stale \ {a}
    /\ UNCHANGED <<batchVars, sold, idx, reached, sessionVars, closer, readVars>>

\* gather of the readers.
TabsRead(a) ==
    /\ pc[a] = "tabs" /\ {r \in Readers : owner[r] = a} \subseteq left
    /\ Finish(a)
    /\ UNCHANGED <<batchVars, sold, idx, reached, stale, sessionVars, closer, readVars>>

\* _borrow_detail_tab raised, outside the try of read(): the gather of the account raises at
\* once, and its other readers go on without it.
Raises(r) ==
    /\ rpc' = [rpc EXCEPT ![r] = "none"] /\ owner' = [owner EXCEPT ![r] = NoAccount]
    /\ IF r \in left
       THEN left' = left \ {r} /\ UNCHANGED <<pc, cont>>
       ELSE /\ left' = left \cup {q \in Readers \ {r} : owner[q] = owner[r]}
            /\ Finish(owner[r])

\* A permit; then an idle tab, or a new one, which a browser that is gone does not open.
TakesIdle_Never(c) == FALSE
TakesIdle(c) == idle[c] > 0

Borrow(r) ==
    LET c == ClientOf[owner[r]] IN
    /\ rpc[r] = "wait" /\ free[c] > 0
    /\ \/ /\ free' = [free EXCEPT ![c] = @ - 1]
          /\ \/ /\ TakesIdle(c)
                /\ rpc' = [rpc EXCEPT ![r] = "reading"] /\ idle' = [idle EXCEPT ![c] = @ - 1]
             \/ /\ ~TakesIdle(c) /\ HasBrowser(c)
                /\ rpc' = [rpc EXCEPT ![r] = "opening"] /\ UNCHANGED idle
             \/ /\ ~TakesIdle(c) /\ pw[c] = "gone"
                /\ rpc' = [rpc EXCEPT ![r] = "openingCut"] /\ UNCHANGED idle
          /\ UNCHANGED <<pc, cont, owner, left>>
       \/ ~TakesIdle(c) /\ ~HasBrowser(c) /\ Raises(r) /\ UNCHANGED <<free, idle>>
    /\ UNCHANGED <<batchVars, sold, idx, reached, stale, pw, pageOf, apiTab, template, firefox,
                   closer>>

TabOpens(r) ==
    /\ rpc[r] = "opening"
    /\ rpc' = [rpc EXCEPT ![r] = "reading"]
    /\ UNCHANGED <<batchVars, sold, workVars, sessionVars, closer, free, owner, left>>

\* Its except clause gives the permit back.
PermitsAfterError_Kept(c) == free[c]
PermitsAfterError(c) == free[c] + 1

TabFails(r) ==
    LET c == ClientOf[owner[r]] IN
    /\ rpc[r] \in {"opening", "openingCut"}
    /\ free' = [free EXCEPT ![c] = PermitsAfterError(c)]
    /\ Raises(r)
    /\ UNCHANGED <<batchVars, sold, idx, reached, stale, sessionVars, closer>>

\* _return_detail_tab: the tab, unless it was closed, then the permit.
Return(r) ==
    LET c == ClientOf[owner[r]] IN
    /\ rpc[r] \in {"reading", "readingCut"}
    /\ idle' = [idle EXCEPT ![c] = IF rpc[r] = "reading" THEN @ + 1 ELSE @]
    /\ free' = [free EXCEPT ![c] = @ + 1]
    /\ rpc' = [rpc EXCEPT ![r] = "none"] /\ owner' = [owner EXCEPT ![r] = NoAccount]
    /\ left' = left \ {r}
    /\ UNCHANGED <<batchVars, sold, workVars, pw, pageOf, apiTab, template, firefox, closer>>

-----------------------------------------------------------------------------
\* Steps that await the driver without a timeout: __aexit__, new_page, evaluate, content, close.
AfterDriver(a) ==
    \/ Closed(a) \/ Opened(a) \/ (pc[a] = "paging" /\ LaunchFails(a)) \/ Raised(a)
    \/ Called(a) \/ ApiTabOpens(a) \/ ApiLoaded(a) \/ ProfileLoaded(a) \/ GridLoaded(a) \/ Crawled(a) \/ Filled(a)
TabAfterDriver(r) == TabOpens(r) \/ TabFails(r) \/ Return(r)
\* The others: a lock, a timer, or a request or launch with a timeout.
Worker(a) ==
    \/ Begin(a) \/ Write(a) \/ Told(a) \/ Probe(a) \/ TakeWarm(a) \/ NextRoute(a)
    \/ LastRoute(a) \/ TakeGate(a) \/ TakeRoute(a) \/ Answered(a) \/ TakeLock(a) \/ TakeDetails(a)
    \/ DetailsRead(a) \/ TabsRead(a) \/ TakeStart(a) \/ TakeLaunch(a) \/ Launched(a)
    \/ (pc[a] = "launching" /\ LaunchFails(a))
Closer(c) == CloserTakes(c) \/ CloserEnds(c)

Next ==
    \/ \E a \in Accounts : Worker(a) \/ AfterDriver(a) \/ Sell(a)
    \/ \E r \in Readers : Borrow(r) \/ TabAfterDriver(r)
    \/ \E c \in Clients : Closer(c) \/ PagesClose(c) \/ Crash(c) \/ TemplateSeen(c)
    \/ StartBatch \/ EndBatch \/ Shutdown

Spec == Init /\ [][Next]_vars

\* Every coroutine that can run is run, and a wait with a timeout ends.
FairSpec ==
    /\ Spec /\ WF_vars(EndBatch)
    /\ \A a \in Accounts : WF_vars(Worker(a))
    /\ \A r \in Readers : WF_vars(Borrow(r))
    /\ \A c \in Clients : WF_vars(CloserTakes(c))

\* Nothing in the code makes the other waits end: config.py:127 knows of closes that never do.
DriverAnswers ==
    /\ \A a \in Accounts : WF_vars(AfterDriver(a))
    /\ \A r \in Readers : WF_vars(TabAfterDriver(r))
    /\ \A c \in Clients : WF_vars(CloserEnds(c))

-----------------------------------------------------------------------------
(* Properties.                                                             *)

\* Every Firefox that nobody has begun to close is one that its client knows, so that
\* close() finds it, and a client has one at most, whatever is switched, fails, crashes or is
\* shut down meanwhile (_ensure_page, tiktok_public_video_client.py:954-1014).  Whether a
\* close succeeds is not said: one that raises is swallowed (lines 932-939).
FirefoxOwned ==
    \A c \in Clients : firefox[c] = IF pw[c] \in {"booting", "paging", "up"} THEN 1 ELSE 0

\* A page read under _lock is on the route of its account until it is closed or forgotten,
\* although accounts without the lock switch the route, and although it may be handed out
\* while its browser is being closed (fetch_profile, line 1147; lines 956-961).
OnRoute(a) == pw[ClientOf[a]] \in {"up", "ending"} /\ pageOf[ClientOf[a]] = Route(a)
PageOnRoute == \A a \in At(Locked) \ stale : OnRoute(a)

\* What makes it hold: the page of a crawl is kept while the detail gate is awaited, and
\* only the walk over the candidates is ever past the last of them.
Keeps(a) == pc[a] \in Locked \/ Crawling(a)
KeptOnRoute == \A a \in Accounts \ stale : Keeps(a) => OnRoute(a)
RouteChosen ==
    /\ pageOf \in [Clients -> Routes \cup {NoRoute}]
    /\ idx \in [Accounts -> Nat \ {0}]
    /\ reached \in [Accounts -> Seq(Nat \ {0})]
    /\ \A a \in Accounts : /\ reached[a] \in Seq(1..Len(RoutesOf[a]))
                           /\ \/ idx[a] <= Len(RoutesOf[a])
                              \/ pc[a] = "next" /\ idx[a] = Len(RoutesOf[a]) + 1

\* A browser never has more detail tabs than its gate has permits, and the gate loses
\* none, whatever the tabs' browsers go through (lines 911-928).
Lent(c) == {r \in Readers : owner[r] \in Of(c) /\ rpc[r] \notin {"none", "wait"}}
TabsBounded ==
    \A c \in Clients :
        /\ free[c] + Cardinality(Lent(c)) = Tabs
        /\ idle[c] + Cardinality({r \in Lent(c) : rpc[r] \in {"opening", "reading"}}) <= Tabs

\* What makes it hold: a reader at work has an account, and until the account's gather has
\* gone on without it, that is where the account waits.
ReaderStates == {"none", "wait", "opening", "openingCut", "reading", "readingCut"}
ReadersAwaited ==
    /\ rpc \in [Readers -> ReaderStates] /\ owner \in [Readers -> Accounts \cup {NoAccount}]
    /\ \A r \in Readers : rpc[r] # "none" =>
           owner[r] \in Accounts /\ (r \in left \/ pc[owner[r]] = "tabs")
BatchRuns == running \/ \A a \in Accounts : pc[a] = "over"

\* A batch ends, so that is_running is reset, if the driver answers what it is asked: no
\* lock, gate or permit is waited for in a circle, or lost (run_batch).
BatchEnds == DriverAnswers => (running ~> ~running)
=============================================================================
