-------------------------- MODULE QuickHealthCheck --------------------------
(***************************************************************************)
(* The quick health check (quick_check_use_case.py): one shared service    *)
(* that asks TikTok over HTTP whether accounts are alive.  A batch runs    *)
(* one coroutine per account; each request of it takes a permit of the     *)
(* account's proxy and then one of the batch.  Batches are started by the  *)
(* dashboard (a task per request, tasks_router.py) and by the continuous   *)
(* loop, which is switched off by a flag and never cancelled, so a quick   *)
(* off and on leaves the old loop running beside the new one.  is_running  *)
(* is what keeps their batches apart, and the semaphores are new in every  *)
(* batch: if two overlapped, no limit would hold.                          *)
(*                                                                         *)
(* A step is what a coroutine does between two awaits.  What TikTok        *)
(* answers is a choice: conclusive or not.                                 *)
(***************************************************************************)
EXTENDS Integers, FiniteSets

CONSTANTS
    Accounts, Proxies, ProxyOf,   \* "__DIRECT__" counts as a proxy
    Manual, Loops,                \* batches asked for by hand; continuous loops
    Selections,                   \* the lists a user may choose
    PerProxy,                     \* permits of a proxy in a batch (2 in the code)
    Limits                        \* the concurrency limits a user may choose

Callers == Manual \cup Loops

ASSUME QuickCheckAssumption ==
    /\ ProxyOf \in [Accounts -> Proxies] /\ Manual \cap Loops = {}
    /\ PerProxy \in Nat \ {0} /\ Limits \subseteq Nat \ {0}
    /\ IsFiniteSet(Accounts) /\ Selections \subseteq SUBSET Accounts

VARIABLES
    phase,      \* of each caller: "none", "created", "top", "batch", "closing",
                \* "resting" (the loop's cooldown), "ended", "dropped"
    worker,     \* of each caller and account: its coroutine (see Busy below)
    stage,      \* the request it is at: "session", "oembed", "profile", "guest"
    running,    \* is_running
    total, completed,
    verdicts,   \* alive + dead + inconclusive
    active,     \* _continuous_active
    wanted,     \* _continuous_account_ids
    present,    \* accounts in the database
    routeUsed,  \* permits taken of each proxy's semaphore of the batch
    slotsUsed,  \* permits taken of its semaphore
    limit

countVars == <<running, total, completed, verdicts>>
permitVars == <<routeUsed, slotsUsed, limit>>
loopVars == <<active, wanted>>
vars == <<phase, worker, stage, countVars, loopVars, present, permitVars>>

Init ==
    /\ phase = [c \in Callers |-> "none"]
    /\ worker = [c \in Callers |-> [a \in Accounts |-> "none"]]
    /\ stage = [c \in Callers |-> [a \in Accounts |-> "session"]]
    /\ running = FALSE /\ total = 0 /\ completed = 0 /\ verdicts = 0
    /\ active = FALSE /\ wanted = {} /\ present = Accounts
    /\ routeUsed = [p \in Proxies |-> 0] /\ slotsUsed = 0 /\ limit \in Limits

Goto(c, p) == phase' = [phase EXCEPT ![c] = p]
At(c, S) == {a \in Accounts : worker[c][a] \in S}
Move(c, a, w) == worker' = [worker EXCEPT ![c][a] = w]

-----------------------------------------------------------------------------
(* run_batch                                                               *)

\* Not while another batch runs: there is no await between the test and the set.
MayRun_Always == TRUE
MayRun == ~running

StartBatch(c, ids) ==
    /\ Goto(c, "batch")
    /\ worker' = [worker EXCEPT ![c] = [a \in Accounts |-> IF a \in ids THEN "new" ELSE "none"]]
    /\ running' = TRUE /\ total' = Cardinality(ids) /\ completed' = 0 /\ verdicts' = 0
    /\ routeUsed' = [p \in Proxies |-> 0] /\ slotsUsed' = 0
    /\ UNCHANGED <<stage, loopVars, present>>

\* gather returned; the HTTP clients are closed one after the other.
Gathered(c) ==
    /\ phase[c] = "batch" /\ At(c, {"none", "done"}) = Accounts
    /\ Goto(c, "closing")
    /\ UNCHANGED <<worker, stage, countVars, loopVars, present, permitVars>>

\* is_running is reset last; then the dashboards are told, and a loop rests.
EndBatch(c) ==
    /\ phase[c] = "closing"
    /\ running' = FALSE
    /\ Goto(c, IF c \in Loops THEN "resting" ELSE "ended")
    /\ worker' = [worker EXCEPT ![c] = [a \in Accounts |-> "none"]]
    /\ UNCHANGED <<stage, total, completed, verdicts, loopVars, present, permitVars>>

-----------------------------------------------------------------------------
(* _process_one_account                                                    *)

\* Its finally clause.
Completed == completed + 1
Finish(c, a) == Move(c, a, "done") /\ completed' = Completed

\* The snapshot; without an account it is finished.  Without cookies the first
\* request is the oEmbed one.
Snapshot(c, a) ==
    /\ worker[c][a] = "new"
    /\ IF a \in present
       THEN /\ Move(c, a, "route")
            /\ \E s \in {"session", "oembed"} : stage' = [stage EXCEPT ![c][a] = s]
            /\ UNCHANGED completed
       ELSE Finish(c, a) /\ UNCHANGED stage
    /\ UNCHANGED <<phase, running, total, verdicts, loopVars, present, permitVars>>

\* run_limited: the permit of the proxy, then the permit of the batch, then the request.
RouteFree(a) == routeUsed[ProxyOf[a]] < PerProxy
SlotFree_OffByOne == slotsUsed <= limit
SlotFree == slotsUsed < limit

TakeRoute(c, a) ==
    /\ worker[c][a] = "route" /\ RouteFree(a)
    /\ routeUsed' = [routeUsed EXCEPT ![ProxyOf[a]] = @ + 1]
    /\ Move(c, a, "slot")
    /\ UNCHANGED <<phase, stage, countVars, loopVars, present, slotsUsed, limit>>

TakeSlot(c, a) ==
    /\ worker[c][a] = "slot" /\ SlotFree
    /\ slotsUsed' = slotsUsed + 1
    /\ Move(c, a, "request")
    /\ UNCHANGED <<phase, stage, countVars, loopVars, present, routeUsed, limit>>

RouteAfter_Kept(a) == routeUsed
RouteAfter(a) == [routeUsed EXCEPT ![ProxyOf[a]] = @ - 1]
GiveBack(a) == routeUsed' = RouteAfter(a) /\ slotsUsed' = slotsUsed - 1 /\ UNCHANGED limit

\* The last request, or a conclusive answer (of the session request only ALIVE is): the
\* account is read again, its verdict counted and its row saved, and the dashboards
\* are told.  An account deleted meanwhile gets none.
Concludes(c, a) ==
    /\ worker[c][a] = "request"
    /\ GiveBack(a)
    /\ IF a \in present
       THEN Move(c, a, "telling") /\ verdicts' = verdicts + 1 /\ UNCHANGED completed
       ELSE Finish(c, a) /\ UNCHANGED verdicts
    /\ stage' = [stage EXCEPT ![c][a] = "session"]
    /\ UNCHANGED <<phase, running, total, loopVars, present>>

\* An inconclusive answer: the next request, after a pause before the last one.
NextStage == [session |-> "oembed", oembed |-> "profile", profile |-> "guest"]
FallsBack(c, a) ==
    /\ worker[c][a] = "request" /\ stage[c][a] # "guest"
    /\ GiveBack(a)
    /\ stage' = [stage EXCEPT ![c][a] = NextStage[@]]
    /\ Move(c, a, IF stage[c][a] = "profile" THEN "pausing" ELSE "route")
    /\ UNCHANGED <<phase, countVars, loopVars, present>>

Paused(c, a) ==
    /\ worker[c][a] = "pausing"
    /\ Move(c, a, "route")
    /\ UNCHANGED <<phase, stage, countVars, loopVars, present, permitVars>>

Told(c, a) ==
    /\ worker[c][a] = "telling"
    /\ Finish(c, a)
    /\ UNCHANGED <<phase, stage, running, total, verdicts, loopVars, present, permitVars>>

Worker(c, a) ==
    \/ Snapshot(c, a) \/ TakeRoute(c, a) \/ TakeSlot(c, a) \/ Concludes(c, a)
    \/ FallsBack(c, a) \/ Paused(c, a) \/ Told(c, a)

-----------------------------------------------------------------------------
(* The callers                                                             *)

\* POST /quick-health-check: refused while a batch runs, else a task is created and
\* the answer is SUCCESS; the task begins later.
Post(m) ==
    /\ phase[m] = "none" /\ MayRun
    /\ Goto(m, "created")
    /\ UNCHANGED <<worker, stage, countVars, loopVars, present, permitVars>>

BeginManual(m) ==
    /\ phase[m] = "created" /\ MayRun
    /\ \E ids \in Selections, l \in Limits : StartBatch(m, ids) /\ limit' = l

\* Two were answered SUCCESS before the first began.
DropManual(m) ==
    /\ phase[m] = "created" /\ ~MayRun
    /\ Goto(m, "dropped")
    /\ UNCHANGED <<worker, stage, countVars, loopVars, present, permitVars>>

\* start_continuous, stop_continuous.
StartContinuous(l) ==
    /\ ~active /\ phase[l] = "none"
    /\ wanted' \in Selections
    /\ active' = TRUE
    /\ Goto(l, "top")
    /\ UNCHANGED <<worker, stage, countVars, present, permitVars>>

StopContinuous ==
    /\ active /\ active' = FALSE /\ wanted' = {}
    /\ UNCHANGED <<phase, worker, stage, countVars, present, permitVars>>

\* The head of the while loop.
GoesOn_Always == TRUE
GoesOn == active
LoopEnds(l) ==
    /\ phase[l] = "top" /\ ~GoesOn
    /\ Goto(l, "ended")
    /\ UNCHANGED <<worker, stage, countVars, loopVars, present, permitVars>>

LoopBatch(l) ==
    /\ phase[l] = "top" /\ GoesOn /\ MayRun /\ wanted \cap present # {}
    /\ StartBatch(l, wanted \cap present)
    /\ \E n \in Limits : limit' = n

\* Nothing to check; or run_batch returned at once because another batch runs, which
\* the loop counts as a cycle all the same.
LoopSkips(l) ==
    /\ phase[l] = "top" /\ GoesOn /\ (~MayRun \/ wanted \cap present = {})
    /\ Goto(l, "resting")
    /\ UNCHANGED <<worker, stage, countVars, loopVars, present, permitVars>>

\* The cooldown is over, or its poll saw the flag.
Rested(l) ==
    /\ phase[l] = "resting"
    /\ Goto(l, "top")
    /\ UNCHANGED <<worker, stage, countVars, loopVars, present, permitVars>>

DeleteAccount(a) ==
    /\ a \in present /\ present' = present \ {a}
    /\ UNCHANGED <<phase, worker, stage, countVars, loopVars, permitVars>>

Caller(c) ==
    \/ Gathered(c) \/ EndBatch(c)
    \/ c \in Manual /\ (BeginManual(c) \/ DropManual(c))
    \/ c \in Loops /\ (LoopEnds(c) \/ LoopBatch(c) \/ LoopSkips(c) \/ Rested(c))

Next ==
    \/ \E c \in Callers : Caller(c) \/ \E a \in Accounts : Worker(c, a)
    \/ \E m \in Manual : Post(m)
    \/ \E l \in Loops : StartContinuous(l)
    \/ StopContinuous
    \/ \E a \in Accounts : DeleteAccount(a)

Spec == Init /\ [][Next]_vars

\* The event loop runs what can run, and every request ends (httpx.Timeout).
FairSpec == /\ Spec
            /\ \A c \in Callers : WF_vars(Caller(c)) /\ \A a \in Accounts : WF_vars(Worker(c, a))

-----------------------------------------------------------------------------
Phases == {"none", "created", "top", "batch", "closing", "resting", "ended", "dropped"}
WorkerStates == {"none", "new", "route", "slot", "request", "pausing", "telling", "done"}

\* One batch at a time, whoever asks and however loops are switched off and on: no
\* second batch resets the counters and the semaphores under the first, and no
\* coroutine outlives the batch that started it.
Batching == {c \in Callers : phase[c] \in {"batch", "closing"}}
BatchesNeverOverlap ==
    /\ \A c, d \in Batching : c = d
    /\ running = (Batching # {})
    /\ \A c \in Callers : phase[c] # "batch" => At(c, {"none", "done"}) = Accounts

\* TikTok never sees more requests at once than the user chose, nor one proxy more
\* than its share, over all batches and loops together.
InFlight == {x \in Callers \X Accounts : worker[x[1]][x[2]] = "request"}
PoliteToTikTok ==
    /\ Cardinality(InFlight) <= limit
    /\ \A p \in Proxies : Cardinality({x \in InFlight : ProxyOf[x[2]] = p}) <= PerProxy

\* What makes it hold: the semaphores of the batch that runs count the coroutines of every
\* batch, because none was left when they were made new.
HoldRoute(p) == {x \in Callers \X Accounts :
                    worker[x[1]][x[2]] \in {"slot", "request"} /\ ProxyOf[x[2]] = p}
PermitsCounted ==
    /\ IsFiniteSet(InFlight) /\ slotsUsed = Cardinality(InFlight)
    /\ limit \in Nat \ {0} /\ slotsUsed <= limit
    /\ routeUsed \in [Proxies -> Int]
    /\ \A p \in Proxies : /\ IsFiniteSet(HoldRoute(p)) /\ routeUsed[p] = Cardinality(HoldRoute(p))
                          /\ routeUsed[p] <= PerProxy

\* is_running is never stuck: no permit is lost, no fallback goes round for ever.
BatchEnds == running ~> ~running

\* Switched off for good, the continuous check ends, whichever loops are left.
LoopsEnd == <>[]~active => <>[](\A l \in Loops : phase[l] \in {"none", "ended"})
=============================================================================
