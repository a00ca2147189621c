--------------------------- MODULE TaskDispatcher ---------------------------
(***************************************************************************)
(* ConcurrentTaskDispatcher of                                             *)
(* src/backend/app/use_cases/orchestration/task_dispatcher.py: the queue   *)
(* loop, the workers it creates, the resizable concurrency gate, the       *)
(* per-route slots, global and per-account pause, the emergency stop and   *)
(* the account status column that outlives the process.                    *)
(*                                                                         *)
(* The program is one asyncio event loop.  An action is what one coroutine *)
(* does between two suspensions, so actions interleave exactly where the   *)
(* code awaits.  A member of Tasks is one call of submit_task, for account *)
(* acct[t]; pc[t] says where the coroutine that carries it is suspended.   *)
(*                                                                         *)
(* A definition X_Y that precedes X is X with a plausible bug; the runs    *)
(* use it to show that their properties notice that bug.                   *)
(***************************************************************************)
EXTENDS Naturals, Sequences, FiniteSets

CONSTANTS
    Tasks,          \* the submissions of one behaviour (a bound)
    Accounts,       \* account ids
    acct,           \* the account each submission names
    Routes,         \* host:port keys of the proxy store
    RouteOf,        \* the proxy assigned to each account (account.proxy_id)
    NoTask,         \* the value of a registry entry that is absent
    UseProxy,       \* settings.USE_PROXY
    Limits,         \* the values the operator may type for the task limit
    MaxTabs,        \* MAX_CONCURRENT_TABS, the machine ceiling
    LaunchGate,     \* BROWSER_LAUNCH_GATE
    MaxStops,       \* bound: emergency stops in one behaviour
    MayPause,       \* the operator uses pause / resume
    MayArchive,     \* the operator moves accounts to the sold group
    LeaseMayExpire, \* the entitlement may lapse while tasks are queued
    AvatarMayFail,  \* choosing the avatar of an UPDATE_PROFILE task may raise
    MayCrash        \* the backend process may die and be restarted

Direct == "direct"                      \* the slot counter of USE_PROXY=False

ASSUME DispatcherAssumption ==
    /\ IsFiniteSet(Tasks) /\ NoTask \notin Tasks
    /\ acct \in [Tasks -> Accounts]
    /\ RouteOf \in [Accounts -> Routes]
    /\ Direct \notin Routes
    /\ MaxTabs \in Nat \ {0}
    /\ Limits \subseteq Nat \ {0} /\ Limits # {}
    /\ LaunchGate \in Nat \ {0}
    /\ MaxStops \in Nat
    /\ {UseProxy, MayPause, MayArchive, LeaseMayExpire, AvatarMayFail, MayCrash}
           \subseteq BOOLEAN

VARIABLES
    pc, born,                   \* per task: location, generation at queue.put
    wait, ev,                   \* per task: what its pause checkpoint awaits
    cancelled,                  \* tasks with an undelivered task.cancel()
    holding,                    \* tasks with proxy_acquired or direct_slot_held
    opened,                     \* tasks whose adapter has begun initialize()
    queue, held, loopGen,       \* the queue, the payload awaiting the gate,
                                \* admission_generation of the queue loop
    inUse, limit,               \* the gate's _in_use and _limit
    slots,                      \* _proxy_running, and _direct_running
    pending, active, browser,   \* _pending_accounts, active_tasks, active_browsers
    globalPaused, acctPaused,   \* the pause events that are cleared
    generation,                 \* _emergency_stop_generation
    stopping, awaited,          \* an emergency_stop_all inside gather, and on whom
    status, archived, leased    \* account.status, the sold group, the lease

taskVars  == <<pc, born, wait, ev, cancelled, holding, opened>>
loopVars  == <<queue, held, loopGen>>
gateVars  == <<inUse, limit, slots>>
regVars   == <<pending, active, browser>>
pauseVars == <<globalPaused, acctPaused>>
stopVars  == <<generation, stopping, awaited>>
dataVars  == <<status, archived, leased>>
vars == <<taskVars, loopVars, gateVars, regVars, pauseVars, stopVars, dataVars>>

-----------------------------------------------------------------------------
(* Locations.                                                              *)

\* Inside the worker's try block, where a cancellation reaches its handler.
Guarded == {"acquiring", "waiting", "network", "stagger", "gateWait",
            "launching", "working", "failing", "reporting"}
\* The coroutine owns a gate permit: created by the loop, not past its finally.
Admitted == {"admitted", "handling", "closing"} \cup Guarded
\* The submission has been accepted and its worker has not finished its cleanup.
Busy == {"submitting", "queued", "held"} \cup Admitted
\* Nothing will run for the task any more: it finished, it was dropped before
\* it had a worker, its coroutine died before its finally block completed, or
\* the process died.
Ended == {"done", "dropped", "lost", "crashed"}
Locations == {"new", "farewell"} \cup Busy \cup Ended

At(locs) == {t \in Tasks : pc[t] \in locs}
\* The tasks for which a browser process exists.
Browsing == {t \in opened : pc[t] \in {"launching", "working", "failing", "reporting",
                                       "handling", "closing"}}

Slots      == Routes \cup {Direct}
Key(t)     == IF UseProxy THEN RouteOf[acct[t]] ELSE Direct
SlotCap    == IF UseProxy THEN 1 ELSE limit
Goto(t, l) == pc' = [pc EXCEPT ![t] = l]
SetStatus(t, s) == status' = [status EXCEPT ![acct[t]] = s]

SetLimitTo(l) == IF l < MaxTabs THEN l ELSE MaxTabs

Init ==
    /\ pc   = [t \in Tasks |-> "new"]
    /\ born = [t \in Tasks |-> 0]
    /\ wait = [t \in Tasks |-> "no"]
    /\ ev   = [t \in Tasks |-> "shared"]
    /\ cancelled = {} /\ holding = {} /\ opened = {}
    /\ queue = <<>> /\ held = NoTask /\ loopGen = 0
    /\ inUse = 0
    /\ limit \in {SetLimitTo(l) : l \in Limits}
    /\ slots = [k \in Slots |-> 0]
    /\ pending = {}
    /\ active  = [a \in Accounts |-> NoTask]
    /\ browser = [a \in Accounts |-> NoTask]
    /\ globalPaused = FALSE /\ acctPaused = {}
    /\ generation = 0 /\ stopping = FALSE /\ awaited = {}
    /\ status = [a \in Accounts |-> "IDLE"]
    /\ archived = {} /\ leased = TRUE

-----------------------------------------------------------------------------
(* submit_task.  The status broadcast is awaited between the reservation   *)
(* of the account and queue.put; a put on the unbounded queue never waits. *)

Idle_ByWorker(t) == active[acct[t]] = NoTask
Idle(t) == acct[t] \notin pending

SubmitBegin(t) ==
    /\ pc[t] = "new" /\ leased
    /\ acct[t] \notin archived
    /\ Idle(t)
    /\ pending' = pending \cup {acct[t]}
    /\ SetStatus(t, "QUEUED")
    /\ Goto(t, "submitting")
    /\ UNCHANGED <<born, wait, ev, cancelled, holding, opened, loopVars,
                   gateVars, active, browser, pauseVars, stopVars, archived, leased>>

SubmitPut(t) ==
    /\ pc[t] = "submitting"
    /\ queue' = Append(queue, t)
    /\ born' = [born EXCEPT ![t] = generation]
    /\ Goto(t, "queued")
    /\ UNCHANGED <<wait, ev, cancelled, holding, opened, held, loopGen,
                   gateVars, regVars, pauseVars, stopVars, dataVars>>

-----------------------------------------------------------------------------
(* _process_queue_loop.  The loop reads the generation, then awaits        *)
(* queue.get() and the gate; a new iteration reads the generation again.   *)

\* The payload the loop is working on: the one it holds, or the next one.
Serving(t) == \/ held = t
              \/ held = NoTask /\ queue # <<>> /\ t = Head(queue)
\* The end of an iteration, and the first statement of the next one.
Iterate == /\ queue' = IF held = NoTask THEN Tail(queue) ELSE queue
           /\ held' = NoTask
           /\ loopGen' = generation

GateOpen_OffByOne == inUse <= limit
GateOpen == inUse < limit
Fenced_Never == FALSE
Fenced   == loopGen # generation
\* _pending_accounts.discard(account_id)
Forget_Not(t) == pending
Forget(t) == pending \ {acct[t]}

\* queue.get() returned and every permit is taken: wait in semaphore.acquire().
LoopHold(t) ==
    /\ held = NoTask /\ Serving(t) /\ ~GateOpen
    /\ held' = t /\ queue' = Tail(queue)
    /\ Goto(t, "held")
    /\ UNCHANGED <<born, wait, ev, cancelled, holding, opened, loopGen,
                   gateVars, regVars, pauseVars, stopVars, dataVars>>

\* A permit, and the same generation: create the worker and register it.
LoopAdmit(t) ==
    /\ Serving(t) /\ GateOpen /\ ~Fenced
    /\ inUse' = inUse + 1
    /\ active' = [active EXCEPT ![acct[t]] = t]
    /\ Goto(t, "admitted")
    /\ Iterate
    /\ UNCHANGED <<born, wait, ev, cancelled, holding, opened, limit, slots,
                   pending, browser, pauseVars, stopVars, dataVars>>

\* A permit, but the generation moved: give the permit back, drop the payload.
LoopDiscard(t) ==
    /\ Serving(t) /\ GateOpen /\ Fenced
    /\ pending' = Forget(t)
    /\ Goto(t, "dropped")
    /\ Iterate
    /\ UNCHANGED <<born, wait, ev, cancelled, holding, opened, gateVars,
                   active, browser, pauseVars, stopVars, dataVars>>

\* _allocate_avatar_from_folder raises, before the gate: the except clause only
\* forgets the account.
LoopFails(t) ==
    /\ AvatarMayFail
    /\ held = NoTask /\ Serving(t)
    /\ pending' = Forget(t)
    /\ Goto(t, "dropped")
    /\ Iterate
    /\ UNCHANGED <<born, wait, ev, cancelled, holding, opened, gateVars,
                   active, browser, pauseVars, stopVars, dataVars>>

-----------------------------------------------------------------------------
(* _wait_if_paused: await the global event, then the account's event.      *)
(* Event.set resolves the waiters it has at that moment; they resume later *)
(* and do not look at the event again.  wait[t] is                         *)
(*   "no"       the checkpoint is not entered yet                          *)
(*   "global"   suspended on the global event, "globalSet" once resolved   *)
(*   "account"  suspended on the account event, "accountSet" once resolved *)
(* ev[t] is the account event object the worker captured: "shared" while   *)
(* it is the entry of account_pause_events, "open" / "shut" once that      *)
(* entry was popped and the object kept the value it had.                  *)

EventSet(t) == \/ ev[t] = "open"
               \/ ev[t] = "shared" /\ acct[t] \notin acctPaused

\* The first suspension that can no longer hold the worker back.
MayPass(t) == \/ wait[t] = "no" /\ ~globalPaused /\ EventSet(t)
              \/ wait[t] = "globalSet" /\ EventSet(t)
              \/ wait[t] = "accountSet"

Pass(t) == /\ MayPass(t)
           /\ wait' = [wait EXCEPT ![t] = "no"]
           /\ ev'   = [ev EXCEPT ![t] = "shared"]

\* log_step refuses a sold account before it enters the checkpoint.
SoldAtStep(t) == wait[t] = "no" /\ acct[t] \in archived

Block(t) ==
    /\ t \notin cancelled
    /\ pc[t] \in {"admitted", "network", "working", "farewell"}
    /\ pc[t] = "admitted" \/ ~SoldAtStep(t)
    /\ \/ /\ wait[t] = "no" /\ globalPaused
          /\ wait' = [wait EXCEPT ![t] = "global"]
       \/ /\ (wait[t] = "no" /\ ~globalPaused) \/ wait[t] = "globalSet"
          /\ ~EventSet(t)
          /\ wait' = [wait EXCEPT ![t] = "account"]
    /\ UNCHANGED <<pc, born, ev, cancelled, holding, opened, loopVars, gateVars,
                   regVars, pauseVars, stopVars, dataVars>>

Resolve(from, to, S) ==
    wait' = [t \in Tasks |-> IF t \in S /\ wait[t] = from THEN to ELSE wait[t]]
SharedBy(a) == {t \in Tasks : acct[t] = a /\ ev[t] = "shared"}

PauseGlobal ==
    /\ MayPause
    /\ globalPaused' = TRUE
    /\ UNCHANGED <<taskVars, loopVars, gateVars, regVars, acctPaused, stopVars, dataVars>>

ResumeGlobal_NoWake ==
    /\ globalPaused
    /\ globalPaused' = FALSE
    /\ UNCHANGED <<taskVars, loopVars, gateVars, regVars, acctPaused, stopVars, dataVars>>

ResumeGlobal ==
    /\ globalPaused
    /\ globalPaused' = FALSE
    /\ Resolve("global", "globalSet", Tasks)
    /\ UNCHANGED <<pc, born, ev, cancelled, holding, opened, loopVars, gateVars,
                   regVars, acctPaused, stopVars, dataVars>>

\* The endpoints refuse to pause or to resume a sold account.
PauseAccount(a) ==
    /\ MayPause /\ a \notin archived
    /\ acctPaused' = acctPaused \cup {a}
    /\ UNCHANGED <<taskVars, loopVars, gateVars, regVars, globalPaused, stopVars, dataVars>>

ResumeAccount(a) ==
    /\ a \in acctPaused /\ a \notin archived
    /\ acctPaused' = acctPaused \ {a}
    /\ Resolve("account", "accountSet", SharedBy(a))
    /\ UNCHANGED <<pc, born, ev, cancelled, holding, opened, loopVars, gateVars,
                   regVars, globalPaused, stopVars, dataVars>>

-----------------------------------------------------------------------------
(* _execute_worker_with_semaphore, up to its try block: nothing here runs  *)
(* under the finally clause that gives the permit back.                    *)

WorkerBegin(t) ==
    /\ pc[t] = "admitted" /\ t \notin cancelled
    /\ Pass(t) /\ leased
    /\ Goto(t, IF acct[t] \in archived THEN "reporting" ELSE "acquiring")
    /\ UNCHANGED <<born, cancelled, holding, opened, loopVars, gateVars,
                   regVars, pauseVars, stopVars, dataVars>>

\* entitlement_gate.require raises: the exception ends the coroutine.
WorkerDenied(t) ==
    /\ pc[t] = "admitted" /\ t \notin cancelled
    /\ Pass(t) /\ ~leased
    /\ Goto(t, "lost")
    /\ UNCHANGED <<born, cancelled, holding, opened, loopVars, gateVars,
                   regVars, pauseVars, stopVars, dataVars>>

(* _acquire_assigned_proxy and _acquire_direct_slot.                       *)

\* An empty store, no assigned proxy, a deleted or a disabled one.
RouteRefused(t) ==
    /\ pc[t] = "acquiring" /\ UseProxy /\ t \notin cancelled
    /\ SetStatus(t, "ERROR")
    /\ Goto(t, "reporting")
    /\ UNCHANGED <<born, wait, ev, cancelled, holding, opened, loopVars, gateVars,
                   regVars, pauseVars, stopVars, archived, leased>>

SlotFree_OffByOne(t) == slots[Key(t)] <= SlotCap
SlotFree(t) == slots[Key(t)] < SlotCap

TakeSlot(t) ==
    /\ pc[t] \in {"acquiring", "waiting"} /\ t \notin cancelled
    /\ SlotFree(t)
    /\ slots' = [slots EXCEPT ![Key(t)] = @ + 1]
    /\ holding' = holding \cup {t}
    /\ Goto(t, "network")
    /\ UNCHANGED <<born, wait, ev, cancelled, opened, loopVars, inUse, limit,
                   regVars, pauseVars, stopVars, dataVars>>


WaitForSlot(t) ==
    /\ pc[t] = "acquiring" /\ t \notin cancelled
    /\ ~SlotFree(t)
    /\ SetStatus(t, "QUEUED")
    /\ Goto(t, "waiting")
    /\ UNCHANGED <<born, wait, ev, cancelled, holding, opened, loopVars, gateVars,
                   regVars, pauseVars, stopVars, archived, leased>>

(* The checkpoint that names the network, the stagger delay, the launch.   *)

EnterStagger(t) ==
    /\ pc[t] = "network" /\ t \notin cancelled /\ ~SoldAtStep(t)
    /\ Pass(t)
    /\ Goto(t, "stagger")
    /\ status' = status \/ SetStatus(t, "QUEUED")
    /\ UNCHANGED <<born, cancelled, holding, opened, loopVars, gateVars,
                   regVars, pauseVars, stopVars, archived, leased>>

Launching == Cardinality(At({"launching"}))

WaitForLaunch(t) ==
    /\ pc[t] = "stagger" /\ t \notin cancelled /\ acct[t] \notin archived
    /\ Launching >= LaunchGate
    /\ SetStatus(t, "QUEUED")
    /\ Goto(t, "gateWait")
    /\ UNCHANGED <<born, wait, ev, cancelled, holding, opened, loopVars, gateVars,
                   regVars, pauseVars, stopVars, archived, leased>>

Launch(t) ==
    /\ \/ pc[t] = "stagger" /\ acct[t] \notin archived
       \/ pc[t] = "gateWait"
    /\ t \notin cancelled
    /\ Launching < LaunchGate
    /\ SetStatus(t, "RUNNING")
    /\ opened' = opened \cup {t}
    /\ Goto(t, "launching")
    /\ UNCHANGED <<born, wait, ev, cancelled, holding, loopVars, gateVars,
                   regVars, pauseVars, stopVars, archived, leased>>

Launched(t) ==
    /\ pc[t] = "launching" /\ t \notin cancelled /\ acct[t] \notin archived
    /\ browser' = [browser EXCEPT ![acct[t]] = t]
    /\ Goto(t, "working")
    /\ UNCHANGED <<born, wait, ev, cancelled, holding, opened, loopVars, gateVars,
                   pending, active, pauseVars, stopVars, dataVars>>

\* A step of the use case passes the checkpoint it was suspended on.
StepResumes(t) ==
    /\ pc[t] = "working" /\ t \notin cancelled /\ wait[t] # "no"
    /\ Pass(t)
    /\ UNCHANGED <<pc, born, cancelled, holding, opened, loopVars, gateVars,
                   regVars, pauseVars, stopVars, dataVars>>

\* Whatever status the use case left, a success never ends RUNNING or QUEUED.
UseCaseSucceeds(t) ==
    /\ pc[t] = "working" /\ t \notin cancelled /\ wait[t] = "no"
    /\ SetStatus(t, "SUCCESS")
    /\ Goto(t, "reporting")
    /\ UNCHANGED <<born, wait, ev, cancelled, holding, opened, loopVars, gateVars,
                   regVars, pauseVars, stopVars, archived, leased>>

\* initialize() or the use case raised, the use case returned False, or the
\* upload timeout elapsed, which it may do while the step is paused.  The failure
\* is broadcast, then written.
RunFails(t) ==
    /\ pc[t] \in {"launching", "working"} /\ t \notin cancelled
    /\ wait' = [wait EXCEPT ![t] = "no"] /\ ev' = [ev EXCEPT ![t] = "shared"]
    /\ Goto(t, "failing")
    /\ UNCHANGED <<born, cancelled, holding, opened, loopVars, gateVars,
                   regVars, pauseVars, stopVars, dataVars>>

FailureTold(t) ==
    /\ pc[t] = "failing" /\ t \notin cancelled
    /\ SetStatus(t, "ERROR")
    /\ Goto(t, "handling")
    /\ UNCHANGED <<born, wait, ev, cancelled, holding, opened, loopVars, gateVars,
                   regVars, pauseVars, stopVars, archived, leased>>

\* SoldAccountArchived, from a step or from the two checks around the launch:
\* its handler tells the dashboards and leaves the status alone.
SoldStop(t) ==
    /\ t \notin cancelled /\ acct[t] \in archived
    /\ \/ pc[t] \in {"network", "working"} /\ wait[t] = "no"
       \/ pc[t] \in {"stagger", "launching"}
    /\ Goto(t, "handling")
    /\ UNCHANGED <<born, wait, ev, cancelled, holding, opened, loopVars, gateVars,
                   regVars, pauseVars, stopVars, dataVars>>

Reported(t) ==
    /\ pc[t] \in {"reporting", "handling"} /\ t \notin cancelled
    /\ Goto(t, "closing")
    /\ UNCHANGED <<born, wait, ev, cancelled, holding, opened, loopVars, gateVars,
                   regVars, pauseVars, stopVars, dataVars>>

(* The finally clause after browser_service.close() returned.  close() of  *)
(* an adapter that never opened a browser does not suspend.                *)

PermitsAfter_IfOpened(t) == IF t \in opened THEN inUse - 1 ELSE inUse
PermitsAfter(t) == inUse - 1
GivesBack_Always(t) == TRUE
GivesBack(t) == t \in holding
Deregister(t) == [browser EXCEPT ![acct[t]] = IF @ = t THEN NoTask ELSE @]

Release(t) ==
    /\ pc[t] = "closing"
    /\ t \notin cancelled \/ t \notin opened
    /\ browser' = Deregister(t)
    /\ slots' = IF GivesBack(t)
                THEN [slots EXCEPT ![Key(t)] = IF @ = 0 THEN 0 ELSE @ - 1]
                ELSE slots
    /\ holding' = holding \ {t}
    /\ inUse' = PermitsAfter(t)
    /\ active' = [active EXCEPT ![acct[t]] = NoTask]
    /\ pending' = Forget(t)
    /\ acctPaused' = acctPaused \ {acct[t]}
    /\ ev' = [u \in Tasks |->
                IF u \in SharedBy(acct[t]) /\ wait[u] # "no"
                THEN IF acct[t] \in acctPaused THEN "shut" ELSE "open"
                ELSE ev[u]]
    /\ Goto(t, "farewell")
    /\ UNCHANGED <<born, wait, cancelled, opened, loopVars, limit,
                   globalPaused, stopVars, dataVars>>

\* The last log_step runs inside the finally clause, checkpoint included.
Farewell(t) ==
    /\ pc[t] = "farewell" /\ t \notin cancelled
    /\ \/ SoldAtStep(t) /\ UNCHANGED <<wait, ev>>
       \/ ~SoldAtStep(t) /\ Pass(t)
    /\ Goto(t, "done")
    /\ UNCHANGED <<born, cancelled, holding, opened, loopVars, gateVars,
                   regVars, pauseVars, stopVars, dataVars>>

-----------------------------------------------------------------------------
(* emergency_stop_all and the delivery of task.cancel(): CancelledError is *)
(* raised at the await where the coroutine is suspended.                   *)

Alive(t) == pc[t] \notin Ended
Registered == {t \in Tasks : active[acct[t]] = t /\ Alive(t)}

EmergencyStop ==
    /\ generation < MaxStops
    /\ generation' = generation + 1
    /\ globalPaused' = FALSE /\ acctPaused' = {}
    /\ wait' = [t \in Tasks |->
                 CASE wait[t] = "global" -> "globalSet"
                   [] wait[t] = "account" /\ ev[t] = "shared" -> "accountSet"
                   [] OTHER -> wait[t]]
    /\ cancelled' = cancelled \cup Registered
    /\ queue' = <<>>
    /\ pc' = [t \in Tasks |-> IF pc[t] = "queued" THEN "dropped" ELSE pc[t]]
    /\ pending' = {}
    /\ awaited' = awaited \cup Registered
    /\ stopping' = TRUE
    /\ UNCHANGED <<born, ev, holding, opened, held, loopGen, gateVars,
                   active, browser, dataVars>>

\* gather returns once every cancelled worker has ended.
StopReturns ==
    /\ stopping
    /\ \A t \in awaited : ~Alive(t)
    /\ stopping' = FALSE /\ awaited' = {}
    /\ UNCHANGED <<taskVars, loopVars, gateVars, regVars, pauseVars, generation, dataVars>>

Delivered(t) == /\ t \in cancelled
                /\ cancelled' = cancelled \ {t}
                /\ wait' = [wait EXCEPT ![t] = "no"]
                /\ ev'   = [ev EXCEPT ![t] = "shared"]

\* Before the try block, inside close(), or waiting for the lock of the slots after
\* close(): the rest of the coroutine is lost.
CancelUnguarded(t) ==
    /\ pc[t] = "admitted" \/ (pc[t] = "closing" /\ t \in opened \cup holding)
    /\ Delivered(t)
    /\ browser' \in {browser, Deregister(t)}
    /\ Goto(t, "lost")
    /\ UNCHANGED <<born, holding, opened, loopVars, gateVars, pending, active,
                   pauseVars, stopVars, dataVars>>

\* The handler writes ERROR and broadcasts it.
CancelGuarded(t) ==
    /\ pc[t] \in Guarded
    /\ Delivered(t)
    /\ SetStatus(t, "ERROR")
    /\ Goto(t, "handling")
    /\ UNCHANGED <<born, holding, opened, loopVars, gateVars, regVars,
                   pauseVars, stopVars, archived, leased>>

\* A handler that is cancelled itself, the one of a raised failure before it has written
\* ERROR included, goes on to the finally clause.
CancelHandler(t) ==
    /\ pc[t] \in {"handling", "failing"}
    /\ Delivered(t)
    /\ Goto(t, "closing")
    /\ UNCHANGED <<born, holding, opened, loopVars, gateVars, regVars,
                   pauseVars, stopVars, dataVars>>

\* "await streamer_task" in the finally clause catches BaseException.
CancelSwallowed(t) ==
    /\ pc[t] = "closing" /\ t \in opened
    /\ Delivered(t)
    /\ UNCHANGED <<pc, born, holding, opened, loopVars, gateVars, regVars,
                   pauseVars, stopVars, dataVars>>

CancelFarewell(t) ==
    /\ pc[t] = "farewell"
    /\ Delivered(t)
    /\ Goto(t, "done")
    /\ UNCHANGED <<born, holding, opened, loopVars, gateVars, regVars,
                   pauseVars, stopVars, dataVars>>

-----------------------------------------------------------------------------
(* The operator, the lease and the process.                                *)

\* set_proxy_concurrency_limit; permits already held are kept.
SetLimit(l) ==
    /\ limit' = SetLimitTo(l)
    /\ UNCHANGED <<taskVars, loopVars, inUse, slots, regVars, pauseVars, stopVars, dataVars>>

ArchiveAccount(a) ==
    /\ MayArchive
    /\ archived' = archived \cup {a}
    /\ UNCHANGED <<taskVars, loopVars, gateVars, regVars, pauseVars, stopVars, status, leased>>

LeaseExpires ==
    /\ LeaseMayExpire
    /\ leased' = FALSE
    /\ UNCHANGED <<taskVars, loopVars, gateVars, regVars, pauseVars, stopVars, status, archived>>

\* The process dies with everything it holds in memory; the new one runs
\* recover_orphaned_runtime_state before its queue loop starts.
Recovered_RunningOnly(s) == IF s = "RUNNING" THEN "ERROR" ELSE s
Recovered(s) == IF s \in {"RUNNING", "QUEUED"} THEN "ERROR" ELSE s

Restart ==
    /\ MayCrash
    /\ \E t \in Tasks : pc[t] \in Busy
    /\ pc' = [t \in Tasks |-> IF pc[t] = "new" \/ pc[t] \in Ended
                              THEN pc[t] ELSE "crashed"]
    /\ wait' = [t \in Tasks |-> "no"] /\ ev' = [t \in Tasks |-> "shared"]
    /\ cancelled' = {} /\ holding' = {}
    /\ queue' = <<>> /\ held' = NoTask /\ loopGen' = 0
    /\ inUse' = 0
    /\ limit' \in {SetLimitTo(l) : l \in Limits}
    /\ slots' = [k \in Slots |-> 0]
    /\ pending' = {}
    /\ active' = [a \in Accounts |-> NoTask]
    /\ browser' = [a \in Accounts |-> NoTask]
    /\ globalPaused' = FALSE /\ acctPaused' = {}
    /\ generation' = 0 /\ stopping' = FALSE /\ awaited' = {}
    /\ leased' = TRUE
    /\ status' = [a \in Accounts |-> Recovered(status[a])]
    /\ UNCHANGED <<born, opened, archived>>

-----------------------------------------------------------------------------
QueueLoop(t) == LoopHold(t) \/ LoopAdmit(t) \/ LoopDiscard(t) \/ LoopFails(t)

Worker(t) ==
    \/ SubmitPut(t) \/ Block(t)
    \/ WorkerBegin(t) \/ WorkerDenied(t)
    \/ RouteRefused(t) \/ TakeSlot(t) \/ WaitForSlot(t)
    \/ EnterStagger(t) \/ WaitForLaunch(t) \/ Launch(t) \/ Launched(t)
    \/ StepResumes(t) \/ UseCaseSucceeds(t) \/ RunFails(t) \/ FailureTold(t)
    \/ SoldStop(t) \/ Reported(t) \/ Release(t) \/ Farewell(t)
    \/ CancelUnguarded(t) \/ CancelGuarded(t) \/ CancelHandler(t) \/ CancelSwallowed(t)
    \/ CancelFarewell(t)

Operator ==
    \/ \E t \in Tasks : SubmitBegin(t)
    \/ PauseGlobal \/ ResumeGlobal
    \/ \E a \in Accounts : PauseAccount(a) \/ ResumeAccount(a) \/ ArchiveAccount(a)
    \/ \E l \in Limits : SetLimit(l)
    \/ EmergencyStop \/ LeaseExpires \/ Restart

Next == \/ Operator
        \/ StopReturns
        \/ \E t \in Tasks : QueueLoop(t) \/ Worker(t)

Spec == Init /\ [][Next]_vars

\* The event loop runs every coroutine that can run; nobody promises that the
\* operator acts, or that the process or the lease survives.
Fairness == /\ \A t \in Tasks : WF_vars(QueueLoop(t)) /\ WF_vars(Worker(t))
            /\ WF_vars(StopReturns)

FairSpec == Spec /\ Fairness

-----------------------------------------------------------------------------
(* Properties.                                                             *)

\* Every variable has its type; held and the queue contain only submissions.
TaskTypes ==
    /\ pc \in [Tasks -> Locations]
    /\ born \in [Tasks -> Nat]
    /\ wait \in [Tasks -> {"no", "global", "globalSet", "account", "accountSet"}]
    /\ ev \in [Tasks -> {"shared", "open", "shut"}]
    /\ cancelled \subseteq Tasks /\ holding \subseteq Tasks /\ opened \subseteq Tasks
LoopTypes ==
    queue \in Seq(Tasks) /\ held \in Tasks \cup {NoTask} /\ loopGen \in Nat
GateTypes == inUse \in Nat /\ limit \in 1..MaxTabs /\ slots \in [Slots -> Nat]
RegistryTypes ==
    /\ pending \subseteq Accounts
    /\ active \in [Accounts -> Tasks \cup {NoTask}]
    /\ browser \in [Accounts -> Tasks \cup {NoTask}]
PauseTypes == globalPaused \in BOOLEAN /\ acctPaused \subseteq Accounts
StopTypes  == generation \in Nat /\ stopping \in BOOLEAN /\ awaited \subseteq Tasks
DataTypes ==
    /\ status \in [Accounts -> {"IDLE", "QUEUED", "RUNNING", "SUCCESS", "ERROR"}]
    /\ archived \subseteq Accounts /\ leased \in BOOLEAN
TypeOK == /\ TaskTypes /\ LoopTypes /\ GateTypes /\ RegistryTypes
          /\ PauseTypes /\ StopTypes /\ DataTypes

\* The gate counts at least the workers that have not yet run their cleanup, so
\* a release never finds it empty ("Concurrency gate released too many times")
\* and no admission exceeds the limit, whatever is cancelled and when.
PermitsCovered == /\ Cardinality(At(Admitted)) <= inUse
                  /\ inUse <= MaxTabs

\* Until the first emergency stop or lease denial the gate counts exactly those
\* workers: no failure, sale or wait leaks a permit.  (A stop can: the loop holds a
\* permit while it waits, and a worker cancelled at the wrong await keeps its own.)
PermitsExact == generation = 0 /\ leased => inUse = Cardinality(At(Admitted))

\* With USE_PROXY, two sessions never share a host:port at the same time
\* (_proxy_running "khoa moi host:port o 1 task"), whatever is cancelled and when.
Sessions(k) == {t \in holding \cap At(Admitted) : Key(t) = k}
RouteExclusive ==
    UseProxy => \A k \in Routes : \A t, u \in Sessions(k) : t = u

\* No browser process exists without the proxy or direct slot it was opened under,
\* cleanup included: the slot goes back only after close() returned.
BrowserUnderSlot == Browsing \subseteq holding

\* The inductive invariant behind the properties above and the fence below.  A payload is in one
\* place; only a worker that got a slot, or died with it, counts as holding it;
\* every session is counted by its slot; and a proxy slot is taken at most once.
QueueOwned ==
    /\ \A i \in 1..Len(queue) : pc[queue[i]] = "queued"
    /\ \A i, j \in 1..Len(queue) : queue[i] = queue[j] => i = j
    /\ held # NoTask => pc[held] = "held"
HoldersPlaced ==
    \A t \in holding : pc[t] \in {"network", "stagger", "gateWait", "launching", "working",
                                 "failing", "reporting", "handling", "closing", "lost"}
SlotsCovered ==
    \A k \in Slots : /\ Cardinality(Sessions(k)) <= slots[k]
                     /\ UseProxy => slots[k] <= 1
BrowsersPlaced ==
    /\ \A t \in Tasks :
         pc[t] \in {"network", "stagger", "gateWait", "launching", "working", "failing"}
             => t \in holding
    /\ \A t \in opened : pc[t] \in {"launching", "working", "failing", "reporting", "handling",
                                    "closing", "farewell", "done", "lost", "crashed"}
    /\ BrowserUnderSlot
\* The queue holds only payloads of the current generation; the payload in the
\* loop's hand may be older, but then so is the generation the loop remembers.
QueueFenced ==
    /\ loopGen <= generation
    /\ \A t \in Tasks : pc[t] = "queued" => born[t] = generation
    /\ held # NoTask /\ loopGen = generation => born[held] = generation
IndInv == /\ TypeOK /\ PermitsCovered /\ QueueOwned /\ HoldersPlaced /\ SlotsCovered
          /\ BrowsersPlaced /\ QueueFenced

\* The counters of the slots are exactly the workers that hold one, stops included.
SlotsExact ==
    \A k \in Slots : slots[k] = Cardinality({t \in holding : Key(t) = k})

\* The gate and the slots count their holders exactly: what a worker took is given back
\* once, and by no one else (PermitsExact says where the code itself fails to).
CountersExact == PermitsExact /\ SlotsExact

\* An account reported busy has a task that will end ("khong ket dang ban vinh
\* vien", the loop's except clause), emergency stops included.
BusyIsLive == leased => pending \subseteq {acct[t] : t \in At(Busy)}

\* One account, one task: _pending_accounts exists so that one account never runs
\* in two browsers.  Until the first emergency stop even its tasks are one.
OneBrowserPerAccount == \A t, u \in Browsing : acct[t] = acct[u] => t = u
OneTaskPerAccount == generation = 0 => \A t, u \in At(Busy) : acct[t] = acct[u] => t = u

\* Until the first emergency stop the status column tells the truth across waits,
\* failures, sales and restarts: RUNNING only while a browser of the account runs, QUEUED only while
\* a task of the account has not launched its browser.  (A lease denial and a failing
\* avatar end a task without writing the column: it keeps QUEUED.)
StatusTruthful ==
    generation = 0 => \A a \in Accounts \ archived :
        /\ status[a] = "RUNNING" => \E t \in Browsing : acct[t] = a
        /\ status[a] = "QUEUED" /\ leased /\ ~AvatarMayFail
               => \E t \in At(Busy) \ Browsing : acct[t] = a

\* The inductive invariant behind the account's books: who is reported busy, which
\* worker the stop would find, what the status column says.
CancelledPlaced ==
    /\ cancelled \subseteq At(Admitted \cup {"farewell"})
    /\ generation = 0 => cancelled = {}
RegistryPlaced ==
    /\ \A t \in Tasks : active[acct[t]] = t => pc[t] \in Admitted \cup {"lost"}
    /\ generation = 0 => \A t \in At(Admitted) : active[acct[t]] = t
\* A busy account has a task that no stop has reached yet, and that task will forget it;
\* until the first stop the account of every task is busy.
BusyBacked == leased => \A a \in pending : \E t \in At(Busy) \ cancelled : acct[t] = a
BusyKnown  == generation = 0 => \A t \in At(Busy) : acct[t] \in pending
StatusTold(t) ==
    /\ pc[t] \in {"launching", "working", "failing"} => status[acct[t]] = "RUNNING" /\ t \in opened
    /\ pc[t] \in {"reporting", "handling", "closing"} => status[acct[t]] \notin {"RUNNING", "QUEUED"}
    /\ pc[t] \in Busy \ {"launching", "working", "failing", "reporting", "handling", "closing"}
           => status[acct[t]] = "QUEUED"
StatusIdle(a) == /\ status[a] # "RUNNING"
                 /\ leased /\ ~AvatarMayFail => status[a] # "QUEUED"
StatusFollows ==
    generation = 0 =>
        /\ \A t \in At(Busy) : acct[t] \notin archived => StatusTold(t)
        /\ \A a \in Accounts \ archived :
               (\A t \in At(Busy) : acct[t] # a) => StatusIdle(a)
BooksInv == /\ CancelledPlaced /\ RegistryPlaced /\ BusyBacked /\ BusyKnown
            /\ OneTaskPerAccount /\ CountersExact /\ StatusFollows

\* The generation fence: a payload that was in the dispatcher before an emergency
\* stop never gets a worker after it.
FencedAdmission ==
    [][\A t \in Tasks : pc[t] \in {"queued", "held"} /\ pc'[t] = "admitted"
                           => born[t] = generation]_vars

\* The first emergency stop cancels every worker that has not ended its cleanup ("huy
\* ngay lap tuc toan bo task dang chay").  A later one need not: active_tasks has
\* one entry per account, and after a stop an account may have two workers.
FirstStopReaches ==
    [][generation = 0 /\ generation' > generation => At(Admitted) \subseteq cancelled']_vars

\* Every accepted task ends, if from some point on nothing stays paused and no
\* emergency stop, which may lose a permit for good, ever happens.
Unpaused == ~globalPaused /\ acctPaused = {}
EveryTaskEnds ==
    <>[]Unpaused /\ [](generation = 0)
        => \A t \in Tasks : pc[t] = "submitting" ~> ~Alive(t)

\* The emergency stop call returns, if from some point on nothing stays paused.
StopEnds == <>[]Unpaused => (stopping ~> ~stopping)

\* The dispatcher keeps the promise of BrowserSessions: a worker that owns a
\* permit is an admitted run, and one that also holds its slot is a session.
Promise == INSTANCE BrowserSessions WITH
    Runs <- Tasks, KeyOf <- [t \in Tasks |-> Key(t)], PerKey <- UseProxy,
    Ceiling <- MaxTabs,
    admitted <- At(Admitted), sessions <- holding \cap At(Admitted), limit <- limit
KeepsPromise == Promise!SSpec
=============================================================================
