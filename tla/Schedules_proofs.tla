-------------------------- MODULE Schedules_proofs --------------------------
(***************************************************************************)
(* The timers give no account two tasks, an upload has no firing but its   *)
(* first, and the firings are senders of the hub, for any set of schedules,*)
(* campaigns, lists and dashboards.  AcceptedOnce is inductive beside the  *)
(* type of put: a submission is accepted only while its account is not     *)
(* pending, and is pending from then on.                                   *)
(***************************************************************************)
EXTENDS Schedules, TLAPS

AcceptInv == put \in [Owners -> SUBSET Accounts] /\ AcceptedOnce

\* What the loop accepts before it awaits was not pending (submit_task's guard).
LEMMA TakesIdle ==
    ASSUME NEW s \in Owners, NEW S
    PROVE  Accepted(s, S) \subseteq Accounts \ pending
  BY DEF Accepted, Passed, Busy

\* A run of a firing's loop, from wherever it was resumed.
LEMMA LoopStep ==
    ASSUME AcceptInv, NEW s \in Owners, NEW L, NEW shown, Loop(s, L, shown)
    PROVE  AcceptInv'
<1> DEFINE S == Suffix(s, L)
           ends == Through(s, S) \/ conns = <<>>
           taken == IF Through(s, S) THEN {} ELSE Accepted(s, S)
<1>1. /\ pending' = pending \cup taken
      /\ put' = [put EXCEPT ![s] = IF ends THEN {} ELSE taken]
      /\ queued' = queued \cup put[s] \cup (IF ends THEN taken ELSE {})
  BY DEF Loop
<1>2. taken \subseteq Accounts \ pending
  BY TakesIdle
<1> HIDE DEF ends, taken
<1>3. put' \in [Owners -> SUBSET Accounts]
  BY <1>1, <1>2 DEF AcceptInv
<1>4. /\ put'[s] = IF ends THEN {} ELSE taken
      /\ \A t \in Owners \ {s} : put'[t] = put[t]
  BY <1>1 DEF AcceptInv
<1>5. \A t \in Owners : put[t] \subseteq pending \ queued
  BY DEF AcceptInv, AcceptedOnce
<1>6. \A t, u \in Owners : t # u => put[t] \cap put[u] = {}
  BY DEF AcceptInv, AcceptedOnce
<1>7. queued' \subseteq pending'
  BY <1>1, <1>5 DEF AcceptInv, AcceptedOnce
<1>8. \A t \in Owners \ {s} : put'[t] \subseteq pending' \ queued' /\ put'[t] \cap put'[s] = {}
  BY <1>1, <1>2, <1>4, <1>5, <1>6
<1>9. put'[s] \subseteq pending' \ queued'
  BY <1>1, <1>2, <1>4, <1>5 DEF AcceptInv, AcceptedOnce
<1>10. \A t, u \in Owners : t # u => put'[t] \cap put'[u] = {}
  BY <1>4, <1>6, <1>8
<1>11. QED
  BY <1>3, <1>7, <1>8, <1>9, <1>10 DEF AcceptInv, AcceptedOnce

\* Every step of the timers, the firings, the dispatcher and the dashboards.
LEMMA AcceptStep == AcceptInv /\ [Next]_vars => AcceptInv'
<1> SUFFICES ASSUME AcceptInv, [Next]_vars PROVE AcceptInv'
  OBVIOUS
<1>1. ASSUME UNCHANGED <<put, pending, queued>> PROVE AcceptInv'
  BY <1>1 DEF AcceptInv, AcceptedOnce
<1>2. CASE User
  BY <1>1, <1>2 DEF User, AddUpload, RemoveUpload, CreateCampaign, Pause, Resume, Delete,
                    fireVars, taskVars
<1>3. ASSUME NEW s \in Owners, DueUpload(s) \/ DueCampaign(s) PROVE AcceptInv'
  BY <1>1, <1>3 DEF DueUpload, DueCampaign, taskVars
<1>4. ASSUME NEW s \in Owners, Coroutine(s) PROVE AcceptInv'
  <2>1. CASE FireUpload(s) \/ FireCampaign(s) \/ SubmitReturns(s)
    BY <2>1, LoopStep DEF FireUpload, FireCampaign, SubmitReturns
  <2>2. CASE FireInactive(s) \/ Misfire(s) \/ Sends(s)
    BY <1>1, <2>2 DEF FireInactive, Misfire, Sends, fireVars, taskVars
  <2>3. QED
    BY <1>4, <2>1, <2>2 DEF Coroutine
<1>5. ASSUME NEW a \in Accounts, TaskEnds(a) PROVE AcceptInv'
  <2>1. /\ a \in queued /\ pending' = pending \ {a} /\ queued' = queued \ {a} /\ put' = put
    BY <1>5 DEF TaskEnds, fireVars
  <2>2. QED
    BY <2>1 DEF AcceptInv, AcceptedOnce
<1>6. ASSUME NEW a \in Accounts, Sell(a) PROVE AcceptInv'
  BY <1>1, <1>6 DEF Sell, fireVars
<1>7. CASE LeaseLapses
  BY <1>1, <1>7 DEF LeaseLapses, fireVars
<1>8. ASSUME NEW c \in Clients, Dashboard(c) PROVE AcceptInv'
  BY <1>1, <1>8 DEF Dashboard, fireVars, taskVars
<1>9. CASE UNCHANGED vars
  BY <1>1, <1>9 DEF vars, fireVars, taskVars
<1>10. QED
  BY <1>2, <1>3, <1>4, <1>5, <1>6, <1>7, <1>8, <1>9 DEF Next, Owners

\* No account gets a second task while one is on its way into the queue or in it
\* (interaction_scheduler.py, "tranh 2 phien cho cung 1 account").
THEOREM OneTaskEach == Spec => []AcceptedOnce
<1>1. Init => AcceptInv
  BY DEF Init, AcceptInv, AcceptedOnce
<1>2. AcceptInv => AcceptedOnce
  BY DEF AcceptInv
<1>3. QED
  BY <1>1, <1>2, AcceptStep, PTL DEF Spec

-----------------------------------------------------------------------------
(* Removed uploads.                                                        *)

\* A run of a firing's loop touches no timer, and cancels nothing.
LEMMA LoopTimers ==
    ASSUME TimerInv, NEW s \in Owners, NEW L, NEW shown, Loop(s, L, shown),
           firing[s] \in {"due", "submitting"},
           shown \in {status, [status EXCEPT ![s] = "RUNNING"]}
    PROVE  TimerInv' /\ \A u \in Uploads \ {s} : status'[u] = status[u] /\ firing'[u] = firing[u]
<1>1. /\ timer' = timer
      /\ \E loc \in {"idle", "submitting"} : firing' = [firing EXCEPT ![s] = loc]
      /\ status' \in {shown, [shown EXCEPT ![s] = "DONE"]}
  BY DEF Loop, AfterLoop
<1>2. \A t \in Owners \ {s} : status'[t] = status[t] /\ firing'[t] = firing[t]
  BY <1>1 DEF TimerInv, TimerTypes
<1>3. status'[s] \in {status[s], "RUNNING", "DONE"}
  BY <1>1 DEF TimerInv, TimerTypes
<1>4. TimerTypes'
  BY <1>1 DEF TimerInv, TimerTypes
<1>5. s \in Uploads => timer[s] = "off"
  BY DEF TimerInv, TimerTypes, ArmedOnce, Owners
<1>6. ArmedOnce'
  BY <1>1, <1>2, <1>3, <1>5 DEF TimerInv, ArmedOnce, Owners
<1>7. QED
  BY <1>2, <1>4, <1>6 DEF TimerInv, Owners

\* Every step keeps the timers of removed uploads off, and none fires again.
LEMMA TimerStep ==
    ASSUME TimerInv, [Next]_vars
    PROVE  /\ TimerInv'
           /\ \A u \in Uploads : status[u] \in {"CANCELLED", "RUNNING", "DONE"} =>
                  /\ status'[u] \in {"CANCELLED", "RUNNING", "DONE"}
                  /\ firing[u] \in {"idle", "missed"} => firing'[u] = firing[u]
                  /\ firing[u] = "submitting" => firing'[u] # "due"
<1> DEFINE Kept == \A u \in Uploads : status[u] \in {"CANCELLED", "RUNNING", "DONE"} =>
                       /\ status'[u] \in {"CANCELLED", "RUNNING", "DONE"}
                       /\ firing[u] \in {"idle", "missed"} => firing'[u] = firing[u]
                       /\ firing[u] = "submitting" => firing'[u] # "due"
<1> SUFFICES TimerInv' /\ Kept
  OBVIOUS
<1>0. ASSUME NEW s \in Owners, NEW L, NEW shown, Loop(s, L, shown),
             firing[s] \in {"due", "submitting"},
             shown \in {status, [status EXCEPT ![s] = "RUNNING"]}
      PROVE  TimerInv' /\ Kept
  <2>1. TimerInv' /\ \A u \in Uploads \ {s} : status'[u] = status[u] /\ firing'[u] = firing[u]
    BY <1>0, LoopTimers
  <2>2. /\ \E loc \in {"idle", "submitting"} : firing' = [firing EXCEPT ![s] = loc]
        /\ status' \in {shown, [shown EXCEPT ![s] = "DONE"]}
    BY <1>0 DEF Loop, AfterLoop
  <2>3. firing'[s] # "due" /\ status'[s] \in {status[s], "RUNNING", "DONE"}
    BY <1>0, <2>2 DEF TimerInv, TimerTypes
  <2>4. QED
    BY <1>0, <2>1, <2>3
<1> USE SchedulesAssumption DEF TimerInv, TimerTypes, ArmedOnce, Owners
<1>1. CASE User
  <2>1. ASSUME NEW u \in Uploads, \/ \E L \in Lists : AddUpload(u, L)
                                  \/ RemoveUpload(u)
        PROVE  TimerInv' /\ Kept
    BY <2>1 DEF AddUpload, RemoveUpload, TimerAfterRemove, fireVars
  <2>2. ASSUME NEW c \in Campaigns, \/ \E L \in Lists : CreateCampaign(c, L)
                                    \/ Pause(c) \/ Resume(c) \/ Delete(c)
        PROVE  TimerInv' /\ Kept
    <3>1. /\ \E v \in {"ACTIVE", "PAUSED", "DELETED"} : status' = [status EXCEPT ![c] = v]
          /\ \E v \in {"off", "armed", "paused"} : timer' = [timer EXCEPT ![c] = v]
          /\ firing' = firing
      BY <2>2 DEF CreateCampaign, Pause, Resume, Delete, TimerAfterPause, fireVars
    <3>2. \A u \in Uploads : u # c /\ status'[u] = status[u] /\ timer'[u] = timer[u]
      BY <2>2, <3>1
    <3>3. QED
      BY <3>1, <3>2
  <2>3. QED
    BY <1>1, <2>1, <2>2 DEF User
<1>2. ASSUME NEW u \in Uploads, DueUpload(u) PROVE TimerInv' /\ Kept
  BY <1>2 DEF DueUpload
<1>3. ASSUME NEW c \in Campaigns, DueCampaign(c) PROVE TimerInv' /\ Kept
  BY <1>3 DEF DueCampaign, timerVars
<1>4. ASSUME NEW s \in Owners, Coroutine(s) PROVE TimerInv' /\ Kept
  <2>1. CASE FireUpload(s) \/ FireCampaign(s) \/ SubmitReturns(s)
    BY <1>0, <2>1 DEF FireUpload, FireCampaign, SubmitReturns
  <2>2. CASE s \in Campaigns /\ FireInactive(s)
    BY <2>2 DEF FireInactive, timerVars
  <2>3. CASE Misfire(s)
    BY <2>3 DEF Misfire, timerVars
  <2>4. CASE Sends(s)
    BY <2>4 DEF Sends, timerVars, fireVars
  <2>5. QED
    BY <1>4, <2>1, <2>2, <2>3, <2>4 DEF Coroutine
<1>5. ASSUME NEW a \in Accounts, TaskEnds(a) \/ Sell(a) PROVE TimerInv' /\ Kept
  BY <1>5 DEF TaskEnds, Sell, timerVars, fireVars
<1>6. CASE LeaseLapses
  BY <1>6 DEF LeaseLapses, timerVars, fireVars
<1>7. ASSUME NEW c \in Clients, Dashboard(c) PROVE TimerInv' /\ Kept
  BY <1>7 DEF Dashboard, timerVars, fireVars
<1>8. CASE UNCHANGED vars
  BY <1>8 DEF vars, timerVars, fireVars
<1>9. QED
  BY <1>1, <1>2, <1>3, <1>4, <1>5, <1>6, <1>7, <1>8 DEF Next

\* An upload that was removed, or whose firing has begun, has no other firing; the one
\* under way, if any, goes on (scheduled_upload_service.py: remove, _fire, add).
THEOREM RemovedStaysRemoved == Spec => RemovedNeverFires
<1>1. Init => TimerInv
  BY DEF Init, TimerInv, TimerTypes, ArmedOnce, Owners
<1>2. TimerInv /\ [Next]_vars => TimerInv'
  BY TimerStep
<1>3. TimerInv /\ [Next]_vars =>
          [\A u \in Uploads : status[u] \in {"CANCELLED", "RUNNING", "DONE"} =>
              /\ status'[u] \in {"CANCELLED", "RUNNING", "DONE"}
              /\ firing[u] \in {"idle", "missed"} => firing'[u] = firing[u]
              /\ firing[u] = "submitting" => firing'[u] # "due"]_vars
  BY TimerStep
<1>4. QED
  BY <1>1, <1>2, <1>3, PTL DEF Spec, RemovedNeverFires

-----------------------------------------------------------------------------
(* The firings are senders of the hub: whatever the timers, the            *)
(* dispatcher and the dashboards do is a step of WebSocketHub or leaves    *)
(* it alone, so what is proved of the hub holds of its broadcasts here.    *)

HubProved == INSTANCE WebSocketHub_proofs WITH Senders <- Owners

LEMMA HubInit == Init => HubProved!Init
  BY DEF Init, Hub!Init, HubProved!Init

\* Each action of Hub, as HubProved names it.
LEMMA SameBroadcast ==
    ASSUME NEW s \in Owners, Hub!Broadcast(s) PROVE HubProved!Next
  BY DEF Hub!Broadcast, Hub!Listed, HubProved!Next, HubProved!Broadcast, HubProved!Listed

LEMMA SameDashboard ==
    ASSUME NEW c \in Clients, Hub!Dashboard(c) PROVE HubProved!Next
<1>1. CASE Hub!Connect(c)
  BY <1>1 DEF Hub!Connect, Hub!Joined, HubProved!Next, HubProved!Dashboard,
              HubProved!Connect, HubProved!Joined
<1>2. CASE Hub!Break(c)
  BY <1>2 DEF Hub!Break, HubProved!Next, HubProved!Dashboard, HubProved!Break
<1>3. CASE Hub!Leave(c)
  BY <1>3 DEF Hub!Leave, Hub!Disconnect, Hub!Tally, Hub!Without, Hub!Place, Hub!Listed,
              HubProved!Next, HubProved!Dashboard, HubProved!Leave, HubProved!Disconnect,
              HubProved!Tally, HubProved!Without, HubProved!Place, HubProved!Listed
<1>4. QED
  BY <1>1, <1>2, <1>3 DEF Hub!Dashboard

LEMMA SameSending ==
    ASSUME NEW s \in Owners, Hub!Sending(s) PROVE HubProved!Next
<1>1. CASE Hub!Deliver(s)
  BY <1>1 DEF Hub!Deliver, Hub!Moves, Hub!Exhausted, Hub!Tally,
              HubProved!Next, HubProved!Sending, HubProved!Deliver, HubProved!Moves,
              HubProved!Exhausted, HubProved!Tally
<1>2. CASE Hub!DeliverFails(s)
  BY <1>2 DEF Hub!DeliverFails, Hub!Disconnect, Hub!Moves, Hub!Exhausted, Hub!Tally,
              Hub!Without, Hub!Place, Hub!Listed,
              HubProved!Next, HubProved!Sending, HubProved!DeliverFails,
              HubProved!Disconnect, HubProved!Moves, HubProved!Exhausted, HubProved!Tally,
              HubProved!Without, HubProved!Place, HubProved!Listed
<1>3. QED
  BY <1>1, <1>2 DEF Hub!Sending

LEMMA HubStep == [Next]_vars => [HubProved!Next]_(HubProved!hubVars)
<1> SUFFICES ASSUME [Next]_vars PROVE HubProved!Next \/ UNCHANGED hubVars
  BY DEF hubVars, HubProved!hubVars
<1>1. CASE User
  BY <1>1 DEF User, AddUpload, RemoveUpload, CreateCampaign, Pause, Resume, Delete
<1>2. ASSUME NEW u \in Uploads, DueUpload(u) PROVE UNCHANGED hubVars
  BY <1>2 DEF DueUpload
<1>3. ASSUME NEW c \in Campaigns, DueCampaign(c) PROVE UNCHANGED hubVars
  BY <1>3 DEF DueCampaign
<1>4. ASSUME NEW s \in Owners, Coroutine(s) PROVE HubProved!Next \/ UNCHANGED hubVars
  <2>1. ASSUME NEW L, NEW shown, Loop(s, L, shown)
        PROVE  HubProved!Next \/ UNCHANGED hubVars
    <3>1. UNCHANGED hubVars \/ Hub!Broadcast(s)
      BY <2>1 DEF Loop
    <3>2. QED
      BY <3>1, SameBroadcast
  <2>2. CASE FireUpload(s) \/ FireCampaign(s) \/ SubmitReturns(s)
    BY <2>1, <2>2 DEF FireUpload, FireCampaign, SubmitReturns
  <2>3. CASE FireInactive(s) \/ Misfire(s)
    BY <2>3 DEF FireInactive, Misfire
  <2>4. CASE Sends(s)
    BY <2>4, SameSending DEF Sends
  <2>5. QED
    BY <1>4, <2>2, <2>3, <2>4 DEF Coroutine
<1>5. ASSUME NEW a \in Accounts, TaskEnds(a) \/ Sell(a) PROVE UNCHANGED hubVars
  BY <1>5 DEF TaskEnds, Sell
<1>6. CASE LeaseLapses
  BY <1>6 DEF LeaseLapses
<1>7. ASSUME NEW c \in Clients, Dashboard(c) PROVE HubProved!Next
  BY <1>7, SameDashboard DEF Dashboard
<1>8. CASE UNCHANGED vars
  BY <1>8 DEF vars
<1>9. QED
  BY <1>1, <1>2, <1>3, <1>4, <1>5, <1>6, <1>7, <1>8 DEF Next

\* The timers broadcast as senders of the hub do: one message at a time, through
\* WebSocketHub's own actions (socket_manager.py: broadcast, called by submit_task).
THEOREM FiringsAreSenders == Spec => HubProved!Spec
  BY HubInit, HubStep, PTL DEF Spec, HubProved!Spec

\* Whatever fires meanwhile, a dashboard listed from the start of a broadcast to its
\* end misses the message only to the removal of another (socket_manager.py).
THEOREM FiringsMissOnlyByRemoval == Spec => MissedOnlyByRemoval
<1>1. HubProved!HubAssumption
  BY SchedulesAssumption DEF HubProved!HubAssumption
<1>2. HubProved!Spec => HubProved!MissedOnlyByRemoval
  BY <1>1, HubProved!MissesAreRemovals
<1>3. MissedOnlyByRemoval <=> HubProved!MissedOnlyByRemoval
  BY DEF MissedOnlyByRemoval, Hub!MissedOnlyByRemoval, HubProved!MissedOnlyByRemoval,
         Hub!Missed, HubProved!Missed, Hub!Listed, HubProved!Listed, Hub!Removed,
         HubProved!Removed, Hub!Cardinality, HubProved!Cardinality, Hub!hubVars,
         HubProved!hubVars
<1>4. QED
  BY <1>2, <1>3, FiringsAreSenders

=============================================================================
