----------------------------- MODULE Schedules -----------------------------
(***************************************************************************)
(* The two timers that feed the dispatcher: scheduled uploads              *)
(* (scheduled_upload_service.py, one firing at a date) and interaction     *)
(* campaigns (interaction_scheduler.py, a firing every interval).  A       *)
(* firing is a coroutine of the event loop that calls submit_task for one  *)
(* account after the other.  submit_task suspends only while it broadcasts *)
(* the account's new status to the dashboards, so a firing is interleaved  *)
(* with everything else exactly there: the broadcast is the one of         *)
(* WebSocketHub, and with no dashboard open a firing runs in one piece.    *)
(*                                                                         *)
(* A schedule or campaign s has the state of its timer (APScheduler, as    *)
(* the code uses it), of its metadata and of its running firing.  Of the   *)
(* dispatcher the model keeps _pending_accounts and the accounts whose     *)
(* task was put in the queue; TaskDispatcher has the rest.                 *)
(*                                                                         *)
(* The module follows the backend up to the first emergency stop, which    *)
(* forgets the reservations of suspended submissions; TaskDispatcher goes  *)
(* on from there.  A submission by hand (tasks_router.py) goes over its    *)
(* list as the firing of an upload does and has no action of its own.      *)
(***************************************************************************)
EXTENDS Naturals, Sequences, FiniteSets

CONSTANTS
    Accounts,
    Uploads,      \* scheduled uploads, by job_id
    Campaigns,    \* interaction campaigns, by schedule_id
    Lists,        \* the account lists a user may choose
    Clients, NoClient,
    ForSale       \* bound: the accounts that may be archived as sold

Owners == Uploads \cup Campaigns

ASSUME SchedulesAssumption ==
    /\ NoClient \notin Clients /\ Uploads \cap Campaigns = {}
    /\ Lists \subseteq Seq(Accounts) /\ ForSale \subseteq Accounts

VARIABLES
    status,    \* of an upload: "none" or the status in _jobs; of a campaign: "none",
               \* "ACTIVE", "PAUSED" (is_active) or "DELETED" (no entry in schedules)
    timer,     \* the APScheduler job: "off", "armed", "paused"
    list,      \* account_ids
    firing,    \* "idle", "due" (coroutine created), "submitting" or "missed"
    rest,      \* the accounts of the list still to come
    put,       \* the account (a set) whose payload is put once the broadcast returns
    pending,   \* the dispatcher's _pending_accounts
    queued,    \* accounts whose task is in the queue or running
    sold,      \* accounts archived as sold
    leased,    \* the entitlement gate accepts
    conns, socket, target, cursor, reached, audience, removals   \* the hub

Hub == INSTANCE WebSocketHub WITH Senders <- Owners

hubVars   == <<conns, socket, target, cursor, reached, audience, removals>>
timerVars == <<status, timer, list>>
fireVars  == <<firing, rest, put>>
taskVars  == <<pending, queued, sold, leased>>
vars == <<timerVars, fireVars, taskVars, hubVars>>

Init ==
    /\ status = [s \in Owners |-> "none"] /\ timer = [s \in Owners |-> "off"]
    /\ list = [s \in Owners |-> <<>>]
    /\ firing = [s \in Owners |-> "idle"] /\ put = [s \in Owners |-> {}]
    /\ rest = [s \in Owners |-> <<>>]
    /\ pending = {} /\ queued = {} /\ sold = {} /\ leased = TRUE
    /\ Hub!Init

-----------------------------------------------------------------------------
(* The calls of the user.                                                  *)

\* add(): PENDING, with a DateTrigger job.
AddUpload(u, L) ==
    /\ status[u] = "none"
    /\ status' = [status EXCEPT ![u] = "PENDING"]
    /\ timer' = [timer EXCEPT ![u] = "armed"]
    /\ list' = [list EXCEPT ![u] = L]
    /\ UNCHANGED <<fireVars, taskVars, hubVars>>

\* remove(): drops the job if the scheduler still has it; CANCELLED in any case.
TimerAfterRemove_Kept(u) == timer
TimerAfterRemove(u) == [timer EXCEPT ![u] = "off"]
RemoveUpload(u) ==
    /\ status[u] # "none"
    /\ timer' = TimerAfterRemove(u)
    /\ status' = [status EXCEPT ![u] = "CANCELLED"]
    /\ UNCHANGED <<list, fireVars, taskVars, hubVars>>

\* create_schedule(): the first firing is due at once (next_run_time=now).
CreateCampaign(c, L) ==
    /\ status[c] = "none"
    /\ status' = [status EXCEPT ![c] = "ACTIVE"]
    /\ timer' = [timer EXCEPT ![c] = "armed"]
    /\ list' = [list EXCEPT ![c] = L]
    /\ UNCHANGED <<fireVars, taskVars, hubVars>>

\* pause_job.
TimerAfterPause_Runs(c) == timer
TimerAfterPause(c) == [timer EXCEPT ![c] = "paused"]
Pause(c) ==
    /\ status[c] \in {"ACTIVE", "PAUSED"}
    /\ status' = [status EXCEPT ![c] = "PAUSED"]
    /\ timer' = TimerAfterPause(c)
    /\ UNCHANGED <<list, fireVars, taskVars, hubVars>>

Resume(c) ==
    /\ status[c] \in {"ACTIVE", "PAUSED"}
    /\ status' = [status EXCEPT ![c] = "ACTIVE"]
    /\ timer' = [timer EXCEPT ![c] = "armed"]
    /\ UNCHANGED <<list, fireVars, taskVars, hubVars>>

Delete(c) ==
    /\ status[c] \in {"ACTIVE", "PAUSED"}
    /\ status' = [status EXCEPT ![c] = "DELETED"]
    /\ timer' = [timer EXCEPT ![c] = "off"]
    /\ UNCHANGED <<list, fireVars, taskVars, hubVars>>

-----------------------------------------------------------------------------
(* APScheduler: a due job gets a coroutine of its own unless one of it is  *)
(* still running (max_instances=1); a DateTrigger job is gone after that.  *)

DueUpload(u) ==
    /\ timer[u] = "armed" /\ firing[u] = "idle"
    /\ timer' = [timer EXCEPT ![u] = "off"]
    /\ firing' = [firing EXCEPT ![u] = "due"]
    /\ UNCHANGED <<status, list, rest, put, taskVars, hubVars>>

DueCampaign(c) ==
    /\ timer[c] = "armed" /\ firing[c] = "idle"
    /\ firing' = [firing EXCEPT ![c] = "due"]
    /\ UNCHANGED <<timerVars, rest, put, taskVars, hubVars>>

\* The loop was busy, or the machine asleep, for more than misfire_grace_time (a
\* second, as nobody sets it): the run is skipped.  A date job has no other run.
Misfire(s) ==
    /\ firing[s] = "due"
    /\ firing' = [firing EXCEPT ![s] = IF s \in Uploads THEN "missed" ELSE "idle"]
    /\ UNCHANGED <<timerVars, rest, put, taskVars, hubVars>>

-----------------------------------------------------------------------------
(* submit_task and the loops around it.                                    *)

\* _pending_accounts: submit_task's own guard, and is_account_busy.
Busy_Queued(a) == a \in queued
Busy(a) == a \in pending

\* An account the loop gets over without suspending: a campaign skips a busy one; for
\* an upload submit_task raised (no lease; swallowed) or answered False at once.
Passed(s, a) == \/ Busy(a) /\ (s \in Campaigns \/ a \notin sold)
                \/ s \in Uploads /\ ~leased

\* What is left of L from the first account that is not passed.
Suffix(s, L) ==
    LET stops == {i \in DOMAIN L : ~Passed(s, L[i])}
    IN  IF stops = {} THEN <<>>
        ELSE SubSeq(L, CHOOSE i \in stops : \A j \in stops : i <= j, Len(L))

\* Nothing is left, or submit_task raises and the campaign's firing dies with it.
Through(s, S) == S = <<>> \/ (s \in Campaigns /\ ~leased)

\* The accounts of S that are accepted before anything is awaited: the first, or
\* with no dashboard open all that are neither sold nor busy.
Accepted(s, S) ==
    LET tried == IF conns = <<>> THEN DOMAIN S ELSE {1}
    IN  {a \in Accounts \ sold : ~Passed(s, a) /\ \E i \in tried : S[i] = a}

\* After the loop an upload is DONE, whatever became of it meanwhile.
AfterLoop_Never(s, shown) == shown
AfterLoop(s, shown) == IF s \in Uploads THEN [shown EXCEPT ![s] = "DONE"] ELSE shown

\* The loop of s goes on over L, after the payload of put[s] went into the queue, to
\* its end or to the next submission that suspends.
Loop(s, L, shown) ==
    LET S == Suffix(s, L)
        ends == Through(s, S) \/ conns = <<>>
        taken == IF Through(s, S) THEN {} ELSE Accepted(s, S)
    IN  /\ pending' = pending \cup taken
        /\ firing' = [firing EXCEPT ![s] = IF ends THEN "idle" ELSE "submitting"]
        /\ rest' = [rest EXCEPT ![s] = IF ends THEN <<>> ELSE Tail(S)]
        /\ put' = [put EXCEPT ![s] = IF ends THEN {} ELSE taken]
        /\ queued' = queued \cup put[s] \cup (IF ends THEN taken ELSE {})
        /\ status' = IF ends THEN AfterLoop(s, shown) ELSE shown
        /\ IF ends THEN UNCHANGED hubVars ELSE Hub!Broadcast(s)
        /\ UNCHANGED <<timer, list, sold, leased>>

\* _fire: the metadata of an upload is never deleted, so it runs even if removed.
FireUpload(u) ==
    /\ firing[u] = "due"
    /\ Loop(u, list[u], [status EXCEPT ![u] = "RUNNING"])

\* _fire_campaign: looks at is_active once, before its loop.
FireCampaign(c) ==
    /\ firing[c] = "due" /\ status[c] = "ACTIVE"
    /\ Loop(c, list[c], status)

FireInactive(c) ==
    /\ firing[c] = "due" /\ status[c] # "ACTIVE"
    /\ firing' = [firing EXCEPT ![c] = "idle"]
    /\ UNCHANGED <<timerVars, rest, put, taskVars, hubVars>>

\* The broadcast of the submission has returned.  In the code the loop goes on in the
\* same step of the event loop; what comes in between here reads nothing the
\* return changed but the list of sockets, and may as well have come before it.
SubmitReturns(s) ==
    /\ firing[s] = "submitting" /\ target[s] = NoClient
    /\ Loop(s, rest[s], status)

-----------------------------------------------------------------------------
(* The rest of the backend.                                                *)

\* A worker's finally clause.
TaskEnds(a) ==
    /\ a \in queued
    /\ pending' = pending \ {a} /\ queued' = queued \ {a}
    /\ UNCHANGED <<sold, leased, timerVars, fireVars, hubVars>>

Sell(a) ==
    /\ a \in ForSale \ sold
    /\ sold' = sold \cup {a}
    /\ UNCHANGED <<pending, queued, leased, timerVars, fireVars, hubVars>>

\* For good: the gate of a process keeps the lease it read when it started.
LeaseLapses ==
    /\ leased /\ leased' = FALSE
    /\ UNCHANGED <<pending, queued, sold, timerVars, fireVars, hubVars>>

Sends(s) == Hub!Sending(s) /\ UNCHANGED <<timerVars, fireVars, taskVars>>
Dashboard(c) == Hub!Dashboard(c) /\ UNCHANGED <<timerVars, fireVars, taskVars>>

User ==
    \/ \E u \in Uploads : (\E L \in Lists : AddUpload(u, L)) \/ RemoveUpload(u)
    \/ \E c \in Campaigns : \/ \E L \in Lists : CreateCampaign(c, L)
                            \/ Pause(c) \/ Resume(c) \/ Delete(c)

\* What the event loop runs for s.
Coroutine(s) ==
    \/ s \in Uploads /\ (FireUpload(s) \/ Misfire(s))
    \/ s \in Campaigns /\ (FireCampaign(s) \/ FireInactive(s) \/ Misfire(s))
    \/ SubmitReturns(s) \/ Sends(s)

Next ==
    \/ User
    \/ \E u \in Uploads : DueUpload(u)
    \/ \E c \in Campaigns : DueCampaign(c)
    \/ \E s \in Owners : Coroutine(s)
    \/ \E a \in Accounts : TaskEnds(a) \/ Sell(a)
    \/ LeaseLapses
    \/ \E c \in Clients : Dashboard(c)

Spec == Init /\ [][Next]_vars

\* The date of an upload comes, a coroutine that can go on does, and an awaited
\* send succeeds or fails.
Fairness == /\ \A u \in Uploads : WF_vars(DueUpload(u))
            /\ \A s \in Owners : WF_vars(Coroutine(s))
FairSpec == Spec /\ Fairness

-----------------------------------------------------------------------------

\* However firings and ends of tasks interleave at the awaits of submit_task, no account
\* is given a second task while one is on its way into the queue or in it, as long as
\* nobody stops everything (interaction_scheduler.py: "tranh 2 phien cho cung 1 account").
AcceptedOnce ==
    /\ \A s \in Owners : put[s] \subseteq pending \ queued
    /\ \A s, t \in Owners : s # t => put[s] \cap put[t] = {}
    /\ queued \subseteq pending

\* An upload that was removed, or whose firing has begun, has no other firing: if none
\* is under way it stays quiet, and one that is suspended is never due again (remove,
\* remove_job, DateTrigger).  A firing that was due or suspended when the upload was
\* removed does submit.
RemovedNeverFires ==
    [][\A u \in Uploads : status[u] \in {"CANCELLED", "RUNNING", "DONE"} =>
           /\ status'[u] \in {"CANCELLED", "RUNNING", "DONE"}
           /\ firing[u] \in {"idle", "missed"} => firing'[u] = firing[u]
           /\ firing[u] = "submitting" => firing'[u] # "due"]_vars

\* What makes it hold: a job that can fire is that of an upload whose firing has not
\* begun, and add() takes a new id.
TimerTypes ==
    /\ status \in [Owners -> {"none", "PENDING", "RUNNING", "DONE", "CANCELLED",
                              "ACTIVE", "PAUSED", "DELETED"}]
    /\ timer \in [Owners -> {"off", "armed", "paused"}]
    /\ firing \in [Owners -> {"idle", "due", "submitting", "missed"}]
ArmedOnce == \A u \in Uploads :
    /\ status[u] \in {"none", "PENDING", "RUNNING", "DONE", "CANCELLED"}
    /\ timer[u] # "off" => status[u] = "PENDING" /\ firing[u] = "idle"
    /\ status[u] = "none" => firing[u] = "idle"
TimerInv == TimerTypes /\ ArmedOnce

\* Every scheduled upload is carried out or cancelled, unless its only run was
\* skipped because the loop was late; and no dashboard can hold its firing for ever.
UploadsSettle ==
    \A u \in Uploads : status[u] \in {"PENDING", "RUNNING"}
        ~> status[u] \in {"DONE", "CANCELLED"} \/ firing[u] = "missed"

\* A campaign that is paused or deleted and stays so ends up quiet: the firing under
\* way still submits the rest of its list, and then there is none.
StoppedGoesQuiet ==
    \A c \in Campaigns : <>[](status[c] # "ACTIVE") => <>[](firing[c] = "idle")

\* The hub's promises, kept with these senders.
MissedOnlyByRemoval == Hub!MissedOnlyByRemoval
=============================================================================
