------------------------------ MODULE Launcher ------------------------------
(***************************************************************************)
(* The desktop launcher and the licensed backend it owns:                  *)
(* src/frontend/src-tauri/src/lib.rs, the start-up page                    *)
(* src/frontend/src/components/SecureBootstrap.tsx and the entitlement     *)
(* gate src/backend/app/security/runtime.py.                               *)
(*                                                                         *)
(* An agent is a chain of asynchronous commands: a flow of the page, or    *)
(* the entitlement monitor. Agents interleave at their awaits: between the *)
(* system calls of replace_file, of a purge and of a launch; the reads     *)
(* that one decision rests on are one step. More than one flow runs when   *)
(* the user presses the retry button again, which stays enabled. The       *)
(* CAPTCHA key is taken to be set, and a kill to end the whole backend.    *)
(*                                                                         *)
(* A launcher that ends kills its backend only if the handle is dropped    *)
(* (kill_on_drop): a crash or a kill of the launcher does not, and no      *)
(* later launcher knows the backend that it leaves behind, an orphan.      *)
(*                                                                         *)
(* A definition X_Y that precedes X is X with a plausible bug.             *)
(***************************************************************************)
EXTENDS Integers

CONSTANTS
    Flows,      \* flows of the start-up page that may run at once (a bound)
    Monitor,    \* the task of spawn_entitlement_monitor
    LeaseTtl,   \* the time a lease of the server runs
    Grace,      \* the clock skew the launcher and the backend forgive (30 s)
    MaxVersion, \* bound: releases of the backend
    MaxRestarts,\* bound: restarts of the launcher
    MaxTime     \* bound: the clock stops here

None == 0           \* no version
Never == -1         \* no lease; not revoked
Agents == Flows \cup {Monitor}
Versions == 1 .. MaxVersion

ASSUME LauncherAssumption ==
    /\ Monitor \notin Flows
    /\ LeaseTtl \in Nat \ {0} /\ Grace \in Nat /\ MaxVersion \in Nat /\ MaxTime \in Nat
    /\ MaxRestarts \in Nat

VARIABLES
    clock,
    revokedAt, latest,      \* the server: the licence, the newest release
    lease,                  \* runtime.lease: its expires_at, or Never
    pointer, exes,          \* backend-current.json and the backend-*.exe files
    child,                  \* the backend of this launcher
    orphans,                \* the backends that earlier launchers left behind
    phase,                  \* of the page
    restarts,               \* counts restarts of the launcher
    pc, job, after, got, ver, todo  \* the agents

serverVars == <<revokedAt, latest>>
fileVars   == <<lease, pointer, exes>>
childVars  == <<child, orphans>>
agentVars  == <<pc, job, after, got, ver, todo>>
vars == <<clock, serverVars, fileVars, childVars, phase, restarts, agentVars>>

Running == {"starting", "serving"}
Steps == {"idle",
          "activating", "renew", "asked", "granted", "rename", "recheck", "check",
          "stop", "readDir", "purge",
          "unleaseCheck", "unleaseFail", "unlicensed",
          "update", "offered", "fetch", "point", "pointed",
          "launch", "spawn", "wait"}
Jobs == {"none", "boot", "retry", "timer", "activate", "activated"}

\* validate_lease: within the window, with the clock skew forgiven.
Valid(e) == e # Never /\ clock < e + Grace
\* A backend process: the file it runs and the lease it has read.
Backends == [state : {"none", "starting", "serving", "exited"},
             file : 0 .. MaxVersion, gate : Nat \cup {Never}]
NoBackend == [state |-> "none", file |-> None, gate |-> Never]
Runs(b) == b.state \in Running
\* It answers requests: its gate accepts.
Serves(b) == b.state = "serving" /\ Valid(b.gate)
Left == 1 .. MaxRestarts
\* The system may refuse to delete the file of a process that runs.
InUse == {b.file : b \in {p \in {child} \cup {orphans[i] : i \in Left} : Runs(p)}}

\* read_lease succeeds.
LeaseReadable == Valid(lease)
\* trusted_installed_backend: the pointer names a file whose hash is right.
Installed == IF pointer \in exes THEN pointer ELSE None
Entitled == revokedAt = Never

Init ==
    /\ clock = 0
    /\ revokedAt = Never /\ latest = None
    /\ lease = Never /\ pointer = None /\ exes = {}
    /\ child = NoBackend /\ orphans = [i \in Left |-> NoBackend]
    /\ phase = "opening" /\ restarts = 0
    /\ pc    = [a \in Agents |-> "idle"]
    /\ job   = [a \in Agents |-> "none"]
    /\ after = [a \in Agents |-> "idle"]
    /\ got   = [a \in Agents |-> Never]
    /\ ver   = [a \in Agents |-> None]
    /\ todo  = [a \in Agents |-> {}]

\* Agent a goes on at step s.
At(a, s) == pc[a] = s
Go(a, s) == pc' = [pc EXCEPT ![a] = s]
\* ... after stopping the backend and purging its files.
StopThen(a, s) == Go(a, "stop") /\ after' = [after EXCEPT ![a] = s]

-----------------------------------------------------------------------------
(* The page: which chains of commands it starts.                           *)

Begin(f, j, s) ==
    /\ pc[f] = "idle"
    /\ Go(f, s)
    /\ job' = [job EXCEPT ![f] = j]
    /\ UNCHANGED <<clock, restarts, serverVars, fileVars, childVars, after, got, ver, todo>>

\* The effect of the first render.
Start(f) ==
    /\ phase = "opening"
    /\ Begin(f, "boot", "renew")
    /\ phase' = "loading"
\* The retry button of the error page.
Retry(f) == phase = "error" /\ Begin(f, "retry", "renew") /\ UNCHANGED phase
\* The timer of the ready page, every 15 minutes.
TimerRenews(f) == phase = "ready" /\ Begin(f, "timer", "renew") /\ UNCHANGED phase
\* The user enters the licence key.
Activate(f) ==
    /\ phase = "activation"
    /\ Begin(f, "activate", "activating")
    /\ phase' = "loading"

\* The chain ends and the page shows p.
End(f, p) ==
    /\ Go(f, "idle")
    /\ job'   = [job EXCEPT ![f] = "none"]
    /\ after' = [after EXCEPT ![f] = "idle"]
    /\ got'   = [got EXCEPT ![f] = Never]
    /\ ver'   = [ver EXCEPT ![f] = None]
    /\ phase' = p
    /\ UNCHANGED todo
\* The chain goes on with what it had.
Keep == UNCHANGED <<job, phase, after, got, ver, todo>>
\* A command of the chain was rejected; after a retry only the text changes.
Fails_Keeps(f) == End(f, IF job[f] = "boot" THEN "error" ELSE phase)
Fails(f) == End(f, CASE job[f] = "boot" -> "error"
                     [] job[f] \in {"activate", "activated"} -> "activation"
                     [] OTHER -> phase)

-----------------------------------------------------------------------------
(* activate_license and renew_license.                                     *)

\* renew_license needs the old lease, whatever its age; without one it fails,
\* which the page ignores: security_status decides.
Renew(f) ==
    /\ At(f, "renew")
    /\ Go(f, IF lease = Never THEN "check" ELSE "asked")
    /\ UNCHANGED <<clock, restarts, serverVars, fileVars, childVars, phase, job, after, got, ver, todo>>

\* The server answers with a lease.
ServerGrants(f) ==
    /\ At(f, "activating") \/ At(f, "asked")
    /\ Entitled /\ clock + LeaseTtl + Grace <= MaxTime
    /\ Go(f, "granted")
    /\ got' = [got EXCEPT ![f] = clock + LeaseTtl]
    /\ UNCHANGED <<clock, restarts, serverVars, fileVars, childVars, phase, job, after, ver, todo>>

\* It cannot be reached, or answers with another error than a denial.
RequestFails(f) ==
    /\ \/ At(f, "activating") /\ Fails(f)
       \/ At(f, "asked") /\ Go(f, "check") /\ Keep
    /\ UNCHANGED <<clock, restarts, serverVars, fileVars, childVars>>

\* 403 or 426 to a renewal: invalidate_local_entitlement, then the error.
RenewalDenied(f) ==
    /\ At(f, "asked") /\ ~Entitled
    /\ StopThen(f, "unleaseCheck")
    /\ UNCHANGED <<clock, restarts, serverVars, fileVars, childVars, phase, job, got, ver, todo>>

\* The answer is validated and replace_file removes the old lease ...
RemoveOldLease(f) ==
    /\ At(f, "granted") /\ Valid(got[f])
    /\ lease' = Never
    /\ Go(f, "rename")
    /\ UNCHANGED <<clock, restarts, serverVars, pointer, exes, childVars, phase, job, after, got, ver, todo>>

\* ... before it renames the new one into place.
WriteLease(f) ==
    /\ At(f, "rename")
    /\ lease' = got[f]
    /\ got' = [got EXCEPT ![f] = Never]
    /\ Go(f, "recheck")
    /\ UNCHANGED <<clock, restarts, serverVars, pointer, exes, childVars, phase, job, after, ver, todo>>

\* The answer is too late, or one of the file operations fails.
WriteFails(f) ==
    /\ At(f, "granted") \/ At(f, "rename")
    /\ \/ job[f] = "activate" /\ Fails(f)
       \/ job[f] # "activate" /\ Go(f, "check") /\ Keep
    /\ UNCHANGED <<clock, restarts, serverVars, fileVars, childVars>>

\* The security_status at the end of activate_license and renew_license.  The
\* chain of an activation goes on with a renewal, as at start-up.
Recheck(f) ==
    /\ At(f, "recheck")
    /\ LET next == CASE job[f] = "activate" -> "renew"
                     [] job[f] = "timer" /\ LeaseReadable -> "idle"
                     [] job[f] = "timer" /\ ~LeaseReadable -> "unlicensed"
                     [] OTHER -> "check"
       IN IF LeaseReadable THEN Go(f, next) /\ UNCHANGED after ELSE StopThen(f, next)
    /\ job' = [job EXCEPT ![f] = CASE job[f] = "activate" -> "activated"
                                   [] job[f] = "timer" /\ LeaseReadable -> "none"
                                   [] OTHER -> job[f]]
    /\ UNCHANGED <<clock, restarts, serverVars, fileVars, childVars, phase, got, ver, todo>>

\* The security_status of the page itself.
Check(f) ==
    /\ At(f, "check")
    /\ \/ LeaseReadable /\ job[f] = "timer" /\ End(f, phase)
       \/ LeaseReadable /\ job[f] # "timer" /\ Go(f, "update") /\ Keep
       \/ ~LeaseReadable /\ StopThen(f, "unlicensed") /\ UNCHANGED <<job, phase, got, ver, todo>>
    /\ UNCHANGED <<clock, restarts, serverVars, fileVars, childVars>>

Unlicensed(f) ==
    /\ At(f, "unlicensed")
    /\ End(f, "activation")
    /\ UNCHANGED <<clock, restarts, serverVars, fileVars, childVars>>

-----------------------------------------------------------------------------
(* Stopping and purging, by any agent.                                     *)

\* The monitor wakes up every 60 seconds.
MonitorReads ==
    /\ At(Monitor, "idle") /\ ~LeaseReadable
    /\ StopThen(Monitor, "idle")
    /\ UNCHANGED <<clock, restarts, serverVars, fileVars, childVars, phase, job, got, ver, todo>>

\* stop_backend_runtime takes the child under the lock and kills it.
Stop_Forgets(a) ==
    /\ At(a, "stop")
    /\ Go(a, "readDir")
    /\ UNCHANGED <<clock, restarts, serverVars, fileVars, childVars, phase, job, after, got, ver, todo>>
Stop(a) ==
    /\ At(a, "stop")
    /\ child' = NoBackend
    /\ Go(a, "readDir")
    /\ UNCHANGED <<clock, restarts, serverVars, fileVars, orphans, phase, job, after, got, ver, todo>>

\* What purge_backend_cache finds: every executable, and the pointer as None.
PurgeList_Current == IF pointer = None THEN {} ELSE {pointer, None}
PurgeList == exes \cup (IF pointer = None THEN {} ELSE {None})

Purged(a) == Go(a, after[a]) /\ after' = [after EXCEPT ![a] = "idle"]

ReadDir(a) ==
    /\ At(a, "readDir")
    /\ IF PurgeList = {} THEN Purged(a) ELSE Go(a, "purge") /\ UNCHANGED after
    /\ todo' = [todo EXCEPT ![a] = PurgeList]
    /\ UNCHANGED <<clock, restarts, serverVars, fileVars, childVars, phase, job, got, ver>>

\* One remove_file, whose failure is ignored.
PurgeFile(a) ==
    /\ At(a, "purge")
    /\ \E e \in todo[a] :
         /\ \/ e = None /\ pointer' = None /\ UNCHANGED exes
            \/ e # None /\ exes' = exes \ {e} /\ UNCHANGED pointer
            \/ e \in InUse /\ UNCHANGED <<exes, pointer>>
         /\ todo' = [todo EXCEPT ![a] = @ \ {e}]
         /\ IF todo[a] = {e} THEN Purged(a) ELSE UNCHANGED <<pc, after>>
    /\ UNCHANGED <<clock, restarts, serverVars, lease, childVars, phase, job, got, ver>>

\* The last step of invalidate_local_entitlement.
RemoveLease(f) ==
    /\ \/ At(f, "unleaseCheck") /\ Go(f, "check") /\ Keep
       \/ At(f, "unleaseFail") /\ Fails(f)
    /\ lease' = Never
    /\ UNCHANGED <<clock, restarts, serverVars, pointer, exes, childVars>>

-----------------------------------------------------------------------------
(* check_backend_update.                                                   *)

\* The lease and the installed backend are read, the server is asked.
AskUpdate(f) ==
    /\ At(f, "update")
    /\ IF LeaseReadable
       THEN /\ Go(f, "offered")
            /\ ver' = [ver EXCEPT ![f] = Installed]
            /\ UNCHANGED <<job, phase, after, got, todo>>
       ELSE Fails(f)
    /\ UNCHANGED <<clock, restarts, serverVars, fileVars, childVars>>

\* Only a version above the installed one is taken.
UpdateOffered(f) ==
    /\ At(f, "offered") /\ Entitled
    /\ IF latest > ver[f]
       THEN Go(f, "fetch") /\ ver' = [ver EXCEPT ![f] = latest]
       ELSE Go(f, "launch") /\ UNCHANGED ver
    /\ UNCHANGED <<clock, restarts, serverVars, fileVars, childVars, phase, job, after, got, todo>>

UpdateDenied(f) ==
    /\ At(f, "offered") /\ ~Entitled
    /\ StopThen(f, "unleaseFail")
    /\ UNCHANGED <<clock, restarts, serverVars, fileVars, childVars, phase, job, got, ver, todo>>

\* The request or the download fails, or a file cannot be written.
UpdateFails(f) ==
    /\ pc[f] \in {"offered", "fetch", "point", "pointed"}
    /\ Fails(f)
    /\ UNCHANGED <<clock, restarts, serverVars, fileVars, childVars>>

\* The download is complete, its hash is right, and it is renamed into place.
Download(f) ==
    /\ At(f, "fetch")
    /\ exes' = exes \cup {ver[f]}
    /\ Go(f, "point")
    /\ UNCHANGED <<clock, restarts, serverVars, lease, pointer, childVars, phase, job, after, got, ver, todo>>

\* replace_file of the pointer.
RemoveOldPointer(f) ==
    /\ At(f, "point")
    /\ pointer' = None
    /\ Go(f, "pointed")
    /\ UNCHANGED <<clock, restarts, serverVars, lease, exes, childVars, phase, job, after, got, ver, todo>>
WritePointer(f) ==
    /\ At(f, "pointed")
    /\ pointer' = ver[f]
    /\ Go(f, "launch")
    /\ UNCHANGED <<clock, restarts, serverVars, lease, exes, childVars, phase, job, after, got, ver, todo>>

-----------------------------------------------------------------------------
(* launch_backend and the backend process.                                 *)

\* The lease and the file are verified before the lock is taken.
Verify(f) ==
    /\ At(f, "launch")
    /\ IF LeaseReadable /\ Installed # None
       THEN /\ Go(f, "spawn")
            /\ ver' = [ver EXCEPT ![f] = Installed]
            /\ UNCHANGED <<job, phase, after, got, todo>>
       ELSE Fails(f)
    /\ UNCHANGED <<clock, restarts, serverVars, fileVars, childVars>>

\* Under the lock: a backend that runs is kept, otherwise the verified file is
\* started, if it is still there.
Spawn(f) ==
    /\ At(f, "spawn")
    /\ \/ Runs(child) /\ End(f, "ready") /\ UNCHANGED child
       \/ /\ ~Runs(child) /\ ver[f] \in exes
          /\ child' = [state |-> "starting", file |-> ver[f], gate |-> Never]
          /\ Go(f, "wait") /\ Keep
       \/ ~Runs(child) /\ ver[f] \notin exes /\ Fails(f) /\ UNCHANGED child
    /\ UNCHANGED <<clock, restarts, serverVars, fileVars, orphans>>

\* The backend answers GET / with success while its gate accepts.
Accepting == Serves(child)

Launched(f) ==
    /\ At(f, "wait") /\ Accepting
    /\ End(f, "ready")
    /\ UNCHANGED <<clock, restarts, serverVars, fileVars, childVars>>

\* It does not within 15 seconds, or was stopped: what runs now is killed.
LaunchFails(f) ==
    /\ At(f, "wait") /\ ~Accepting
    /\ child' = NoBackend
    /\ Fails(f)
    /\ UNCHANGED <<clock, restarts, serverVars, fileVars, orphans>>

Exited(b) == [b EXCEPT !.state = "exited", !.gate = Never]

\* build_entitlement_gate reads the lease once; without a valid one start-up
\* raises and the process ends.
Begun_Unverified(b) ==
    IF lease # Never THEN [b EXCEPT !.state = "serving", !.gate = MaxTime] ELSE Exited(b)
Begun(b) ==
    IF LeaseReadable THEN [b EXCEPT !.state = "serving", !.gate = lease] ELSE Exited(b)

BackendStarts ==
    /\ child.state = "starting"
    /\ child' = Begun(child)
    /\ UNCHANGED <<clock, restarts, serverVars, fileVars, orphans, phase, agentVars>>

BackendCrashes ==
    /\ Runs(child)
    /\ child' = Exited(child)
    /\ UNCHANGED <<clock, restarts, serverVars, fileVars, orphans, phase, agentVars>>

\* An orphan goes on as any backend, and may end at any time.
OrphanGoesOn ==
    /\ \E i \in Left :
         \/ /\ orphans[i].state = "starting"
            /\ orphans' = [orphans EXCEPT ![i] = Begun(orphans[i])]
         \/ /\ Runs(orphans[i])
            /\ orphans' = [orphans EXCEPT ![i] = Exited(orphans[i])]
    /\ UNCHANGED <<clock, restarts, serverVars, fileVars, child, phase, agentVars>>

-----------------------------------------------------------------------------
(* The server, the user and time.                                          *)

Revoke ==
    /\ Entitled
    /\ revokedAt' = clock
    /\ UNCHANGED <<clock, restarts, latest, fileVars, childVars, phase, agentVars>>

Release ==
    /\ latest < MaxVersion
    /\ latest' = latest + 1
    /\ UNCHANGED <<clock, restarts, revokedAt, fileVars, childVars, phase, agentVars>>

\* The launcher ends, in the middle of whatever it does, and is started again;
\* its backend is killed with it, or is left behind.
Restart ==
    /\ restarts < MaxRestarts /\ restarts' = restarts + 1
    /\ phase' = "opening"
    /\ child' = NoBackend
    /\ \/ UNCHANGED orphans
       \/ Runs(child) /\ orphans' = [orphans EXCEPT ![restarts + 1] = child]
    /\ pc'    = [a \in Agents |-> "idle"]
    /\ job'   = [a \in Agents |-> "none"]
    /\ after' = [a \in Agents |-> "idle"]
    /\ got'   = [a \in Agents |-> Never]
    /\ ver'   = [a \in Agents |-> None]
    /\ todo'  = [a \in Agents |-> {}]
    /\ UNCHANGED <<clock, serverVars, fileVars>>

Tick ==
    /\ clock < MaxTime
    /\ clock' = clock + 1
    /\ UNCHANGED <<serverVars, fileVars, childVars, phase, restarts, agentVars>>

Clean(a) == Stop(a) \/ ReadDir(a) \/ PurgeFile(a)
Chain(f) ==
    \/ Renew(f) \/ ServerGrants(f) \/ RequestFails(f) \/ RenewalDenied(f)
    \/ RemoveOldLease(f) \/ WriteLease(f) \/ WriteFails(f)
    \/ Recheck(f) \/ Check(f) \/ Unlicensed(f) \/ RemoveLease(f)
    \/ AskUpdate(f) \/ UpdateOffered(f) \/ UpdateDenied(f) \/ UpdateFails(f)
    \/ Download(f) \/ RemoveOldPointer(f) \/ WritePointer(f)
    \/ Verify(f) \/ Spawn(f) \/ Launched(f) \/ LaunchFails(f)
    \/ Clean(f)
User(f) == Start(f) \/ Retry(f) \/ TimerRenews(f) \/ Activate(f)
Watch == MonitorReads \/ Clean(Monitor)

Next ==
    \/ \E f \in Flows : Chain(f) \/ User(f)
    \/ Watch
    \/ BackendStarts \/ BackendCrashes \/ OrphanGoesOn
    \/ Revoke \/ Release \/ Restart \/ Tick

\* Every await ends (requests time out), the monitor's loop goes on, the page
\* starts its first chain and time passes.
Fairness ==
    /\ \A f \in Flows : WF_vars(Chain(f)) /\ WF_vars(Start(f))
    /\ WF_vars(Watch)
    /\ WF_vars(Tick)

Spec == Init /\ [][Next]_vars /\ Fairness

-----------------------------------------------------------------------------
(* Properties.                                                             *)

\* Type correctness; a version that is being installed, or is on disk, was released.
TypeOK ==
    /\ clock \in Nat
    /\ revokedAt \in Nat \cup {Never}
    /\ latest \in 0 .. MaxVersion
    /\ lease \in Nat \cup {Never}
    /\ pointer \in 0 .. latest /\ exes \subseteq 0 .. latest
    /\ child \in Backends /\ orphans \in [Left -> Backends]
    /\ phase \in {"opening", "loading", "activation", "ready", "error"}
    /\ restarts \in Nat
    /\ pc \in [Agents -> Steps] /\ job \in [Agents -> Jobs]
    /\ after \in [Agents -> Steps]
    /\ got \in [Agents -> Nat \cup {Never}]
    /\ ver \in [Agents -> 0 .. latest]
    /\ todo \in [Agents -> SUBSET (0 .. latest)]

\* A revoked licence is used offline for at most the life of one lease and the
\* forgiven skew, whatever renewals were in flight, whichever lease a backend
\* has read, however often the launcher is restarted and also by a backend that
\* outlives it (validate_lease lib.rs:375, build_entitlement_gate runtime.py:100).
OfflineUseBounded ==
    ~Entitled /\ (Accepting \/ \E i \in Left : Serves(orphans[i]))
        => clock < revokedAt + LeaseTtl + Grace

\* Without a readable lease the backend of the launcher does not keep running,
\* also one that was launched on a check made before the lease was lost, and one
\* that an earlier launcher left behind does not go on serving
\* (spawn_entitlement_monitor, lib.rs:488).
LostLeaseStops ==
    ~LeaseReadable ~>
        (LeaseReadable \/ (~Runs(child) /\ \A i \in Left : ~Serves(orphans[i])))

\* A revoked licence ends with no backend that serves and no backend of this
\* launcher, for good, although updates and launches that were under way go on;
\* no backend file stays but one that a left-behind backend was running
\* (lib.rs:480-502).
RevokedEnds ==
    ~Entitled ~> [](/\ ~Runs(child) /\ \A i \in Left : ~Serves(orphans[i])
                    /\ pointer = None
                    /\ exes \subseteq {orphans[i].file : i \in Left})

\* The page never stays on "loading" (SecureBootstrap.tsx:46-120).
LoadingEnds == phase \in {"opening", "loading"} ~> phase \notin {"opening", "loading"}

\* What the documentation says of renewal: while the lease on disk is valid the
\* backend that runs with it goes on serving.
RenewalKeepsServing == child.state = "serving" /\ LeaseReadable => Accepting

-----------------------------------------------------------------------------
(* The inductive invariant of the proofs.                                  *)

\* No lease, wherever it is, runs longer than the server may have granted it.
Bounded(e) ==
    /\ e # Never => e <= clock + LeaseTtl
    /\ e # Never /\ ~Entitled => e <= revokedAt + LeaseTtl
LeasesBounded ==
    /\ ~Entitled => revokedAt <= clock
    /\ Bounded(lease) /\ Bounded(child.gate)
    /\ \A i \in Left : Bounded(orphans[i].gate)
    /\ \A f \in Flows : Bounded(got[f])

IndInv == TypeOK /\ LeasesBounded
=============================================================================
