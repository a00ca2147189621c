# A TLA+ model of the TikTok automation system

This directory models the concurrent core of the repository: the FastAPI backend
that accepts tasks for accounts, queues them, runs each one in a browser of its own
and survives pauses, emergency stops, lease expiry and restarts; the services that
feed it or run beside it; the licence server; and the desktop launcher that owns
the backend process. TLC checks the models on small instances; TLAPS proves the
most important results for every instance.

    tlc -workers 2 -config TaskDispatcher_stop.cfg MCTaskDispatcher
    tlc -workers 2 -config AnalyticsSync.cfg MCAnalyticsSync
    tlapm ControlPlane_proofs.tla

## 1. Inventory

The backend is one process with one asyncio event loop. Its services share that
loop and call each other directly; a step of the backend is what one coroutine
does between two awaits. The licence server runs its handlers in threads, each in a
database transaction. The launcher is a Tauri application whose commands interleave at
their awaits and at each file operation.

| component | state it keeps | operations | hard behaviour | what makes it correct | module |
|---|---|---|---|---|---|
| Task dispatcher (`use_cases/orchestration/task_dispatcher.py`) | queue, `active_tasks`, `active_browsers`, `_pending_accounts`, gate `_in_use/_limit`, slot counters, pause events, stop generation, `account.status` | `submit_task`, queue loop, worker, pause/resume (global, account), `emergency_stop_all`, `set_proxy_concurrency_limit`, `recover_orphaned_runtime_state` | cancellation at any await, cleanup racing new submissions, lowered limits, crashes | one session per proxy, no leaked permit, a stop reaches everything and nothing more, statuses tell the truth | `TaskDispatcher`, `BrowserSessions` |
| Bulk video queue (`use_cases/upload/bulk_video_queue_service.py`) | batches, items, spares, `_claimed_video_keys` | `add`, `_run`, `_run_account`, `_take_spare`, `cancel`, `shutdown` | results lost when a task is cancelled, polling of a busy flag that a stop clears | a video goes to one account, a posted video is never posted again | `BulkVideoQueue`, `VideoClaims` |
| Upload use case (`use_cases/upload/tiktok_upload_video.py`) | result sink | `execute_video_batch` | timeout between publishing and recording | reported results match what was published | part of `BulkVideoQueue` |
| Scheduled uploads (`scheduled_upload_service.py`), interaction campaigns (`interaction_scheduler.py`) | job tables, timers | `add`, `remove`, `_fire`; `create`, `pause`, `resume`, `delete`, `_fire_campaign` | a job changed while its firing is suspended in `submit_task` | a removed job has no further firing, a stopped campaign goes quiet, one task per account | `Schedules` |
| WebSocket hub (`websocket/socket_manager.py`) | `active_connections` | `connect`, `disconnect`, `broadcast` | the list changes during an awaited iteration | nobody gets a message twice, a message is missed only because of a removal | `WebSocketHub` |
| Quick health check (`health_check/quick_check_use_case.py`) | `is_running`, the continuous flag, semaphores | `start`/`stop_continuous`, `run_batch` | stop then start before the old loop has ended | batches never overlap, limits hold over all of them | `QuickHealthCheck` |
| Analytics sync (`use_cases/analytics/`) | hidden browsers, tabs, routes, gates | `start_batch`, `fetch_profile`, `fetch_videos`, API tab, `shutdown` | the route of a shared browser is switched under others | no Firefox forgotten, reads under the lock on the right route, the batch ends if the driver answers | `AnalyticsSync` |
| Control plane (`control_plane/app/main.py`) | licences, devices, nonces, grants, releases | activate, renew, check release, download, administration | overlapping transactions, retries, purged rows | device limit, a proof is used once, revocation bounds leases | `ControlPlane` |
| Licence runtime (`security/`) and desktop launcher (`frontend/src-tauri/src/lib.rs`, `SecureBootstrap.tsx`) | lease file, backend files, child process, page phase | activate, renew, update, launch, monitor | file steps, denial racing a launch, a backend that outlives its launcher | a revoked licence ends, offline use is bounded, the page never hangs | `Launcher` |
| Proxy allocation, media library, captions | none | pure functions | boundaries | balanced, order preserving | - |
| Debug login, browser adapter, login strategies, streamer, dashboard | external | I/O, presentation | - | - | - |

How they interact: routers, the bulk queue, the two schedulers and the proxy
panel call `submit_task`, `is_account_busy`, `set_proxy_concurrency_limit` and
the pause and stop operations of the one dispatcher; the dispatcher's workers
call the use cases, write `account.status` and broadcast through the WebSocket
hub, which is where `submit_task` suspends; the entitlement gate is asked at
submission and again at admission, and reads its lease from the file the launcher
writes, which the control plane signs. The quick check and the analytics sync run
beside the dispatcher and meet it only in the database.

## 2. How the project is built

Each component has a module with its state, one action per uninterrupted piece of
code, `Next`, `Spec` and its properties; `MC...` modules and `.cfg` files make
small instances; `..._proofs` modules hold the theorems. Compositions: `TaskDispatcher`
refines `BrowserSessions`, `BulkVideoQueue` (with the part of the dispatcher and of the
upload use case its runners can see) refines `VideoClaims`, `Schedules` contains
an instance of `WebSocketHub` whose senders are the firings, `Launcher` contains
the backend's gate and the server's decisions.

A definition named `X_Y` directly before `X` is `X` with a plausible bug. No
specification uses it; each property is shown to notice one of them.

Deadlock is checked nowhere: every one of these systems idles once its bounded
work is done.

### Runs

| run | module | instance | shows |
|---|---|---|---|
| `stop` | MCTaskDispatcher | 3 tasks (two of one account) behind two routes, limit 1 or 3 against a ceiling of 2, one stop, lapsing lease, crash; 631 000 states | gate, slots, fence and registries in every interleaving, refinement of `BrowserSessions` |
| `ends` | MCTaskDispatcher | 2 tasks of two accounts on one route, one stop, all pausing, sales, crash, fairness; 315 000 | a route has one session, no wake-up is lost, a stop returns, the status column is true |
| `bulk_videos` | MCBulkVideoQueue | 2 batches, 3 videos, two per task, one other task, cancellation, failures; 1.0 million | what was posted stays claimed and is posted once, claims are exact, verdicts reach the right items |
| `bulk_claims` | MCBulkVideoQueue | 2 batches, 2 videos, one stop, one other task, unrecorded results, shutdown, crash, fairness; 297 000 | one owner per video, exact claims, refinement of `VideoClaims`, batches end |
| `control_plane` | MCControlPlane | 3 deliveries of 4 signed requests, 2 downloads, revocations in two steps, clock to 3; 4.5 million | no check is undone by an overlapping transaction |
| `launcher` | MCLauncher | the flow of the page and the monitor, 1 release, 1 end of the launcher that may leave its backend behind, clock to 3, fairness; 494 000 | lost and revoked leases end the launcher's backend and the service of one left behind, the page never hangs |
| `schedules` | MCSchedules | an upload and a campaign over the same 2 accounts, 2 dashboards, a sale, lapsing lease, fairness; 243 000 | one task per account until the first stop, removed and stopped schedules go quiet |
| `quick_check` | MCQuickHealthCheck | 2 accounts on one proxy, 1 batch by hand, 2 loops, fairness; 208 000 | batches never overlap, limits hold, everything ends |
| `analytics` | MCAnalyticsSync | 2 accounts on two routes share one browser, 2 readers of detail tabs, every gate 1, shutdown, crash, sale, fairness; 410 000 | no Firefox is forgotten before its close, no page under the lock is on another's route, no permit is lost, the batch ends if the driver answers |
| `two_browsers` | MCTaskDispatcher | expected violation | section 3 |
| `bulk_late_upload` | MCBulkVideoQueue | expected violation | section 5 |
| `launcher_frozen_gate` | MCLauncher | expected violation | section 8 |

### Where a next step would start

A discrete-time model of the launch stagger and the proxy cache; two flows of the
start-up page at once in a larger instance of `Launcher` (more than 2 million states with
liveness); an emergency stop inside `Schedules`; and the life cycle of the debug login.

## 3. TaskDispatcher

### State

| variable | code |
|---|---|
| `pc[t]` | where the coroutine that carries submission `t` is suspended: `submitting` (broadcast in `submit_task`), `queued`, `held` (taken by the loop, waiting for the gate), `admitted` (worker before its `try`), `acquiring`/`waiting` (slot), `network` (first log line), `stagger`, `gateWait`, `launching`, `working`, `failing`, `reporting`, `handling` (what is awaited before and after the status is written), `closing`, `farewell` (last log line), and the ends `done`, `dropped`, `lost`, `crashed` |
| `wait[t]`, `ev[t]` | which event of `_wait_if_paused` the coroutine is suspended on, whether that wait is already resolved, and whether the event object it captured is still the registered one |
| `cancelled` | `task.cancel()` called, `CancelledError` not yet raised |
| `holding`, `opened` | `proxy_acquired`/`direct_slot_held`; the adapter has begun `initialize()` |
| `queue`, `held`, `loopGen`, `born[t]` | the queue, the payload between `queue.get()` and `create_task`, the generation the loop read, the generation when the payload was put |
| `inUse`, `limit`, `slots` | the gate; `_proxy_running` per host:port, `_direct_running` |
| `pending`, `active`, `browser` | `_pending_accounts`, `active_tasks`, `active_browsers` |
| `globalPaused`, `acctPaused` | the cleared events |
| `generation`, `stopping`, `awaited` | `_emergency_stop_generation`, a stop inside `gather`, the workers it waits for |
| `status`, `archived`, `leased` | `account.status`, the sold group, the lease |

### Actions

One action per uninterrupted piece of a coroutine: `SubmitBegin`/`SubmitPut`
(`submit_task` before and after its awaited broadcast), `LoopHold`, `LoopAdmit`,
`LoopDiscard`, `LoopFails` (queue loop), `Block` and the checkpoints inside
`WorkerBegin`, `EnterStagger`, `StepResumes`, `Farewell` (`_wait_if_paused`),
`WorkerDenied`, `RouteRefused`, `TakeSlot`, `WaitForSlot`, `WaitForLaunch`, `Launch`,
`Launched`, `UseCaseSucceeds`, `RunFails`, `FailureTold`, `SoldStop`, `Reported`, `Release` (worker),
`CancelUnguarded`, `CancelGuarded`, `CancelHandler`, `CancelSwallowed`, `CancelFarewell` (what a
`CancelledError` does at each await), `EmergencyStop`/`StopReturns`, `SetLimit`,
the pause and resume operations, `ArchiveAccount`, `LeaseExpires` and `Restart`
(the process dies; `recover_orphaned_runtime_state` runs before the new loop).

### Abstractions

* A use case is one location: it logs steps (each a pause checkpoint and a sold
  check), then succeeds or fails. The upload timeout is a failure that may occur
  while the step is paused. Every success status counts as `SUCCESS`.
* `settings.USE_PROXY` and the proxy assigned to an account are constants; the
  refusals of `_acquire_assigned_proxy` (empty store, unassigned, deleted, disabled,
  unreadable) are one nondeterministic action, which also covers the 15 s cache.
* Time: the stagger delay is a location that may be left at any time.
* Wake-ups of the gate and of the condition are guards: the gate has one waiter, the
  condition uses `notify_all` and its waiters re-test.
* A cancellation that arrives while the cancellation handler itself is suspended goes
  straight to the cleanup.
* Not modelled: the "keep the window open" wait of LOGIN tasks (off by default), the
  adapter's own automation gate, `stop()` (used only at shutdown, covered by `Restart`),
  account columns other than `status`.

### Properties and bounds

`stop` checks `CountersExact` (the slot counters always, the gate until the first stop or lease
denial, equal their holders),
`BusyIsLive` (a busy account has a task that will end), `OneTaskPerAccount` (until the first stop),
`FencedAdmission` (no payload of before a stop gets a worker after it) and `KeepsPromise` (section 4). `ends` checks `RouteExclusive` (two sessions never share a
host:port), `StatusTruthful` (until the first stop; `QUEUED` only while the lease is valid and
avatars can be chosen, since a denial and a failing avatar end a task without writing the column), `EveryTaskEnds`
and `StopEnds`: no wake-up of a pause event is lost, and a stop returns although the last
log line of a worker sits behind the pause checkpoint.

The hazards need at most: two tasks of one account (an old worker and its
successor), one more task that competes for the gate or the route, and a limit that moves
across the number in use. Each run has those of them its properties depend on; `MaxStops`, the
number of tasks and the rule that a restart needs a live task are the only bounds on
behaviours. Both passing runs have `UseProxy = TRUE`; without a proxy the slots are the
direct ones, which only `two_browsers` instantiates, and the proofs cover both.

Fairness (`FairSpec`) is weak fairness of each coroutine and of the return of
`gather`: the asyncio loop runs every coroutine that is ready. Nothing is
assumed of the operator, the lease or the process. The liveness properties are
conditional on nothing staying paused for ever.

### Disagreements with the code's own statements

`two_browsers` checks what a comment states, "khong mo 2 browser cho cung 1 account". A stop
clears `_pending_accounts` (line 461) although tasks of the account live on, and there are two
ways to a second browser, whose shortest traces are equally long; TLC prints one of them.

* A submission that is suspended in its broadcast (line 582) is not cancelled by the stop, and
  puts its payload afterwards. A second submission of the account is accepted meanwhile. The
  queue loop, which still holds the generation of before the stop (line 609), throws one of the
  two payloads away, and with it the account's reservation (line 631), so that a third is
  accepted; the surviving one and the third both open a browser. Nothing was cancelled here.
* A worker that the stop cancelled is in its handlers or in `close()`, its browser still open,
  when the second submission is accepted and its payload thrown away, and a third is launched.

Both need two slots. With `USE_PROXY` the second worker waits for the proxy's only slot until
the first has closed, so the run has a direct connection.

More came up while modelling and have no run of their own:

* A submission that is suspended in its broadcast while a stop clears `_pending_accounts` survives
  it, and so may a second one of the same account; both get workers, `active_tasks` has one
  entry for them, and the next stop cancels only the worker it names (line 442), although its
  docstring says "huy ngay lap tuc toan bo task dang chay" (line 423). With two stops and three
  tasks of one account TLC finds this; the first stop finds every worker (`StopFindsWorkers`, section 12).
* A worker cancelled at the first pause checkpoint is outside its `try`, and one that is
  cancelled a second time inside `close()` (line 1154) leaves its cleanup: the permit of the
  gate is lost, although the stop says it lets workers release theirs (line 463). So
  `PermitsExact` is stated up to the first stop.
* A queue loop that is idle in `queue.get()` remembers the old generation: the first
  task accepted after a stop is discarded by the fence (line 626) and its account stays
  QUEUED, although the stop says the dispatcher is ready for new tasks (line 426).
* With `LeaseMayExpire` and a denial, `entitlement_gate.require` (line 690) raises outside the
  worker's `try`: the account stays in `_pending_accounts` for ever and the permit is lost.
  `BusyIsLive` and `PermitsExact` are therefore stated for a lease that stays valid.
* `active_tasks.pop(account_id)` in a worker's cleanup (line 1164) does not look whose entry it
  is: the worker of a stopped task may remove its successor, another way for a later stop to miss a worker.
* `_wait_if_paused` says that a worker stays until neither pause is in force (line 515),
  but awaits the two events in turn (lines 519-520): a global pause set during the
  second wait is ignored by that step. `MayPass` and `Pass` model exactly that.
* An account sold while its task waits keeps its last status, and one that is paused and then
  sold cannot be resumed (the router answers 403), so its worker keeps its permit.

## 4. BrowserSessions

What the dispatcher promises the machine and the proxies: runs are admitted while
fewer than `limit` are under way, connect while fewer than their key's cap
are connected, and end; the limit moves without evicting anybody; a restart ends all.
`Promise` in TaskDispatcher instantiates it (`admitted` is the set of tasks that own a
permit, `sessions` those that also hold a slot); `KeepsPromise` is checked by `stop`
and proved.

## 5. BulkVideoQueue

`BulkVideoQueueService` turns a list of files and accounts into dispatcher tasks. Its
promise is about videos: each is given to one account, posted once, and afterwards
never offered again; what was not posted goes back to the library. The module
contains the service, and the part of the dispatcher and of `execute_video_batch`
that its runners can observe.

### State

| variable | code |
|---|---|
| `bstatus`, `cancelRequested`, `processed`, `archiveFailed` | fields of a batch (`forgotten`: the process that knew it is gone) |
| `video[i]`, `item[i]` | `video_path` and `status` of item `i` = <<batch, account, slot>> |
| `spares`, `rejected` | the spares still AVAILABLE; the paths in `replacement_history` |
| `claimed` | `_claimed_video_keys` |
| `pc[r]`, `at[r]`, `sub[r]` | where `_run_account` of runner `r` = <<batch, account>> is suspended, the slot it settles, how many tasks it has submitted |
| `verdict[i]` | the result read for an item and not yet acted on |
| `jst`, `todo`, `sink` | per submitted task: its progress, the videos still to publish, `_result_sink` |
| `busy`, `succeeded` | `_pending_accounts`; the accounts whose status column is SUCCESS |
| `other`, `others`, `stops` | another task of the account; how many so far; emergency stops so far |
| `stale` | the payloads one of which the queue loop will throw away, its generation being that of before a stop |
| `stopping`, `library`, `confirmed` | `_stopping`; the files not in DA_DANG; which task confirmed which video |

### Actions

`Add` is `add()` with a scan that may be older than the last archive moves (`Scanned`); `Cancel` is `cancel()`. `BatchStart`, `BatchSkipped`
and `BatchEnd` are `_run` with its `finally`. A runner goes through `Submit`, `SubmitReturns`
(or `SubmitRefused`, `GiveUp`), `Poll`, and for each item `SettleDone` and
`ArchiveEnds`, `SettleFailed`, or `Replace`, after which it asks for a task of its own
(`Sleep` when the account is busy). A task is `JobStarts`, `Publish` per video,
`JobReports`, `JobReleases`, or one of the ways to end early: `JobDropped` (generation
fence), `JobDenied` (lease), `JobFails` (handlers), `RecordFails` (the database refuses the
result of a post), `LoginFails`. `OtherSubmits`, `OtherDropped`, `OtherReports`, `OtherReleases` are any other task of the same account.
`EmergencyStop`, `Shutdown` and `Restart` complete it.

### Abstractions

* A video is its key. The order in which files are offered and spares are taken is
  arbitrary; captions, listing and the scan's order are left out.
* Settling several items takes several actions of one runner but no suspension in the
  code, so the other actors wait until it has suspended (`Yielded`).
* An emergency stop merges the cancellation and its delivery: a working task is
  closing from then on. Afterwards the queue loop holds an old generation, or a payload it took
  before the stop (`InHand`), and throws away that payload or the first it gets (`stale`):
  no task starts before. A refused submission does not suspend.
* A sink is forgotten once its runner has read it and its task has ended; nothing
  reads it again.
* Shutdown is one step: it cancels every batch task and gathers them. A batch whose coroutine
  has not made its first step keeps its status (`begun`).
* Not modelled: errors of the account lookup, an account deleted while it is busy.

### Properties and bounds

`bulk_videos` checks `ConfirmedStayClaimed`, `PublishedOnce`, `ClaimsExact`, `DoneWasConfirmed` and
`SettledForGood` with failures and cancelled batches, without an emergency stop; `bulk_claims` checks
`OneOwner`, `ClaimsExact`, `KeepsClaims` and `EveryBatchEnds` with a stop, another task, results the
database does not record, a shutdown, a crash and a restart, but without cancellation: that
`KeepsClaims` survives cancelled and skipped batches is proved.

Two batches give an older and a newer owner and a contended batch lock; three videos give
two items in one task and a spare. One account keeps the runs small: runners
of one batch meet only in `_take_spare`, which does not suspend. `MaxBatches`, `MaxStops` and
`MaxOthers` are the only bounds on behaviours.

Fairness (`FairSpec`) is weak fairness of each runner, batch and task coroutine and of the
end of another task of the account. `EveryBatchEnds` assumes a lease that stays valid:
after `JobDenied` the account is busy until a stop or restart, and the runner polls for ever.

### Disagreements with the code's own statements

`bulk_late_upload`: "Confirmed posts stay claimed for this backend lifetime"
(lines 402-403). A stop that falls into the broadcast inside `submit_task` clears the
reservation, the payload is queued afterwards all the same, and the runner, which
asks whether the account is busy, takes the task for refused and releases its video. One such
payload is thrown away by the queue loop, which holds the generation of before the stop; so the
run has two accounts whose runners are both suspended there, and the second payload is run
and its video posted. It can be posted again by the next batch. `ConfirmedStayClaimed`,
`PublishedOnce` and `DoneWasConfirmed` are therefore checked without a stop, and proved until the
first one and the shutdown, after which a task is cut off from the runner that reads its results.

The same sentence fails when the database refuses to record the result of a confirmed post:
`_record_upload_result` (`tiktok_upload_video.py:542`) raises before the result is put in the sink,
the item ends in ERROR and its video is released. TLC finds it with `RecordMayFail`; the
properties about posts are stated for a database that takes every result (`~RecordMayFail`).

`DoneWasConfirmed` also stops at the first other task of an account (`others = 0`). Without
that condition it fails: a task that ended before it recorded a result is judged by the account's
status column (line 212), which another task may have set to SUCCESS within
the second between two polls; the video is then filed in DA_DANG although
`archive_posted_video` is for "a confirmed post" (`video_library.py`, line 47).

## 6. VideoClaims

What the queue promises the library: batches reserve videos nobody keeps, and when
they conclude each of their videos is spent or returned. `Claims` in BulkVideoQueue
instantiates it: an unfinished batch keeps its items, its spares and the duplicates it
replaced; everything else that is claimed is spent.

## 7. ControlPlane

The licence server. A member of `Calls` is one delivery of a signed request (two deliveries of
one request are a retry), a member of `Fetches` one download.

| variable | code |
|---|---|
| `created`, `expires`, `maxDevices`, `revokedAt`, `lock` | rows of `LicenseRecord`; who holds one `FOR UPDATE` |
| `revoking`, `deviceRevoking` | the time that a revocation under way has stamped |
| `bound`, `deviceRevokedAt` | `DeviceRecord`: the licence of each device |
| `nonce`, `used` | rows of `UsedNonce` and `UsedDownloadGrant`, by expiry |
| `registered`, `active` | `ReleaseRecord` |
| `pc`, `req`, `began`, `due`, `adds`, `offer` | the calls: where they are, what they read, the lease or grant they will hand out |
| `fpc`, `source`, `fbegan`, `fdone` | the downloads |

A handler is several actions: the proof (`Begin`), what it reads and decides
(`ActivateGranted`, `RenewGranted`, `ReleaseChecked` and the denials) and its
commit (`Commit`, or `Conflict`/`CommitFails` when a unique row is already there). Nonces and
grants are purged by whoever passes. `CreateLicence`, `UpdateLicence`, `RegisterRelease` and
`DeactivateRelease` are the administrator, who makes one request at a time (`Idle`); a revocation stamps
its time (`RevokeLicence`, `RevokeDevice`) before it writes the row, which may wait for the lock of
the licence (`LicenceRevoked`, `DeviceRevoked`). `Tick` is the clock.

`ProofUsedOnce`: a request takes effect once although its row is purged. `DeviceLimit`: a licence
never gains a device beyond the limit in force. `LeasesEndWithLicence`, `RenewalsEndWithDevice`:
how long a lease may outlive a revocation that overlaps its grant, counted from the time the
revocation stamped. `GrantSpentOnceWhileValid`: a download grant is spent once while it is valid.

`HandlingAssumption` (a handler ends within the clock skew, 300 s in production) is what
`ProofUsedOnce` and `GrantSpentOnceWhileValid` need: a handler slower than the life of a row would
not find it. Three deliveries give a retry, or two activations and an observer; a clock
to 3 with every period 1 lets each row expire, be purged and be missed. Signatures
are taken to work; rate limits and audit rows are left out.

Also seen: `activate` never reads `revoked_at` of a device that exists (`main.py:490-515`), so a revoked
device may activate again and gets a lease: `RenewalsEndWithDevice` is about renewals. A download
that outlives its grant's validity may find the row of the first use purged, although the
documentation calls grants single-use (`licensed-binary-delivery.md:29`).

## 8. Launcher

An agent is a chain of commands: a flow of the start-up page, or the entitlement monitor. The
state is the lease file, the pointer to the current backend and the backend files, the
child process with the lease its gate has read, the backends that earlier launchers left behind
(`orphans`), the phase of the page, and where each agent is. Each file operation that another agent can come between is a step:
`RemoveOldLease`/`WriteLease` and `RemoveOldPointer`/`WritePointer` (`replace_file` deletes before it
renames), `Stop`, `ReadDir`, `PurgeFile` (one file at a time; the file of a running process may
resist), `RemoveLease` (a denial), `Verify` and `Spawn` (a launch
checks before it takes the lock). `Revoke`, `Release` and the answers are the server; `Restart` ends the
launcher anywhere: its backend is killed with it (`kill_on_drop`, `lib.rs:1098`, when the handle is
dropped) or, after a crash, a kill or `process::exit`, goes on as an orphan.

`OfflineUseBounded`: a revoked licence is used for at most one lease and the forgiven skew, by
whichever backend. `LostLeaseStops`, `RevokedEnds`: without a lease the launcher's backend does not
keep running and one left behind does not go on serving; a revoked licence ends with no backend
of the launcher, none that serves, and no backend file but one that an orphan ran, for
good. `LoadingEnds`: the page does not hang.

Fairness: every command ends (requests time out), the monitor's loop goes on, time
passes, the page starts its first chain. Nothing is assumed of the user, the server or
the backend. `MaxTime`, `MaxVersion` and `MaxRestarts` are the bounds on behaviours; grants stop
when they would outlive the clock. One flow beside the monitor is what the run has room for, so
a denial in the page is overlapped by the monitor only, and the monitor's by the page's whole
chain; two flows, after the retry button was pressed twice, are beyond it. The proofs have any
number. Launcher and server share one clock: a clock the user sets back is not covered.

`launcher_frozen_gate` checks what the documentation says of renewal
(`licensed-binary-delivery.md:23`): "The production lease default is one hour and an online client
renews every 15 minutes". The launcher does write the renewed lease, but
`build_entitlement_gate` reads the file once, when the backend starts (`runtime.py:122`); an hour
later the backend refuses every request with a valid lease on disk.

Also seen: a backend that outlives its launcher is known to no later one. Nothing stops it and,
while it runs, its file may stay: a denial that the documentation says "stops the backend, and
purges downloaded backend executables" (`licensed-binary-delivery.md:24-26`) does neither for it. Only
its own gate ends its service, when the lease it has read is over.

Also seen: a launcher that ends between the two steps of `replace_file` has no lease and asks for
the key again; the backend cannot be started offline, since the chain ends in an error when
the update check fails; two updates at once write the pointer in the order they end, so
the older version may win until the next update.

## 9. Schedules and WebSocketHub

`WebSocketHub` is the list of connections and the coroutines that iterate over it: a Python list
iterator keeps a position (`cursor`), an append is seen by it, and a removal before it moves
the rest down, so that one connection is passed over. `reached`, `audience` and `removals` are history.
`MissedOnlyByRemoval` says what the docstring ("to every open client") becomes: each
removal costs at most one dashboard its message. Both it and `NeverTwice` are proved.

`Schedules` has an upload's or campaign's metadata (`status`), its APScheduler job
(`timer`), its firing (`firing`, `rest`, `put`) and of the dispatcher `_pending_accounts` and the queue. A
firing suspends exactly where `submit_task` broadcasts, so the module contains the
hub with the firings as senders; with no dashboard open a firing runs in one piece.
`AddUpload`, `RemoveUpload`, `CreateCampaign`, `Pause`, `Resume`, `Delete` are the API;
`DueUpload`, `DueCampaign`, `Misfire` are APScheduler as the code uses it (external).

`AcceptedOnce`: no account is given a second task. `RemovedNeverFires`: an upload that was removed, or
whose firing has begun, has no other firing. `UploadsSettle`, `StoppedGoesQuiet`: an upload is carried
out, cancelled or missed; a stopped campaign ends up quiet.

Fairness: the date of an upload comes, a coroutine that can go on does, an awaited send
succeeds or fails. The user, the dashboards and the intervals of campaigns are free.
Two accounts, one upload and one campaign give every race of two firings for one
account; two dashboards give the removal that moves a cursor.

The module has no emergency stop: it follows the backend up to the first one, which clears
`_pending_accounts` (`task_dispatcher.py:461`) and so forgets the reservations of suspended firings;
what follows then is in `TaskDispatcher`, where any submission may be suspended at a stop. (With
a stop and the liveness properties the instance is beyond what a run has room for.) Nor has it
the submissions of the API (`tasks_router.py`), which go over a list as the firing of an upload does.

Also seen: an upload removed or a campaign paused while its firing is due or suspended goes on
submitting, and the upload is shown RUNNING and DONE after CANCELLED; a refused submission
(account busy) is counted as done; an upload whose only run was more than a second late
stays PENDING for ever; a lease that lapses in a firing drops the rest of its list.

## 10. QuickHealthCheck

A caller is a batch asked for by hand or a continuous loop; a worker is the coroutine of one
account of one batch. A request takes a permit of the proxy, then one of the batch
(`TakeRoute`, `TakeSlot`), and gives both back (`GiveBack`) before a fallback asks again
(`NextStage`, `FallsBack`). `StopContinuous` only clears a flag, so `StartContinuous` may find the old
loop alive. Semaphores are new in every batch, so overlapping batches would undo the limits.

`BatchesNeverOverlap`: one batch at a time, and no coroutine outlives it. `PoliteToTikTok`: never
more requests at once than the chosen limit, nor more on one proxy than its share, over all
batches. `BatchEnds`, `LoopsEnd`: `is_running` is never stuck, and a check that is switched off for
good ends, whichever loops are left.

Fairness: the event loop runs what can run, and every request ends (`httpx.Timeout`). Two loops are
the old and the new one; a third would wait as they do. With two accounts and two permits a
proxy, the limit per proxy can be passed in this run only by batches that overlap.

Also seen: two requests for a batch may both be answered SUCCESS and one is dropped without a
word; a loop counts a refused batch as a cycle; after off and on two loops share the flag.

## 11. AnalyticsSync

The batch of the fast analytics sync and the hidden browsers its accounts share. Each
account's coroutine is at one location `pc[a]`; `cont[a]` says what it needs the browser
for, `idx[a]` which of its routes it is on, `reached[a]` those left for the browser. Per client: `pw`
(the browser: none, booting, paging, up, ending while its close is awaited, or gone), `pageOf`
(`_route_key`), `apiTab` and `template` (the API tab is open; `_api_params` is known), `idle` and `free`
(detail tabs and the permits of their gate), `firefox` (processes nobody has begun to close),
`closer` (`close()`). `stale` are the accounts whose page was closed, or is forgotten; `rpc`, `owner`, `left` are the readers
of detail tabs, those in `left` after their gather has raised.

Locks and permits taken with `async with` are not variables: they follow from where the
coroutines are (`LockFree`, `StartFree`, `LaunchFree`). The gate of the detail tabs, released by
hand, is a counter. `Ending` is `_close_session_unlocked` up to its await, `PagesClose` what that
does to everyone else, sooner or later or never, and `Reset` what the client forgets after it, also
when it raised: until then the old page is still handed out on its route (lines 956-961); `TakeStart`, `TakeLaunch`, `Closed`, `Launched`, `Opened`, `LaunchFails`, `Raised` are the awaits of
`_ensure_page`; `Probe` to `Answered` are the ways to the profile, `GridLoaded` to `Return` those to the
videos.

`FirefoxOwned`: a client has one Firefox at most whose close has not begun, and knows it.
`PageOnRoute`: a page read under `_lock` is on the route of its account until it is closed or
forgotten. `TabsBounded`: a browser never has more detail tabs than permits, and the gate loses
none. `BatchEnds`: if the driver answers, a batch ends.

Abstractions: what TikTok answers, which proxies answer, the pauses of plain HTTP and
the age of what is cached are choices; all reads of an account inside one permit of the
detail gate are one location; the tabs of a forgotten browser close with those of the next one;
counters of the batch are left out.

Fairness (`FairSpec`): every coroutine that can run is run, and a wait that has a timeout ends
(requests, launches, locks held by others). `__aexit__` (line 933), `new_page` (918, 1008, 1250),
`evaluate` and `close` of a page have none, and `config.py:125-128` says that closing a faulty driver can
hang for ever; `_close_session_unlocked` would hold the start lock, and on a switch of routes the
launch lock of all clients, and `is_running` would stay set. So that the driver answers is the
premise `DriverAnswers` of `BatchEnds`, and what it shows is that nothing else keeps a batch: no
lock, gate or permit is lost or waited for in a circle. Two accounts on different routes with one browser give every route
switch; gates of one permit make every wait happen; two readers give the one that
raises and the one it leaves behind. `MaxBatches` and `Readers` are the bounds on behaviours;
`BrowserRoutes` is its default, 1. (With a second route for one account and `BrowserRoutes = 2` the
invariants hold as well.)

Also seen: reads in the API tab and the detail tabs take no `_lock`, so they may go over
the route another account has just switched to; readers left behind by a
gather that raised (`_borrow_detail_tab` is outside the `try`) outlive their account's sync, and
even the batch; a batch that goes on during the shutdown opens its browser again after `close()`;
a close that raises is swallowed (lines 932-939), so a Firefox may go on that no client knows.

## 12. Proofs

`TaskDispatcher_proofs` proves, for every finite set of tasks and every accounts, routes, limits
and switches satisfying `DispatcherAssumption`:

* `Invariance`: `IndInv` is an invariant. None of its parts is inductive alone. `Release`
  decrements the gate, so its type needs `PermitsCovered` (a cleaning worker is
  counted); counting an admission needs `QueueOwned` (a queued payload is not a worker yet,
  and occurs once) and `HoldersPlaced` (it holds no slot); `SlotsCovered` bounds the sessions
  of each key by its counter and the counter by one; `BrowsersPlaced` ties browsers to
  slots; `QueueFenced` ties payloads to generations.
* `TypeCorrect`, `GateCoversWorkers`, `RoutesNeverShared`, `BrowsersKeepSlots` follow from it; in
  particular the gate's "released too many times" branch is unreachable.
* `FenceHolds`: the action property of the generation fence.
* `DispatcherKeepsPromise`: every step is a step of `BrowserSessions` or a stutter. Most
  actions leave permits and slots alone (`QueueLoopStill`, `WorkerStill`, `OperatorStill`);
  the others have a lemma each on what they do to the two sets.

* `Books`: `BooksInv` is an invariant, from `IndInv` and for every number of stops and restarts. What makes it
  inductive: until the first stop nobody is cancelled (`CancelledPlaced`), `active_tasks` names every
  worker (`RegistryPlaced`) and every task's account is busy (`BusyKnown`), so a new task is its
  account's only one and overwrites no entry; after a stop a busy account still has a
  task that is not cancelled and will forget it (`BusyBacked`); and the status of an account
  is what the location of its only task says (`StatusFollows`). Most steps are `Calm`: they
  move no task between these groups. `CountersStayExact`, `NoSecondTask`,
  `BusyAccountsLive`, `StatusIsTrue` and `StopFindsWorkers` follow.

`BulkVideoQueue_proofs` proves, for every number of batches and every finite set of accounts
and videos satisfying `BulkAssumption`:

* `BooksAgree`: `IndInv` is an invariant. `OneOwner` and `ClaimsExact` are not inductive alone:
  `UsedApart` says that what was posted or rejected is not in the hands of an
  unfinished batch, without which a batch's end could release it; `RunnersOwned` says that
  runners work for the running batch on items that exist, without which a
  replacement could create an owner out of nothing; `ItemsExist` says that nothing
  belongs to a batch before `add()`. Each action of a runner has a lemma on what it
  does to the items; actions of tasks and accounts leave all of it alone.
* `EveryVideoHasOneOwner` and `ClaimsAreExact` follow from it.
* `ServiceKeepsClaims`: the queue implements `VideoClaims`. `Add` is a `Reserve`; the end of
  a batch, a skipped batch and a shutdown are a `Conclude`; `Restart` is itself; every
  other step is a stutter, a replacement included (the spare becomes an item and the
  old file moves to the rejected ones of the same batch).
* `RunsInOrder`: `OrderInv` is an invariant. Batches run one at a time in the order of `add()`
  (`RunsInTurn`) and the runners of a waiting one have done nothing; a runner settles its slots
  in order, so that none ahead of it is settled (`SettlesInOrder`); an account's slots are
  filled from the first on (`SlotsFilled`); a runner submits one task and one more for each
  replacement, so their names suffice (`TasksCounted`). `ItemsStaySettled` (`SettledForGood`) follows.
* `TasksStayAgreed`: until the first stop and the shutdown, and if the database takes every result
  (`Undisturbed`), the parts of `ConfirmInv` hold. They follow a video from its item to its confirmation and back: an account is
  busy for one task, over which its runner polls (`BusyForOne`); a task has at most its
  runner's current videos left, none of them confirmed (`TasksApart`); a runner keeps verdicts
  only for slots it has not settled (`VerdictsAhead`); a confirmed video is that of an item
  which is done or will be (`ConfirmedAccounted`), and with no other task about the converse holds
  (`SuccessMeant`). `ConfirmedVideosStayClaimed`, `VideosPublishedOnce` and `DoneMeansConfirmed`
  follow, each under `Undisturbed`, and through any number of crashes. `bulk_late_upload`
  shows what a stop does to the first.

`ControlPlane_proofs`, for every finite set of devices and any calls, requests, licences and
periods satisfying `ControlPlaneAssumption` and `HandlingAssumption`: `Inductive` proves `IndInv`, whose
parts say that the nonce row of an accepted request is there until it expires and a retry that
slipped past it began early enough (`ProofsRemembered`), that an activation about to commit
holds the licence row and has room (`RoomReserved`), that what a call read of its device
still holds (`Bindings`), how long leases run (`LeasesBounded`) and that the row of a
spent grant is there until it expires (`GrantsRemembered`). `Types`, `ProofsUsedOnce`,
`LeasesNameBindings`, `RevokedLicenceEnds`, `RevokedDeviceEnds`, `GrantsSpentOnce` and `DevicesLimited` follow.

`Launcher_proofs`: `Inductive` proves that no lease, on disk, in flight or read by a backend, runs
longer than the server may have granted it; `Types` and `OfflineBounded` follow, for any number of
flows.

`WebSocketHub_proofs`: `HubInvariant` (the list has no duplicates, and no iterator has sent to what lies
ahead of it) and `SentOnce`, for any number of dashboards and senders. `MissInvariant` adds that an
iterator sends only to dashboards that have joined and that it has passed over no more of its
audience than there were removals; `MissesAreRemovals` follows. The hub is a component
that others instantiate, so its one assumption is a hypothesis of the theorems.

`Schedules_proofs`: `OneTaskEach`, with what is put kept apart per firing, for any number of
schedules, campaigns and dashboards. `RemovedStaysRemoved` needs that a timer that can fire is that of
an upload whose firing has not begun (`ArmedOnce`). `FiringsAreSenders` shows that the hub inside `Schedules` is `WebSocketHub` with the
firings as its senders, so that `FiringsMissOnlyByRemoval` is the hub's theorem again.

`QuickHealthCheck_proofs`: `OneBatch`, for any number of callers, accounts and proxies; and
`PermitsAreCounted`: the semaphores of the running batch count the coroutines of every batch,
because `OneBatch` left none when they were made new. `Polite` follows.

`AnalyticsSync_proofs`: `NoFirefoxLost`. `FirefoxOwned` is inductive once it is known who may touch a
client's browser: one coroutine past its start lock (`OneStarter`), whose location says what
the browser is doing (`StarterKnows`), or `close()`, beside which there is none (`CloserKnows`). Every
other step is `Quiet`: it touches no browser and takes no start lock. `PagesOnTheirRoute` adds that a
crawl keeps its page while it awaits the detail gate (`KeptOnRoute`) and which route an account is at
(`RouteChosen`). `NoPermitLost` (`TabsBounded`) needs that a reader at work has an account, which waits
for it unless its gather has gone on (`ReadersAwaited`), and that after the batch no
account is left at work (`BatchRuns`).

Only model-checked: the liveness properties, which are out of the provers' reach (`EveryTaskEnds`,
`StopEnds`, `EveryBatchEnds`, `LostLeaseStops`, `RevokedEnds`, `LoadingEnds`, `UploadsSettle`,
`StoppedGoesQuiet`, `BatchEnds`, `LoopsEnd`). Every other property of a passing run is proved.

## 13. Not modelled

* `.tmp/` and `.agents/`: copies of other packages and of tools, not part of the program.
* The browser adapter (`playwright_adapter.py`), the login strategies, the comment and
  interaction use cases and the screen streamer drive external pages; to the rest of
  the system they are a task that succeeds, fails or is cancelled at an await, which is
  what the models have.
* The contents of TikTok's pages and answers: parsing and classification are choices.
  `tiktok_analytics_sync.py`, the older sync with the account's own browser, is the body of one
  task of the dispatcher.
* Proxy allocation, captions, the media library and the account import are pure functions
  over data with unit tests in the repository.
* The routers and the database layer: requests are checked and passed on; the guards that matter
  to a promise are in the module of the service they protect. A failing local database is
  outside the models.
* The debug login is a developer's tool; `stop()` before its browser has started finds
  nothing to stop (`debug_login_service.py:92`).
* The launch stagger and the 15 s proxy cache of the dispatcher have no time in the model.
* Of the launcher: the Friends build, the request proxy, the captcha key and the socket bridges.
  Of the dashboard: all of it, except the start-up page.
