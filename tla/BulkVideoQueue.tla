--------------------------- MODULE BulkVideoQueue ---------------------------
(***************************************************************************)
(* BulkVideoQueueService of                                                *)
(* src/backend/app/use_cases/upload/bulk_video_queue_service.py, over the  *)
(* part of the dispatcher and of the upload use case it depends on: the    *)
(* busy set it polls, the result sink it hands out, the account status it  *)
(* falls back on.                                                          *)
(*                                                                         *)
(* A batch is one call of add().  Its run coroutine starts one coroutine   *)
(* per account, the runner <<b, a>>, which uploads the items <<b, a, n>>   *)
(* in one dispatcher task and then settles them one by one, sending a      *)
(* duplicate's replacement in a task of its own; <<b, a, k>> also names    *)
(* the k-th task of that runner, a job.  An action is what one coroutine   *)
(* does between two suspensions.  Settling several items takes several     *)
(* actions but no suspension: while a runner is "settling" or "asking" it  *)
(* holds the event loop and nothing else runs (Yielded).                   *)
(*                                                                         *)
(* A video stands for its key (_video_key).  The order in which add() is   *)
(* given the files is arbitrary, so which file becomes which item or the   *)
(* next spare is a free choice.                                            *)
(*                                                                         *)
(* A definition X_Y that precedes X is X with a plausible bug; the runs    *)
(* use it to show that their properties notice that bug.                   *)
(***************************************************************************)
EXTENDS Naturals, Sequences, FiniteSets, Functions

CONSTANTS
    MaxBatches,     \* bound: calls of add() in one behaviour
    Accounts,       \* account ids
    Videos,         \* video keys
    PerAccount,     \* the values of videos_per_account
    NoVideo,        \* the file of an item that does not exist
    MaxStops,       \* bound: emergency stops in one behaviour
    MaxOthers,      \* bound: other tasks submitted for these accounts
    MayCancel,      \* the operator cancels batches
    MayFail,        \* tasks time out or end early, archiving fails
    RecordMayFail,  \* the database may refuse to record an upload's result
    LeaseMayExpire, \* the lease may lapse while a task is queued
    MayCrash        \* the backend is shut down or dies, and is restarted

Batches == 1 .. MaxBatches
Slots   == UNION {1 .. k : k \in PerAccount}
Runners == Batches \X Accounts
Items   == Batches \X Accounts \X Slots
Jobs    == Batches \X Accounts \X (1 .. Cardinality(Videos))

ASSUME BulkAssumption ==
    /\ MaxBatches \in Nat
    /\ IsFiniteSet(Videos) /\ NoVideo \notin Videos
    /\ PerAccount \subseteq Nat \ {0}
    /\ IsFiniteSet(Accounts)
    /\ MaxStops \in Nat /\ MaxOthers \in Nat
    /\ {MayCancel, MayFail, RecordMayFail, LeaseMayExpire, MayCrash} \subseteq BOOLEAN

VARIABLES
    bstatus,        \* batch["status"]; "none" before add(), "forgotten" once lost
    cancelRequested,\* the batches with cancel_requested
    processed,      \* batch["processed"]
    archiveFailed,  \* the batches with archive_failed > 0
    video, item,    \* per item: video_path and status
    spares,         \* per batch: the spares still AVAILABLE
    rejected,       \* per batch: the videos in a replacement_history
    claimed,        \* _claimed_video_keys
    pc, at,         \* per runner: where it is, and the slot it settles
                    \* (0 while all items are in their first task)
    sub,            \* per runner: how many tasks it has submitted
    verdict,        \* per item: the result the runner read for it
    jst, todo, sink,\* per job: its progress, the videos left, _result_sink
    busy,           \* dispatcher._pending_accounts
    succeeded,      \* the accounts whose status column says SUCCESS
    other, others,  \* per account: another task of it; how many so far
    stops,          \* emergency stops so far
    stale,          \* the payloads one of which the queue loop, whose generation is
                    \* that of before a stop, will throw away; {} if it is current
    stopping,       \* _stopping: the backend shuts down
    library,        \* the files not yet moved into DA_DANG
    confirmed       \* <<video, job>>: publications confirmed in this lifetime

batchVars == <<bstatus, cancelRequested, processed, archiveFailed>>
claimVars == <<video, item, spares, rejected, claimed>>
runVars   == <<pc, at, sub, verdict>>
jobVars   == <<jst, todo, sink>>
dispVars  == <<busy, succeeded, other, others, stops, stale>>
lifeVars  == <<stopping, library, confirmed>>
vars == <<batchVars, claimVars, runVars, jobVars, dispVars, lifeVars>>

-----------------------------------------------------------------------------
Verdicts  == {"ok", "duplicate", "swallowed", "error"}
Finished  == {"CANCELLED", "DONE", "DONE_WITH_ERRORS"}
Live      == {b \in Batches : bstatus[b] \in {"PENDING", "RUNNING"}}
Settled   == {"DONE", "ERROR", "DUPLICATE", "SWALLOWED"}
\* What the finally clause of _run keeps claimed.
Spent     == {"DONE", "DUPLICATE", "SWALLOWED"}

ItemsOf(b)   == {i \in Items : i[1] = b /\ video[i] # NoVideo}
SlotsOf(r)   == {n \in Slots : video[<<r[1], r[2], n>>] # NoVideo}
AccountsOf(b) == {a \in Accounts : SlotsOf(<<b, a>>) # {}}
\* The items of the task a runner is submitting or polling.
Current_All(r) == SlotsOf(r)
Current(r)   == IF at[r] = 0 THEN SlotsOf(r) ELSE {at[r]}
It(r, n)     == <<r[1], r[2], n>>
Job(r)       == <<r[1], r[2], sub[r]>>
NoResults    == [v \in Videos |-> "none"]

Yielded == \A r \in Runners : pc[r] \notin {"settling", "asking"}

Init ==
    /\ bstatus = [b \in Batches |-> "none"]
    /\ cancelRequested = {}
    /\ processed = [b \in Batches |-> 0]
    /\ archiveFailed = {}
    /\ video = [i \in Items |-> NoVideo]
    /\ item  = [i \in Items |-> "none"]
    /\ spares = [b \in Batches |-> {}]
    /\ rejected = [b \in Batches |-> {}]
    /\ claimed = {}
    /\ pc  = [r \in Runners |-> "idle"]
    /\ at  = [r \in Runners |-> 0]
    /\ sub = [r \in Runners |-> 0]
    /\ verdict = [i \in Items |-> "none"]
    /\ jst  = [j \in Jobs |-> "none"]
    /\ todo = [j \in Jobs |-> <<>>]
    /\ sink = [j \in Jobs |-> NoResults]
    /\ busy = {} /\ succeeded = {}
    /\ other = [a \in Accounts |-> "none"]
    /\ others = 0 /\ stops = 0 /\ stale = {}
    /\ stopping = FALSE
    /\ library = Videos
    /\ confirmed = {}

-----------------------------------------------------------------------------
(* add: the scan offers files that were not in DA_DANG when it read their  *)
(* directory; an archive thread may have moved some of them since.  Those  *)
(* already claimed are skipped, every account gets videos of its own, the  *)
(* rest are spares, and all of them are claimed before add() returns.      *)

\* The files a scan of this lifetime may have listed.
Scanned == library \cup {video[i] : i \in {k \in Items : item[k] = "DONE"}}

Available_Unfiltered(offered) == offered
Available(offered) == offered \ claimed

Assignments_Repeating(A, per, free) == [A \X (1 .. per) -> free]
Assignments(A, per, free) == Injection(A \X (1 .. per), free)

Claimed_Assigned(free, own) == claimed \cup Range(own)
Claimed(free, own) == claimed \cup free

Add(b, A, per, offered) ==
    /\ Yielded
    /\ ~stopping
    /\ bstatus[b] = "none" /\ \A c \in Batches : c < b => bstatus[c] # "none"
    /\ LET free == Available(offered) IN
         /\ Cardinality(A) * per <= Cardinality(free)
         /\ \E own \in Assignments(A, per, free) :
              /\ video' = [i \in Items |->
                     IF i[1] = b /\ <<i[2], i[3]>> \in DOMAIN own
                     THEN own[<<i[2], i[3]>>] ELSE video[i]]
              /\ item' = [i \in Items |->
                     IF i[1] = b /\ <<i[2], i[3]>> \in DOMAIN own
                     THEN "PENDING" ELSE item[i]]
              /\ spares' = [spares EXCEPT ![b] = free \ Range(own)]
              /\ claimed' = Claimed(free, own)
    /\ bstatus' = [bstatus EXCEPT ![b] = "PENDING"]
    /\ UNCHANGED <<cancelRequested, processed, archiveFailed, rejected, runVars,
                   jobVars, dispVars, lifeVars>>

Cancel(b) ==
    /\ Yielded
    /\ MayCancel /\ ~stopping
    /\ b \in Live
    /\ cancelRequested' = cancelRequested \cup {b}
    /\ UNCHANGED <<bstatus, processed, archiveFailed, claimVars, runVars, jobVars,
                   dispVars, lifeVars>>

-----------------------------------------------------------------------------
(* _run: batches take the batch lock in the order of their add() calls.    *)

LockFree(b) == \A c \in Live : c >= b

BatchStart(b) ==
    /\ Yielded
    /\ bstatus[b] = "PENDING" /\ LockFree(b) /\ ~stopping
    /\ b \notin cancelRequested
    /\ bstatus' = [bstatus EXCEPT ![b] = "RUNNING"]
    /\ pc' = [r \in Runners |-> IF r[1] = b /\ SlotsOf(r) # {} THEN "free" ELSE pc[r]]
    /\ UNCHANGED <<cancelRequested, processed, archiveFailed, claimVars, at, sub,
                   verdict, jobVars, dispVars, lifeVars>>

\* The finally clause of _run, for every batch of B.
Freed_All(B) ==
    {video[i] : i \in UNION {ItemsOf(b) : b \in B}} \cup UNION {spares[b] : b \in B}
Freed(B) ==
    {video[i] : i \in {k \in UNION {ItemsOf(b) : b \in B} : item[k] \notin Spent}}
        \cup UNION {spares[b] : b \in B}

BatchSkipped(b) ==
    /\ Yielded
    /\ bstatus[b] = "PENDING" /\ LockFree(b) /\ ~stopping
    /\ b \in cancelRequested
    /\ bstatus' = [bstatus EXCEPT ![b] = "CANCELLED"]
    /\ claimed' = claimed \ Freed({b})
    /\ UNCHANGED <<cancelRequested, processed, archiveFailed, video, item, spares,
                   rejected, runVars, jobVars, dispVars, lifeVars>>

Outcome(b) ==
    IF b \in cancelRequested THEN "CANCELLED"
    ELSE IF b \in archiveFailed \/ \E i \in ItemsOf(b) : item[i] # "DONE"
         THEN "DONE_WITH_ERRORS" ELSE "DONE"

BatchEnd(b) ==
    /\ Yielded
    /\ bstatus[b] = "RUNNING"
    /\ \A a \in AccountsOf(b) : pc[<<b, a>>] = "over"
    /\ bstatus' = [bstatus EXCEPT ![b] = Outcome(b)]
    /\ claimed' = claimed \ Freed({b})
    /\ UNCHANGED <<cancelRequested, processed, archiveFailed, video, item, spares,
                   rejected, runVars, jobVars, dispVars, lifeVars>>

-----------------------------------------------------------------------------
(* _run_account.                                                           *)

\* The next slot, or the end of the runner.
Advance(r, n) ==
    IF n + 1 \in SlotsOf(r)
    THEN at' = [at EXCEPT ![r] = n + 1] /\ pc' = [pc EXCEPT ![r] = "settling"]
    ELSE at' = [at EXCEPT ![r] = 0]     /\ pc' = [pc EXCEPT ![r] = "over"]

Mark(r, S, s) == item' = [i \in Items |->
    IF i[1] = r[1] /\ i[2] = r[2] /\ i[3] \in S THEN s ELSE item[i]]

\* Before the first task has been submitted the exception ends the runner;
\* the replacement of one item only ends that item.
SubmissionFails(r) ==
    /\ Mark(r, Current(r), "ERROR")
    /\ processed' = [processed EXCEPT ![r[1]] = @ + Cardinality(Current(r))]
    /\ IF at[r] = 0 THEN pc' = [pc EXCEPT ![r] = "over"] /\ UNCHANGED at
                    ELSE Advance(r, at[r])

\* The runner has the event loop: it kept it, or nobody else did.
Asks(r) == pc[r] = "asking" \/ (pc[r] = "free" /\ Yielded)

\* _wait_until_free sees the batch cancelled.
GiveUp(r) ==
    /\ Asks(r) /\ r[1] \in cancelRequested
    /\ SubmissionFails(r)
    /\ UNCHANGED <<bstatus, cancelRequested, archiveFailed, video, spares, rejected,
                   claimed, sub, verdict, jobVars, dispVars, lifeVars>>

Sleep(r) ==
    /\ pc[r] = "asking" /\ r[1] \notin cancelRequested
    /\ r[2] \in busy
    /\ pc' = [pc EXCEPT ![r] = "free"]
    /\ UNCHANGED <<batchVars, claimVars, at, sub, verdict, jobVars, dispVars, lifeVars>>

\* submit_task reserves the account, then suspends in its status broadcast.
Submit(r) ==
    /\ Asks(r) /\ r[1] \notin cancelRequested /\ r[2] \notin busy
    /\ Mark(r, Current(r), "SUBMITTING")
    /\ busy' = busy \cup {r[2]}
    /\ succeeded' = succeeded \ {r[2]}
    /\ pc' = [pc EXCEPT ![r] = "submitting"]
    /\ UNCHANGED <<batchVars, video, spares, rejected, claimed, at, sub, verdict,
                   jobVars, other, others, stops, stale, lifeVars>>

\* submit_task raises (lease) or answers False (the account has been sold).
SubmitRefused(r) ==
    /\ MayFail
    /\ Asks(r) /\ r[1] \notin cancelRequested /\ r[2] \notin busy
    /\ SubmissionFails(r)
    /\ UNCHANGED <<bstatus, cancelRequested, archiveFailed, video, spares, rejected,
                   claimed, sub, verdict, jobVars, dispVars, lifeVars>>

Paths(r) == IF at[r] = 0 THEN [n \in SlotsOf(r) |-> video[It(r, n)]]
                         ELSE <<video[It(r, at[r])]>>

\* The broadcast returns, the payload is queued; the runner then asks whether
\* the account is busy, and refuses the answer if it is not.
SubmitReturns(r) ==
    /\ Yielded
    /\ pc[r] = "submitting"
    /\ sub' = [sub EXCEPT ![r] = @ + 1]
    /\ LET j == <<r[1], r[2], sub[r] + 1>> IN
         /\ jst'  = [jst EXCEPT ![j] = "queued"]
         /\ todo' = [todo EXCEPT ![j] = Paths(r)]
    /\ \/ /\ r[2] \in busy
          /\ Mark(r, Current(r), "RUNNING")
          /\ pc' = [pc EXCEPT ![r] = "polling"]
          /\ UNCHANGED <<processed, at>>
       \/ /\ r[2] \notin busy
          /\ SubmissionFails(r)
    /\ UNCHANGED <<bstatus, cancelRequested, archiveFailed, video, spares, rejected,
                   claimed, verdict, sink, dispVars, lifeVars>>

\* The account is no longer busy: read the sink, matched by path, or, when it is
\* empty, the account's status.
Result_ByAccount(r, v) == IF r[2] \in succeeded THEN "ok" ELSE "error"
Result(r, v) ==
    LET s == sink[Job(r)] IN
    IF s = NoResults
    THEN IF r[2] \in succeeded THEN "ok" ELSE "error"
    ELSE IF s[v] = "none" THEN "error" ELSE s[v]

Poll(r) ==
    /\ Yielded
    /\ pc[r] = "polling"
    /\ r[2] \notin busy
    /\ verdict' = [i \in Items |->
           IF i[1] = r[1] /\ i[2] = r[2] /\ i[3] \in Current(r)
           THEN Result(r, video[i]) ELSE verdict[i]]
    /\ at' = [at EXCEPT ![r] = IF @ = 0 THEN 1 ELSE @]
    /\ pc' = [pc EXCEPT ![r] = "settling"]
    \* Once its task has ended nobody reads the sink again.
    /\ sink' = IF jst[Job(r)] \in {"queued", "working"} THEN sink
               ELSE [sink EXCEPT ![Job(r)] = NoResults]
    /\ UNCHANGED <<batchVars, claimVars, sub, jst, todo, dispVars, lifeVars>>

\* The loop over the items; a verdict is looked at once.  A success suspends in
\* the archive thread.
Read(r) == verdict' = [verdict EXCEPT ![It(r, at[r])] = "none"]

SettleDone(r) ==
    LET n == at[r] IN
    /\ pc[r] = "settling" /\ verdict[It(r, n)] = "ok"
    /\ Mark(r, {n}, "DONE")
    /\ pc' = [pc EXCEPT ![r] = "archiving"]
    /\ Read(r)
    /\ UNCHANGED <<batchVars, video, spares, rejected, claimed, at, sub,
                   jobVars, dispVars, lifeVars>>

SettleFailed(r) ==
    LET n == at[r]
        v == verdict[It(r, n)]
    IN
    /\ pc[r] = "settling"
    /\ v \in {"swallowed", "error"} \/ (v = "duplicate" /\ spares[r[1]] = {})
    /\ Mark(r, {n}, CASE v = "duplicate" -> "DUPLICATE"
                      [] v = "swallowed" -> "SWALLOWED"
                      [] v = "error"     -> "ERROR")
    /\ processed' = [processed EXCEPT ![r[1]] = @ + 1]
    /\ Advance(r, n)
    /\ Read(r)
    /\ UNCHANGED <<bstatus, cancelRequested, archiveFailed, video, spares, rejected,
                   claimed, sub, jobVars, dispVars, lifeVars>>

\* A duplicate takes a spare, and asks for a task of its own.
TakeSpare(b, s) == spares' = [spares EXCEPT ![b] = @ \ {s}]

Replace(r, s) ==
    LET i == It(r, at[r]) IN
    /\ pc[r] = "settling" /\ verdict[i] = "duplicate"
    /\ s \in spares[r[1]]
    /\ TakeSpare(r[1], s)
    /\ rejected' = [rejected EXCEPT ![r[1]] = @ \cup {video[i]}]
    /\ video' = [video EXCEPT ![i] = s]
    /\ pc' = [pc EXCEPT ![r] = "asking"]
    /\ Read(r)
    /\ UNCHANGED <<batchVars, item, claimed, at, sub, jobVars, dispVars,
                   lifeVars>>

Counted(b, ok) == processed' = [processed EXCEPT ![b] = @ + 1]

\* archive_posted_video returns, or raises: the file is gone or cannot be moved.
ArchiveEnds(r, ok) ==
    LET v == video[It(r, at[r])] IN
    /\ Yielded
    /\ pc[r] = "archiving"
    /\ IF ok THEN v \in library ELSE MayFail \/ v \notin library
    /\ library' = IF ok THEN library \ {v} ELSE library
    /\ archiveFailed' = IF ok THEN archiveFailed ELSE archiveFailed \cup {r[1]}
    /\ Counted(r[1], ok)
    /\ Advance(r, at[r])
    /\ UNCHANGED <<bstatus, cancelRequested, claimVars, sub, verdict, jobVars, dispVars,
                   stopping, confirmed>>

-----------------------------------------------------------------------------
(* The dispatcher and execute_video_batch, as the runners can tell.  A job *)
(* is "queued", "working" in its use case, "closing" once its status is    *)
(* written and its cleanup under way, and "over".                          *)

SetSucceeded(a, ok) == succeeded' = IF ok THEN succeeded \cup {a} ELSE succeeded \ {a}
\* _pending_accounts.discard(account_id), whoever the entry belongs to.
Forget_Not(a) == busy' = busy
Forget(a) == busy' = busy \ {a}
JobTo(j, s) == jst' = [jst EXCEPT ![j] = s]

\* A worker is created only if the queue loop has read the present generation.
JobStarts(j) ==
    /\ Yielded
    /\ jst[j] = "queued" /\ stale = {}
    /\ JobTo(j, "working")
    /\ UNCHANGED <<batchVars, claimVars, runVars, todo, sink, dispVars, lifeVars>>

\* The queue loop still holds the generation of before the stop: it throws the
\* payload away, and reads the generation again.
JobDropped(j) ==
    /\ Yielded
    /\ jst[j] = "queued" /\ j \in stale
    /\ JobTo(j, "over")
    /\ Forget(j[2])
    /\ stale' = {}
    /\ UNCHANGED <<batchVars, claimVars, runVars, todo, sink, succeeded, other, others,
                   stops, lifeVars>>

\* The lease check of the worker raises outside its try block: the account stays
\* busy until an emergency stop or a restart.
JobDenied(j) ==
    /\ Yielded
    /\ jst[j] = "queued" /\ stale = {} /\ LeaseMayExpire
    /\ JobTo(j, "over")
    /\ UNCHANGED <<batchVars, claimVars, runVars, todo, sink, dispVars, lifeVars>>

\* No route, no browser, the upload timeout, the account sold meanwhile, a
\* checkpoint that raises: the worker ends in its handlers.
JobFails(j) ==
    /\ Yielded
    /\ MayFail
    /\ jst[j] = "working"
    /\ JobTo(j, "closing")
    /\ SetSucceeded(j[2], FALSE)
    /\ UNCHANGED <<batchVars, claimVars, runVars, todo, sink, busy, other, others,
                   stops, stale, lifeVars>>

\* The login fails: every video gets an error of its own.
LoginFails(j) ==
    /\ Yielded
    /\ MayFail
    /\ jst[j] = "working" /\ sink[j] = NoResults
    /\ JobTo(j, "closing")
    /\ sink' = [sink EXCEPT ![j] = [v \in Videos |->
           IF v \in Range(todo[j]) THEN "error" ELSE "none"]]
    /\ SetSucceeded(j[2], FALSE)
    /\ UNCHANGED <<batchVars, claimVars, runVars, todo, busy, other, others, stops,
                   stale, lifeVars>>

\* publish_media for the next video, its record in the database, its entry in the sink.
Publish(j, res) ==
    LET v == Head(todo[j]) IN
    /\ Yielded
    /\ jst[j] = "working" /\ todo[j] # <<>>
    /\ todo' = [todo EXCEPT ![j] = Tail(@)]
    /\ sink' = [sink EXCEPT ![j][v] = res]
    /\ confirmed' = IF res = "ok" THEN confirmed \cup {<<v, j>>} ELSE confirmed
    /\ UNCHANGED <<batchVars, claimVars, runVars, jst, dispVars, stopping, library>>

\* The record raises: no entry, and the task ends with the videos it has left unposted.
RecordFails(j, res) ==
    /\ Yielded
    /\ RecordMayFail
    /\ jst[j] = "working" /\ todo[j] # <<>>
    /\ JobTo(j, "closing")
    /\ confirmed' = IF res = "ok" THEN confirmed \cup {<<Head(todo[j]), j>>} ELSE confirmed
    /\ SetSucceeded(j[2], FALSE)
    /\ UNCHANGED <<batchVars, claimVars, runVars, todo, sink, busy, other, others,
                   stops, stale, stopping, library>>

\* One confirmed video makes the task, and the account, a SUCCESS.
JobReports(j) ==
    /\ Yielded
    /\ jst[j] = "working" /\ todo[j] = <<>>
    /\ JobTo(j, "closing")
    /\ SetSucceeded(j[2], \E v \in Videos : sink[j][v] = "ok")
    /\ UNCHANGED <<batchVars, claimVars, runVars, todo, sink, busy, other, others,
                   stops, stale, lifeVars>>

JobReleases(j) ==
    /\ Yielded
    /\ jst[j] = "closing"
    /\ JobTo(j, "over")
    /\ Forget(j[2])
    /\ UNCHANGED <<batchVars, claimVars, runVars, todo, sink, succeeded, other, others,
                   stops, stale, lifeVars>>

\* Any other task of the account: a login, a campaign, a single upload.
OtherSubmits(a) ==
    /\ Yielded
    /\ others < MaxOthers /\ ~stopping
    /\ a \notin busy /\ other[a] = "none"
    /\ busy' = busy \cup {a}
    /\ SetSucceeded(a, FALSE)
    /\ other' = [other EXCEPT ![a] = "working"]
    /\ others' = others + 1
    /\ UNCHANGED <<batchVars, claimVars, runVars, jobVars, stops, stale, lifeVars>>

\* Its payload is the one the queue loop throws away after a stop.
OtherDropped(a) ==
    /\ Yielded
    /\ other[a] = "working" /\ stale = Jobs
    /\ other' = [other EXCEPT ![a] = "none"]
    /\ Forget(a)
    /\ stale' = {}
    /\ UNCHANGED <<batchVars, claimVars, runVars, jobVars, succeeded, others, stops,
                   lifeVars>>

OtherReports(a, ok) ==
    /\ Yielded
    /\ other[a] = "working" /\ stale = {}
    /\ other' = [other EXCEPT ![a] = "closing"]
    /\ SetSucceeded(a, ok)
    /\ UNCHANGED <<batchVars, claimVars, runVars, jobVars, busy, others, stops, stale,
                   lifeVars>>

OtherReleases(a) ==
    /\ Yielded
    /\ other[a] = "closing"
    /\ other' = [other EXCEPT ![a] = "none"]
    /\ Forget(a)
    /\ UNCHANGED <<batchVars, claimVars, runVars, jobVars, succeeded, others, stops,
                   stale, lifeVars>>

\* emergency_stop_all: the queue is drained, the workers are cancelled (their
\* handler reports an error), and nobody is busy any more.  The queue loop does not
\* wake up: the payload it may have in its hand, waiting for a permit, is neither
\* drained nor cancelled, but the first it will throw away.
InHand == IF stale \in {{}, Jobs} THEN {{}} \cup {{j} : j \in {k \in Jobs : jst[k] = "queued"}}
                                  ELSE {stale}

EmergencyStop ==
    /\ Yielded
    /\ stops < MaxStops /\ ~stopping
    /\ stops' = stops + 1
    /\ \E h \in InHand :
         /\ stale' = IF h = {} THEN Jobs ELSE h
         /\ jst' = [j \in Jobs |-> CASE jst[j] = "queued" /\ j \notin h -> "over"
                                     [] jst[j] = "working" -> "closing"
                                     [] OTHER -> jst[j]]
    /\ other' = [a \in Accounts |-> IF other[a] = "working" THEN "closing" ELSE other[a]]
    /\ succeeded' = {a \in succeeded : other[a] # "working"
                                       /\ \A j \in Jobs : j[2] = a => jst[j] # "working"}
    /\ busy' = {}
    /\ UNCHANGED <<batchVars, claimVars, runVars, todo, sink, others, lifeVars>>

-----------------------------------------------------------------------------
(* shutdown cancels every run coroutine and, through gather, its runners;  *)
(* their finally clauses release what was not spent.  A run coroutine that *)
(* has not made its first step, like those of all later batches, never     *)
(* makes it: its batch stays as it is.  The process ends next, or at any   *)
(* moment without it: memory is gone, the library, DA_DANG and the status  *)
(* column remain.                                                          *)

Shutdown(begun) ==
    /\ Yielded
    /\ MayCrash /\ ~stopping
    /\ begun \subseteq Live
    /\ \A b \in Live : bstatus[b] = "RUNNING" \/ (\E c \in begun : b < c) => b \in begun
    /\ stopping' = TRUE
    /\ cancelRequested' = {b \in Batches : bstatus[b] # "none"} \cup cancelRequested
    /\ bstatus' = [b \in Batches |-> IF b \in begun THEN "CANCELLED" ELSE bstatus[b]]
    /\ pc' = [r \in Runners |-> IF r[1] \in begun THEN "over" ELSE pc[r]]
    /\ claimed' = claimed \ Freed(begun)
    /\ UNCHANGED <<processed, archiveFailed, video, item, spares, rejected, at, sub,
                   verdict, jobVars, dispVars, library, confirmed>>

Restart ==
    /\ Yielded
    /\ MayCrash
    /\ \E b \in Batches : bstatus[b] \notin {"none", "forgotten"}
    /\ bstatus' = [b \in Batches |-> IF bstatus[b] = "none" THEN "none" ELSE "forgotten"]
    /\ cancelRequested' = {} /\ archiveFailed' = {}
    /\ processed' = [b \in Batches |-> 0]
    /\ video' = [i \in Items |-> NoVideo]
    /\ item'  = [i \in Items |-> "none"]
    /\ spares' = [b \in Batches |-> {}] /\ rejected' = [b \in Batches |-> {}]
    /\ claimed' = {}
    /\ pc'  = [r \in Runners |-> "idle"]
    /\ at'  = [r \in Runners |-> 0]
    /\ sub' = [r \in Runners |-> 0]
    /\ verdict' = [i \in Items |-> "none"]
    /\ jst'  = [j \in Jobs |-> "none"]
    /\ todo' = [j \in Jobs |-> <<>>]
    /\ sink' = [j \in Jobs |-> NoResults]
    /\ busy' = {}
    /\ other' = [a \in Accounts |-> "none"]
    /\ stale' = {}
    /\ stopping' = FALSE
    /\ confirmed' = {}
    /\ UNCHANGED <<succeeded, others, stops, library>>

-----------------------------------------------------------------------------
RunnerStep(r) ==
    \/ GiveUp(r) \/ Sleep(r) \/ Submit(r) \/ SubmitRefused(r) \/ SubmitReturns(r)
    \/ Poll(r)
    \/ SettleDone(r) \/ SettleFailed(r) \/ \E s \in Videos : Replace(r, s)
    \/ \E ok \in BOOLEAN : ArchiveEnds(r, ok)

BatchStep(b) == BatchStart(b) \/ BatchSkipped(b) \/ BatchEnd(b)

JobStep(j) ==
    \/ JobStarts(j) \/ JobDropped(j) \/ JobDenied(j) \/ JobFails(j) \/ LoginFails(j)
    \/ \E res \in Verdicts : Publish(j, res) \/ RecordFails(j, res)
    \/ JobReports(j) \/ JobReleases(j)

OtherStep(a) ==
    \/ OtherSubmits(a) \/ OtherDropped(a) \/ OtherReleases(a)
    \/ \E ok \in BOOLEAN : OtherReports(a, ok)

OperatorStep ==
    \/ \E b \in Batches, A \in SUBSET Accounts \ {{}}, per \in PerAccount,
          offered \in SUBSET Scanned : Add(b, A, per, offered)
    \/ \E b \in Batches : Cancel(b)
    \/ \E begun \in SUBSET Batches : Shutdown(begun)
    \/ EmergencyStop \/ Restart

Next ==
    \/ \E r \in Runners : RunnerStep(r)
    \/ \E b \in Batches : BatchStep(b)
    \/ \E j \in Jobs : JobStep(j)
    \/ \E a \in Accounts : OtherStep(a)
    \/ OperatorStep

Spec == Init /\ [][Next]_vars

\* Every coroutine that can run is run; a task of the account ends.
FairSpec ==
    /\ Spec
    /\ \A r \in Runners : WF_vars(RunnerStep(r))
    /\ \A b \in Batches : WF_vars(BatchStep(b))
    /\ \A j \in Jobs : WF_vars(JobStep(j))
    /\ \A a \in Accounts : WF_vars(OtherReleases(a) \/ OtherDropped(a) \/ OtherReports(a, FALSE))

-----------------------------------------------------------------------------
(* Properties.                                                             *)

ClaimTypes ==
    /\ bstatus \in [Batches -> {"none", "PENDING", "RUNNING", "forgotten"} \cup Finished]
    /\ video \in [Items -> Videos \cup {NoVideo}]
    /\ item \in [Items -> {"none", "PENDING", "SUBMITTING", "RUNNING"} \cup Settled]
    /\ spares \in [Batches -> SUBSET Videos]
    /\ rejected \in [Batches -> SUBSET Videos]
    /\ claimed \subseteq Videos

RunnerTypes ==
    /\ pc \in [Runners -> {"idle", "free", "asking", "submitting", "polling", "settling",
                           "archiving", "over"}]
    /\ at \in [Runners -> {0} \cup Slots]
    /\ DOMAIN verdict = Items


\* What a batch keeps: its items, its spares and the duplicates it replaced.
Holds(b) == {video[i] : i \in ItemsOf(b)} \cup spares[b] \cup rejected[b]

\* add() and _take_spare together give every video to one owner: two items, two
\* spares, an item and a spare of unfinished batches never name the same video.
OneOwner ==
    /\ \A i, k \in Items :
           i[1] \in Live /\ k[1] \in Live /\ video[i] = video[k] /\ video[i] # NoVideo
               => i = k
    /\ \A i \in Items, b \in Batches :
           i[1] \in Live /\ b \in Live => video[i] \notin spares[b]
    /\ \A b, c \in Live : b # c => spares[b] \cap spares[c] = {}

\* The videos of finished batches that must not be offered again.
Used == (UNION {rejected[b] : b \in Batches})
        \cup {video[i] : i \in {k \in Items : item[k] \in Spent}}

\* The claims are exact: a key is claimed if and only if an unfinished batch
\* holds the video or it has been posted or rejected.  Nothing leaks when a batch
\* ends, is cancelled or fails, and nothing is given back too early.
ClaimsExact == claimed = (UNION {Holds(b) : b \in Live}) \cup Used

\* "Confirmed posts stay claimed for this backend lifetime": a publication the
\* upload use case confirmed is never up for another upload.
ConfirmedStayClaimed == \A p \in confirmed : p[1] \in claimed

\* No video is confirmed by two tasks, whatever accounts they run for.
PublishedOnce == \A p, q \in confirmed : p[1] = q[1] => p = q

\* Only a confirmed post is counted as done and moved to DA_DANG, as long as no
\* other task of the accounts touches their status.
DoneWasConfirmed ==
    others = 0 =>
        \A i \in Items : item[i] = "DONE" => \E p \in confirmed : p[1] = video[i]

\* No item is settled twice: whatever its neighbours in the account or a stop do
\* later, a settled item keeps its status and its file.
SettledForGood ==
    [][\A i \in Items : item[i] \in Settled /\ bstatus'[i[1]] # "forgotten"
           => item'[i] = item[i] /\ video'[i] = video[i]]_vars

\* Every batch comes to an end, unless the backend shuts down before it began: no poll,
\* lock or archive keeps it for ever.
EveryBatchEnds == \A b \in Batches : b \in Live ~> b \notin Live \/ stopping

\* The strengthening of OneOwner and ClaimsExact that is inductive.
Gone == (UNION {rejected[b] : b \in Batches})
        \cup {video[i] : i \in {k \in Items : item[k] \in Spent /\ k[1] \notin Live}}

\* Items exist from add() on, and fill the slots of an account from the first.
ItemsExist ==
    /\ \A i \in Items : item[i] = "none" <=> video[i] = NoVideo
    /\ \A i \in Items : video[i] # NoVideo => video[<<i[1], i[2], 1>>] # NoVideo
    /\ \A b \in Batches : bstatus[b] = "none" =>
           /\ spares[b] = {} /\ rejected[b] = {}
           /\ \A i \in Items : i[1] = b => video[i] = NoVideo

\* A runner works for the running batch, on items that exist.
RunnersOwned ==
    /\ \A r \in Runners : pc[r] \notin {"idle", "over"} =>
           bstatus[r[1]] = "RUNNING" /\ SlotsOf(r) # {}
    /\ \A r \in Runners : at[r] # 0 => video[It(r, at[r])] # NoVideo
    /\ \A r \in Runners : pc[r] \in {"settling", "archiving"} => at[r] # 0
    /\ \A i \in Items : verdict[i] # "none" => video[i] # NoVideo

\* Nothing an unfinished batch may still upload was posted or rejected before.
UsedApart ==
    /\ \A i \in Items : i[1] \in Live => video[i] \notin Gone
    /\ \A b \in Live : spares[b] \cap Gone = {}

\* The claim set, the items and the spares agree, step by step: no key has two
\* owners, and none is leaked or released early.
IndInv == /\ ClaimTypes /\ RunnerTypes /\ ItemsExist /\ RunnersOwned
          /\ OneOwner /\ ClaimsExact /\ UsedApart

\* What makes SettledForGood hold: a runner settles its slots in order, so those it may
\* still touch are not settled, and a batch that waits has touched none.
Ahead(r) == {n \in SlotsOf(r) : at[r] = 0 \/ n > at[r] \/ (n = at[r] /\ pc[r] # "archiving")}

SettlesInOrder ==
    /\ \A r \in Runners : bstatus[r[1]] \in {"none", "PENDING"} => pc[r] = "idle"
    /\ \A r \in Runners : pc[r] = "idle" => at[r] = 0
    /\ \A r \in Runners : pc[r] # "over" => \A n \in Ahead(r) : item[It(r, n)] \notin Settled

\* Batches run in the order of their add() calls, one at a time.
RunsInTurn ==
    \A b, c \in Batches : b < c =>
        /\ bstatus[c] # "none" => bstatus[b] # "none"
        /\ bstatus[c] = "RUNNING" => b \notin Live

\* An account's slots are filled from the first on, and a runner submits one task at
\* first and one for each replacement it made: its tasks have names in Jobs.
SlotsFilled == \A r \in Runners :
    SlotsOf(r) = {} \/ \E per \in PerAccount : SlotsOf(r) = 1 .. per

TasksCounted == sub \in [Runners -> Nat] /\ \A r \in Runners :
    /\ pc[r] = "polling" => sub[r] > 0
    /\ sub[r] <= Cardinality(rejected[r[1]]) + 1
    /\ pc[r] \in {"idle", "free", "asking", "submitting"} => sub[r] <= Cardinality(rejected[r[1]])

\* The types of the tasks, of other tasks and of stops.
JobTypes ==
    /\ jst \in [Jobs -> {"none", "queued", "working", "closing", "over"}]
    /\ todo \in [Jobs -> Seq(Videos)]
    /\ sink \in [Jobs -> [Videos -> {"none"} \cup Verdicts]]

CountsTyped == /\ others \in Nat /\ stops \in Nat
               /\ stale \subseteq Jobs /\ (stops = 0 => stale = {})

\* The rest holds until the first stop, and until the backend shuts down, if the
\* database takes every result.
Undisturbed == stops = 0 /\ ~stopping /\ ~RecordMayFail

InFlight(j)  == jst[j] \in {"queued", "working", "closing"}
RunnerOf(x)  == <<x[1], x[2]>>

\* An account is busy for one task at a time, and a runner's task does not outlive its
\* polling.
BusyForOne ==
    /\ other \in [Accounts -> {"none", "working", "closing"}]
    /\ \A j \in Jobs : InFlight(j) =>
           /\ j[2] \in busy /\ other[j[2]] = "none"
           /\ pc[RunnerOf(j)] = "polling" /\ j[3] = sub[RunnerOf(j)]
    /\ \A r \in Runners : pc[r] = "submitting" => r[2] \in busy /\ other[r[2]] = "none"
    /\ \A a \in Accounts : other[a] # "none" => a \in busy

\* A task has its runner's current videos left at most, each once and unconfirmed.
TasksApart == \A j \in Jobs : InFlight(j) =>
    /\ \A v \in Range(todo[j]) : \E n \in Current(RunnerOf(j)) : v = video[It(RunnerOf(j), n)]
    /\ IsInjective(todo[j])
    /\ \A p \in confirmed : p[1] \notin Range(todo[j])

\* A runner keeps the verdicts of the slots it has not come to yet.
VerdictsAhead == \A i \in Items : verdict[i] # "none" =>
    LET r == RunnerOf(i) IN
    /\ pc[r] \notin {"idle", "over"} /\ at[r] # 0
    /\ i[3] > at[r] \/ (i[3] = at[r] /\ pc[r] = "settling")

\* A confirmed video is that of an item which is done, or will be: its runner has read,
\* or is about to read, that it was published.
Accounted(p, i) ==
    LET r == RunnerOf(i) IN
    /\ video[i] = p[1]
    /\ \/ item[i] = "DONE"
       \/ verdict[i] = "ok"
       \/ pc[r] = "polling" /\ i[3] \in Current(r) /\ p[2] = Job(r) /\ sink[p[2]][p[1]] = "ok"

ConfirmedAccounted ==
    /\ \A p \in confirmed : p[1] \in Videos /\ p[2] \in Jobs /\ \E i \in Items : Accounted(p, i)
    /\ \A j \in Jobs, v \in Videos : sink[j][v] = "ok" => <<v, j>> \in confirmed

\* Conversely, with no other task about: who reads or settles a success reads one that
\* was confirmed, and an account whose task left no result is no SUCCESS.
SuccessMeant == others = 0 =>
    /\ \A a \in Accounts : other[a] = "none"
    /\ \A r \in Runners : r[2] \in succeeded =>
           pc[r] # "submitting" /\ (pc[r] = "polling" => sink[Job(r)] # NoResults)
    /\ \A i \in Items : verdict[i] = "ok" \/ item[i] = "DONE" =>
           \E p \in confirmed : p[1] = video[i]

\* Both are inductive, the second on top of the first.
OrderInv   == /\ IndInv /\ SettlesInOrder /\ RunsInTurn /\ SlotsFilled /\ TasksCounted
              /\ JobTypes /\ CountsTyped
TasksAgree == /\ BusyForOne /\ TasksApart /\ VerdictsAhead
              /\ ConfirmedAccounted /\ SuccessMeant /\ PublishedOnce
ConfirmInv == Undisturbed => TasksAgree

\* The library as VideoClaims sees it: an unfinished batch keeps what it holds.
Claims == INSTANCE VideoClaims WITH
    kept  <- [b \in Batches |-> IF b \in Live THEN Holds(b) ELSE {}],
    spent <- claimed \ (UNION {Holds(b) : b \in Live})

\* The service implements VideoClaims: batches take only what nobody keeps, hand
\* spares on without letting go of them, and conclude by spending or returning.
KeepsClaims == Claims!Spec
=============================================================================
