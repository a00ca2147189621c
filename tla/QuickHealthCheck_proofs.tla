---------------------- MODULE QuickHealthCheck_proofs ----------------------
(***************************************************************************)
(* At most one batch of the quick health check runs, and TikTok never sees *)
(* more requests at once than the limits, for any set of accounts,         *)
(* proxies, requests by hand and continuous loops.  The third conjunct of  *)
(* BatchesNeverOverlap is what makes it inductive: a coroutine that can    *)
(* still move belongs to a caller whose batch is running.  The limits rest *)
(* on it: the semaphores count what all coroutines hold (PermitsCounted).  *)
(***************************************************************************)
EXTENDS QuickHealthCheck, FiniteSetTheorems, TLAPS

Shapes == /\ phase \in [Callers -> Phases]
          /\ worker \in [Callers -> [Accounts -> WorkerStates]]
BatchInv == Shapes /\ BatchesNeverOverlap

\* A step that starts and ends no batch and wakes no coroutine keeps the invariant.
LEMMA OtherMove ==
    ASSUME BatchInv, NEW c \in Callers, NEW p \in Phases \ {"batch", "closing"},
           phase[c] \notin {"batch", "closing"}, Goto(c, p), UNCHANGED <<worker, running>>
    PROVE  BatchInv'
<1>1. phase' \in [Callers -> Phases] /\ Batching' = Batching
  BY DEF BatchInv, Shapes, Goto, Batching
<1>2. \A d \in Callers : phase'[d] # "batch" => phase[d] # "batch"
  BY DEF BatchInv, Shapes, Goto
<1>3. \A d \in Callers : phase'[d] # "batch" => At(d, {"none", "done"})' = Accounts
  BY <1>2 DEF BatchInv, BatchesNeverOverlap, At
<1>4. QED
  BY <1>1, <1>3 DEF BatchInv, BatchesNeverOverlap, Shapes

\* run_batch finds is_running false: nobody is batching, and then only c is.
LEMMA Starts ==
    ASSUME BatchInv, NEW c \in Callers, NEW ids, MayRun, StartBatch(c, ids)
    PROVE  BatchInv'
<1>1. Batching = {}
  BY DEF BatchInv, BatchesNeverOverlap, MayRun
<1>2. phase' = [phase EXCEPT ![c] = "batch"] /\ running' = TRUE
      /\ worker' = [worker EXCEPT ![c] = [a \in Accounts |-> IF a \in ids THEN "new" ELSE "none"]]
  BY DEF StartBatch, Goto
<1>3. Shapes'
  BY <1>2 DEF BatchInv, Shapes, Phases, WorkerStates
<1>4. Batching' = {c}
  BY <1>1, <1>2 DEF BatchInv, Shapes, Batching
<1>5. ASSUME NEW d \in Callers, phase'[d] # "batch" PROVE At(d, {"none", "done"})' = Accounts
  <2>1. d # c /\ phase[d] # "batch" /\ worker'[d] = worker[d]
    BY <1>2, <1>5 DEF BatchInv, Shapes
  <2>2. QED
    BY <2>1 DEF BatchInv, BatchesNeverOverlap, At
<1>6. QED
  BY <1>2, <1>3, <1>4, <1>5 DEF BatchInv, BatchesNeverOverlap

\* A coroutine moves: its caller's batch is running, and stays so.
LEMMA WorkerMoves ==
    ASSUME BatchInv, NEW c \in Callers, NEW a \in Accounts, Worker(c, a)
    PROVE  BatchInv'
<1>1. worker[c][a] \notin {"none", "done"} /\ UNCHANGED <<phase, running>>
      /\ \E w \in WorkerStates : Move(c, a, w)
  <2>1. CASE Snapshot(c, a)
    BY <2>1 DEF Snapshot, Finish, WorkerStates, countVars
  <2>2. CASE TakeRoute(c, a) \/ TakeSlot(c, a) \/ Paused(c, a)
    BY <2>2 DEF TakeRoute, TakeSlot, Paused, WorkerStates, countVars
  <2>3. CASE Concludes(c, a)
    BY <2>3 DEF Concludes, Finish, WorkerStates
  <2>4. CASE FallsBack(c, a)
    BY <2>4 DEF FallsBack, WorkerStates, countVars
  <2>5. CASE Told(c, a)
    BY <2>5 DEF Told, Finish, WorkerStates
  <2>6. QED
    BY <2>1, <2>2, <2>3, <2>4, <2>5 DEF Worker
<1>2. phase[c] = "batch"
  BY <1>1 DEF BatchInv, BatchesNeverOverlap, At
<1>3. PICK w \in WorkerStates : worker' = [worker EXCEPT ![c][a] = w]
  BY <1>1 DEF Move
<1>4. Shapes'
  BY <1>1, <1>3 DEF BatchInv, Shapes
<1>5. \A d \in Callers \ {c} : worker'[d] = worker[d]
  BY <1>3 DEF BatchInv, Shapes
<1>6. Batching' = Batching
  BY <1>1 DEF Batching
<1>7. \A d \in Callers : phase'[d] # "batch" => At(d, {"none", "done"})' = Accounts
  BY <1>1, <1>2, <1>5 DEF BatchInv, BatchesNeverOverlap, At
<1>8. QED
  BY <1>1, <1>4, <1>6, <1>7 DEF BatchInv, BatchesNeverOverlap

\* gather returns only when no coroutine of the batch is left.
LEMMA Gathers == ASSUME BatchInv, NEW c \in Callers, Gathered(c) PROVE BatchInv'
<1>1. /\ phase[c] = "batch" /\ At(c, {"none", "done"}) = Accounts
      /\ phase' = [phase EXCEPT ![c] = "closing"] /\ UNCHANGED <<worker, running>>
  BY DEF Gathered, Goto, countVars
<1>2. Shapes' /\ Batching' = Batching
  BY <1>1 DEF BatchInv, Shapes, Phases, Batching
<1>3. \A d \in Callers : phase'[d] # "batch" => At(d, {"none", "done"})' = Accounts
  BY <1>1 DEF BatchInv, BatchesNeverOverlap, At, Shapes
<1>4. QED
  BY <1>1, <1>2, <1>3 DEF BatchInv, BatchesNeverOverlap

\* is_running is reset by the only caller that was batching.
LEMMA Ends == ASSUME BatchInv, NEW c \in Callers, EndBatch(c) PROVE BatchInv'
<1>1. /\ phase[c] = "closing" /\ running' = FALSE
      /\ phase' = [phase EXCEPT ![c] = IF c \in Loops THEN "resting" ELSE "ended"]
      /\ worker' = [worker EXCEPT ![c] = [a \in Accounts |-> "none"]]
  BY DEF EndBatch, Goto
<1>2. Shapes'
  BY <1>1 DEF BatchInv, Shapes, Phases, WorkerStates
<1>3. Batching = {c}
  BY <1>1 DEF BatchInv, BatchesNeverOverlap, Batching
<1>4. Batching' = {}
  BY <1>1, <1>3 DEF BatchInv, Shapes, Batching
<1>5. ASSUME NEW d \in Callers, phase'[d] # "batch" PROVE At(d, {"none", "done"})' = Accounts
  <2>1. CASE d = c
    <3>1. worker'[d] = [a \in Accounts |-> "none"]
      BY <1>1, <2>1 DEF BatchInv, Shapes
    <3>2. QED
      BY <3>1 DEF At
  <2>2. CASE d # c
    BY <1>1, <1>5, <2>2 DEF BatchInv, BatchesNeverOverlap, At, Shapes
  <2>3. QED
    BY <2>1, <2>2
<1>6. QED
  BY <1>1, <1>2, <1>4, <1>5 DEF BatchInv, BatchesNeverOverlap

\* One case per action.
LEMMA BatchStep == BatchInv /\ [Next]_vars => BatchInv'
<1> SUFFICES ASSUME BatchInv, [Next]_vars PROVE BatchInv'
  OBVIOUS
<1>1. ASSUME NEW c \in Callers, Caller(c) PROVE BatchInv'
  <2>1. CASE Gathered(c) \/ EndBatch(c)
    BY <2>1, Gathers, Ends
  <2>2. CASE BeginManual(c) \/ LoopBatch(c)
    BY <2>2, Starts DEF BeginManual, LoopBatch
  <2>3. CASE DropManual(c) \/ LoopEnds(c) \/ LoopSkips(c) \/ Rested(c)
    <3>1. phase[c] \notin {"batch", "closing"} /\ UNCHANGED <<worker, running>>
          /\ \E p \in Phases \ {"batch", "closing"} : Goto(c, p)
      BY <2>3 DEF DropManual, LoopEnds, LoopSkips, Rested, Phases, countVars
    <3>2. QED
      BY <3>1, OtherMove
  <2>4. QED
    BY <1>1, <2>1, <2>2, <2>3 DEF Caller
<1>2. ASSUME NEW c \in Callers, NEW a \in Accounts, Worker(c, a) PROVE BatchInv'
  BY <1>2, WorkerMoves
<1>3. ASSUME NEW c \in Callers, Post(c) \/ StartContinuous(c) PROVE BatchInv'
  <2>1. phase[c] \notin {"batch", "closing"} /\ UNCHANGED <<worker, running>>
        /\ \E p \in Phases \ {"batch", "closing"} : Goto(c, p)
    BY <1>3 DEF Post, StartContinuous, Phases, countVars
  <2>2. QED
    BY <2>1, OtherMove
<1>4. ASSUME UNCHANGED <<phase, worker, running>> PROVE BatchInv'
  BY <1>4 DEF BatchInv, Shapes, BatchesNeverOverlap, Batching, At
<1>5. CASE StopContinuous \/ \E a \in Accounts : DeleteAccount(a)
  BY <1>4, <1>5 DEF StopContinuous, DeleteAccount, countVars
<1>6. CASE UNCHANGED vars
  BY <1>4, <1>6 DEF vars, countVars
<1>7. QED
  BY <1>1, <1>2, <1>3, <1>5, <1>6 DEF Next, Callers

LEMMA InitialBatch == Init => BatchInv
<1> SUFFICES ASSUME Init PROVE BatchInv
  OBVIOUS
<1>1. Shapes /\ running = FALSE
  BY DEF Init, Shapes, Phases, WorkerStates
<1>2. Batching = {} /\ \A c \in Callers : At(c, {"none", "done"}) = Accounts
  BY DEF Init, Batching, At
<1>3. QED
  BY <1>1, <1>2 DEF BatchInv, BatchesNeverOverlap

\* One batch at a time (run_batch: is_running), and no coroutine outlives its batch.
THEOREM OneBatch == Spec => []BatchesNeverOverlap
<1>1. Init => BatchInv
  BY InitialBatch
<1>2. BatchInv => BatchesNeverOverlap
  BY DEF BatchInv
<1>3. QED
  BY <1>1, <1>2, BatchStep, PTL DEF Spec

-----------------------------------------------------------------------------
(* The permits.  They are counted over the coroutines of all callers: that *)
(* the semaphores are new in every batch loses none, because BatchInv      *)
(* leaves no coroutine behind when is_running is false.                    *)

PoliteInv == BatchInv /\ PermitsCounted

\* Nobody batches, nobody holds a permit.
LEMMA IdleHoldsNothing ==
    ASSUME BatchInv, MayRun
    PROVE  /\ InFlight = {} /\ \A p \in Proxies : HoldRoute(p) = {}
           /\ \A x \in Callers \X Accounts : worker[x[1]][x[2]] \in {"none", "done"}
<1>1. Batching = {}
  BY DEF BatchInv, BatchesNeverOverlap, MayRun
<1>2. \A c \in Callers : phase[c] # "batch"
  BY <1>1 DEF Batching
<1>3. \A c \in Callers, a \in Accounts : worker[c][a] \in {"none", "done"}
  BY <1>2 DEF BatchInv, BatchesNeverOverlap, At
<1>4. \A x \in Callers \X Accounts : worker[x[1]][x[2]] \in {"none", "done"}
  BY <1>3
<1>5. QED
  BY <1>4 DEF InFlight, HoldRoute

\* A batch that starts has new semaphores, and all its coroutines are new.
LEMMA PermitsRenewed ==
    ASSUME BatchInv, NEW c \in Callers, NEW ids, MayRun, StartBatch(c, ids), limit' \in Limits
    PROVE  PermitsCounted'
<1>1. worker' = [worker EXCEPT ![c] = [a \in Accounts |-> IF a \in ids THEN "new" ELSE "none"]]
      /\ routeUsed' = [p \in Proxies |-> 0] /\ slotsUsed' = 0
  BY DEF StartBatch
<1>2. ASSUME NEW x \in Callers \X Accounts PROVE worker'[x[1]][x[2]] \in {"new", "none", "done"}
  <2>1. worker[x[1]][x[2]] \in {"none", "done"}
    BY IdleHoldsNothing
  <2>2. QED
    BY <1>1, <2>1 DEF BatchInv, Shapes
<1>3. InFlight' = {}
  BY <1>2 DEF InFlight
<1>4. ASSUME NEW p \in Proxies PROVE HoldRoute(p)' = {}
  BY <1>2 DEF HoldRoute
<1>5. limit' \in Nat \ {0} /\ 0 <= limit' /\ 0 <= PerProxy
  BY QuickCheckAssumption
<1>6. routeUsed' \in [Proxies -> Int] /\ \A p \in Proxies : routeUsed'[p] = 0
  BY <1>1
<1>7. IsFiniteSet({}) /\ Cardinality({}) = 0
  BY FS_EmptySet
<1>8. QED
  BY <1>1, <1>3, <1>4, <1>5, <1>6, <1>7 DEF PermitsCounted

\* What a move of one coroutine does to the sets the semaphores count.
LEMMA HoldersMove ==
    ASSUME Shapes, NEW c \in Callers, NEW a \in Accounts, NEW w \in WorkerStates, Move(c, a, w)
    PROVE  /\ InFlight' = IF w = "request" THEN InFlight \cup {<<c, a>>}
                                           ELSE InFlight \ {<<c, a>>}
           /\ \A p \in Proxies : HoldRoute(p)' =
                  IF w \in {"slot", "request"} /\ ProxyOf[a] = p
                  THEN HoldRoute(p) \cup {<<c, a>>} ELSE HoldRoute(p) \ {<<c, a>>}
<1>1. worker' = [worker EXCEPT ![c][a] = w]
  BY DEF Move
<1>2. /\ worker'[c][a] = w
      /\ \A d \in Callers, b \in Accounts : <<d, b>> # <<c, a>> => worker'[d][b] = worker[d][b]
  BY <1>1 DEF Shapes
<1>3. \A x \in Callers \X Accounts : x = <<x[1], x[2]>> /\ x[1] \in Callers /\ x[2] \in Accounts
  OBVIOUS
<1>4. \A x \in Callers \X Accounts :
          worker'[x[1]][x[2]] = IF x = <<c, a>> THEN w ELSE worker[x[1]][x[2]]
  BY <1>2, <1>3
<1>5. InFlight' = IF w = "request" THEN InFlight \cup {<<c, a>>} ELSE InFlight \ {<<c, a>>}
  BY <1>4 DEF InFlight
<1>6. ASSUME NEW p \in Proxies
      PROVE  HoldRoute(p)' = IF w \in {"slot", "request"} /\ ProxyOf[a] = p
                             THEN HoldRoute(p) \cup {<<c, a>>} ELSE HoldRoute(p) \ {<<c, a>>}
  BY <1>4 DEF HoldRoute
<1>7. QED
  BY <1>5, <1>6

\* A coroutine moves between two places where it holds nothing.
LEMMA MovesWithoutPermit ==
    ASSUME Shapes, PermitsCounted, NEW c \in Callers, NEW a \in Accounts,
           NEW w \in WorkerStates \ {"slot", "request"}, Move(c, a, w),
           worker[c][a] \notin {"slot", "request"}, UNCHANGED permitVars
    PROVE  PermitsCounted'
<1>1. <<c, a>> \notin InFlight /\ \A p \in Proxies : <<c, a>> \notin HoldRoute(p)
  BY DEF InFlight, HoldRoute
<1>2. /\ InFlight' = InFlight \ {<<c, a>>}
      /\ \A p \in Proxies : HoldRoute(p)' = HoldRoute(p) \ {<<c, a>>}
  BY HoldersMove
<1>3. InFlight' = InFlight /\ \A p \in Proxies : HoldRoute(p)' = HoldRoute(p)
  BY <1>1, <1>2
<1>4. QED
  BY <1>3 DEF PermitsCounted, permitVars

LEMMA RouteTaken ==
    ASSUME Shapes, PermitsCounted, NEW c \in Callers, NEW a \in Accounts, TakeRoute(c, a)
    PROVE  PermitsCounted'
<1> DEFINE q == ProxyOf[a]
<1>1. /\ worker[c][a] = "route" /\ Move(c, a, "slot") /\ UNCHANGED <<slotsUsed, limit>>
      /\ routeUsed' = [routeUsed EXCEPT ![q] = @ + 1] /\ routeUsed[q] < PerProxy
  BY DEF TakeRoute, RouteFree
<1>2. q \in Proxies
  BY QuickCheckAssumption
<1>3. <<c, a>> \notin InFlight /\ \A p \in Proxies : <<c, a>> \notin HoldRoute(p)
  BY <1>1 DEF InFlight, HoldRoute
<1>4. /\ InFlight' = InFlight
      /\ HoldRoute(q)' = HoldRoute(q) \cup {<<c, a>>}
      /\ \A p \in Proxies \ {q} : HoldRoute(p)' = HoldRoute(p)
  <2>1. /\ InFlight' = InFlight \ {<<c, a>>}
        /\ \A p \in Proxies : HoldRoute(p)' = IF q = p THEN HoldRoute(p) \cup {<<c, a>>}
                                                      ELSE HoldRoute(p) \ {<<c, a>>}
    BY <1>1, HoldersMove DEF WorkerStates
  <2>2. QED
    BY <1>2, <1>3, <2>1
<1>5. IsFiniteSet(HoldRoute(q)') /\ Cardinality(HoldRoute(q)') = Cardinality(HoldRoute(q)) + 1
  BY <1>2, <1>3, <1>4, FS_AddElement DEF PermitsCounted
<1>6. routeUsed' \in [Proxies -> Int] /\ routeUsed'[q] = routeUsed[q] + 1
      /\ \A p \in Proxies \ {q} : routeUsed'[p] = routeUsed[p]
  BY <1>1, <1>2 DEF PermitsCounted
<1> HIDE DEF q
<1>7. ASSUME NEW p \in Proxies
      PROVE  IsFiniteSet(HoldRoute(p))' /\ routeUsed'[p] = Cardinality(HoldRoute(p))'
             /\ routeUsed'[p] <= PerProxy
  <2>1. CASE p = q
    BY <1>1, <1>2, <1>5, <1>6, <2>1, QuickCheckAssumption DEF PermitsCounted
  <2>2. CASE p # q
    BY <1>4, <1>6, <2>2 DEF PermitsCounted
  <2>3. QED
    BY <2>1, <2>2
<1>8. QED
  BY <1>1, <1>4, <1>6, <1>7 DEF PermitsCounted

LEMMA SlotTaken ==
    ASSUME Shapes, PermitsCounted, NEW c \in Callers, NEW a \in Accounts, TakeSlot(c, a)
    PROVE  PermitsCounted'
<1>1. /\ worker[c][a] = "slot" /\ Move(c, a, "request") /\ UNCHANGED <<routeUsed, limit>>
      /\ slotsUsed' = slotsUsed + 1 /\ slotsUsed < limit
  BY DEF TakeSlot, SlotFree
<1>2. <<c, a>> \notin InFlight /\ \A p \in Proxies : <<c, a>> \in HoldRoute(p) <=> ProxyOf[a] = p
  BY <1>1 DEF InFlight, HoldRoute
<1>3. InFlight' = InFlight \cup {<<c, a>>} /\ \A p \in Proxies : HoldRoute(p)' = HoldRoute(p)
  <2>1. /\ InFlight' = InFlight \cup {<<c, a>>}
        /\ \A p \in Proxies : HoldRoute(p)' = IF ProxyOf[a] = p THEN HoldRoute(p) \cup {<<c, a>>}
                                                              ELSE HoldRoute(p) \ {<<c, a>>}
    BY <1>1, HoldersMove DEF WorkerStates
  <2>2. ASSUME NEW p \in Proxies PROVE HoldRoute(p)' = HoldRoute(p)
    BY <1>2, <2>1
  <2>3. QED
    BY <2>1, <2>2
<1>4. IsFiniteSet(InFlight') /\ Cardinality(InFlight') = Cardinality(InFlight) + 1
  BY <1>2, <1>3, FS_AddElement DEF PermitsCounted
<1>5. slotsUsed \in Int /\ limit \in Nat
  BY FS_CardinalityType DEF PermitsCounted
<1>6. QED
  BY <1>1, <1>3, <1>4, <1>5 DEF PermitsCounted

\* run_limited returns or raises: both permits come back together.
LEMMA PermitsReturned ==
    ASSUME Shapes, PermitsCounted, NEW c \in Callers, NEW a \in Accounts,
           worker[c][a] = "request", NEW w \in WorkerStates \ {"slot", "request"},
           Move(c, a, w), GiveBack(a)
    PROVE  PermitsCounted'
<1> DEFINE q == ProxyOf[a]
<1>1. /\ routeUsed' = [routeUsed EXCEPT ![q] = @ - 1] /\ slotsUsed' = slotsUsed - 1
      /\ limit' = limit
  BY DEF GiveBack, RouteAfter
<1>2. q \in Proxies
  BY QuickCheckAssumption
<1>3. <<c, a>> \in InFlight /\ \A p \in Proxies : <<c, a>> \in HoldRoute(p) <=> q = p
  BY DEF InFlight, HoldRoute
<1>4. /\ InFlight' = InFlight \ {<<c, a>>}
      /\ HoldRoute(q)' = HoldRoute(q) \ {<<c, a>>}
      /\ \A p \in Proxies \ {q} : HoldRoute(p)' = HoldRoute(p)
  BY <1>2, <1>3, HoldersMove
<1>5. IsFiniteSet(InFlight') /\ Cardinality(InFlight') = Cardinality(InFlight) - 1
  BY <1>3, <1>4, FS_RemoveElement DEF PermitsCounted
<1>6. IsFiniteSet(HoldRoute(q)') /\ Cardinality(HoldRoute(q)') = Cardinality(HoldRoute(q)) - 1
  <2>1. IsFiniteSet(HoldRoute(q)) /\ <<c, a>> \in HoldRoute(q)
    BY <1>2, <1>3 DEF PermitsCounted
  <2>2. /\ IsFiniteSet(HoldRoute(q) \ {<<c, a>>})
        /\ Cardinality(HoldRoute(q) \ {<<c, a>>}) = Cardinality(HoldRoute(q)) - 1
    BY <2>1, FS_RemoveElement
  <2>3. QED
    BY <1>4, <2>2
<1>7. routeUsed' \in [Proxies -> Int] /\ routeUsed'[q] = routeUsed[q] - 1
      /\ \A p \in Proxies \ {q} : routeUsed'[p] = routeUsed[p]
  BY <1>1, <1>2 DEF PermitsCounted
<1> HIDE DEF q
<1>8. ASSUME NEW p \in Proxies
      PROVE  IsFiniteSet(HoldRoute(p))' /\ routeUsed'[p] = Cardinality(HoldRoute(p))'
             /\ routeUsed'[p] <= PerProxy
  <2>1. CASE p = q
    BY <1>2, <1>6, <1>7, <2>1, QuickCheckAssumption DEF PermitsCounted
  <2>2. CASE p # q
    BY <1>4, <1>7, <2>2 DEF PermitsCounted
  <2>3. QED
    BY <2>1, <2>2
<1>9. slotsUsed \in Int /\ limit \in Nat
  BY FS_CardinalityType DEF PermitsCounted
<1>10. QED
  BY <1>1, <1>5, <1>7, <1>8, <1>9 DEF PermitsCounted

\* One case per action.
LEMMA PermitStep == PoliteInv /\ [Next]_vars => PermitsCounted'
<1> SUFFICES ASSUME BatchInv, PermitsCounted, [Next]_vars PROVE PermitsCounted'
  BY DEF PoliteInv
<1>0. Shapes
  BY DEF BatchInv
<1>1. ASSUME UNCHANGED <<worker, permitVars>> PROVE PermitsCounted'
  BY <1>1 DEF PermitsCounted, permitVars, InFlight, HoldRoute
<1>2. ASSUME NEW c \in Callers, Caller(c) PROVE PermitsCounted'
  <2>1. CASE BeginManual(c) \/ LoopBatch(c)
    BY <2>1, PermitsRenewed DEF BeginManual, LoopBatch
  <2>2. CASE EndBatch(c)
    <3>1. /\ phase[c] # "batch" /\ UNCHANGED permitVars
          /\ worker' = [worker EXCEPT ![c] = [a \in Accounts |-> "none"]]
      BY <2>2 DEF EndBatch
    <3>2. \A a \in Accounts : worker[c][a] \in {"none", "done"} /\ worker'[c][a] = "none"
      BY <1>0, <3>1 DEF BatchInv, BatchesNeverOverlap, At, Shapes
    <3>3. \A d \in Callers \ {c} : worker'[d] = worker[d]
      BY <1>0, <3>1 DEF Shapes
    <3>4. \A x \in Callers \X Accounts : \/ worker'[x[1]][x[2]] = worker[x[1]][x[2]]
                                         \/ {worker'[x[1]][x[2]], worker[x[1]][x[2]]}
                                               \subseteq {"none", "done"}
      BY <3>2, <3>3
    <3>5. InFlight' = InFlight
      BY <3>4 DEF InFlight
    <3>6. \A p \in Proxies : HoldRoute(p)' = HoldRoute(p)
      BY <3>4 DEF HoldRoute
    <3>7. QED
      BY <3>1, <3>5, <3>6 DEF PermitsCounted, permitVars
  <2>3. CASE \/ Gathered(c) \/ DropManual(c) \/ LoopEnds(c) \/ LoopSkips(c) \/ Rested(c)
    BY <1>1, <2>3 DEF Gathered, DropManual, LoopEnds, LoopSkips, Rested
  <2>4. QED
    BY <1>2, <2>1, <2>2, <2>3 DEF Caller
<1>3. ASSUME NEW c \in Callers, NEW a \in Accounts, Worker(c, a) PROVE PermitsCounted'
  <2>1. CASE TakeRoute(c, a)
    BY <1>0, <2>1, RouteTaken
  <2>2. CASE TakeSlot(c, a)
    BY <1>0, <2>2, SlotTaken
  <2>3. CASE Concludes(c, a)
    <3>1. worker[c][a] = "request" /\ GiveBack(a)
          /\ (Move(c, a, "telling") \/ Move(c, a, "done"))
      BY <2>3 DEF Concludes, Finish
    <3>2. QED
      BY <1>0, <3>1, PermitsReturned DEF WorkerStates
  <2>4. CASE FallsBack(c, a)
    <3>1. worker[c][a] = "request" /\ GiveBack(a)
          /\ (Move(c, a, "pausing") \/ Move(c, a, "route"))
      BY <2>4 DEF FallsBack
    <3>2. QED
      BY <1>0, <3>1, PermitsReturned DEF WorkerStates
  <2>5. CASE Snapshot(c, a) \/ Paused(c, a) \/ Told(c, a)
    <3>1. worker[c][a] \notin {"slot", "request"} /\ UNCHANGED permitVars
          /\ (Move(c, a, "route") \/ Move(c, a, "done"))
      BY <2>5 DEF Snapshot, Paused, Told, Finish
    <3>2. QED
      BY <1>0, <3>1, MovesWithoutPermit DEF WorkerStates
  <2>6. QED
    BY <1>3, <2>1, <2>2, <2>3, <2>4, <2>5 DEF Worker
<1>4. ASSUME NEW c \in Callers, Post(c) \/ StartContinuous(c) PROVE PermitsCounted'
  BY <1>1, <1>4 DEF Post, StartContinuous
<1>5. CASE StopContinuous \/ \E a \in Accounts : DeleteAccount(a)
  BY <1>1, <1>5 DEF StopContinuous, DeleteAccount
<1>6. CASE UNCHANGED vars
  BY <1>1, <1>6 DEF vars
<1>7. QED
  BY <1>2, <1>3, <1>4, <1>5, <1>6 DEF Next, Callers

\* The semaphores of the batch under way count every coroutine that holds a permit.
THEOREM PermitsAreCounted == Spec => []PoliteInv
<1>1. Init => PoliteInv
  <2> SUFFICES ASSUME Init PROVE BatchInv /\ PermitsCounted
    BY DEF PoliteInv
  <2>1. BatchInv
    BY InitialBatch
  <2>2. MayRun
    BY DEF Init, MayRun
  <2>3. InFlight = {} /\ \A p \in Proxies : HoldRoute(p) = {}
    BY <2>1, <2>2, IdleHoldsNothing
  <2>4. /\ limit \in Nat \ {0} /\ 0 <= limit /\ 0 <= PerProxy
        /\ slotsUsed = 0 /\ routeUsed = [p \in Proxies |-> 0]
    BY QuickCheckAssumption DEF Init
  <2>5. IsFiniteSet({}) /\ Cardinality({}) = 0
    BY FS_EmptySet
  <2>6. PermitsCounted
    BY <2>3, <2>4, <2>5 DEF PermitsCounted
  <2>7. QED
    BY <2>1, <2>6
<1>2. PoliteInv /\ [Next]_vars => PoliteInv'
  BY BatchStep, PermitStep DEF PoliteInv
<1>3. QED
  BY <1>1, <1>2, PTL DEF Spec

\* TikTok never gets more requests at once than the limit of the batch, nor from one
\* proxy more than its share (run_limited), over all batches and loops together.
THEOREM Polite == Spec => []PoliteToTikTok
<1>1. PoliteInv => PoliteToTikTok
  <2> SUFFICES ASSUME PermitsCounted PROVE PoliteToTikTok
    BY DEF PoliteInv
  <2>1. ASSUME NEW p \in Proxies
        PROVE  Cardinality({x \in InFlight : ProxyOf[x[2]] = p}) <= PerProxy
    <3> DEFINE T == {x \in InFlight : ProxyOf[x[2]] = p}
    <3>1. T \subseteq HoldRoute(p)
      BY DEF InFlight, HoldRoute
    <3>2. IsFiniteSet(HoldRoute(p)) /\ Cardinality(HoldRoute(p)) <= PerProxy
      BY DEF PermitsCounted
    <3>3. IsFiniteSet(T) /\ Cardinality(T) <= Cardinality(HoldRoute(p))
      BY <3>1, <3>2, FS_Subset
    <3>4. Cardinality(T) \in Nat /\ Cardinality(HoldRoute(p)) \in Nat
      BY <3>2, <3>3, FS_CardinalityType
    <3> HIDE DEF T
    <3>5. Cardinality(T) <= PerProxy
      BY <3>2, <3>3, <3>4, QuickCheckAssumption
    <3>6. QED
      BY <3>5 DEF T
  <2>2. QED
    BY <2>1 DEF PoliteToTikTok, PermitsCounted
<1>2. QED
  BY <1>1, PermitsAreCounted, PTL
=============================================================================
