----------------------- MODULE TaskDispatcher_proofs -----------------------
(***************************************************************************)
(* Machine-checked proofs about TaskDispatcher, for every set of tasks,    *)
(* accounts and routes and every value of the switches.                    *)
(***************************************************************************)
EXTENDS TaskDispatcher, FiniteSetTheorems, TLAPS

-----------------------------------------------------------------------------
(* Type correctness.                                                       *)

LEMMA LimitInRange == \A l \in Limits : SetLimitTo(l) \in 1..MaxTabs
BY DispatcherAssumption DEF SetLimitTo

LEMMA TypeInit == Init => TypeOK
<1> SUFFICES ASSUME Init PROVE TypeOK
    OBVIOUS
<1>1. TaskTypes BY DEF Init, TaskTypes, Locations
<1>2. LoopTypes BY DEF Init, LoopTypes
<1>3. GateTypes BY LimitInRange DEF Init, GateTypes
<1>4. RegistryTypes BY DEF Init, RegistryTypes
<1>5. PauseTypes /\ StopTypes BY DEF Init, PauseTypes, StopTypes
<1>6. DataTypes BY DEF Init, DataTypes
<1>7. QED BY <1>1, <1>2, <1>3, <1>4, <1>5, <1>6 DEF TypeOK

LEMMA QueueLoopType ==
    ASSUME TypeOK, NEW t \in Tasks, QueueLoop(t)
    PROVE  TypeOK'
<1> USE DispatcherAssumption
    DEF TypeOK, TaskTypes, LoopTypes, GateTypes, RegistryTypes, PauseTypes, StopTypes, DataTypes,
        Locations, Busy, Goto, Serving, Iterate, Forget,
        loopVars, gateVars, regVars, pauseVars, stopVars, dataVars
<1>1. CASE LoopHold(t)    BY <1>1 DEF LoopHold
<1>2. CASE LoopAdmit(t)   BY <1>2 DEF LoopAdmit, Admitted
<1>3. CASE LoopDiscard(t) BY <1>3 DEF LoopDiscard, Ended
<1>4. CASE LoopFails(t)   BY <1>4 DEF LoopFails, Ended
<1>5. QED BY <1>1, <1>2, <1>3, <1>4 DEF QueueLoop

\* A worker that reaches its cleanup finds its permit in the gate.
LEMMA PermitPresent ==
    ASSUME TypeOK, PermitsCovered, NEW t \in Tasks, pc[t] = "closing"
    PROVE  inUse \in Nat \ {0}
<1>1. IsFiniteSet(At(Admitted)) /\ t \in At(Admitted)
    BY DispatcherAssumption, FS_Subset DEF At, Admitted
<1>2. Cardinality(At(Admitted)) \in Nat /\ Cardinality(At(Admitted)) # 0
    BY <1>1, FS_CardinalityType, FS_EmptySet
<1>3. QED BY <1>2 DEF PermitsCovered, TypeOK, GateTypes

LEMMA WorkerType ==
    ASSUME TypeOK, PermitsCovered, NEW t \in Tasks, Worker(t)
    PROVE  TypeOK'
<1> USE DispatcherAssumption
    DEF TypeOK, TaskTypes, LoopTypes, GateTypes, RegistryTypes, PauseTypes, StopTypes, DataTypes,
        Locations, Busy, Goto, SetStatus, Forget,
        loopVars, gateVars, regVars, pauseVars, stopVars, dataVars
<1>1. CASE SubmitPut(t)    BY <1>1 DEF SubmitPut
<1>2. CASE Block(t)
  <2>1. wait' = [wait EXCEPT ![t] = "global"] \/ wait' = [wait EXCEPT ![t] = "account"]
      BY <1>2 DEF Block
  <2>2. UNCHANGED <<pc, born, ev, cancelled, holding, opened, loopVars, gateVars,
                    regVars, pauseVars, stopVars, dataVars>>
      BY <1>2 DEF Block
  <2>3. TaskTypes' BY <2>1, <2>2
  <2>4. QED BY <2>2, <2>3
<1>3. CASE WorkerBegin(t)  BY <1>3 DEF WorkerBegin, Pass, Admitted, Guarded
<1>4. CASE WorkerDenied(t) BY <1>4 DEF WorkerDenied, Pass, Ended
<1>5. CASE RouteRefused(t) BY <1>5 DEF RouteRefused, Admitted, Guarded
<1>6. CASE TakeSlot(t)
    BY <1>6 DEF TakeSlot, Admitted, Guarded, Slots, Key
<1>7. CASE WaitForSlot(t)  BY <1>7 DEF WaitForSlot, Admitted, Guarded
<1>8. CASE EnterStagger(t) BY <1>8 DEF EnterStagger, Pass, Admitted, Guarded
<1>9. CASE WaitForLaunch(t) BY <1>9 DEF WaitForLaunch, Admitted, Guarded
<1>10. CASE Launch(t)      BY <1>10 DEF Launch, Admitted, Guarded
<1>11. CASE Launched(t)    BY <1>11 DEF Launched, Admitted, Guarded
<1>12. CASE StepResumes(t) BY <1>12 DEF StepResumes, Pass
<1>13. CASE UseCaseSucceeds(t) BY <1>13 DEF UseCaseSucceeds, Admitted, Guarded
<1>14. CASE RunFails(t) \/ FailureTold(t)
  <2>1. CASE RunFails(t) BY <2>1 DEF RunFails, Admitted, Guarded
  <2>2. CASE FailureTold(t) BY <2>2 DEF FailureTold, Admitted
  <2>3. QED BY <1>14, <2>1, <2>2
<1>15. CASE SoldStop(t)    BY <1>15 DEF SoldStop, Admitted
<1>16. CASE Reported(t)    BY <1>16 DEF Reported, Admitted
<1>17. CASE Release(t)
  <2>1. TaskTypes' BY <1>17 DEF Release, SharedBy
  <2>2. GateTypes'
      BY <1>17, PermitPresent DEF Release, PermitsAfter, GivesBack, Slots, Key
  <2>3. RegistryTypes' BY <1>17 DEF Release, Deregister
  <2>4. LoopTypes' /\ PauseTypes' /\ StopTypes' /\ DataTypes' BY <1>17 DEF Release
  <2>5. QED BY <2>1, <2>2, <2>3, <2>4
<1>18. CASE Farewell(t)
  <2>1. \/ wait' = wait /\ ev' = ev
        \/ /\ wait' = [wait EXCEPT ![t] = "no"]
           /\ ev' = [ev EXCEPT ![t] = "shared"]
      BY <1>18 DEF Farewell, Pass
  <2>2. /\ pc' = [pc EXCEPT ![t] = "done"]
        /\ UNCHANGED <<born, cancelled, holding, opened, loopVars, gateVars,
                       regVars, pauseVars, stopVars, dataVars>>
      BY <1>18 DEF Farewell
  <2>3. /\ wait' \in [Tasks -> {"no", "global", "globalSet", "account", "accountSet"}]
        /\ ev' \in [Tasks -> {"shared", "open", "shut"}]
    <3>1. CASE wait' = wait /\ ev' = ev BY <3>1
    <3>2. CASE wait' = [wait EXCEPT ![t] = "no"] /\ ev' = [ev EXCEPT ![t] = "shared"]
        BY <3>2
    <3>3. QED BY <2>1, <3>1, <3>2
  <2>4. TaskTypes' BY <2>2, <2>3 DEF Ended
  <2>5. QED BY <2>2, <2>4
<1>19. CASE CancelUnguarded(t)
  <2>1. TaskTypes' BY <1>19 DEF CancelUnguarded, Delivered, Ended
  <2>2. RegistryTypes' BY <1>19 DEF CancelUnguarded, Deregister
  <2>3. UNCHANGED <<loopVars, gateVars, pauseVars, stopVars, dataVars>>
      BY <1>19 DEF CancelUnguarded
  <2>4. QED BY <2>1, <2>2, <2>3
<1>20. CASE CancelGuarded(t) \/ CancelHandler(t)
  <2>1. CASE CancelGuarded(t) BY <2>1 DEF CancelGuarded, Delivered, Admitted
  <2>2. CASE CancelHandler(t) BY <2>2 DEF CancelHandler, Delivered, Admitted
  <2>3. QED BY <1>20, <2>1, <2>2
<1>21. CASE CancelSwallowed(t) BY <1>21 DEF CancelSwallowed, Delivered
<1>22. CASE CancelFarewell(t) BY <1>22 DEF CancelFarewell, Delivered, Ended
<1>23. QED
    BY <1>1, <1>2, <1>3, <1>4, <1>5, <1>6, <1>7, <1>8, <1>9, <1>10, <1>11, <1>12, <1>13,
       <1>14, <1>15, <1>16, <1>17, <1>18, <1>19, <1>20, <1>21, <1>22 DEF Worker

LEMMA OperatorType ==
    ASSUME TypeOK, Operator \/ StopReturns
    PROVE  TypeOK'
<1> USE DispatcherAssumption
    DEF TypeOK, TaskTypes, LoopTypes, GateTypes, RegistryTypes, PauseTypes, StopTypes, DataTypes,
        Locations, Goto, SetStatus,
        taskVars, loopVars, gateVars, regVars, pauseVars, stopVars, dataVars
<1>1. ASSUME NEW t \in Tasks, SubmitBegin(t) PROVE TypeOK'
    BY <1>1 DEF SubmitBegin, Busy
<1>2. CASE PauseGlobal  BY <1>2 DEF PauseGlobal
<1>3. CASE ResumeGlobal BY <1>3 DEF ResumeGlobal, Resolve
<1>4. ASSUME NEW a \in Accounts, PauseAccount(a) \/ ResumeAccount(a) \/ ArchiveAccount(a)
      PROVE  TypeOK'
    BY <1>4 DEF PauseAccount, ResumeAccount, ArchiveAccount, Resolve
<1>5. ASSUME NEW l \in Limits, SetLimit(l) PROVE TypeOK'
    BY <1>5, LimitInRange DEF SetLimit
<1>6. CASE EmergencyStop
  <2>1. Registered \subseteq Tasks BY DEF Registered
  <2>2. wait' \in [Tasks -> {"no", "global", "globalSet", "account", "accountSet"}]
      BY <1>6 DEF EmergencyStop
  <2>3. TaskTypes' BY <1>6, <2>1, <2>2 DEF EmergencyStop, Ended
  <2>4. LoopTypes' /\ GateTypes' /\ RegistryTypes' /\ DataTypes'
      BY <1>6 DEF EmergencyStop
  <2>5. PauseTypes' BY <1>6 DEF EmergencyStop
  <2>6. StopTypes' BY <1>6, <2>1 DEF EmergencyStop
  <2>7. QED BY <2>3, <2>4, <2>5, <2>6
<1>7. CASE LeaseExpires BY <1>7 DEF LeaseExpires
<1>8. CASE Restart
  <2>1. TaskTypes' BY <1>8 DEF Restart, Ended
  <2>2. GateTypes' BY <1>8, LimitInRange DEF Restart
  <2>3. DataTypes' BY <1>8 DEF Restart, Recovered
  <2>4. LoopTypes' BY <1>8 DEF Restart
  <2>5. RegistryTypes' BY <1>8 DEF Restart
  <2>6. PauseTypes' /\ StopTypes' BY <1>8 DEF Restart
  <2>7. QED BY <2>1, <2>2, <2>3, <2>4, <2>5, <2>6
<1>9. CASE StopReturns  BY <1>9 DEF StopReturns
<1>10. QED BY <1>1, <1>2, <1>3, <1>4, <1>5, <1>6, <1>7, <1>8, <1>9 DEF Operator

-----------------------------------------------------------------------------
(* Most actions leave the counters, and those they count, alone.           *)

Still == /\ At(Admitted)' = At(Admitted) /\ holding' = holding
         /\ inUse' = inUse /\ slots' = slots /\ limit' = limit

\* The payload the loop serves is in the queue or in its hand.
LEMMA ServingPlaced ==
    ASSUME TypeOK, QueueOwned, NEW t \in Tasks, Serving(t)
    PROVE  pc[t] \in {"queued", "held"}
<1>1. CASE held = t BY <1>1, DispatcherAssumption DEF QueueOwned
<1>2. CASE queue # <<>> /\ t = Head(queue)
  <2>1. 1 \in 1..Len(queue) /\ t = queue[1] BY <1>2 DEF TypeOK, LoopTypes
  <2>2. QED BY <2>1 DEF QueueOwned
<1>3. QED BY <1>1, <1>2 DEF Serving

LEMMA QueueLoopStill ==
    ASSUME TypeOK, QueueOwned, NEW t \in Tasks, LoopHold(t) \/ LoopDiscard(t) \/ LoopFails(t)
    PROVE  Still
<1>1. pc[t] \notin Admitted
    BY ServingPlaced DEF LoopHold, LoopDiscard, LoopFails, Admitted, Guarded
<1>2. QED
    BY <1>1 DEF TypeOK, TaskTypes, LoopHold, LoopDiscard, LoopFails, Still, At, Admitted,
                Guarded, Goto, gateVars

LEMMA WorkerStill ==
    ASSUME TypeOK, NEW t \in Tasks, Worker(t),
           ~TakeSlot(t), ~Release(t), ~WorkerDenied(t), ~CancelUnguarded(t)
    PROVE  Still
<1> USE DEF TypeOK, TaskTypes, Still, At, Admitted, Guarded, Goto, gateVars
<1>1. CASE SubmitPut(t) \/ Block(t) BY <1>1 DEF SubmitPut, Block
<1>2. CASE WorkerBegin(t)  BY <1>2 DEF WorkerBegin
<1>3. CASE RouteRefused(t) \/ WaitForSlot(t) BY <1>3 DEF RouteRefused, WaitForSlot
<1>4. CASE EnterStagger(t) \/ WaitForLaunch(t) BY <1>4 DEF EnterStagger, WaitForLaunch
<1>5. CASE Launch(t)       BY <1>5 DEF Launch
<1>6. CASE Launched(t)     BY <1>6 DEF Launched
<1>7. CASE StepResumes(t)  BY <1>7 DEF StepResumes
<1>8. CASE UseCaseSucceeds(t) \/ RunFails(t) \/ FailureTold(t)
      BY <1>8 DEF UseCaseSucceeds, RunFails, FailureTold
<1>9. CASE SoldStop(t)     BY <1>9 DEF SoldStop
<1>10. CASE Reported(t)    BY <1>10 DEF Reported
<1>11. CASE Farewell(t) \/ CancelFarewell(t) BY <1>11 DEF Farewell, CancelFarewell
<1>12. CASE CancelGuarded(t) \/ CancelHandler(t)
    BY <1>12 DEF CancelGuarded, CancelHandler
<1>13. CASE CancelSwallowed(t) BY <1>13 DEF CancelSwallowed
<1>14. QED
    BY <1>1, <1>2, <1>3, <1>4, <1>5, <1>6, <1>7, <1>8, <1>9, <1>10, <1>11, <1>12, <1>13
    DEF Worker

LEMMA OperatorStill ==
    ASSUME TypeOK, Operator \/ StopReturns, ~Restart, \A l \in Limits : ~SetLimit(l)
    PROVE  Still
<1> USE DEF TypeOK, TaskTypes, Still, At, Admitted, Guarded, Goto, gateVars, taskVars
<1>1. ASSUME NEW t \in Tasks, SubmitBegin(t) PROVE Still BY <1>1 DEF SubmitBegin
<1>2. CASE PauseGlobal \/ ResumeGlobal BY <1>2 DEF PauseGlobal, ResumeGlobal
<1>3. ASSUME NEW a \in Accounts, PauseAccount(a) \/ ResumeAccount(a) \/ ArchiveAccount(a)
      PROVE  Still
    BY <1>3 DEF PauseAccount, ResumeAccount, ArchiveAccount
<1>4. CASE EmergencyStop BY <1>4 DEF EmergencyStop
<1>5. CASE LeaseExpires \/ StopReturns BY <1>5 DEF LeaseExpires, StopReturns
<1>6. QED BY <1>1, <1>2, <1>3, <1>4, <1>5 DEF Operator

\* The steps that do change them.
LEMMA AdmitCounts ==
    ASSUME TypeOK, QueueOwned, HoldersPlaced, NEW t \in Tasks, LoopAdmit(t)
    PROVE  /\ t \notin At(Admitted) /\ t \notin holding
           /\ At(Admitted)' = At(Admitted) \cup {t}
           /\ inUse < limit /\ inUse' = inUse + 1
           /\ holding' = holding /\ slots' = slots /\ limit' = limit
<1>1. pc[t] \in {"queued", "held"} BY ServingPlaced DEF LoopAdmit
<1>2. QED
    BY <1>1 DEF LoopAdmit, GateOpen, At, Admitted, Guarded, Goto, TypeOK, TaskTypes, HoldersPlaced

LEMMA TakeSlotCounts ==
    ASSUME TypeOK, HoldersPlaced, NEW t \in Tasks, TakeSlot(t)
    PROVE  /\ t \in At(Admitted) /\ t \notin holding
           /\ At(Admitted)' = At(Admitted) /\ holding' = holding \cup {t}
           /\ Key(t) \in Slots /\ slots[Key(t)] < SlotCap
           /\ slots' = [slots EXCEPT ![Key(t)] = @ + 1]
           /\ inUse' = inUse /\ limit' = limit
BY DispatcherAssumption
DEF TakeSlot, SlotFree, At, Admitted, Guarded, Goto, TypeOK, TaskTypes, HoldersPlaced, Key, Slots

LEMMA ReleaseCounts ==
    ASSUME TypeOK, NEW t \in Tasks, Release(t)
    PROVE  /\ t \in At(Admitted)
           /\ At(Admitted)' = At(Admitted) \ {t} /\ holding' = holding \ {t}
           /\ Key(t) \in Slots
           /\ slots' = IF t \in holding
                       THEN [slots EXCEPT ![Key(t)] = IF @ = 0 THEN 0 ELSE @ - 1]
                       ELSE slots
           /\ inUse' = inUse - 1 /\ limit' = limit
BY DispatcherAssumption
DEF Release, PermitsAfter, GivesBack, At, Admitted, Guarded, Goto, TypeOK, TaskTypes, Key, Slots

LEMMA LostCounts ==
    ASSUME TypeOK, NEW t \in Tasks, WorkerDenied(t) \/ CancelUnguarded(t)
    PROVE  /\ t \in At(Admitted) /\ At(Admitted)' = At(Admitted) \ {t}
           /\ holding' = holding /\ inUse' = inUse /\ slots' = slots /\ limit' = limit
BY DEF WorkerDenied, CancelUnguarded, At, Admitted, Guarded, Goto, TypeOK, TaskTypes, gateVars

LEMMA RestartCounts ==
    ASSUME TypeOK, Restart
    PROVE  /\ At(Admitted)' = {} /\ holding' = {} /\ inUse' = 0
           /\ slots' = [k \in Slots |-> 0] /\ limit' \in 1..MaxTabs
BY LimitInRange DEF Restart, At, Admitted, Guarded, Ended, TypeOK, TaskTypes

LEMMA SetLimitCounts ==
    ASSUME NEW l \in Limits, SetLimit(l)
    PROVE  /\ At(Admitted)' = At(Admitted) /\ holding' = holding
           /\ inUse' = inUse /\ slots' = slots /\ limit' \in 1..MaxTabs
BY LimitInRange DEF SetLimit, At, taskVars

LEMMA StutterStill == UNCHANGED vars => Still
BY DEF vars, taskVars, gateVars, Still, At

-----------------------------------------------------------------------------
(* The gate.                                                               *)

LEMMA AtFinite == IsFiniteSet(At(Admitted)) /\ Cardinality(At(Admitted)) \in Nat
BY DispatcherAssumption, FS_Subset, FS_CardinalityType DEF At

LEMMA PermitsInit == Init => PermitsCovered
<1> SUFFICES ASSUME Init PROVE PermitsCovered
    OBVIOUS
<1>1. At(Admitted) = {} BY DEF Init, At, Admitted, Guarded
<1>2. QED BY <1>1, FS_EmptySet, DispatcherAssumption DEF Init, PermitsCovered

LEMMA PermitsStep ==
    ASSUME IndInv, [Next]_vars
    PROVE  PermitsCovered'
<1> USE DEF IndInv, PermitsCovered, TypeOK, GateTypes
<1>1. ASSUME Still PROVE PermitsCovered'
    BY <1>1 DEF Still
<1>2. ASSUME NEW t \in Tasks, LoopAdmit(t) PROVE PermitsCovered'
  <2>1. Cardinality(At(Admitted)') = Cardinality(At(Admitted)) + 1
      BY <1>2, AdmitCounts, AtFinite, FS_AddElement
  <2>2. QED BY <1>2, <2>1, AdmitCounts, AtFinite, DispatcherAssumption
<1>3. ASSUME NEW t \in Tasks, TakeSlot(t) PROVE PermitsCovered'
    BY <1>3, TakeSlotCounts
<1>4. ASSUME NEW t \in Tasks, Release(t) PROVE PermitsCovered'
  <2>1. Cardinality(At(Admitted)') = Cardinality(At(Admitted)) - 1
      BY <1>4, ReleaseCounts, AtFinite, FS_RemoveElement
  <2>2. QED BY <1>4, <2>1, ReleaseCounts, AtFinite, DispatcherAssumption
<1>5. ASSUME NEW t \in Tasks, WorkerDenied(t) \/ CancelUnguarded(t) PROVE PermitsCovered'
  <2>1. Cardinality(At(Admitted)') = Cardinality(At(Admitted)) - 1
      BY <1>5, LostCounts, AtFinite, FS_RemoveElement
  <2>2. QED BY <1>5, <2>1, LostCounts, AtFinite
<1>6. CASE Restart
    BY <1>6, RestartCounts, FS_EmptySet, DispatcherAssumption
<1>7. ASSUME NEW l \in Limits, SetLimit(l) PROVE PermitsCovered'
    BY <1>7, SetLimitCounts
<1>8. QED
    BY <1>1, <1>2, <1>3, <1>4, <1>5, <1>6, <1>7, QueueLoopStill, WorkerStill, OperatorStill,
       StutterStill
    DEF Next, QueueLoop

-----------------------------------------------------------------------------
(* One place per payload.                                                  *)

\* Past its submission a worker moves only itself, and not into the queue.
WorkerFrame(t) ==
    /\ pc[t] \notin {"queued", "held"} /\ pc'[t] \notin {"queued", "held"}
    /\ \A u \in Tasks : u # t => pc'[u] = pc[u]
    /\ queue' = queue /\ held' = held

LEMMA WorkerFramed ==
    ASSUME TypeOK, NEW t \in Tasks, Worker(t), ~SubmitPut(t)
    PROVE  WorkerFrame(t)
<1> USE DEF TypeOK, TaskTypes, WorkerFrame, Goto, loopVars
<1>1. CASE Block(t)        BY <1>1 DEF Block
<1>2. CASE WorkerBegin(t) \/ WorkerDenied(t) BY <1>2 DEF WorkerBegin, WorkerDenied
<1>3. CASE RouteRefused(t) \/ TakeSlot(t) \/ WaitForSlot(t)
    BY <1>3 DEF RouteRefused, TakeSlot, WaitForSlot
<1>4. CASE EnterStagger(t) \/ WaitForLaunch(t) BY <1>4 DEF EnterStagger, WaitForLaunch
<1>5. CASE Launch(t) \/ Launched(t) BY <1>5 DEF Launch, Launched
<1>6. CASE StepResumes(t)  BY <1>6 DEF StepResumes
<1>7. CASE UseCaseSucceeds(t) \/ RunFails(t) \/ FailureTold(t)
      BY <1>7 DEF UseCaseSucceeds, RunFails, FailureTold
<1>8. CASE SoldStop(t) \/ Reported(t) BY <1>8 DEF SoldStop, Reported
<1>9. CASE Release(t) \/ Farewell(t) BY <1>9 DEF Release, Farewell
<1>10. CASE CancelUnguarded(t) \/ CancelFarewell(t)
    BY <1>10 DEF CancelUnguarded, CancelFarewell
<1>11. CASE CancelGuarded(t) \/ CancelHandler(t)
    BY <1>11 DEF CancelGuarded, CancelHandler, Guarded
<1>12. CASE CancelSwallowed(t) BY <1>12 DEF CancelSwallowed
<1>13. QED
    BY <1>1, <1>2, <1>3, <1>4, <1>5, <1>6, <1>7, <1>8, <1>9, <1>10, <1>11, <1>12 DEF Worker

\* The queue loop moves only the payload it serves, out of the queue or of its hand.
QueueLoopFrame(t) ==
    /\ \A u \in Tasks : u # t => pc'[u] = pc[u]
    /\ queue' = IF held = NoTask THEN Tail(queue) ELSE queue
    /\ held' # NoTask => held = NoTask /\ held' = t /\ pc'[t] = "held"

LEMMA QueueLoopFramed ==
    ASSUME TypeOK, NEW t \in Tasks, QueueLoop(t)
    PROVE  QueueLoopFrame(t) /\ Serving(t)
<1> USE DEF TypeOK, TaskTypes, QueueLoopFrame, Goto, Iterate
<1>1. CASE LoopHold(t)    BY <1>1 DEF LoopHold
<1>2. CASE LoopAdmit(t)   BY <1>2 DEF LoopAdmit
<1>3. CASE LoopDiscard(t) BY <1>3 DEF LoopDiscard
<1>4. CASE LoopFails(t)   BY <1>4 DEF LoopFails
<1>5. QED BY <1>1, <1>2, <1>3, <1>4 DEF QueueLoop

LEMMA QueueOwnedInit == Init => QueueOwned
BY DEF Init, QueueOwned

LEMMA QueueOwnedStep ==
    ASSUME TypeOK, QueueOwned, [Next]_vars
    PROVE  QueueOwned'
<1> USE DispatcherAssumption DEF QueueOwned, TypeOK, TaskTypes, LoopTypes
<1>1. ASSUME NEW t \in Tasks, SubmitPut(t) PROVE QueueOwned'
  <2>1. \A i \in 1..Len(queue) : queue[i] # t BY <1>1 DEF SubmitPut
  <2>2. /\ Len(queue') = Len(queue) + 1 /\ queue'[Len(queue) + 1] = t
        /\ \A i \in 1..Len(queue) : queue'[i] = queue[i] /\ queue[i] \in Tasks
      BY <1>1 DEF SubmitPut
  <2>3. pc' = [pc EXCEPT ![t] = "queued"] /\ held' = held BY <1>1 DEF SubmitPut, Goto
  <2>4. held # t BY <1>1 DEF SubmitPut
  <2>5. ASSUME NEW i \in 1..Len(queue') PROVE pc'[queue'[i]] = "queued"
    <3>1. CASE i \in 1..Len(queue) BY <2>1, <2>2, <2>3, <3>1
    <3>2. CASE i = Len(queue) + 1 BY <2>2, <2>3, <3>2
    <3>3. Len(queue) \in Nat OBVIOUS
    <3>4. QED BY <2>2, <3>1, <3>2, <3>3
  <2>6. ASSUME NEW i \in 1..Len(queue'), NEW j \in 1..Len(queue'), queue'[i] = queue'[j]
        PROVE  i = j
    <3>1. Len(queue) \in Nat OBVIOUS
    <3>2. /\ i \in 1..Len(queue) \/ i = Len(queue) + 1
          /\ j \in 1..Len(queue) \/ j = Len(queue) + 1
        BY <2>2, <3>1
    <3>3. CASE i \in 1..Len(queue) /\ j \in 1..Len(queue)
        BY <2>2, <2>6, <3>3
    <3>4. CASE i = Len(queue) + 1 \/ j = Len(queue) + 1
        BY <2>1, <2>2, <2>6, <3>2, <3>4
    <3>5. QED BY <3>2, <3>3, <3>4
  <2>7. QED BY <2>3, <2>4, <2>5, <2>6
<1>2. ASSUME NEW t \in Tasks, Worker(t), ~SubmitPut(t) PROVE QueueOwned'
  <2>1. WorkerFrame(t) BY <1>2, WorkerFramed
  <2>2. \A i \in 1..Len(queue) : queue[i] \in Tasks OBVIOUS
  <2>3. QED BY <2>1, <2>2 DEF WorkerFrame
<1>3. ASSUME NEW t \in Tasks, QueueLoop(t) PROVE QueueOwned'
  <2>1. QueueLoopFrame(t) /\ Serving(t) BY <1>3, QueueLoopFramed
  <2>2. CASE held # NoTask
    <3>1. held = t /\ queue' = queue /\ held' = NoTask
        BY <2>1, <2>2 DEF QueueLoopFrame, Serving
    <3>2. \A i \in 1..Len(queue) : queue[i] \in Tasks OBVIOUS
    <3>3. pc[t] = "held" BY <2>2, <3>1
    <3>4. \A i \in 1..Len(queue) : queue[i] # t BY <3>3
    <3>5. QED BY <2>1, <3>1, <3>2, <3>4 DEF QueueLoopFrame
  <2>3. CASE held = NoTask
    <3>1. queue # <<>> /\ t = Head(queue) /\ queue' = Tail(queue)
        BY <2>1, <2>3 DEF QueueLoopFrame, Serving
    <3>2. /\ Len(queue) \in Nat \ {0} /\ t = queue[1]
          /\ Len(queue') = Len(queue) - 1
          /\ \A i \in 1..Len(queue') : queue'[i] = queue[i + 1]
        BY <3>1
    <3>3. \A i \in 1..Len(queue') : i + 1 \in 1..Len(queue) /\ i + 1 # 1
        BY <3>2
    <3>4. ASSUME NEW i \in 1..Len(queue') PROVE queue'[i] \in Tasks /\ queue'[i] # t
      <4>1. 1 \in 1..Len(queue) /\ i + 1 \in 1..Len(queue) /\ i + 1 # 1 BY <3>2, <3>3
      <4>2. queue[i + 1] \in Tasks /\ queue[i + 1] # queue[1] BY <4>1
      <4>3. QED BY <3>2, <4>2
    <3>5. \A i \in 1..Len(queue') : pc'[queue'[i]] = "queued"
        BY <2>1, <3>2, <3>3, <3>4 DEF QueueLoopFrame
    <3>6. \A i, j \in 1..Len(queue') : queue'[i] = queue'[j] => i = j
        BY <3>2, <3>3
    <3>7. QED BY <2>1, <3>5, <3>6 DEF QueueLoopFrame
  <2>4. QED BY <2>2, <2>3
<1>4. ASSUME NEW t \in Tasks, SubmitBegin(t) PROVE QueueOwned'
  <2>1. \A i \in 1..Len(queue) : queue[i] \in Tasks /\ queue[i] # t BY <1>4 DEF SubmitBegin
  <2>2. queue' = queue /\ held' = held /\ held # t /\ pc' = [pc EXCEPT ![t] = "submitting"]
      BY <1>4 DEF SubmitBegin, Goto, loopVars
  <2>3. QED BY <2>1, <2>2
<1>5. CASE EmergencyStop
  <2>1. queue' = <<>> /\ held' = held /\ (held # NoTask => pc'[held] = pc[held])
      BY <1>5 DEF EmergencyStop
  <2>2. QED BY <2>1
<1>6. CASE Restart BY <1>6 DEF Restart
<1>7. ASSUME queue' = queue, held' = held, pc' = pc PROVE QueueOwned'
    BY <1>7
<1>8. CASE PauseGlobal \/ ResumeGlobal \/ LeaseExpires \/ StopReturns \/ UNCHANGED vars
    BY <1>7, <1>8
    DEF PauseGlobal, ResumeGlobal, LeaseExpires, StopReturns, vars, taskVars, loopVars
<1>9. ASSUME NEW a \in Accounts, PauseAccount(a) \/ ResumeAccount(a) \/ ArchiveAccount(a)
      PROVE  QueueOwned'
    BY <1>7, <1>9 DEF PauseAccount, ResumeAccount, ArchiveAccount, taskVars, loopVars
<1>10. ASSUME NEW l \in Limits, SetLimit(l) PROVE QueueOwned'
    BY <1>7, <1>10 DEF SetLimit, taskVars, loopVars
<1>11. QED
    BY <1>1, <1>2, <1>3, <1>4, <1>5, <1>6, <1>8, <1>9, <1>10 DEF Next, Operator

-----------------------------------------------------------------------------
(* Who holds a slot.                                                       *)

LEMMA HoldersInit == Init => HoldersPlaced
BY DEF Init, HoldersPlaced

\* Every action but the restart moves one task, or the queued ones.
LEMMA HoldersStep ==
    ASSUME TypeOK, QueueOwned, HoldersPlaced, [Next]_vars
    PROVE  HoldersPlaced'
<1> USE DEF HoldersPlaced, TypeOK, TaskTypes, Goto
<1>1. ASSUME NEW t \in Tasks, QueueLoop(t) PROVE HoldersPlaced'
  <2>1. Serving(t) /\ \A u \in Tasks : u # t => pc'[u] = pc[u]
      BY <1>1, QueueLoopFramed DEF QueueLoopFrame
  <2>2. t \notin holding BY <2>1, ServingPlaced
  <2>3. holding' = holding
      BY <1>1 DEF QueueLoop, LoopHold, LoopAdmit, LoopDiscard, LoopFails
  <2>4. QED BY <2>1, <2>2, <2>3
<1>2. ASSUME NEW t \in Tasks, Worker(t) PROVE HoldersPlaced'
  <2>1. CASE SubmitPut(t) \/ Block(t) BY <2>1 DEF SubmitPut, Block
  <2>2. CASE WorkerBegin(t) \/ WorkerDenied(t) BY <2>2 DEF WorkerBegin, WorkerDenied
  <2>3. CASE RouteRefused(t) \/ WaitForSlot(t) BY <2>3 DEF RouteRefused, WaitForSlot
  <2>4. CASE TakeSlot(t) BY <2>4 DEF TakeSlot
  <2>5. CASE EnterStagger(t) \/ WaitForLaunch(t) BY <2>5 DEF EnterStagger, WaitForLaunch
  <2>6. CASE Launch(t) \/ Launched(t) BY <2>6 DEF Launch, Launched
  <2>7. CASE StepResumes(t) BY <2>7 DEF StepResumes
  <2>8. CASE UseCaseSucceeds(t) \/ RunFails(t) \/ FailureTold(t)
      BY <2>8 DEF UseCaseSucceeds, RunFails, FailureTold
  <2>9. CASE SoldStop(t) \/ Reported(t) BY <2>9 DEF SoldStop, Reported
  <2>10. CASE Release(t) BY <2>10 DEF Release
  <2>11. CASE Farewell(t) \/ CancelFarewell(t) BY <2>11 DEF Farewell, CancelFarewell
  <2>12. CASE CancelUnguarded(t) BY <2>12 DEF CancelUnguarded
  <2>13. CASE CancelGuarded(t) \/ CancelHandler(t)
    BY <2>13 DEF CancelGuarded, CancelHandler, Guarded
  <2>14. CASE CancelSwallowed(t) BY <2>14 DEF CancelSwallowed
  <2>15. QED
      BY <1>2, <2>1, <2>2, <2>3, <2>4, <2>5, <2>6, <2>7, <2>8, <2>9, <2>10, <2>11, <2>12,
         <2>13, <2>14 DEF Worker
<1>3. ASSUME NEW t \in Tasks, SubmitBegin(t) PROVE HoldersPlaced'
    BY <1>3 DEF SubmitBegin
<1>4. CASE EmergencyStop BY <1>4 DEF EmergencyStop
<1>5. CASE Restart BY <1>5 DEF Restart
<1>6. ASSUME pc' = pc, holding' = holding PROVE HoldersPlaced'
    BY <1>6
<1>7. CASE PauseGlobal \/ ResumeGlobal \/ LeaseExpires \/ StopReturns \/ UNCHANGED vars
    BY <1>6, <1>7
    DEF PauseGlobal, ResumeGlobal, LeaseExpires, StopReturns, vars, taskVars
<1>8. ASSUME NEW a \in Accounts, PauseAccount(a) \/ ResumeAccount(a) \/ ArchiveAccount(a)
      PROVE  HoldersPlaced'
    BY <1>6, <1>8 DEF PauseAccount, ResumeAccount, ArchiveAccount, taskVars
<1>9. ASSUME NEW l \in Limits, SetLimit(l) PROVE HoldersPlaced'
    BY <1>6, <1>9 DEF SetLimit, taskVars
<1>10. QED
    BY <1>1, <1>2, <1>3, <1>4, <1>5, <1>7, <1>8, <1>9 DEF Next, Operator

LEMMA BrowsersInit == Init => BrowsersPlaced
BY DEF Init, BrowsersPlaced, BrowserUnderSlot, Browsing

\* What a step does to one task's location, slot and browser, the others' kept.
LEMMA BrowsersStep ==
    ASSUME TypeOK, QueueOwned, BrowsersPlaced, [Next]_vars
    PROVE  BrowsersPlaced'
<1> USE DEF BrowsersPlaced, BrowserUnderSlot, Browsing, TypeOK, TaskTypes, Goto
<1>1. ASSUME NEW t \in Tasks, QueueLoop(t) PROVE BrowsersPlaced'
  <2>1. Serving(t) /\ \A u \in Tasks : u # t => pc'[u] = pc[u]
      BY <1>1, QueueLoopFramed DEF QueueLoopFrame
  <2>2. pc[t] \in {"queued", "held"} BY <2>1, ServingPlaced
  <2>3. holding' = holding /\ opened' = opened /\ pc'[t] \in {"held", "admitted", "dropped"}
      BY <1>1 DEF QueueLoop, LoopHold, LoopAdmit, LoopDiscard, LoopFails
  <2>4. QED BY <2>1, <2>2, <2>3
<1>2. ASSUME NEW t \in Tasks, Worker(t) PROVE BrowsersPlaced'
  <2>1. CASE SubmitPut(t) \/ Block(t) BY <2>1 DEF SubmitPut, Block
  <2>2. CASE WorkerBegin(t) \/ WorkerDenied(t) BY <2>2 DEF WorkerBegin, WorkerDenied
  <2>3. CASE RouteRefused(t) \/ WaitForSlot(t) BY <2>3 DEF RouteRefused, WaitForSlot
  <2>4. CASE TakeSlot(t) BY <2>4 DEF TakeSlot
  <2>5. CASE EnterStagger(t) \/ WaitForLaunch(t) BY <2>5 DEF EnterStagger, WaitForLaunch
  <2>6. CASE Launch(t) BY <2>6 DEF Launch
  <2>7. CASE Launched(t) \/ StepResumes(t) BY <2>7 DEF Launched, StepResumes
  <2>8. CASE UseCaseSucceeds(t) \/ RunFails(t) \/ FailureTold(t)
      BY <2>8 DEF UseCaseSucceeds, RunFails, FailureTold
  <2>9. CASE SoldStop(t) \/ Reported(t) BY <2>9 DEF SoldStop, Reported
  <2>10. CASE Release(t) BY <2>10 DEF Release
  <2>11. CASE Farewell(t) \/ CancelFarewell(t) BY <2>11 DEF Farewell, CancelFarewell
  <2>12. CASE CancelUnguarded(t) BY <2>12 DEF CancelUnguarded
  <2>13. CASE CancelGuarded(t) \/ CancelHandler(t)
    BY <2>13 DEF CancelGuarded, CancelHandler, Guarded
  <2>14. CASE CancelSwallowed(t) BY <2>14 DEF CancelSwallowed
  <2>15. QED
      BY <1>2, <2>1, <2>2, <2>3, <2>4, <2>5, <2>6, <2>7, <2>8, <2>9, <2>10, <2>11, <2>12,
         <2>13, <2>14 DEF Worker
<1>3. ASSUME NEW t \in Tasks, SubmitBegin(t) PROVE BrowsersPlaced'
    BY <1>3 DEF SubmitBegin
<1>4. CASE EmergencyStop BY <1>4 DEF EmergencyStop
<1>5. CASE Restart BY <1>5 DEF Restart, Ended
<1>6. ASSUME pc' = pc, holding' = holding, opened' = opened PROVE BrowsersPlaced'
    BY <1>6
<1>7. CASE PauseGlobal \/ ResumeGlobal \/ LeaseExpires \/ StopReturns \/ UNCHANGED vars
    BY <1>6, <1>7
    DEF PauseGlobal, ResumeGlobal, LeaseExpires, StopReturns, vars, taskVars
<1>8. ASSUME NEW a \in Accounts, PauseAccount(a) \/ ResumeAccount(a) \/ ArchiveAccount(a)
      PROVE  BrowsersPlaced'
    BY <1>6, <1>8 DEF PauseAccount, ResumeAccount, ArchiveAccount, taskVars
<1>9. ASSUME NEW l \in Limits, SetLimit(l) PROVE BrowsersPlaced'
    BY <1>6, <1>9 DEF SetLimit, taskVars
<1>10. QED
    BY <1>1, <1>2, <1>3, <1>4, <1>5, <1>7, <1>8, <1>9 DEF Next, Operator

-----------------------------------------------------------------------------
(* The slots.                                                              *)

LEMMA SessionsFinite ==
    \A k \in Slots : IsFiniteSet(Sessions(k)) /\ Cardinality(Sessions(k)) \in Nat
<1> SUFFICES ASSUME NEW k \in Slots
             PROVE  IsFiniteSet(Sessions(k)) /\ Cardinality(Sessions(k)) \in Nat
    OBVIOUS
<1>1. Sessions(k) \subseteq Tasks BY DEF Sessions, At
<1>2. QED BY <1>1, DispatcherAssumption, FS_Subset, FS_CardinalityType

LEMMA SlotsInit == Init => SlotsCovered
<1> SUFFICES ASSUME Init, NEW k \in Slots
             PROVE  Cardinality(Sessions(k)) <= slots[k] /\ (UseProxy => slots[k] <= 1)
    BY DEF SlotsCovered
<1>1. Sessions(k) = {} /\ slots[k] = 0 BY DEF Init, Sessions
<1>2. QED BY <1>1, FS_EmptySet

\* A step that leaves the slots alone and takes no session.
LEMMA SlotsFewer ==
    ASSUME SlotsCovered, TypeOK, slots' = slots,
           holding' \cap At(Admitted)' \subseteq holding \cap At(Admitted)
    PROVE  SlotsCovered'
<1> SUFFICES ASSUME NEW k \in Slots
             PROVE  Cardinality(Sessions(k)') <= slots[k] /\ (UseProxy => slots[k] <= 1)
    BY DEF SlotsCovered
<1>1. Sessions(k)' \subseteq Sessions(k) BY DEF Sessions, Key
<1>2. Cardinality(Sessions(k)') <= Cardinality(Sessions(k))
    BY <1>1, SessionsFinite, FS_Subset
<1>3. Cardinality(Sessions(k)') \in Nat
    BY <1>1, SessionsFinite, FS_Subset, FS_CardinalityType
<1>4. slots[k] \in Nat BY DEF TypeOK, GateTypes
<1>5. QED BY <1>2, <1>3, <1>4, SessionsFinite DEF SlotsCovered

LEMMA SlotsStep ==
    ASSUME IndInv, [Next]_vars
    PROVE  SlotsCovered'
<1> USE DEF IndInv, TypeOK, GateTypes
<1>1. ASSUME Still PROVE SlotsCovered'
    BY <1>1, SlotsFewer DEF Still
<1>2. ASSUME NEW t \in Tasks, LoopAdmit(t) PROVE SlotsCovered'
    BY <1>2, AdmitCounts, SlotsFewer
<1>3. ASSUME NEW t \in Tasks, TakeSlot(t) PROVE SlotsCovered'
  <2> SUFFICES ASSUME NEW k \in Slots
               PROVE  Cardinality(Sessions(k)') <= slots'[k] /\ (UseProxy => slots'[k] <= 1)
      BY DEF SlotsCovered
  <2>1. /\ Cardinality(Sessions(k)) <= slots[k] /\ (UseProxy => slots[k] <= 1)
        /\ slots[k] \in Nat /\ Cardinality(Sessions(k)) \in Nat
      BY SessionsFinite DEF SlotsCovered
  <2>2. CASE k = Key(t)
    <3>1. Sessions(k)' = Sessions(k) \cup {t} /\ t \notin Sessions(k)
        BY <1>3, <2>2, TakeSlotCounts DEF Sessions, Key
    <3>2. Cardinality(Sessions(k)') = Cardinality(Sessions(k)) + 1
        BY <3>1, SessionsFinite, FS_AddElement
    <3>3. slots'[k] = slots[k] + 1 /\ slots[k] < SlotCap
        BY <1>3, <2>2, TakeSlotCounts
    <3>4. UseProxy => slots[k] < 1 BY <3>3 DEF SlotCap
    <3>5. QED BY <2>1, <3>2, <3>3, <3>4
  <2>3. CASE k # Key(t)
    <3>1. Sessions(k)' = Sessions(k)
        BY <1>3, <2>3, TakeSlotCounts DEF Sessions, Key
    <3>2. slots'[k] = slots[k] BY <1>3, <2>3, TakeSlotCounts
    <3>3. QED BY <2>1, <3>1, <3>2
  <2>4. QED BY <2>2, <2>3
<1>4. ASSUME NEW t \in Tasks, Release(t) PROVE SlotsCovered'
  <2>1. CASE t \notin holding
      BY <1>4, <2>1, ReleaseCounts, SlotsFewer
  <2>2. CASE t \in holding
    <3> SUFFICES ASSUME NEW k \in Slots
                 PROVE  Cardinality(Sessions(k)') <= slots'[k] /\ (UseProxy => slots'[k] <= 1)
        BY DEF SlotsCovered
    <3>1. /\ Cardinality(Sessions(k)) <= slots[k] /\ (UseProxy => slots[k] <= 1)
          /\ slots[k] \in Nat /\ Cardinality(Sessions(k)) \in Nat
        BY SessionsFinite DEF SlotsCovered
    <3>2. CASE k = Key(t)
      <4>1. t \in Sessions(k) /\ Sessions(k)' = Sessions(k) \ {t}
          BY <1>4, <2>2, <3>2, ReleaseCounts DEF Sessions, Key
      <4>2. Cardinality(Sessions(k)') = Cardinality(Sessions(k)) - 1
          BY <4>1, SessionsFinite, FS_RemoveElement
      <4>3. slots'[k] = IF slots[k] = 0 THEN 0 ELSE slots[k] - 1
          BY <1>4, <2>2, <3>2, ReleaseCounts
      <4>4. QED BY <3>1, <4>2, <4>3
    <3>3. CASE k # Key(t)
      <4>1. Sessions(k)' = Sessions(k)
          BY <1>4, <2>2, <3>3, ReleaseCounts DEF Sessions, Key
      <4>2. slots'[k] = slots[k] BY <1>4, <2>2, <3>3, ReleaseCounts
      <4>3. QED BY <3>1, <4>1, <4>2
    <3>4. QED BY <3>2, <3>3
  <2>3. QED BY <2>1, <2>2
<1>5. ASSUME NEW t \in Tasks, WorkerDenied(t) \/ CancelUnguarded(t) PROVE SlotsCovered'
    BY <1>5, LostCounts, SlotsFewer
<1>6. CASE Restart
  <2>1. \A k \in Slots : Sessions(k)' = {} BY <1>6, RestartCounts DEF Sessions
  <2>2. QED BY <1>6, <2>1, RestartCounts, FS_EmptySet DEF SlotsCovered
<1>7. ASSUME NEW l \in Limits, SetLimit(l) PROVE SlotsCovered'
    BY <1>7, SetLimitCounts, SlotsFewer
<1>8. QED
    BY <1>1, <1>2, <1>3, <1>4, <1>5, <1>6, <1>7, QueueLoopStill, WorkerStill, OperatorStill,
       StutterStill
    DEF Next, QueueLoop

-----------------------------------------------------------------------------
(* The generation fence.                                                   *)

LEMMA FenceInit == Init => QueueFenced
BY DEF Init, QueueFenced

LEMMA FenceStep ==
    ASSUME TypeOK, QueueOwned, QueueFenced, [Next]_vars
    PROVE  QueueFenced'
<1> USE DispatcherAssumption
    DEF QueueFenced, TypeOK, TaskTypes, LoopTypes, StopTypes, Goto
<1>1. ASSUME NEW t \in Tasks, QueueLoop(t) PROVE QueueFenced'
  <2>1. QueueLoopFrame(t) /\ Serving(t) BY <1>1, QueueLoopFramed
  <2>2. born' = born /\ generation' = generation
      BY <1>1 DEF QueueLoop, LoopHold, LoopAdmit, LoopDiscard, LoopFails, stopVars
  <2>3. CASE LoopHold(t)
    <3>1. pc[t] = "queued"
      <4>1. 1 \in 1..Len(queue) /\ t = queue[1] BY <2>3 DEF LoopHold, Serving
      <4>2. QED BY <4>1 DEF QueueOwned
    <3>2. loopGen' = loopGen /\ held' = t /\ pc' = [pc EXCEPT ![t] = "held"]
        BY <2>3 DEF LoopHold
    <3>3. QED BY <2>2, <3>1, <3>2
  <2>4. CASE LoopAdmit(t) \/ LoopDiscard(t) \/ LoopFails(t)
    <3>1. loopGen' = generation /\ held' = NoTask /\ pc'[t] # "queued"
        BY <2>4 DEF LoopAdmit, LoopDiscard, LoopFails, Iterate
    <3>2. QED BY <2>1, <2>2, <3>1 DEF QueueLoopFrame
  <2>5. QED BY <1>1, <2>3, <2>4 DEF QueueLoop
<1>2. ASSUME NEW t \in Tasks, SubmitPut(t) PROVE QueueFenced'
    BY <1>2 DEF SubmitPut, QueueOwned, stopVars
<1>3. ASSUME NEW t \in Tasks, Worker(t), ~SubmitPut(t) PROVE QueueFenced'
  <2>1. WorkerFrame(t) BY <1>3, WorkerFramed
  <2>2. born' = born /\ generation' = generation /\ loopGen' = loopGen
      BY <1>3
      DEF Worker, Block, WorkerBegin, WorkerDenied, RouteRefused, TakeSlot, WaitForSlot,
          EnterStagger, WaitForLaunch, Launch, Launched, StepResumes, UseCaseSucceeds,
          RunFails, FailureTold, SoldStop, Reported, Release, Farewell, CancelUnguarded,
          CancelGuarded, CancelHandler,
          CancelSwallowed, CancelFarewell, stopVars, loopVars
  <2>3. QED BY <2>1, <2>2 DEF WorkerFrame
<1>4. ASSUME NEW t \in Tasks, SubmitBegin(t) PROVE QueueFenced'
    BY <1>4 DEF SubmitBegin, loopVars, stopVars
<1>5. CASE EmergencyStop
  <2>1. generation' = generation + 1 /\ loopGen' = loopGen /\ born' = born
      BY <1>5 DEF EmergencyStop
  <2>2. \A t \in Tasks : pc'[t] # "queued" BY <1>5 DEF EmergencyStop
  <2>3. QED BY <2>1, <2>2
<1>6. CASE Restart BY <1>6 DEF Restart, Ended
<1>7. ASSUME pc' = pc, born' = born, held' = held, loopGen' = loopGen,
             generation' = generation
      PROVE  QueueFenced'
    BY <1>7
<1>8. CASE PauseGlobal \/ ResumeGlobal \/ LeaseExpires \/ StopReturns \/ UNCHANGED vars
    BY <1>7, <1>8
    DEF PauseGlobal, ResumeGlobal, LeaseExpires, StopReturns, vars, taskVars, loopVars,
        stopVars
<1>9. ASSUME NEW a \in Accounts, PauseAccount(a) \/ ResumeAccount(a) \/ ArchiveAccount(a)
      PROVE  QueueFenced'
    BY <1>7, <1>9 DEF PauseAccount, ResumeAccount, ArchiveAccount, taskVars, loopVars, stopVars
<1>10. ASSUME NEW l \in Limits, SetLimit(l) PROVE QueueFenced'
    BY <1>7, <1>10 DEF SetLimit, taskVars, loopVars, stopVars
<1>11. QED
    BY <1>1, <1>2, <1>3, <1>4, <1>5, <1>6, <1>8, <1>9, <1>10 DEF Next, Operator

-----------------------------------------------------------------------------
(* The theorems.                                                           *)

LEMMA TypeStep ==
    ASSUME TypeOK, PermitsCovered, [Next]_vars
    PROVE  TypeOK'
<1>1. CASE UNCHANGED vars
    BY <1>1
    DEF vars, taskVars, loopVars, gateVars, regVars, pauseVars, stopVars, dataVars,
        TypeOK, TaskTypes, LoopTypes, GateTypes, RegistryTypes, PauseTypes, StopTypes, DataTypes
<1>2. QED BY <1>1, QueueLoopType, WorkerType, OperatorType DEF Next

\* The inductive invariant holds in every state the dispatcher can reach: types,
\* gate, queue, slots and generation fence at once, whatever is cancelled and when.
THEOREM Invariance == Spec => []IndInv
<1>1. Init => IndInv
    BY TypeInit, PermitsInit, QueueOwnedInit, HoldersInit, BrowsersInit, SlotsInit,
       FenceInit DEF IndInv
<1>2. IndInv /\ [Next]_vars => IndInv'
    BY TypeStep, PermitsStep, QueueOwnedStep, HoldersStep, BrowsersStep, SlotsStep,
       FenceStep DEF IndInv
<1>3. QED BY <1>1, <1>2, PTL DEF Spec

\* Every variable of the dispatcher keeps its type.
THEOREM TypeCorrect == Spec => []TypeOK
<1>1. IndInv => TypeOK BY DEF IndInv
<1>2. QED BY <1>1, Invariance, PTL

\* The gate always counts the workers that have not run their cleanup, and never
\* admits beyond the machine ceiling (_DynamicConcurrencyGate): its "released too
\* many times" branch is unreachable.
THEOREM GateCoversWorkers == Spec => []PermitsCovered
<1>1. IndInv => PermitsCovered BY DEF IndInv
<1>2. QED BY <1>1, Invariance, PTL

\* With USE_PROXY two sessions never run through one host:port at the same time
\* (_proxy_running), cancellations and half-finished cleanups included.
THEOREM RoutesNeverShared == Spec => []RouteExclusive
<1>1. IndInv => RouteExclusive
  <2> SUFFICES ASSUME IndInv, UseProxy, NEW k \in Routes,
                      NEW t \in Sessions(k), NEW u \in Sessions(k)
               PROVE  t = u
      BY DEF RouteExclusive
  <2>1. k \in Slots BY DEF Slots
  <2>2. Cardinality(Sessions(k)) <= 1
      BY <2>1, SessionsFinite DEF IndInv, SlotsCovered, TypeOK, GateTypes
  <2>3. SUFFICES ASSUME t # u PROVE FALSE
      OBVIOUS
  <2>4. {t, u} \subseteq Sessions(k) OBVIOUS
  <2>5. Cardinality({t, u}) <= Cardinality(Sessions(k))
      BY <2>1, <2>4, SessionsFinite, FS_Subset
  <2>6. Cardinality({t, u}) = 2
    <3>1. Cardinality({t}) = 1 /\ IsFiniteSet({t}) BY FS_Singleton
    <3>2. {t, u} = {t} \cup {u} OBVIOUS
    <3>3. Cardinality({t} \cup {u}) = Cardinality({t}) + 1
        BY <2>3, <3>1, FS_AddElement
    <3>4. QED BY <3>1, <3>2, <3>3
  <2>7. QED BY <2>1, <2>2, <2>5, <2>6, SessionsFinite
<1>2. QED BY <1>1, Invariance, PTL

\* No browser process exists without the proxy or direct slot it was opened under:
\* the finally clause gives the slot back only after close().
THEOREM BrowsersKeepSlots == Spec => []BrowserUnderSlot
<1>1. IndInv => BrowserUnderSlot BY DEF IndInv, BrowsersPlaced
<1>2. QED BY <1>1, Invariance, PTL

\* The generation fence of _process_queue_loop: a payload put before an emergency
\* stop never gets a worker after it.
THEOREM FenceHolds == Spec => FencedAdmission
<1>1. IndInv /\ [Next]_vars =>
          [\A t \in Tasks : pc[t] \in {"queued", "held"} /\ pc'[t] = "admitted"
                               => born[t] = generation]_vars
  <2> SUFFICES ASSUME IndInv, Next, NEW t \in Tasks,
                      pc[t] \in {"queued", "held"}, pc'[t] = "admitted"
               PROVE  born[t] = generation
      OBVIOUS
  <2>1. PICK u \in Tasks : QueueLoop(u)
    <3>1. ASSUME NEW u \in Tasks, Worker(u), ~SubmitPut(u) PROVE FALSE
        BY <3>1, WorkerFramed DEF WorkerFrame, IndInv, TypeOK
    <3>2. ASSUME NEW u \in Tasks, SubmitPut(u) PROVE FALSE
        BY <3>2 DEF SubmitPut, Goto, IndInv, TypeOK, TaskTypes
    <3>3. CASE Operator \/ StopReturns
        BY <3>3
        DEF Operator, SubmitBegin, PauseGlobal, ResumeGlobal, PauseAccount, ResumeAccount,
            ArchiveAccount, SetLimit, EmergencyStop, LeaseExpires, Restart, StopReturns,
            Goto, taskVars, IndInv, TypeOK, TaskTypes, Ended
    <3>4. QED BY <3>1, <3>2, <3>3 DEF Next
  <2>2. u = t /\ LoopAdmit(t)
      BY <2>1, QueueLoopFramed
      DEF QueueLoopFrame, QueueLoop, LoopHold, LoopAdmit, LoopDiscard, LoopFails, Goto,
          IndInv, TypeOK, TaskTypes
  <2>3. Serving(t) /\ loopGen = generation BY <2>2 DEF LoopAdmit, Fenced
  <2>4. CASE held = t
      BY <2>3, <2>4, DispatcherAssumption DEF IndInv, QueueFenced
  <2>5. CASE held = NoTask /\ queue # <<>> /\ t = Head(queue)
    <3>1. 1 \in 1..Len(queue) /\ t = queue[1] BY <2>5 DEF IndInv, TypeOK, LoopTypes
    <3>2. QED BY <3>1 DEF IndInv, QueueOwned, QueueFenced
  <2>6. QED BY <2>3, <2>4, <2>5 DEF Serving
<1>2. QED BY <1>1, Invariance, PTL DEF Spec, FencedAdmission

-----------------------------------------------------------------------------
(* The dispatcher implements BrowserSessions.                              *)

\* The instance counts with the same Cardinality.
LEMMA SameCardinality == \A S : Promise!Cardinality(S) = Cardinality(S)
BY DEF Promise!Cardinality, Cardinality

LEMMA PromiseInit == Init => Promise!SInit
<1> SUFFICES ASSUME Init PROVE Promise!SInit
    OBVIOUS
<1>1. At(Admitted) = {} /\ holding = {} BY DEF Init, At, Admitted, Guarded
<1>2. limit \in 1..MaxTabs BY LimitInRange DEF Init
<1>3. QED BY <1>1, <1>2 DEF Promise!SInit

\* A permit taken from the gate is an admission within the limit.
LEMMA AdmitIsAdmit ==
    ASSUME IndInv, NEW t \in Tasks, LoopAdmit(t)
    PROVE  Promise!Admit(t)
<1>1. /\ t \notin At(Admitted) /\ t \notin holding
      /\ At(Admitted)' = At(Admitted) \cup {t}
      /\ inUse < limit /\ holding' = holding /\ limit' = limit
    BY AdmitCounts DEF IndInv
<1>2. Cardinality(At(Admitted)) < limit
    BY <1>1, AtFinite DEF IndInv, PermitsCovered, TypeOK, GateTypes
<1>3. (holding \cap At(Admitted))' = holding \cap At(Admitted) BY <1>1
<1>4. QED BY <1>1, <1>2, <1>3, SameCardinality DEF Promise!Admit

\* A slot taken under its route's lock is a connection within the key's cap.
LEMMA TakeSlotIsConnect ==
    ASSUME IndInv, NEW t \in Tasks, TakeSlot(t)
    PROVE  Promise!Connect(t)
<1>1. /\ t \in At(Admitted) /\ t \notin holding
      /\ At(Admitted)' = At(Admitted) /\ holding' = holding \cup {t}
      /\ Key(t) \in Slots /\ slots[Key(t)] < SlotCap /\ limit' = limit
    BY TakeSlotCounts DEF IndInv
<1>2. Promise!Sharing(t) = Sessions(Key(t))
    BY DEF Promise!Sharing, Sessions, At
<1>3. Cardinality(Sessions(Key(t))) < SlotCap
    BY <1>1, SessionsFinite
    DEF IndInv, SlotsCovered, TypeOK, GateTypes, SlotCap
<1>4. SlotCap = Promise!KeyCap BY DEF SlotCap, Promise!KeyCap
<1>5. (holding \cap At(Admitted))' = (holding \cap At(Admitted)) \cup {t} BY <1>1
<1>6. QED BY <1>1, <1>2, <1>3, <1>4, <1>5, SameCardinality DEF Promise!Connect

LEMMA PromiseStep == IndInv /\ [Next]_vars => [Promise!SNext]_(Promise!svars)
<1> SUFFICES ASSUME IndInv, [Next]_vars
             PROVE  Promise!SNext \/ UNCHANGED Promise!svars
    OBVIOUS
<1> USE DEF IndInv
<1>1. ASSUME Still PROVE UNCHANGED Promise!svars
    BY <1>1 DEF Still, Promise!svars
<1>2. ASSUME NEW t \in Tasks, LoopAdmit(t) PROVE Promise!SNext
    BY <1>2, AdmitIsAdmit DEF Promise!SNext
<1>3. ASSUME NEW t \in Tasks, TakeSlot(t) PROVE Promise!SNext
    BY <1>3, TakeSlotIsConnect DEF Promise!SNext
<1>4. ASSUME NEW t \in Tasks, Release(t) \/ WorkerDenied(t) \/ CancelUnguarded(t)
      PROVE  Promise!SNext
  <2>1. /\ t \in At(Admitted) /\ At(Admitted)' = At(Admitted) \ {t} /\ limit' = limit
        /\ holding' = holding \/ holding' = holding \ {t}
      BY <1>4, ReleaseCounts, LostCounts
  <2>2. (holding \cap At(Admitted))' = (holding \cap At(Admitted)) \ {t} BY <2>1
  <2>3. QED BY <2>1, <2>2 DEF Promise!SNext, Promise!End
<1>5. CASE Restart
    BY <1>5, RestartCounts DEF Promise!SNext, Promise!EndAll
<1>6. ASSUME NEW l \in Limits, SetLimit(l) PROVE Promise!SNext
    BY <1>6, SetLimitCounts DEF Promise!SNext, Promise!Resize
<1>7. QED
    BY <1>1, <1>2, <1>3, <1>4, <1>5, <1>6, QueueLoopStill, WorkerStill, OperatorStill,
       StutterStill
    DEF Next, QueueLoop

\* The dispatcher keeps the promise of BrowserSessions: never more runs than the
\* limit at their admission, never more sessions on a route than it allows, through
\* every pause, cancellation, resize and restart.
THEOREM DispatcherKeepsPromise == Spec => KeepsPromise
<1>1. QED BY Invariance, PromiseInit, PromiseStep, PTL DEF Spec, KeepsPromise, Promise!SSpec
-----------------------------------------------------------------------------
(* The books of the accounts: who is busy, whom a stop finds.              *)

\* Most steps move no task into or out of the workers, and forget no account.
Calm ==
    /\ At(Busy)' = At(Busy) /\ At(Admitted)' = At(Admitted)
    /\ At({"lost"}) \subseteq At({"lost"})'
    /\ cancelled' \subseteq cancelled /\ cancelled' \subseteq At(Admitted \cup {"farewell"})'
    /\ UNCHANGED <<pending, active, generation>> /\ leased' \in {leased, FALSE}

Registers == CancelledPlaced /\ RegistryPlaced /\ BusyBacked /\ BusyKnown /\ OneTaskPerAccount

LEMMA CalmKeeps ==
    ASSUME TypeOK, Registers, Calm
    PROVE  Registers'
<1> USE DEF Registers, Calm
<1>1. CancelledPlaced' BY DEF CancelledPlaced
<1>2. RegistryPlaced' BY DEF RegistryPlaced, At
<1>3. BusyBacked' BY DEF BusyBacked, TypeOK, DataTypes
<1>4. BusyKnown' /\ OneTaskPerAccount' BY DEF BusyKnown, OneTaskPerAccount
<1>5. QED BY <1>1, <1>2, <1>3, <1>4

\* The steps of a worker between its admission and its cleanup.
LEMMA WorkerCalm ==
    ASSUME TypeOK, CancelledPlaced, NEW t \in Tasks, Worker(t),
           ~Release(t), ~WorkerDenied(t), ~CancelUnguarded(t)
    PROVE  Calm
<1> USE DEF TypeOK, TaskTypes, DataTypes, Calm, At, Busy, Admitted, Guarded, Goto, CancelledPlaced,
            regVars, stopVars, dataVars
<1>1. CASE SubmitPut(t) BY <1>1 DEF SubmitPut
<1>2. CASE Block(t) BY <1>2 DEF Block
<1>3. CASE WorkerBegin(t) BY <1>3 DEF WorkerBegin
<1>4. CASE RouteRefused(t) BY <1>4 DEF RouteRefused
<1>5. CASE TakeSlot(t) BY <1>5 DEF TakeSlot
<1>6. CASE WaitForSlot(t) BY <1>6 DEF WaitForSlot
<1>7. CASE EnterStagger(t) BY <1>7 DEF EnterStagger
<1>8. CASE WaitForLaunch(t) BY <1>8 DEF WaitForLaunch
<1>9. CASE Launch(t) BY <1>9 DEF Launch
<1>10. CASE Launched(t) BY <1>10 DEF Launched
<1>11. CASE StepResumes(t) BY <1>11 DEF StepResumes
<1>12. CASE UseCaseSucceeds(t) BY <1>12 DEF UseCaseSucceeds
<1>13. CASE RunFails(t) \/ FailureTold(t)
  <2>1. CASE RunFails(t) BY <2>1 DEF RunFails
  <2>2. CASE FailureTold(t) BY <2>2 DEF FailureTold
  <2>3. QED BY <1>13, <2>1, <2>2
<1>14. CASE SoldStop(t) BY <1>14 DEF SoldStop
<1>15. CASE Reported(t) BY <1>15 DEF Reported
<1>16. CASE Farewell(t) BY <1>16 DEF Farewell
<1>17. CASE CancelFarewell(t) BY <1>17 DEF CancelFarewell, Delivered
<1>18. CASE CancelGuarded(t) \/ CancelHandler(t)
  <2>1. CASE CancelGuarded(t) BY <2>1 DEF CancelGuarded, Delivered
  <2>2. CASE CancelHandler(t) BY <2>2 DEF CancelHandler, Delivered
  <2>3. QED BY <1>18, <2>1, <2>2
<1>19. CASE CancelSwallowed(t) BY <1>19 DEF CancelSwallowed, Delivered
<1>20. QED
    BY <1>1, <1>2, <1>3, <1>4, <1>5, <1>6, <1>7, <1>8, <1>9, <1>10, <1>11,
       <1>12, <1>13, <1>14, <1>15, <1>16, <1>17, <1>18, <1>19 DEF Worker

LEMMA OperatorCalm ==
    ASSUME TypeOK, CancelledPlaced, Operator \/ StopReturns \/ UNCHANGED vars,
           ~Restart, ~EmergencyStop, \A t \in Tasks : ~SubmitBegin(t)
    PROVE  Calm
<1> USE DEF TypeOK, TaskTypes, DataTypes, Calm, At, CancelledPlaced,
            taskVars, regVars, stopVars, dataVars
<1>1. CASE PauseGlobal \/ ResumeGlobal BY <1>1 DEF PauseGlobal, ResumeGlobal
<1>2. ASSUME NEW a \in Accounts, PauseAccount(a) \/ ResumeAccount(a) \/ ArchiveAccount(a)
      PROVE  Calm
    BY <1>2 DEF PauseAccount, ResumeAccount, ArchiveAccount
<1>3. ASSUME NEW l \in Limits, SetLimit(l) PROVE Calm BY <1>3 DEF SetLimit
<1>4. CASE LeaseExpires BY <1>4 DEF LeaseExpires
<1>5. CASE StopReturns BY <1>5 DEF StopReturns
<1>6. CASE UNCHANGED vars BY <1>6 DEF vars
<1>7. QED BY <1>1, <1>2, <1>3, <1>4, <1>5, <1>6 DEF Operator

\* The steps that do.
LEMMA QueueLoopRegisters ==
    ASSUME TypeOK, QueueOwned, Registers, NEW t \in Tasks, QueueLoop(t)
    PROVE  Registers'
<1> USE DEF TypeOK, TaskTypes, RegistryTypes
<1>1. pc[t] \in {"queued", "held"} BY QueueLoopFramed, ServingPlaced
<1>2. CASE LoopHold(t)
  <2>1. Calm
      BY <1>1, <1>2
      DEF LoopHold, Calm, At, Busy, Admitted, Guarded, Goto, Registers, CancelledPlaced,
          regVars, stopVars, dataVars
  <2>2. QED BY <2>1, CalmKeeps
<1>3. CASE LoopAdmit(t)
  <2>1. /\ pc' = [pc EXCEPT ![t] = "admitted"] /\ active' = [active EXCEPT ![acct[t]] = t]
        /\ UNCHANGED <<cancelled, pending, generation, leased>>
      BY <1>3 DEF LoopAdmit, Goto, stopVars, dataVars
  <2>2. At(Busy)' = At(Busy) /\ t \in At(Busy) /\ At(Admitted)' = At(Admitted) \cup {t}
      BY <1>1, <2>1 DEF At, Busy, Admitted, Guarded
  <2>3. RegistryPlaced'
    <3>1. \A u \in Tasks : active'[acct[u]] = u => u = t \/ active[acct[u]] = u
        BY <2>1, DispatcherAssumption
    <3>2. \A u \in Tasks : active'[acct[u]] = u => pc'[u] \in Admitted \cup {"lost"}
        BY <2>1, <3>1 DEF Registers, RegistryPlaced, Admitted
    <3>3. ASSUME generation = 0, NEW u \in At(Admitted)' PROVE active'[acct[u]] = u
      <4>1. CASE u = t BY <2>1, <4>1, DispatcherAssumption
      <4>2. CASE u # t
        <5>1. u \in At(Admitted) /\ u \in At(Busy) BY <2>2, <4>2 DEF At, Busy
        <5>2. acct[u] # acct[t]
            BY <2>2, <3>3, <4>2, <5>1 DEF Registers, OneTaskPerAccount
        <5>3. active[acct[u]] = u BY <3>3, <5>1 DEF Registers, RegistryPlaced
        <5>4. QED BY <2>1, <5>1, <5>2, <5>3, DispatcherAssumption DEF At
      <4>3. QED BY <4>1, <4>2
    <3>4. QED BY <2>1, <3>2, <3>3 DEF RegistryPlaced
  <2>4. CancelledPlaced'
      BY <2>1, <2>2 DEF Registers, CancelledPlaced, At, Admitted
  <2>5. BusyBacked' /\ BusyKnown' /\ OneTaskPerAccount'
      BY <2>1, <2>2 DEF Registers, BusyBacked, BusyKnown, OneTaskPerAccount
  <2>6. QED BY <2>3, <2>4, <2>5 DEF Registers
<1>4. CASE LoopDiscard(t) \/ LoopFails(t)
  <2>1. /\ pc' = [pc EXCEPT ![t] = "dropped"] /\ pending' = pending \ {acct[t]}
        /\ UNCHANGED <<cancelled, active, generation, leased>>
      BY <1>4 DEF LoopDiscard, LoopFails, Goto, Forget, stopVars, dataVars
  <2>2. At(Busy)' = At(Busy) \ {t} /\ t \in At(Busy) /\ At(Admitted)' = At(Admitted)
      BY <1>1, <2>1 DEF At, Busy, Admitted, Guarded, Ended
  <2>3. CancelledPlaced'
      BY <1>1, <2>1 DEF Registers, CancelledPlaced, At, Admitted, Guarded
  <2>4. RegistryPlaced'
      BY <1>1, <2>1, <2>2 DEF Registers, RegistryPlaced, Admitted, Guarded
  <2>5. BusyBacked' BY <2>1, <2>2 DEF Registers, BusyBacked
  <2>6. BusyKnown' /\ OneTaskPerAccount'
      BY <2>1, <2>2 DEF Registers, BusyKnown, OneTaskPerAccount
  <2>7. QED BY <2>3, <2>4, <2>5, <2>6 DEF Registers
<1>5. QED BY <1>2, <1>3, <1>4 DEF QueueLoop

LEMMA WorkerRegisters ==
    ASSUME TypeOK, Registers, NEW t \in Tasks, Worker(t)
    PROVE  Registers'
<1> USE DEF TypeOK, TaskTypes, RegistryTypes
<1>1. CASE Release(t)
  <2>1. /\ pc[t] = "closing" /\ pc' = [pc EXCEPT ![t] = "farewell"]
        /\ active' = [active EXCEPT ![acct[t]] = NoTask] /\ pending' = pending \ {acct[t]}
        /\ UNCHANGED <<cancelled, generation, leased>>
      BY <1>1 DEF Release, Goto, Forget, stopVars, dataVars
  <2>2. /\ At(Busy)' = At(Busy) \ {t} /\ t \in At(Busy)
        /\ At(Admitted)' = At(Admitted) \ {t} /\ At(Admitted) \subseteq At(Busy)
      BY <2>1 DEF At, Busy, Admitted, Guarded
  <2>3. CancelledPlaced'
      BY <2>1 DEF Registers, CancelledPlaced, At
  <2>4. RegistryPlaced'
    <3>1. \A u \in Tasks : active'[acct[u]] = u => u # t /\ active[acct[u]] = u
        BY <2>1, DispatcherAssumption
    <3>2. \A u \in Tasks : active'[acct[u]] = u => pc'[u] \in Admitted \cup {"lost"}
        BY <2>1, <3>1 DEF Registers, RegistryPlaced
    <3>3. ASSUME generation = 0, NEW u \in At(Admitted)' PROVE active'[acct[u]] = u
      <4>1. u \in At(Admitted) /\ u # t BY <2>2
      <4>2. acct[u] # acct[t]
          BY <2>2, <3>3, <4>1 DEF Registers, OneTaskPerAccount
      <4>3. QED
          BY <2>1, <3>3, <4>1, <4>2, DispatcherAssumption DEF Registers, RegistryPlaced, At
    <3>4. QED BY <2>1, <3>2, <3>3 DEF RegistryPlaced
  <2>5. BusyBacked' BY <2>1, <2>2 DEF Registers, BusyBacked
  <2>6. BusyKnown' /\ OneTaskPerAccount'
      BY <2>1, <2>2 DEF Registers, BusyKnown, OneTaskPerAccount
  <2>7. QED BY <2>3, <2>4, <2>5, <2>6 DEF Registers
<1>2. CASE WorkerDenied(t) \/ CancelUnguarded(t)
  <2>1. /\ pc[t] \in {"admitted", "closing"} /\ pc' = [pc EXCEPT ![t] = "lost"]
        /\ UNCHANGED <<active, pending, generation, leased>>
        /\ cancelled' \subseteq cancelled \ {t}
        /\ leased => t \in cancelled
      BY <1>2 DEF WorkerDenied, CancelUnguarded, Delivered, Goto, regVars, stopVars, dataVars
  <2>2. /\ At(Busy)' = At(Busy) \ {t}
        /\ At(Admitted)' = At(Admitted) \ {t}
        /\ At(Admitted \cup {"farewell"})' = At(Admitted \cup {"farewell"}) \ {t}
      BY <2>1 DEF At, Busy, Admitted, Guarded
  <2>3. CancelledPlaced' BY <2>1, <2>2 DEF Registers, CancelledPlaced
  <2>4. RegistryPlaced' BY <2>1, <2>2 DEF Registers, RegistryPlaced
  <2>5. BusyBacked' BY <2>1, <2>2 DEF Registers, BusyBacked
  <2>6. BusyKnown' /\ OneTaskPerAccount'
      BY <2>1, <2>2 DEF Registers, BusyKnown, OneTaskPerAccount
  <2>7. QED BY <2>3, <2>4, <2>5, <2>6 DEF Registers
<1>3. QED BY <1>1, <1>2, WorkerCalm, CalmKeeps DEF Registers

LEMMA OperatorRegisters ==
    ASSUME TypeOK, Registers, Operator \/ StopReturns \/ UNCHANGED vars
    PROVE  Registers'
<1> USE DEF TypeOK, TaskTypes, RegistryTypes
<1>1. ASSUME NEW t \in Tasks, SubmitBegin(t) PROVE Registers'
  <2>1. /\ pc[t] = "new" /\ pc' = [pc EXCEPT ![t] = "submitting"]
        /\ acct[t] \notin pending /\ pending' = pending \cup {acct[t]}
        /\ UNCHANGED <<cancelled, active, generation, leased>>
      BY <1>1 DEF SubmitBegin, Idle, Goto, stopVars
  <2>2. /\ At(Busy)' = At(Busy) \cup {t} /\ t \notin At(Busy)
        /\ At(Admitted)' = At(Admitted) /\ t \notin cancelled
        /\ At(Admitted \cup {"farewell"})' = At(Admitted \cup {"farewell"})
      BY <2>1 DEF At, Busy, Admitted, Guarded, Registers, CancelledPlaced
  <2>3. CancelledPlaced' BY <2>1, <2>2 DEF Registers, CancelledPlaced
  <2>4. RegistryPlaced'
      BY <2>1, <2>2 DEF Registers, RegistryPlaced, Admitted, Guarded
  <2>5. BusyBacked' BY <2>1, <2>2 DEF Registers, BusyBacked
  <2>6. BusyKnown' BY <2>1, <2>2 DEF Registers, BusyKnown
  <2>7. OneTaskPerAccount'
      BY <2>1, <2>2 DEF Registers, BusyKnown, OneTaskPerAccount
  <2>8. QED BY <2>3, <2>4, <2>5, <2>6, <2>7 DEF Registers
<1>2. CASE EmergencyStop
  <2>1. /\ generation' = generation + 1 /\ generation \in Nat /\ active' = active
        /\ pending' = {} /\ cancelled' = cancelled \cup Registered
        /\ pc' = [t \in Tasks |-> IF pc[t] = "queued" THEN "dropped" ELSE pc[t]]
      BY <1>2 DEF EmergencyStop, StopTypes
  <2>2. \A t \in Tasks : pc[t] \in Admitted \cup {"farewell", "lost"} => pc'[t] = pc[t]
      BY <2>1 DEF Admitted, Guarded
  <2>3. Registered \subseteq At(Admitted)
      BY DEF Registers, RegistryPlaced, Registered, Alive, Ended, At
  <2>4. CancelledPlaced' BY <2>1, <2>2, <2>3 DEF Registers, CancelledPlaced, At
  <2>5. RegistryPlaced' BY <2>1, <2>2 DEF Registers, RegistryPlaced
  <2>6. BusyBacked' /\ BusyKnown' /\ OneTaskPerAccount'
      BY <2>1 DEF BusyBacked, BusyKnown, OneTaskPerAccount
  <2>7. QED BY <2>4, <2>5, <2>6 DEF Registers
<1>3. CASE Restart
  <2>1. /\ At(Busy)' = {} /\ At(Admitted)' = {}
        /\ cancelled' = {} /\ pending' = {} /\ active' = [a \in Accounts |-> NoTask]
      BY <1>3 DEF Restart, At, Busy, Admitted, Guarded, Ended
  <2>2. \A t \in Tasks : active'[acct[t]] # t BY <2>1, DispatcherAssumption
  <2>3. QED
      BY <2>1, <2>2
      DEF Registers, CancelledPlaced, RegistryPlaced, BusyBacked, BusyKnown, OneTaskPerAccount
<1>4. QED BY <1>1, <1>2, <1>3, OperatorCalm, CalmKeeps DEF Registers

LEMMA RegistersInit == Init => Registers
<1> SUFFICES ASSUME Init PROVE Registers
    OBVIOUS
<1>1. At(Busy) = {} /\ At(Admitted) = {} /\ cancelled = {} /\ pending = {}
    BY DEF Init, At, Busy, Admitted, Guarded
<1>2. \A t \in Tasks : active[acct[t]] # t BY DispatcherAssumption DEF Init
<1>3. QED
    BY <1>1, <1>2
    DEF Registers, CancelledPlaced, RegistryPlaced, BusyBacked, BusyKnown, OneTaskPerAccount

LEMMA RegistersStep ==
    ASSUME TypeOK, QueueOwned, Registers, [Next]_vars
    PROVE  Registers'
BY QueueLoopRegisters, WorkerRegisters, OperatorRegisters DEF Next

-----------------------------------------------------------------------------
(* The counters, exactly.                                                  *)

\* Only a restart forgets the emergency stops and renews the lease.
LEMMA NoRenewal ==
    ASSUME TypeOK, Next \/ UNCHANGED vars, ~Restart
    PROVE  /\ generation' = 0 => generation = 0
           /\ leased' => leased
<1> USE DEF TypeOK, StopTypes, DataTypes
<1>1. ASSUME NEW t \in Tasks, QueueLoop(t) PROVE UNCHANGED <<generation, leased>>
    BY <1>1
    DEF QueueLoop, LoopHold, LoopAdmit, LoopDiscard, LoopFails, stopVars, dataVars
<1>2. ASSUME NEW t \in Tasks, Worker(t) PROVE UNCHANGED <<generation, leased>>
    BY <1>2
    DEF Worker, SubmitPut, Block, WorkerBegin, WorkerDenied, RouteRefused, TakeSlot,
        WaitForSlot, EnterStagger, WaitForLaunch, Launch, Launched, StepResumes,
        UseCaseSucceeds, RunFails, FailureTold, SoldStop, Reported, Release, Farewell,
        CancelUnguarded,
        CancelGuarded, CancelHandler, CancelSwallowed, CancelFarewell, stopVars, dataVars
<1>3. ASSUME Operator \/ StopReturns \/ UNCHANGED vars
      PROVE  (generation' = 0 => generation = 0) /\ (leased' => leased)
    BY <1>3
    DEF Operator, SubmitBegin, PauseGlobal, ResumeGlobal, PauseAccount, ResumeAccount,
        ArchiveAccount, SetLimit, EmergencyStop, LeaseExpires, StopReturns, stopVars,
        dataVars, vars
<1>4. QED BY <1>1, <1>2, <1>3 DEF Next

LEMMA PermitsExactInit == Init => PermitsExact
<1> SUFFICES ASSUME Init PROVE PermitsExact
    OBVIOUS
<1>1. At(Admitted) = {} BY DEF Init, At, Admitted, Guarded
<1>2. QED BY <1>1, FS_EmptySet DEF Init, PermitsExact

LEMMA PermitsExactStep ==
    ASSUME IndInv, CancelledPlaced, PermitsExact, [Next]_vars
    PROVE  PermitsExact'
<1> USE DEF IndInv, TypeOK, GateTypes, PermitsExact
<1>1. ASSUME Still, ~Restart PROVE PermitsExact'
    BY <1>1, NoRenewal DEF Still
<1>2. ASSUME NEW t \in Tasks, LoopAdmit(t) PROVE PermitsExact'
  <2>1. Cardinality(At(Admitted)') = Cardinality(At(Admitted)) + 1
      BY <1>2, AdmitCounts, AtFinite, FS_AddElement
  <2>2. generation' = generation /\ leased' = leased
      BY <1>2 DEF LoopAdmit, stopVars, dataVars
  <2>3. QED BY <1>2, <2>1, <2>2, AdmitCounts
<1>3. ASSUME NEW t \in Tasks, TakeSlot(t) PROVE PermitsExact'
    BY <1>3, TakeSlotCounts DEF TakeSlot, stopVars, dataVars
<1>4. ASSUME NEW t \in Tasks, Release(t) PROVE PermitsExact'
  <2>1. Cardinality(At(Admitted)') = Cardinality(At(Admitted)) - 1
      BY <1>4, ReleaseCounts, AtFinite, FS_RemoveElement
  <2>2. generation' = generation /\ leased' = leased
      BY <1>4 DEF Release, stopVars, dataVars
  <2>3. QED BY <1>4, <2>1, <2>2, ReleaseCounts
<1>5. ASSUME NEW t \in Tasks, WorkerDenied(t) \/ CancelUnguarded(t) PROVE PermitsExact'
    BY <1>5
    DEF WorkerDenied, CancelUnguarded, Delivered, CancelledPlaced, stopVars, dataVars
<1>6. CASE Restart BY <1>6, RestartCounts, FS_EmptySet
<1>7. ASSUME NEW l \in Limits, SetLimit(l) PROVE PermitsExact'
    BY <1>7, SetLimitCounts DEF SetLimit, stopVars, dataVars
<1>8. CASE ~Restart
    BY <1>1, <1>2, <1>3, <1>4, <1>5, <1>7, <1>8, QueueLoopStill, WorkerStill, OperatorStill,
       StutterStill
    DEF Next, QueueLoop
<1>9. QED BY <1>6, <1>8

\* The workers a slot counts.
LEMMA HoldersFinite ==
    ASSUME TypeOK, NEW k \in Slots
    PROVE  LET H == {t \in holding : Key(t) = k} IN IsFiniteSet(H) /\ Cardinality(H) \in Nat
<1>1. {t \in holding : Key(t) = k} \subseteq Tasks BY DEF TypeOK, TaskTypes
<1>2. QED BY <1>1, DispatcherAssumption, FS_Subset, FS_CardinalityType

LEMMA SlotsExactStep ==
    ASSUME IndInv, SlotsExact, [Next]_vars
    PROVE  SlotsExact'
<1> DEFINE H(k) == {t \in holding : Key(t) = k}
<1> USE DEF IndInv, TypeOK, GateTypes
<1>1. ASSUME holding' = holding, slots' = slots PROVE SlotsExact'
    BY <1>1 DEF SlotsExact, Key
<1>2. ASSUME NEW t \in Tasks, TakeSlot(t) PROVE SlotsExact'
  <2> SUFFICES ASSUME NEW k \in Slots PROVE slots'[k] = Cardinality(H(k)')
      BY DEF SlotsExact
  <2>1. IsFiniteSet(H(k)) /\ slots[k] = Cardinality(H(k)) BY HoldersFinite DEF SlotsExact
  <2>2. CASE k = Key(t)
    <3>1. H(k)' = H(k) \cup {t} /\ t \notin H(k)
        BY <1>2, <2>2, TakeSlotCounts DEF Key
    <3>2. Cardinality(H(k)') = Cardinality(H(k)) + 1 BY <2>1, <3>1, FS_AddElement
    <3>3. QED BY <1>2, <2>1, <2>2, <3>2, TakeSlotCounts
  <2>3. CASE k # Key(t)
    <3>1. H(k)' = H(k) BY <1>2, <2>3, TakeSlotCounts DEF Key
    <3>2. QED BY <1>2, <2>1, <2>3, <3>1, TakeSlotCounts
  <2>4. QED BY <2>2, <2>3
<1>3. ASSUME NEW t \in Tasks, Release(t) PROVE SlotsExact'
  <2>1. CASE t \notin holding
    <3>1. holding' = holding /\ slots' = slots BY <1>3, <2>1, ReleaseCounts
    <3>2. QED BY <1>1, <3>1
  <2>2. CASE t \in holding
    <3> SUFFICES ASSUME NEW k \in Slots PROVE slots'[k] = Cardinality(H(k)')
        BY DEF SlotsExact
    <3>1. IsFiniteSet(H(k)) /\ slots[k] = Cardinality(H(k)) BY HoldersFinite DEF SlotsExact
    <3>2. CASE k = Key(t)
      <4>1. t \in H(k) /\ H(k)' = H(k) \ {t}
          BY <1>3, <2>2, <3>2, ReleaseCounts DEF Key
      <4>2. Cardinality(H(k)') = Cardinality(H(k)) - 1 BY <3>1, <4>1, FS_RemoveElement
      <4>3. Cardinality(H(k)') \in Nat BY <3>1, <4>1, FS_RemoveElement, FS_CardinalityType
      <4>4. slots'[k] = IF slots[k] = 0 THEN 0 ELSE slots[k] - 1
          BY <1>3, <2>2, <3>2, ReleaseCounts
      <4>5. QED BY <3>1, <4>2, <4>3, <4>4
    <3>3. CASE k # Key(t)
      <4>1. H(k)' = H(k) BY <1>3, <2>2, <3>3, ReleaseCounts DEF Key
      <4>2. QED BY <1>3, <2>2, <3>1, <3>3, <4>1, ReleaseCounts
    <3>4. QED BY <3>2, <3>3
  <2>3. QED BY <2>1, <2>2
<1>4. CASE Restart
  <2>1. \A k \in Slots : H(k)' = {} /\ slots'[k] = 0 BY <1>4, RestartCounts
  <2>2. QED BY <2>1, FS_EmptySet DEF SlotsExact
<1>5. QED
    BY <1>1, <1>2, <1>3, <1>4, AdmitCounts, LostCounts, SetLimitCounts, QueueLoopStill,
       WorkerStill, OperatorStill, StutterStill
    DEF Next, QueueLoop, Still

-----------------------------------------------------------------------------
(* The status column.                                                      *)

\* A step of the only busy task of an account, which writes only that account's status.
LEMMA StatusStepsAlone ==
    ASSUME TypeOK, StatusFollows, NEW t \in Tasks,
           generation' = 0 => generation = 0, leased' => leased,
           archived' = archived, opened \subseteq opened',
           \A u \in Tasks : u # t => pc'[u] = pc[u],
           \A a \in Accounts : a # acct[t] => status'[a] = status[a],
           generation' = 0 => \A u \in At(Busy) : u # t => acct[u] # acct[t],
           generation' = 0 /\ acct[t] \notin archived =>
               IF pc'[t] \in Busy THEN StatusTold(t)' ELSE StatusIdle(acct[t])'
    PROVE  StatusFollows'
<1> SUFFICES ASSUME generation' = 0
             PROVE  /\ \A u \in At(Busy)' : acct[u] \notin archived => StatusTold(u)'
                    /\ \A a \in Accounts \ archived :
                          (\A u \in At(Busy)' : acct[u] # a) => StatusIdle(a)'
    BY DEF StatusFollows
<1> USE DispatcherAssumption
<1>1. ASSUME NEW u \in At(Busy)', acct[u] \notin archived PROVE StatusTold(u)'
  <2>1. CASE u = t BY <1>1, <2>1 DEF At
  <2>2. CASE u # t
    <3>1. u \in At(Busy) /\ pc'[u] = pc[u] BY <1>1, <2>2 DEF At
    <3>2. status'[acct[u]] = status[acct[u]] BY <2>2, <3>1 DEF At
    <3>3. StatusTold(u) BY <1>1, <3>1 DEF StatusFollows
    <3>4. QED BY <3>1, <3>2, <3>3 DEF StatusTold
  <2>3. QED BY <2>1, <2>2
<1>2. ASSUME NEW a \in Accounts \ archived, \A u \in At(Busy)' : acct[u] # a
      PROVE  StatusIdle(a)'
  <2>1. CASE a = acct[t]
    <3>1. pc'[t] \notin Busy BY <1>2, <2>1 DEF At
    <3>2. QED BY <1>2, <2>1, <3>1
  <2>2. CASE a # acct[t]
    <3>1. \A u \in At(Busy) : acct[u] # a BY <1>2, <2>2 DEF At
    <3>2. StatusIdle(a) BY <1>2, <3>1 DEF StatusFollows
    <3>3. QED BY <1>2, <2>2, <3>2 DEF StatusIdle
  <2>3. QED BY <2>1, <2>2
<1>3. QED BY <1>1, <1>2

\* A step that moves no busy task and writes no status.
LEMMA StatusKept ==
    ASSUME TypeOK, StatusFollows,
           generation' = 0 => generation = 0, leased' => leased,
           archived \subseteq archived', opened' = opened, status' = status,
           At(Busy)' = At(Busy), \A u \in At(Busy) : pc'[u] = pc[u]
    PROVE  StatusFollows'
BY DEF StatusFollows, StatusTold, StatusIdle

LEMMA QueueLoopStatus ==
    ASSUME IndInv, Registers, StatusFollows, NEW t \in Tasks, QueueLoop(t)
    PROVE  StatusFollows'
<1> USE DEF IndInv
<1>1. /\ pc[t] \in {"queued", "held"} /\ \A u \in Tasks : u # t => pc'[u] = pc[u]
    BY QueueLoopFramed, ServingPlaced DEF QueueLoopFrame
<1>2. /\ UNCHANGED <<generation, leased, archived, opened, status>>
      /\ pc'[t] \in {"held", "admitted"} \/ AvatarMayFail \/ loopGen # generation
    BY DEF QueueLoop, LoopHold, LoopAdmit, LoopDiscard, LoopFails, Fenced, Goto, TypeOK,
           TaskTypes, stopVars, dataVars
<1>3. t \in At(Busy) BY <1>1 DEF At, Busy
<1>4. generation = 0 => \A u \in At(Busy) : u # t => acct[u] # acct[t]
    BY <1>3 DEF Registers, OneTaskPerAccount
<1>5. generation = 0 /\ acct[t] \notin archived => status[acct[t]] = "QUEUED"
    BY <1>1, <1>3 DEF StatusFollows, StatusTold, Busy
<1>6. generation = 0 => loopGen = generation
    BY DEF QueueFenced, TypeOK, LoopTypes
<1>7. pc'[t] \in {"held", "admitted", "dropped"}
    BY DEF QueueLoop, LoopHold, LoopAdmit, LoopDiscard, LoopFails, Goto, TypeOK, TaskTypes
<1>8. generation' = 0 /\ acct[t] \notin archived =>
          IF pc'[t] \in Busy THEN StatusTold(t)' ELSE StatusIdle(acct[t])'
    BY <1>2, <1>5, <1>6, <1>7 DEF StatusTold, StatusIdle, Busy, Admitted
<1>9. QED BY <1>1, <1>2, <1>4, <1>8, StatusStepsAlone

LEMMA WorkerStatus ==
    ASSUME IndInv, Registers, StatusFollows, NEW t \in Tasks, Worker(t)
    PROVE  StatusFollows'
<1> DEFINE After == generation' = 0 /\ acct[t] \notin archived =>
                        IF pc'[t] \in Busy THEN StatusTold(t)' ELSE StatusIdle(acct[t])'
<1> USE DispatcherAssumption DEF IndInv
<1>1. UNCHANGED <<generation, leased, archived>>
    BY DEF Worker, SubmitPut, Block, WorkerBegin, WorkerDenied, RouteRefused, TakeSlot,
           WaitForSlot, EnterStagger, WaitForLaunch, Launch, Launched, StepResumes,
           UseCaseSucceeds, RunFails, FailureTold, SoldStop, Reported, Release, Farewell,
           CancelUnguarded,
           CancelGuarded, CancelHandler, CancelSwallowed, CancelFarewell, stopVars, dataVars
<1>2. ASSUME pc[t] = "farewell" PROVE StatusFollows'
  <2>1. Block(t) \/ Farewell(t) \/ CancelFarewell(t)
      BY <1>2
      DEF Worker, SubmitPut, WorkerBegin, WorkerDenied, RouteRefused, TakeSlot,
          WaitForSlot, EnterStagger, WaitForLaunch, Launch, Launched, StepResumes,
          UseCaseSucceeds, RunFails, FailureTold, SoldStop, Reported, Release, CancelUnguarded,
          CancelGuarded, CancelHandler, CancelSwallowed, Guarded
  <2>2. /\ opened' = opened /\ status' = status
        /\ pc' = pc \/ pc' = [pc EXCEPT ![t] = "done"]
      BY <2>1 DEF Block, Farewell, CancelFarewell, Goto, dataVars
  <2>3. At(Busy)' = At(Busy) /\ \A u \in At(Busy) : pc'[u] = pc[u]
      BY <1>2, <2>2 DEF At, Busy, Admitted, Guarded, TypeOK, TaskTypes
  <2>4. QED BY <1>1, <2>2, <2>3, StatusKept
<1>3. ASSUME pc[t] # "farewell" PROVE StatusFollows'
  <2>1. t \in At(Busy)
      BY <1>3
      DEF Worker, SubmitPut, Block, WorkerBegin, WorkerDenied, RouteRefused, TakeSlot,
          WaitForSlot, EnterStagger, WaitForLaunch, Launch, Launched, StepResumes,
          UseCaseSucceeds, RunFails, FailureTold, SoldStop, Reported, Release, Farewell,
          CancelUnguarded,
          CancelGuarded, CancelHandler, CancelSwallowed, CancelFarewell, At, Busy,
          Admitted, Guarded
  <2>2. generation = 0 => \A u \in At(Busy) : u # t => acct[u] # acct[t]
      BY <2>1 DEF Registers, OneTaskPerAccount
  <2>3. \A u \in Tasks : u # t => pc'[u] = pc[u]
      BY WorkerFramed DEF WorkerFrame, SubmitPut, Goto, TypeOK, TaskTypes
  <2>4. generation = 0 /\ acct[t] \notin archived => StatusTold(t)
      BY <2>1 DEF StatusFollows
  <2>5. generation = 0 => t \notin cancelled BY DEF Registers, CancelledPlaced
  <2>6. /\ opened \subseteq opened'
        /\ \A a \in Accounts : a # acct[t] => status'[a] = status[a]
      BY DEF Worker, SubmitPut, Block, WorkerBegin, WorkerDenied, RouteRefused, TakeSlot,
             WaitForSlot, EnterStagger, WaitForLaunch, Launch, Launched, StepResumes,
             UseCaseSucceeds, RunFails, FailureTold, SoldStop, Reported, Release, Farewell,
             CancelUnguarded, CancelGuarded, CancelHandler, CancelSwallowed,
             CancelFarewell, SetStatus,
             TypeOK, DataTypes, dataVars
  <2> USE <1>1, <2>1, <2>4, <2>5
      DEF TypeOK, TaskTypes, DataTypes, StatusTold, StatusIdle, Busy, Admitted, Guarded, Goto,
          SetStatus, dataVars
  <2>7. CASE SubmitPut(t) \/ Block(t) \/ StepResumes(t) \/ CancelSwallowed(t)
    <3>1. /\ status' = status /\ opened' = opened
          /\ pc' = pc \/ (pc[t] = "submitting" /\ pc' = [pc EXCEPT ![t] = "queued"])
        BY <2>7 DEF SubmitPut, Block, StepResumes, CancelSwallowed
    <3>2. After BY <3>1 DEF At
    <3>3. QED BY <1>1, <2>2, <2>3, <2>6, <3>2, StatusStepsAlone
  <2>8. CASE WorkerBegin(t) \/ WorkerDenied(t)
    <3>1. After BY <2>8 DEF WorkerBegin, WorkerDenied
    <3>2. QED BY <1>1, <2>2, <2>3, <2>6, <3>1, StatusStepsAlone
  <2>9. CASE RouteRefused(t) \/ TakeSlot(t) \/ WaitForSlot(t)
    <3>1. After BY <2>9 DEF RouteRefused, TakeSlot, WaitForSlot
    <3>2. QED BY <1>1, <2>2, <2>3, <2>6, <3>1, StatusStepsAlone
  <2>10. CASE EnterStagger(t) \/ WaitForLaunch(t)
    <3>1. After BY <2>10 DEF EnterStagger, WaitForLaunch
    <3>2. QED BY <1>1, <2>2, <2>3, <2>6, <3>1, StatusStepsAlone
  <2>11. CASE Launch(t) \/ Launched(t)
    <3>1. After BY <2>11 DEF Launch, Launched
    <3>2. QED BY <1>1, <2>2, <2>3, <2>6, <3>1, StatusStepsAlone
  <2>12. CASE \/ UseCaseSucceeds(t) \/ RunFails(t) \/ FailureTold(t)
          \/ SoldStop(t) \/ Reported(t)
    <3>1. After BY <2>12 DEF UseCaseSucceeds, RunFails, FailureTold, SoldStop, Reported
    <3>2. QED BY <1>1, <2>2, <2>3, <2>6, <3>1, StatusStepsAlone
  <2>13. CASE Release(t)
    <3>1. After BY <2>13 DEF Release
    <3>2. QED BY <1>1, <2>2, <2>3, <2>6, <3>1, StatusStepsAlone
  <2>14. CASE CancelUnguarded(t) \/ CancelGuarded(t) \/ CancelHandler(t)
    <3>1. After BY <2>14 DEF CancelUnguarded, CancelGuarded, CancelHandler, Delivered
    <3>2. QED BY <1>1, <2>2, <2>3, <2>6, <3>1, StatusStepsAlone
  <2>15. ~Farewell(t) /\ ~CancelFarewell(t) BY <1>3 DEF Farewell, CancelFarewell
  <2>16. QED
      BY <2>7, <2>8, <2>9, <2>10, <2>11, <2>12, <2>13, <2>14, <2>15 DEF Worker
<1>4. QED BY <1>2, <1>3

LEMMA OperatorStatus ==
    ASSUME TypeOK, Registers, StatusFollows, Operator \/ StopReturns \/ UNCHANGED vars
    PROVE  StatusFollows'
<1>1. ASSUME NEW t \in Tasks, SubmitBegin(t) PROVE StatusFollows'
  <2>1. /\ pc[t] = "new" /\ pc' = [pc EXCEPT ![t] = "submitting"] /\ acct[t] \notin pending
        /\ status' = [status EXCEPT ![acct[t]] = "QUEUED"]
        /\ UNCHANGED <<generation, leased, archived, opened>>
      BY <1>1 DEF SubmitBegin, Idle, Goto, SetStatus, stopVars
  <2>2. generation = 0 => \A u \in At(Busy) : u # t => acct[u] # acct[t]
      BY <2>1 DEF Registers, BusyKnown
  <2>3. pc'[t] = "submitting" /\ status'[acct[t]] = "QUEUED"
      BY <2>1, DispatcherAssumption DEF TypeOK, TaskTypes, DataTypes
  <2>4. \A u \in Tasks : u # t => pc'[u] = pc[u] BY <2>1 DEF TypeOK, TaskTypes
  <2>5. \A a \in Accounts : a # acct[t] => status'[a] = status[a]
      BY <2>1 DEF TypeOK, DataTypes
  <2>6. pc'[t] \in Busy /\ StatusTold(t)'
      BY <2>3 DEF StatusTold, Busy
  <2>7. QED BY <2>1, <2>2, <2>4, <2>5, <2>6, StatusStepsAlone
<1>2. CASE EmergencyStop
    BY <1>2 DEF EmergencyStop, StatusFollows, TypeOK, StopTypes
<1>3. CASE Restart
  <2>1. At(Busy)' = {} BY <1>3 DEF Restart, At, Busy, Admitted, Guarded, Ended
  <2>2. \A a \in Accounts : status'[a] \notin {"RUNNING", "QUEUED"}
      BY <1>3 DEF Restart, Recovered
  <2>3. QED BY <2>1, <2>2 DEF StatusFollows, StatusIdle
<1>4. ASSUME Operator \/ StopReturns \/ UNCHANGED vars,
             ~Restart, ~EmergencyStop, \A t \in Tasks : ~SubmitBegin(t)
      PROVE  StatusFollows'
  <2>1. /\ UNCHANGED <<pc, opened, status, generation>> /\ archived \subseteq archived'
        /\ leased' => leased
      BY <1>4
      DEF Operator, PauseGlobal, ResumeGlobal, PauseAccount, ResumeAccount, ArchiveAccount,
          SetLimit, LeaseExpires, StopReturns, taskVars, stopVars, dataVars, vars,
          TypeOK, DataTypes
  <2>2. At(Busy)' = At(Busy) BY <2>1 DEF At
  <2>3. QED BY <2>1, <2>2, StatusKept
<1>5. QED BY <1>1, <1>2, <1>3, <1>4

-----------------------------------------------------------------------------
(* The theorems about the books.                                           *)

LEMMA BooksInit == Init => BooksInv
<1> SUFFICES ASSUME Init PROVE BooksInv
    OBVIOUS
<1>1. Registers BY RegistersInit
<1>2. SlotsExact
  <2>1. \A k \in Slots : slots[k] = 0 /\ {t \in holding : Key(t) = k} = {} BY DEF Init
  <2>2. QED BY <2>1, FS_EmptySet DEF SlotsExact
<1>3. StatusFollows BY DEF Init, StatusFollows, StatusIdle, At, Busy, Admitted, Guarded
<1>4. QED BY <1>1, <1>2, <1>3, PermitsExactInit DEF BooksInv, Registers, CountersExact

LEMMA BooksStep ==
    ASSUME IndInv, BooksInv, [Next]_vars
    PROVE  BooksInv'
<1>1. Registers /\ PermitsExact /\ SlotsExact /\ StatusFollows
    BY DEF BooksInv, Registers, CountersExact
<1>2. Registers' BY <1>1, RegistersStep DEF IndInv
<1>3. PermitsExact' /\ SlotsExact'
    BY <1>1, PermitsExactStep, SlotsExactStep DEF Registers
<1>4. StatusFollows'
    BY <1>1, QueueLoopStatus, WorkerStatus, OperatorStatus DEF IndInv, Next
<1>5. QED BY <1>2, <1>3, <1>4 DEF BooksInv, Registers, CountersExact

\* The account's books stay right: who is busy, which worker a stop would find, what the
\* gate and the slots count, what the status column says.
THEOREM Books == Spec => []BooksInv
<1>1. QED BY BooksInit, BooksStep, Invariance, PTL DEF Spec

\* _DynamicConcurrencyGate and the slot counters count their holders exactly: the slots
\* always, the gate until the first emergency stop or lease denial.
THEOREM CountersStayExact == Spec => []CountersExact
<1>1. BooksInv => CountersExact BY DEF BooksInv
<1>2. QED BY <1>1, Books, PTL

\* submit_task and _pending_accounts: until the first emergency stop no account has two tasks
\* between its submission and the end of its cleanup.
THEOREM NoSecondTask == Spec => []OneTaskPerAccount
<1>1. BooksInv => OneTaskPerAccount BY DEF BooksInv
<1>2. QED BY <1>1, Books, PTL

\* While the lease is valid an account that is_account_busy reports has a task that has
\* not ended, through every discard, failed payload and emergency stop.
THEOREM BusyAccountsLive == Spec => []BusyIsLive
<1>1. BooksInv => BusyIsLive
  <2> SUFFICES ASSUME BooksInv, leased, NEW a \in pending
               PROVE  a \in {acct[t] : t \in At(Busy)}
      BY DEF BusyIsLive
  <2>1. PICK t \in At(Busy) : acct[t] = a BY DEF BooksInv, BusyBacked
  <2>2. QED BY <2>1
<1>2. QED BY <1>1, Books, PTL

\* Until the first emergency stop the status column is true: RUNNING only while a browser of the
\* account runs, QUEUED only while one of its tasks waits for its own.
THEOREM StatusIsTrue == Spec => []StatusTruthful
<1>1. BooksInv => StatusTruthful
  <2> SUFFICES ASSUME BooksInv, generation = 0, NEW a \in Accounts \ archived
               PROVE  /\ status[a] = "RUNNING" => \E t \in Browsing : acct[t] = a
                      /\ status[a] = "QUEUED" /\ leased /\ ~AvatarMayFail
                             => \E t \in At(Busy) \ Browsing : acct[t] = a
      BY DEF StatusTruthful
  <2>1. CASE \A t \in At(Busy) : acct[t] # a
      BY <2>1 DEF BooksInv, StatusFollows, StatusIdle
  <2>2. ASSUME NEW t \in At(Busy), acct[t] = a
        PROVE  /\ status[a] = "RUNNING" => t \in Browsing
               /\ status[a] = "QUEUED" => t \notin Browsing
    <3>1. StatusTold(t) /\ pc[t] \in Busy BY <2>2 DEF BooksInv, StatusFollows, At
    <3>2. QED BY <2>2, <3>1 DEF StatusTold, Browsing
  <2>3. QED BY <2>1, <2>2
<1>2. QED BY <1>1, Books, PTL

\* The first emergency_stop_all cancels every worker that has not ended its cleanup.
THEOREM StopFindsWorkers == Spec => FirstStopReaches
<1>1. BooksInv /\ IndInv /\ [Next]_vars =>
          [generation = 0 /\ generation' > generation => At(Admitted) \subseteq cancelled']_vars
  <2> SUFFICES ASSUME BooksInv, IndInv, Next, generation = 0, generation' > generation,
                      NEW t \in At(Admitted)
               PROVE  t \in cancelled'
      OBVIOUS
  <2>1. EmergencyStop
    <3>1. \A u \in Tasks : ~QueueLoop(u) /\ ~Worker(u)
        BY DEF QueueLoop, LoopHold, LoopAdmit, LoopDiscard, LoopFails,
               Worker, SubmitPut, Block, WorkerBegin, WorkerDenied, RouteRefused, TakeSlot,
               WaitForSlot, EnterStagger, WaitForLaunch, Launch, Launched, StepResumes,
               UseCaseSucceeds, RunFails, FailureTold, SoldStop, Reported, Release, Farewell,
               CancelUnguarded, CancelGuarded, CancelHandler, CancelSwallowed,
               CancelFarewell, stopVars
    <3>2. QED
        BY <3>1
        DEF Next, Operator, SubmitBegin, PauseGlobal, ResumeGlobal, PauseAccount,
            ResumeAccount, ArchiveAccount, SetLimit, LeaseExpires, Restart, StopReturns, stopVars
  <2>2. active[acct[t]] = t BY DEF BooksInv, RegistryPlaced
  <2>3. t \in Registered BY <2>2 DEF Registered, Alive, At, Admitted, Guarded, Ended
  <2>4. QED BY <2>1, <2>3 DEF EmergencyStop
<1>2. QED BY <1>1, Books, Invariance, PTL DEF Spec, FirstStopReaches

=============================================================================
