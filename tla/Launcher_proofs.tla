--------------------------- MODULE Launcher_proofs ---------------------------
(***************************************************************************)
(* Machine-checked proofs about Launcher, for any number of concurrent     *)
(* flows, versions and restarts and any life of the leases.                *)
(***************************************************************************)
EXTENDS Launcher, TLAPS

\* What a step of the page does to the bookkeeping of the agents.
LEMMA EndTyped ==
    ASSUME TypeOK, NEW f \in Flows, NEW p \in {"activation", "ready", "error", phase},
           End(f, p), latest' = latest
    PROVE  /\ pc' \in [Agents -> Steps] /\ job' \in [Agents -> Jobs]
           /\ after' \in [Agents -> Steps]
           /\ got' \in [Agents -> Nat \cup {Never}]
           /\ ver' \in [Agents -> 0 .. latest']
           /\ todo' \in [Agents -> SUBSET (0 .. latest')]
           /\ phase' \in {"opening", "loading", "activation", "ready", "error"}
<1>1. latest \in Nat BY LauncherAssumption DEF TypeOK
<1>2. QED BY <1>1 DEF End, Go, TypeOK, Agents, Steps, Jobs, Never, None

LEMMA FailsTyped ==
    ASSUME TypeOK, NEW f \in Flows, Fails(f), latest' = latest
    PROVE  /\ pc' \in [Agents -> Steps] /\ job' \in [Agents -> Jobs]
           /\ after' \in [Agents -> Steps]
           /\ got' \in [Agents -> Nat \cup {Never}]
           /\ ver' \in [Agents -> 0 .. latest']
           /\ todo' \in [Agents -> SUBSET (0 .. latest')]
           /\ phase' \in {"opening", "loading", "activation", "ready", "error"}
BY EndTyped DEF Fails

-----------------------------------------------------------------------------
(* Types.                                                                  *)

LEMMA TypeInit == Init => TypeOK
BY LauncherAssumption DEF Init, TypeOK, Never, None, Steps, Jobs, NoBackend, Backends

\* Backends that end, and those that read the lease.
LEMMA BackendTyped ==
    ASSUME TypeOK, NEW b \in Backends
    PROVE  NoBackend \in Backends /\ Exited(b) \in Backends /\ Begun(b) \in Backends
<1>1. None \in 0 .. MaxVersion /\ Never \in Nat \cup {Never}
    BY LauncherAssumption DEF None
<1>2. NoBackend \in Backends BY <1>1 DEF NoBackend, Backends
<1>3. Exited(b) \in Backends BY <1>1 DEF Exited, Backends
<1>4. lease \in Nat \cup {Never} BY DEF TypeOK
<1>5. Begun(b) \in Backends BY <1>3, <1>4 DEF Begun, Backends
<1>6. QED BY <1>2, <1>3, <1>5

LEMMA PurgedTyped ==
    ASSUME TypeOK, NEW a \in Agents, Purged(a)
    PROVE  pc' \in [Agents -> Steps] /\ after' \in [Agents -> Steps]
<1>1. after[a] \in Steps /\ "idle" \in Steps BY DEF TypeOK, Steps
<1>2. QED BY <1>1 DEF Purged, Go, TypeOK

LEMMA CleanTyped ==
    ASSUME TypeOK, NEW a \in Agents, Clean(a)
    PROVE  TypeOK'
<1> USE DEF At, Go, serverVars, fileVars, childVars
<1>1. latest \in Nat /\ None = 0 BY LauncherAssumption DEF TypeOK, None
<1>2. CASE Stop(a)
  <2>1. NoBackend \in Backends BY BackendTyped DEF TypeOK
  <2>2. QED BY <1>2, <2>1 DEF Stop, TypeOK, Steps
<1>3. CASE ReadDir(a)
  <2>1. PurgeList \in SUBSET (0 .. latest) BY <1>1 DEF PurgeList, TypeOK
  <2>2. todo' \in [Agents -> SUBSET (0 .. latest)] BY <1>3, <2>1 DEF ReadDir, TypeOK
  <2>3. pc' \in [Agents -> Steps] /\ after' \in [Agents -> Steps]
    <3>1. CASE Purged(a) BY <3>1, PurgedTyped
    <3>2. CASE ~Purged(a) BY <1>3, <3>2 DEF ReadDir, TypeOK, Steps
    <3>3. QED BY <3>1, <3>2
  <2>4. QED BY <1>3, <2>2, <2>3 DEF ReadDir, TypeOK
<1>4. CASE PurgeFile(a)
  <2>1. pointer' \in 0 .. latest /\ exes' \subseteq 0 .. latest
      BY <1>1, <1>4 DEF PurgeFile, TypeOK
  <2>2. todo' \in [Agents -> SUBSET (0 .. latest)]
      BY <1>4 DEF PurgeFile, TypeOK
  <2>3. pc' \in [Agents -> Steps] /\ after' \in [Agents -> Steps]
    <3>1. CASE Purged(a) BY <3>1, PurgedTyped
    <3>2. CASE ~Purged(a) BY <1>4, <3>2 DEF PurgeFile, TypeOK
    <3>3. QED BY <3>1, <3>2
  <2>4. QED BY <1>4, <2>1, <2>2, <2>3 DEF PurgeFile, TypeOK
<1>5. QED BY <1>2, <1>3, <1>4 DEF Clean

LEMMA TypeChain ==
    ASSUME TypeOK, NEW f \in Flows, Chain(f)
    PROVE  TypeOK'
<1> USE DEF At, Go, Keep, StopThen, serverVars, fileVars, childVars, agentVars
<1>1. f \in Agents BY DEF Agents
<1>2. latest \in Nat /\ Never = -1 /\ None = 0 BY LauncherAssumption DEF TypeOK, Never, None
<1>3. CASE Renew(f) BY <1>1, <1>3 DEF Renew, TypeOK, Steps
<1>4. CASE ServerGrants(f)
  <2>1. clock + LeaseTtl \in Nat BY LauncherAssumption DEF TypeOK
  <2>2. QED BY <1>1, <1>4, <2>1 DEF ServerGrants, TypeOK, Steps
<1>5. CASE RequestFails(f)
  <2>1. CASE Fails(f) BY <1>5, <2>1, FailsTyped DEF RequestFails, TypeOK
  <2>2. CASE ~Fails(f) BY <1>1, <1>5, <2>2 DEF RequestFails, TypeOK, Steps
  <2>3. QED BY <2>1, <2>2
<1>6. CASE RenewalDenied(f) BY <1>1, <1>6 DEF RenewalDenied, TypeOK, Steps
<1>7. CASE RemoveOldLease(f) BY <1>1, <1>7 DEF RemoveOldLease, TypeOK, Steps
<1>8. CASE WriteLease(f) BY <1>1, <1>8 DEF WriteLease, TypeOK, Steps
<1>9. CASE WriteFails(f)
  <2>1. CASE Fails(f) BY <1>9, <2>1, FailsTyped DEF WriteFails, TypeOK
  <2>2. CASE ~Fails(f) BY <1>1, <1>9, <2>2 DEF WriteFails, TypeOK, Steps
  <2>3. QED BY <2>1, <2>2
<1>10. CASE Recheck(f)
  <2>1. job' \in [Agents -> Jobs] BY <1>1, <1>10 DEF Recheck, TypeOK, Jobs
  <2>2. pc' \in [Agents -> Steps] /\ after' \in [Agents -> Steps]
      BY <1>1, <1>10 DEF Recheck, TypeOK, Steps
  <2>3. QED BY <1>10, <2>1, <2>2 DEF Recheck, TypeOK
<1>11. CASE Check(f)
  <2>1. CASE End(f, phase) BY <1>11, <2>1, EndTyped DEF Check, TypeOK
  <2>2. CASE ~End(f, phase) BY <1>1, <1>11, <2>2 DEF Check, TypeOK, Steps
  <2>3. QED BY <2>1, <2>2
<1>12. CASE Unlicensed(f) BY <1>12, EndTyped DEF Unlicensed, TypeOK
<1>13. CASE RemoveLease(f)
  <2>1. CASE Fails(f) BY <1>13, <2>1, FailsTyped DEF RemoveLease, TypeOK
  <2>2. CASE ~Fails(f) BY <1>1, <1>13, <2>2 DEF RemoveLease, TypeOK, Steps
  <2>3. QED BY <2>1, <2>2
<1>14. Installed \in 0 .. latest BY <1>2 DEF Installed, TypeOK
<1>15. CASE AskUpdate(f)
  <2>1. CASE LeaseReadable BY <1>1, <1>14, <1>15, <2>1 DEF AskUpdate, TypeOK, Steps
  <2>2. CASE ~LeaseReadable BY <1>15, <2>2, FailsTyped DEF AskUpdate, TypeOK
  <2>3. QED BY <2>1, <2>2
<1>16. CASE UpdateOffered(f) BY <1>1, <1>2, <1>16 DEF UpdateOffered, TypeOK, Steps
<1>17. CASE UpdateDenied(f) BY <1>1, <1>17 DEF UpdateDenied, TypeOK, Steps
<1>18. CASE UpdateFails(f) BY <1>18, FailsTyped DEF UpdateFails, TypeOK
<1>19. ver[f] \in 0 .. latest BY <1>1 DEF TypeOK
<1>20. CASE Download(f) BY <1>1, <1>19, <1>20 DEF Download, TypeOK, Steps
<1>21. CASE RemoveOldPointer(f) BY <1>1, <1>2, <1>21 DEF RemoveOldPointer, TypeOK, Steps
<1>22. CASE WritePointer(f) BY <1>1, <1>19, <1>22 DEF WritePointer, TypeOK, Steps
<1>23. CASE Verify(f)
  <2>1. CASE LeaseReadable /\ Installed # None
      BY <1>1, <1>14, <1>23, <2>1 DEF Verify, TypeOK, Steps
  <2>2. CASE ~(LeaseReadable /\ Installed # None) BY <1>23, <2>2, FailsTyped DEF Verify, TypeOK
  <2>3. QED BY <2>1, <2>2
<1>24. CASE Spawn(f)
  <2>1. child' \in Backends
    <3>1. ver[f] \in 0 .. MaxVersion BY <1>2, <1>19, LauncherAssumption DEF TypeOK
    <3>2. QED BY <1>24, <3>1 DEF Spawn, TypeOK, Backends
  <2>2. CASE Fails(f) BY <1>24, <2>1, <2>2, FailsTyped DEF Spawn, TypeOK
  <2>3. CASE End(f, "ready") BY <1>24, <2>1, <2>3, EndTyped DEF Spawn, TypeOK
  <2>4. CASE ~Fails(f) /\ ~End(f, "ready")
      BY <1>1, <1>24, <2>1, <2>4 DEF Spawn, TypeOK, Steps
  <2>5. QED BY <2>2, <2>3, <2>4
<1>25. CASE Launched(f) BY <1>25, EndTyped DEF Launched, TypeOK
<1>26. CASE LaunchFails(f)
  <2>1. NoBackend \in Backends BY BackendTyped DEF TypeOK
  <2>2. QED BY <1>26, <2>1, FailsTyped DEF LaunchFails, TypeOK
<1>27. CASE Clean(f) BY <1>1, <1>27, CleanTyped
<1>28. QED
    BY <1>3, <1>4, <1>5, <1>6, <1>7, <1>8, <1>9, <1>10, <1>11, <1>12, <1>13, <1>15, <1>16,
       <1>17, <1>18, <1>20, <1>21, <1>22, <1>23, <1>24, <1>25, <1>26, <1>27 DEF Chain

LEMMA TypeStep == TypeOK /\ [Next]_vars => TypeOK'
<1> SUFFICES ASSUME TypeOK, [Next]_vars PROVE TypeOK'
    OBVIOUS
<1> USE DEF serverVars, fileVars, childVars, agentVars
<1>1. latest \in Nat /\ Never = -1 /\ None = 0 BY LauncherAssumption DEF TypeOK, Never, None
<1>2. ASSUME NEW f \in Flows, User(f) PROVE TypeOK'
    BY <1>2 DEF User, Start, Retry, TimerRenews, Activate, Begin, Go, TypeOK, Agents, Steps, Jobs
<1>3. CASE Watch
  <2>1. Monitor \in Agents BY DEF Agents
  <2>2. CASE MonitorReads BY <2>1, <2>2 DEF MonitorReads, At, Go, StopThen, TypeOK, Steps
  <2>3. QED BY <1>3, <2>1, <2>2, CleanTyped DEF Watch
<1>4. child \in Backends /\ orphans \in [Left -> Backends] BY DEF TypeOK
<1>5. CASE BackendStarts \/ BackendCrashes \/ OrphanGoesOn
  <2>1. CASE BackendStarts BY <1>4, <2>1, BackendTyped DEF BackendStarts, TypeOK
  <2>2. CASE BackendCrashes BY <1>4, <2>2, BackendTyped DEF BackendCrashes, TypeOK
  <2>3. CASE OrphanGoesOn BY <1>4, <2>3, BackendTyped DEF OrphanGoesOn, TypeOK
  <2>4. QED BY <1>5, <2>1, <2>2, <2>3
<1>6. CASE Revoke BY <1>6 DEF Revoke, TypeOK
<1>7. CASE Release
  <2>1. latest' = latest + 1 /\ latest < MaxVersion BY <1>7 DEF Release
  <2>2. latest' \in 0 .. MaxVersion /\ \A v \in 0 .. latest : v \in 0 .. latest'
      BY <1>1, <2>1, LauncherAssumption
  <2>3. QED BY <1>7, <2>2 DEF Release, TypeOK
<1>8. CASE Restart
  <2>1. child' \in Backends /\ orphans' \in [Left -> Backends]
      BY <1>4, <1>8, BackendTyped DEF Restart
  <2>2. QED BY <1>1, <1>8, <2>1 DEF Restart, TypeOK, Steps, Jobs
<1>9. CASE Tick BY <1>9 DEF Tick, TypeOK
<1>10. CASE UNCHANGED vars BY <1>10 DEF vars, TypeOK
<1>11. QED BY <1>2, <1>3, <1>5, <1>6, <1>7, <1>8, <1>9, <1>10, TypeChain DEF Next

-----------------------------------------------------------------------------
(* How long leases run.                                                    *)

LEMMA Later ==
    ASSUME NEW e \in Nat, NEW c \in Nat, NEW d \in Nat, NEW t \in Nat, e <= c + t, c <= d
    PROVE  e <= d + t
OBVIOUS

\* Steps that only move leases that are already there.
LEMMA LeasesMove ==
    ASSUME TypeOK, TypeOK', LeasesBounded, clock <= clock', revokedAt' = revokedAt,
           lease' \in {lease, Never} \/ \E f \in Flows : lease' = got[f],
           child'.gate \in {child.gate, Never, lease},
           \A i \in Left : orphans'[i].gate \in {orphans[i].gate, Never, lease, child.gate},
           \A f \in Flows : got'[f] \in {got[f], Never}
    PROVE  LeasesBounded'
<1>1. ASSUME NEW e \in Nat \cup {Never}, Bounded(e)
      PROVE  /\ e # Never => e <= clock' + LeaseTtl
             /\ e # Never /\ ~Entitled => e <= revokedAt + LeaseTtl
  <2>1. clock \in Nat /\ clock' \in Nat /\ LeaseTtl \in Nat
      BY LauncherAssumption DEF TypeOK
  <2>2. CASE e = Never BY <2>2
  <2>3. CASE e # Never
    <3>1. e \in Nat /\ e <= clock + LeaseTtl BY <1>1, <2>3 DEF Bounded
    <3>2. e <= clock' + LeaseTtl BY <2>1, <3>1, clock <= clock', Later
    <3>3. QED BY <1>1, <2>3, <3>2 DEF Bounded
  <2>4. QED BY <2>2, <2>3
<1>2. Entitled' = Entitled BY DEF Entitled
<1>3. \A f \in Flows : got[f] \in Nat \cup {Never} BY DEF TypeOK, Agents
<1>4. /\ lease \in Nat \cup {Never} /\ child.gate \in Nat \cup {Never}
      /\ \A i \in Left : orphans[i].gate \in Nat \cup {Never}
    BY DEF TypeOK, Backends
<1>5. clock \in Nat /\ clock' \in Nat /\ (~Entitled => revokedAt \in Nat)
    BY DEF TypeOK, Entitled
<1>6. Bounded(lease)' BY <1>1, <1>2, <1>3, <1>4 DEF LeasesBounded, Bounded
<1>7. Bounded(child.gate)' BY <1>1, <1>2, <1>4 DEF LeasesBounded, Bounded
<1>10. \A i \in Left : Bounded(orphans[i].gate)'
    BY <1>1, <1>2, <1>4 DEF LeasesBounded, Bounded
<1>8. \A f \in Flows : Bounded(got[f])'
    BY <1>1, <1>2, <1>3 DEF LeasesBounded, Bounded
<1>9. QED BY <1>2, <1>5, <1>6, <1>7, <1>8, <1>10 DEF LeasesBounded

LEMMA BackendGates ==
    ASSUME NEW b \in Backends
    PROVE  /\ NoBackend.gate = Never /\ Exited(b).gate = Never
           /\ Begun(b).gate \in {lease, Never}
BY DEF NoBackend, Exited, Begun, Backends

LEMMA LeaseHandedOut ==
    ASSUME TypeOK, LeasesBounded, NEW f \in Flows, ServerGrants(f)
    PROVE  LeasesBounded'
<1> USE DEF ServerGrants, serverVars, fileVars, childVars
<1>1. UNCHANGED <<clock, revokedAt, lease, child, orphans>> /\ Entitled OBVIOUS
<1>2. \A g \in Flows : got'[g] = IF g = f THEN clock + LeaseTtl ELSE got[g]
    BY DEF TypeOK, Agents
<1>3. clock + LeaseTtl \in Nat BY LauncherAssumption DEF TypeOK
<1>4. QED BY <1>1, <1>2, <1>3 DEF LeasesBounded, Bounded, Entitled

LEMMA LeasesRevoked ==
    ASSUME TypeOK, LeasesBounded, Revoke
    PROVE  LeasesBounded'
<1> USE DEF Revoke, fileVars, childVars, agentVars
<1>1. UNCHANGED <<clock, lease, child, orphans, got>> /\ revokedAt' = clock OBVIOUS
<1>2. clock \in Nat BY DEF TypeOK
<1>3. QED BY <1>1, <1>2 DEF LeasesBounded, Bounded, Entitled

LEMMA LeasesStep ==
    ASSUME TypeOK, TypeOK', LeasesBounded, [Next]_vars
    PROVE  LeasesBounded'
<1> USE DEF serverVars, fileVars, childVars, agentVars, Keep
<1>1. \A f \in Flows : got[f] = got[f] /\ f \in Agents BY DEF Agents
<1>2. clock \in Nat /\ clock <= clock BY DEF TypeOK
<1>3. ASSUME NEW f \in Flows, NEW p, End(f, p) PROVE \A g \in Flows : got'[g] \in {got[g], Never}
    BY <1>3 DEF End, TypeOK, Agents
<1>4. ASSUME NEW f \in Flows, Fails(f) PROVE \A g \in Flows : got'[g] \in {got[g], Never}
    BY <1>3, <1>4 DEF Fails
<1>5. ASSUME NEW f \in Flows, Chain(f) PROVE LeasesBounded'
  <2>1. CASE Renew(f) BY <1>2, <2>1, LeasesMove DEF Renew
  <2>2. CASE RequestFails(f) BY <1>2, <1>4, <2>2, LeasesMove DEF RequestFails
  <2>3. CASE RenewalDenied(f) BY <1>2, <2>3, LeasesMove DEF RenewalDenied
  <2>4. CASE RemoveOldLease(f) BY <1>2, <2>4, LeasesMove DEF RemoveOldLease
  <2>5. CASE WriteLease(f)
    <3>1. \A g \in Flows : got'[g] \in {got[g], Never} BY <2>5 DEF WriteLease, TypeOK, Agents
    <3>2. QED BY <1>2, <2>5, <3>1, LeasesMove DEF WriteLease
  <2>6. CASE WriteFails(f) BY <1>2, <1>4, <2>6, LeasesMove DEF WriteFails
  <2>7. CASE Recheck(f) BY <1>2, <2>7, LeasesMove DEF Recheck
  <2>8. CASE Check(f) BY <1>2, <1>3, <2>8, LeasesMove DEF Check
  <2>9. CASE Unlicensed(f) BY <1>2, <1>3, <2>9, LeasesMove DEF Unlicensed
  <2>10. CASE RemoveLease(f) BY <1>2, <1>4, <2>10, LeasesMove DEF RemoveLease
  <2>11. CASE AskUpdate(f) BY <1>2, <1>4, <2>11, LeasesMove DEF AskUpdate
  <2>12. CASE UpdateOffered(f) \/ UpdateDenied(f)
      BY <1>2, <2>12, LeasesMove DEF UpdateOffered, UpdateDenied
  <2>13. CASE UpdateFails(f) BY <1>2, <1>4, <2>13, LeasesMove DEF UpdateFails
  <2>14. CASE Download(f) \/ RemoveOldPointer(f) \/ WritePointer(f)
      BY <1>2, <2>14, LeasesMove DEF Download, RemoveOldPointer, WritePointer
  <2>15. CASE Verify(f) BY <1>2, <1>4, <2>15, LeasesMove DEF Verify
  <2>16. CASE Spawn(f) BY <1>2, <1>3, <1>4, <2>16, LeasesMove DEF Spawn, NoBackend
  <2>17. CASE Launched(f) BY <1>2, <1>3, <2>17, LeasesMove DEF Launched
  <2>18. CASE LaunchFails(f) BY <1>2, <1>4, <2>18, LeasesMove DEF LaunchFails, NoBackend
  <2>19. CASE Clean(f)
      BY <1>2, <2>19, LeasesMove DEF Clean, Stop, ReadDir, PurgeFile, NoBackend
  <2>20. QED
      BY <1>5, <2>1, <2>2, <2>3, <2>4, <2>5, <2>6, <2>7, <2>8, <2>9, <2>10, <2>11, <2>12,
         <2>13, <2>14, <2>15, <2>16, <2>17, <2>18, <2>19, LeaseHandedOut DEF Chain
<1>6. ASSUME NEW f \in Flows, User(f) PROVE LeasesBounded'
    BY <1>2, <1>6, LeasesMove DEF User, Start, Retry, TimerRenews, Activate, Begin
<1>7. CASE Watch
    BY <1>2, <1>7, LeasesMove
    DEF Watch, MonitorReads, Clean, Stop, ReadDir, PurgeFile, NoBackend
<1>8. child \in Backends /\ orphans \in [Left -> Backends] BY DEF TypeOK
<1>9. CASE BackendStarts \/ BackendCrashes \/ OrphanGoesOn
  <2>1. CASE BackendStarts BY <1>2, <1>8, <2>1, BackendGates, LeasesMove DEF BackendStarts
  <2>2. CASE BackendCrashes BY <1>2, <1>8, <2>2, BackendGates, LeasesMove DEF BackendCrashes
  <2>3. CASE OrphanGoesOn
    <3>1. \A i \in Left : orphans'[i].gate \in {orphans[i].gate, Never, lease}
      <4> SUFFICES ASSUME NEW i \in Left
                   PROVE  orphans'[i].gate \in {orphans[i].gate, Never, lease}
          OBVIOUS
      <4>1. orphans[i] \in Backends BY <1>8
      <4>2. orphans'[i] \in {orphans[i], Exited(orphans[i]), Begun(orphans[i])}
          BY <1>8, <2>3 DEF OrphanGoesOn
      <4>3. QED BY <4>1, <4>2, BackendGates
    <3>2. QED BY <1>2, <2>3, <3>1, LeasesMove DEF OrphanGoesOn
  <2>4. QED BY <1>9, <2>1, <2>2, <2>3
<1>10. CASE Release BY <1>2, <1>10, LeasesMove DEF Release
<1>11. CASE Restart
  <2>1. \A i \in Left : orphans'[i] \in {orphans[i], child} BY <1>8, <1>11 DEF Restart
  <2>2. QED BY <1>1, <1>2, <1>11, <2>1, LeasesMove DEF Restart, NoBackend
<1>12. CASE Tick BY <1>2, <1>12, LeasesMove DEF Tick
<1>13. CASE UNCHANGED vars BY <1>2, <1>13, LeasesMove DEF vars
<1>14. QED BY <1>5, <1>6, <1>7, <1>9, <1>10, <1>11, <1>12, <1>13, LeasesRevoked DEF Next

-----------------------------------------------------------------------------
(* The theorems.                                                           *)

LEMMA InitInd == Init => IndInv
<1> SUFFICES ASSUME Init PROVE IndInv
    OBVIOUS
<1>1. TypeOK BY TypeInit
<1>2. LeasesBounded
    BY DEF Init, LeasesBounded, Bounded, Entitled, Agents, NoBackend
<1>3. QED BY <1>1, <1>2 DEF IndInv

LEMMA StepInd == IndInv /\ [Next]_vars => IndInv'
BY TypeStep, LeasesStep DEF IndInv

\* No lease, wherever it is kept, runs longer than the server granted it.
THEOREM Inductive == Spec => []IndInv
BY InitInd, StepInd, PTL DEF Spec

\* The type invariant.
THEOREM Types == Spec => []TypeOK
<1>1. IndInv => TypeOK BY DEF IndInv
<1>2. QED BY <1>1, Inductive, PTL

\* After the revocation no backend accepts for longer than one lease and the
\* forgiven skew, with any number of flows and restarts.
THEOREM OfflineBounded == Spec => []OfflineUseBounded
<1>1. IndInv => OfflineUseBounded
  <2> SUFFICES ASSUME IndInv, ~Entitled, Accepting \/ \E i \in Left : Serves(orphans[i])
               PROVE  clock < revokedAt + LeaseTtl + Grace
      BY DEF OfflineUseBounded
  <2>1. PICK b \in Backends : Serves(b) /\ Bounded(b.gate)
      BY DEF Accepting, IndInv, TypeOK, LeasesBounded
  <2>2. b.gate # Never /\ clock < b.gate + Grace BY <2>1 DEF Serves, Valid
  <2>3. b.gate <= revokedAt + LeaseTtl BY <2>1, <2>2 DEF Bounded
  <2>4. b.gate \in Nat /\ revokedAt \in Nat /\ clock \in Nat
      BY <2>1, <2>2 DEF IndInv, TypeOK, Entitled, Backends
  <2>5. QED BY <2>2, <2>3, <2>4, LauncherAssumption
<1>2. QED BY <1>1, Inductive, PTL
=============================================================================
