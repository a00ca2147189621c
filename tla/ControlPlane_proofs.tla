------------------------ MODULE ControlPlane_proofs ------------------------
(***************************************************************************)
(* Machine-checked proofs about ControlPlane, for every number of          *)
(* licences, devices, requests, calls and downloads and every setting of   *)
(* the times, given that a handler ends within the clock skew.             *)
(***************************************************************************)
EXTENDS ControlPlane, FiniteSetTheorems, TLAPS

\* What one step can be.
LEMMA StepShape ==
    ASSUME [Next]_vars
    PROVE  \/ \E c \in Calls, r \in Requests : Begin(c, r)
           \/ \E c \in Calls : ActivateDenied(c) \/ LicenceDenied(c)
           \/ \E c \in Calls : ActivateGranted(c)
           \/ \E c \in Calls : RenewGranted(c)
           \/ \E c \in Calls : ReleaseChecked(c)
           \/ \E c \in Calls : CommitFails(c)
           \/ \E c \in Calls : Commit(c)
           \/ \E f \in Fetches, c \in Calls : FetchBegin(f, c)
           \/ \E f \in Fetches : FetchFails(f)
           \/ \E f \in Fetches : FetchCommit(f)
           \/ \E l \in Licences, e \in Expiries, m \in Limits : CreateLicence(l, e, m)
           \/ \E l \in Licences, e \in Expiries, m \in Limits : UpdateLicence(l, e, m)
           \/ \E l \in Licences : RevokeLicence(l) \/ LicenceRevoked(l)
           \/ \E d \in Devices : RevokeDevice(d) \/ DeviceRevoked(d)
           \/ \E a \in Artifacts : RegisterRelease(a) \/ DeactivateRelease(a)
           \/ Tick
           \/ UNCHANGED vars
BY DEF Next, Call, Fetch, Administer

-----------------------------------------------------------------------------
(* Types.                                                                  *)

\* Requests are records of known shape.
LEMMA RequestType ==
    ASSUME NEW r \in Requests
    PROVE  /\ r.op \in Operations /\ r.device \in Devices
           /\ r.licence \in Licences /\ r.issued \in Int
<1>1. r \in [op : Operations, device : Devices, licence : Licences, issued : Int]
    BY ControlPlaneAssumption
<1>2. QED BY <1>1

LEMMA TypeInit == Init => TypeOK
BY DEF Init, TypeOK, Never

LEMMA TypeStep == TypeOK /\ [Next]_vars => TypeOK'
<1> SUFFICES ASSUME TypeOK, [Next]_vars PROVE TypeOK'
    OBVIOUS
<1> USE DEF TypeOK, licenceVars, deviceVars, releaseVars, callVars, fetchVars, Never
<1>1. ASSUME NEW c \in Calls, NEW r \in Requests, Begin(c, r) PROVE TypeOK'
    BY <1>1 DEF Begin
<1>2. ASSUME NEW c \in Calls, ActivateDenied(c) \/ LicenceDenied(c) PROVE TypeOK'
    BY <1>2 DEF ActivateDenied, LicenceDenied, Refuse
<1>3. ASSUME NEW c \in Calls, ActivateGranted(c) PROVE TypeOK'
  <2>1. req[c] \in Requests BY <1>3 DEF ActivateGranted
  <2>2. req[c].licence \in Licences BY <2>1, RequestType
  <2>3. LeaseUntil(req[c].licence) \in Nat
      BY <2>2, ControlPlaneAssumption DEF LeaseUntil, Smaller
  <2>4. QED BY <1>3, <2>1, <2>2, <2>3 DEF ActivateGranted
<1>4. ASSUME NEW c \in Calls, RenewGranted(c) PROVE TypeOK'
  <2>1. req[c] \in Requests BY <1>4 DEF RenewGranted
  <2>2. req[c].licence \in Licences BY <2>1, RequestType
  <2>3. LeaseUntil(req[c].licence) \in Nat
      BY <2>2, ControlPlaneAssumption DEF LeaseUntil, Smaller
  <2>4. QED BY <1>4, <2>1, <2>2, <2>3 DEF RenewGranted
<1>5. ASSUME NEW c \in Calls, ReleaseChecked(c) PROVE TypeOK'
  <2>1. Candidates \subseteq Artifacts BY DEF Candidates
  <2>2. offer' \in [Calls -> Artifacts \cup {NoArtifact}]
      BY <1>5, <2>1 DEF ReleaseChecked
  <2>3. clock + GrantTtl \in Nat BY ControlPlaneAssumption
  <2>4. QED BY <1>5, <2>2, <2>3 DEF ReleaseChecked
<1>6. ASSUME NEW c \in Calls, CommitFails(c) PROVE TypeOK'
    BY <1>6 DEF CommitFails, Unlock
<1>7. ASSUME NEW c \in Calls, Commit(c) PROVE TypeOK'
  <2>1. req[c] \in Requests BY <1>7 DEF Commit
  <2>2. req[c].licence \in Licences /\ req[c].device \in Devices BY <2>1, RequestType
  <2>3. nonce' \in [Requests -> Int]
      BY <1>7, ControlPlaneAssumption DEF Commit, NonceExpiry
  <2>4. bound' \in [Devices -> Licences \cup {NoLicence}] BY <1>7, <2>2 DEF Commit
  <2>5. QED BY <1>7, <2>3, <2>4 DEF Commit, Unlock
<1>8. ASSUME NEW f \in Fetches, NEW c \in Calls, FetchBegin(f, c) PROVE TypeOK'
    BY <1>8 DEF FetchBegin
<1>9. ASSUME NEW f \in Fetches, FetchFails(f) PROVE TypeOK'
    BY <1>9 DEF FetchFails, Fetching
<1>10. ASSUME NEW f \in Fetches, FetchCommit(f) PROVE TypeOK'
    BY <1>10 DEF FetchCommit, Fetching, Spend
<1>11. ASSUME NEW l \in Licences, NEW e \in Expiries, NEW m \in Limits,
              CreateLicence(l, e, m) \/ UpdateLicence(l, e, m)
       PROVE  TypeOK'
  <2>1. e \in Nat /\ m \in Nat BY ControlPlaneAssumption
  <2>2. QED BY <1>11, <2>1 DEF CreateLicence, UpdateLicence
<1>12. ASSUME NEW l \in Licences, RevokeLicence(l) \/ LicenceRevoked(l) PROVE TypeOK'
    BY <1>12 DEF RevokeLicence, LicenceRevoked
<1>13. ASSUME NEW d \in Devices, RevokeDevice(d) \/ DeviceRevoked(d) PROVE TypeOK'
    BY <1>13 DEF RevokeDevice, DeviceRevoked
<1>14. ASSUME NEW a \in Artifacts, RegisterRelease(a) \/ DeactivateRelease(a)
       PROVE  TypeOK'
    BY <1>14 DEF RegisterRelease, DeactivateRelease
<1>15. CASE Tick BY <1>15 DEF Tick
<1>16. CASE UNCHANGED vars BY <1>16 DEF vars
<1>17. QED
    BY <1>1, <1>2, <1>3, <1>4, <1>5, <1>6, <1>7, <1>8, <1>9, <1>10, <1>11, <1>12,
       <1>13, <1>14, <1>15, <1>16, StepShape

-----------------------------------------------------------------------------
(* Time.                                                                   *)

\* What a step may do to the clock, to where a call is and to what it began with.
LEMMA TimedStep ==
    ASSUME TypeOK, CallsTimed, [Next]_vars
    PROVE  CallsTimed'
<1> USE DEF TypeOK, CallsTimed, Open, licenceVars, deviceVars
<1>1. ASSUME NEW c \in Calls, NEW r \in Requests, Begin(c, r) PROVE CallsTimed'
  <2>1. r.issued \in Int BY RequestType
  <2>2. QED BY <1>1, <2>1, ControlPlaneAssumption DEF Begin, Acceptable, Fresh
<1>2. ASSUME NEW c \in Calls, ActivateDenied(c) \/ LicenceDenied(c) PROVE CallsTimed'
    BY <1>2 DEF ActivateDenied, LicenceDenied, Refuse
<1>3. ASSUME NEW c \in Calls, ActivateGranted(c) \/ RenewGranted(c) \/ ReleaseChecked(c)
      PROVE  CallsTimed'
    BY <1>3 DEF ActivateGranted, RenewGranted, ReleaseChecked
<1>4. ASSUME NEW c \in Calls, CommitFails(c) \/ Commit(c) PROVE CallsTimed'
    BY <1>4 DEF CommitFails, Commit
<1>5. CASE UNCHANGED <<clock, callVars, revoking, deviceRevoking>>
    BY <1>5 DEF callVars
<1>6. CASE Tick BY <1>6, ControlPlaneAssumption DEF Tick, callVars
<1>7. QED
  <2>1. ASSUME NEW f \in Fetches, NEW c \in Calls, FetchBegin(f, c)
        PROVE  UNCHANGED <<clock, callVars, revoking, deviceRevoking>>
      BY <2>1 DEF FetchBegin
  <2>2. ASSUME NEW f \in Fetches, FetchFails(f) \/ FetchCommit(f)
        PROVE  UNCHANGED <<clock, callVars, revoking, deviceRevoking>>
      BY <2>2 DEF FetchFails, FetchCommit
  <2>3. CASE Administer
    <3>1. ASSUME NEW l \in Licences, RevokeLicence(l) \/ LicenceRevoked(l) PROVE CallsTimed'
        BY <3>1, ControlPlaneAssumption DEF RevokeLicence, LicenceRevoked, callVars
    <3>2. ASSUME NEW d \in Devices, RevokeDevice(d) \/ DeviceRevoked(d) PROVE CallsTimed'
        BY <3>2, ControlPlaneAssumption DEF RevokeDevice, DeviceRevoked, callVars
    <3>3. QED BY <1>5, <2>3, <3>1, <3>2
        DEF Administer, CreateLicence, UpdateLicence, RegisterRelease, DeactivateRelease
  <2>4. CASE UNCHANGED vars BY <2>4, <1>5 DEF vars
  <2>5. QED BY <1>1, <1>2, <1>3, <1>4, <1>5, <1>6, <2>1, <2>2, <2>3, <2>4
        DEF Next, Call, Fetch

-----------------------------------------------------------------------------
(* Signed requests.                                                        *)

ProofInv == ProofsRemembered /\ ProofUsedOnce

\* While an accepted call is remembered, no other delivery of its request
\* passes the freshness check.
LEMMA NoRetryPasses ==
    ASSUME TypeOK, CallsTimed, ProofInv, NEW c \in Calls, pc[c] = "ok"
    PROVE  ~Fresh(req[c])
<1>1. req[c] \in Requests BY DEF TypeOK
<1>2. req[c].issued \in Int BY <1>1, RequestType
<1>3. began[c] \in Nat /\ clock \in Nat BY DEF TypeOK
<1>4. req[c].issued - Skew <= began[c] BY DEF CallsTimed
<1>5. CASE nonce[req[c]] = NonceExpiry(c)
    BY <1>2, <1>3, <1>4, <1>5, ControlPlaneAssumption DEF Fresh, NonceExpiry
<1>6. CASE NonceExpiry(c) < clock
    BY <1>2, <1>3, <1>4, <1>6, ControlPlaneAssumption DEF Fresh, NonceExpiry
<1>7. QED BY <1>5, <1>6 DEF ProofInv, ProofsRemembered

\* Nor does one that overlapped it reach its commit.
LEMMA NoRetryCommits ==
    ASSUME TypeOK, CallsTimed, ProofInv, NEW c \in Calls, NEW d \in Calls,
           pc[c] = "ok", Open(d), req[c] = req[d]
    PROVE  nonce[req[d]] >= began[d]
<1>1. began[c] \in Nat /\ began[d] \in Nat /\ clock \in Nat BY DEF TypeOK
<1>2. clock <= began[d] + MaxHandling BY DEF CallsTimed
<1>3. began[d] <= began[c] + MaxHandling BY DEF ProofInv, ProofsRemembered
<1>4. ~(NonceExpiry(c) < clock)
    BY <1>1, <1>2, <1>3, HandlingAssumption, ControlPlaneAssumption DEF NonceExpiry
<1>5. nonce[req[c]] = NonceExpiry(c) BY <1>4 DEF ProofInv, ProofsRemembered
<1>6. QED
    BY <1>1, <1>3, <1>5, HandlingAssumption, ControlPlaneAssumption DEF NonceExpiry

\* Steps that accept no call and drop no row.
LEMMA ProofStill ==
    ASSUME TypeOK, ProofInv, UNCHANGED <<nonce, req, began>>, clock' \in Nat, clock <= clock',
           \A c \in Calls : pc'[c] = "ok" <=> pc[c] = "ok",
           \A c \in Calls : Open(c)' => Open(c)
    PROVE  ProofInv'
<1>1. \A c \in Calls : NonceExpiry(c)' = NonceExpiry(c) /\ NonceExpiry(c) \in Int
    BY ControlPlaneAssumption DEF NonceExpiry, TypeOK
<1>2. clock \in Nat BY DEF TypeOK
<1>3. ProofsRemembered' BY <1>1, <1>2 DEF ProofInv, ProofsRemembered
<1>4. QED BY <1>3 DEF ProofInv, ProofUsedOnce

LEMMA ProofBegins ==
    ASSUME TypeOK, CallsTimed, ProofInv, NEW c \in Calls, NEW r \in Requests, Begin(c, r)
    PROVE  ProofInv'
<1> USE DEF Begin
<1>1. Fresh(r) BY DEF Acceptable
<1>2. \A d \in Calls : pc[d] = "ok" => req[d] # r BY <1>1, NoRetryPasses
<1>3. \A d \in Calls : d # c => /\ pc'[d] = pc[d] /\ req'[d] = req[d] /\ began'[d] = began[d]
                                /\ NonceExpiry(d)' = NonceExpiry(d)
    BY DEF TypeOK, NonceExpiry
<1>4. pc'[c] = "proved" /\ req'[c] = r BY DEF TypeOK
<1>5. ProofsRemembered'
    BY <1>2, <1>3, <1>4 DEF ProofInv, ProofsRemembered, Open
<1>6. ProofUsedOnce' BY <1>3, <1>4 DEF ProofInv, ProofUsedOnce
<1>7. QED BY <1>5, <1>6 DEF ProofInv

LEMMA ProofCommits ==
    ASSUME TypeOK, CallsTimed, ProofInv, NEW c \in Calls, Commit(c)
    PROVE  ProofInv'
<1> USE DEF Commit
<1>1. \A d \in Calls : pc[d] = "ok" => req[d] # req[c]
    BY NoRetryCommits DEF Conflict, Open
<1>2. req[c] \in Requests /\ clock \in Nat /\ began[c] \in Nat BY DEF TypeOK
<1>3. began[c] <= clock /\ clock <= began[c] + MaxHandling BY DEF CallsTimed, Open
<1>4. pc' = [pc EXCEPT ![c] = "ok"] /\ UNCHANGED <<req, began, clock>>
    OBVIOUS
<1>5. \A d \in Calls : NonceExpiry(d)' = NonceExpiry(d) BY <1>4 DEF NonceExpiry
<1>6. nonce'[req[c]] = NonceExpiry(c) BY <1>2
<1>7. ASSUME NEW d \in Calls, pc[d] = "ok"
      PROVE  nonce'[req[d]] = NonceExpiry(d) \/ NonceExpiry(d) < clock
  <2>1. req[d] \in Requests /\ req[d] # req[c] BY <1>1, <1>7 DEF TypeOK
  <2>2. nonce'[req[d]] = nonce[req[d]] \/ nonce[req[d]] < began[c] BY <2>1
  <2>3. nonce[req[d]] = NonceExpiry(d) \/ NonceExpiry(d) < clock
      BY <1>7 DEF ProofInv, ProofsRemembered
  <2>4. NonceExpiry(d) \in Int BY ControlPlaneAssumption DEF NonceExpiry, TypeOK
  <2>5. QED BY <1>2, <1>3, <2>2, <2>3, <2>4
<1>8. \A d \in Calls : pc'[d] = "ok" => pc[d] = "ok" \/ d = c BY <1>4 DEF TypeOK
<1>9. \A d \in Calls : Open(d)' => Open(d) /\ d # c BY <1>4 DEF TypeOK, Open
<1>10. \A d \in Calls : Open(d) => began[d] <= clock /\ began[d] \in Nat
    BY DEF CallsTimed, Open, TypeOK
<1>11. ProofsRemembered'
  <2>1. ASSUME NEW d \in Calls, pc'[d] = "ok"
        PROVE  nonce'[req[d]] = NonceExpiry(d) \/ NonceExpiry(d) < clock
      BY <1>6, <1>7, <1>8, <2>1
  <2>2. ASSUME NEW d \in Calls, NEW e \in Calls, pc'[d] = "ok", Open(e)', req[d] = req[e]
        PROVE  began[e] <= began[d] + MaxHandling
    <3>1. CASE pc[d] = "ok" BY <1>9, <2>2, <3>1 DEF ProofInv, ProofsRemembered
    <3>2. CASE d = c BY <1>2, <1>3, <1>9, <1>10, <2>2, <3>2, ControlPlaneAssumption
    <3>3. QED BY <1>8, <2>2, <3>1, <3>2
  <2>3. QED BY <1>4, <1>5, <2>1, <2>2 DEF ProofsRemembered
<1>12. ProofUsedOnce' BY <1>1, <1>4, <1>8 DEF ProofInv, ProofUsedOnce
<1>13. QED BY <1>11, <1>12 DEF ProofInv

LEMMA ProofStep ==
    ASSUME TypeOK, TypeOK', CallsTimed, ProofInv, [Next]_vars
    PROVE  ProofInv'
<1> USE DEF callVars
<1>1. ASSUME NEW c \in Calls, ActivateDenied(c) \/ LicenceDenied(c) \/ CommitFails(c)
      PROVE  ProofInv'
    BY <1>1, ProofStill DEF ActivateDenied, LicenceDenied, Refuse, CommitFails, TypeOK, Open
<1>2. ASSUME NEW c \in Calls, ActivateGranted(c) \/ RenewGranted(c) \/ ReleaseChecked(c)
      PROVE  ProofInv'
    BY <1>2, ProofStill DEF ActivateGranted, RenewGranted, ReleaseChecked, TypeOK, Open
<1>3. CASE UNCHANGED <<clock, nonce, callVars>> BY <1>3, ProofStill DEF TypeOK, Open
<1>4. CASE Tick BY <1>4, ProofStill DEF Tick, TypeOK, Open
<1>5. ASSUME NEW f \in Fetches, Fetch(f) PROVE ProofInv'
    BY <1>3, <1>5 DEF Fetch, FetchBegin, FetchFails, FetchCommit
<1>6. CASE Administer BY <1>3, <1>6
    DEF Administer, CreateLicence, UpdateLicence, RevokeLicence, LicenceRevoked,
          RevokeDevice, DeviceRevoked, RegisterRelease, DeactivateRelease
<1>7. CASE UNCHANGED vars BY <1>3, <1>7 DEF vars
<1>8. QED BY <1>1, <1>2, <1>4, <1>5, <1>6, <1>7, ProofBegins, ProofCommits DEF Next, Call

-----------------------------------------------------------------------------
(* Devices and licences.                                                   *)

\* Bindings and reservations, together: each needs the other when a device is added.
RoomInv == RoomReserved /\ Bindings

\* Steps that leave the bindings, the limits and the locks alone and grant nothing.
LEMMA RoomStill ==
    ASSUME TypeOK, RoomInv, UNCHANGED <<created, bound, deviceRevokedAt, maxDevices, lock, req, adds>>,
           \A c \in Calls : pc'[c] = pc[c] \/ pc'[c] = "refused"
    PROVE  RoomInv'
<1>1. \A l \in Licences : Holders(l)' = Holders(l) BY DEF Holders, DeviceGood
<1>2. \A c \in Calls : pc[c] # "idle" => req[c].licence \in Licences
    BY RequestType DEF TypeOK
<1>3. RoomReserved' BY <1>1, <1>2 DEF RoomInv, RoomReserved
<1>4. Bindings' BY DEF RoomInv, Bindings
<1>5. QED BY <1>3, <1>4 DEF RoomInv

LEMMA RoomBegins ==
    ASSUME TypeOK, RoomInv, NEW c \in Calls, NEW r \in Requests, Begin(c, r)
    PROVE  RoomInv'
<1> USE DEF Begin
<1>1. \A d \in Calls : d # c => pc'[d] = pc[d] /\ req'[d] = req[d]
    BY DEF TypeOK
<1>2. pc'[c] = "proved" /\ req'[c] = r BY DEF TypeOK
<1>3. ~adds[c] BY DEF RoomInv, RoomReserved
<1>4. \A l \in Licences : Holders(l)' = Holders(l) BY DEF Holders, DeviceGood, deviceVars
<1>5. \A d \in Calls : pc[d] # "idle" => req[d].licence \in Licences
    BY RequestType DEF TypeOK
<1>6. RoomReserved'
    BY <1>1, <1>2, <1>3, <1>4, <1>5 DEF RoomInv, RoomReserved, licenceVars
<1>7. Bindings'
    BY <1>1, <1>2 DEF RoomInv, Bindings, Acceptable, DeviceGood, deviceVars
<1>8. QED BY <1>6, <1>7 DEF RoomInv

LEMMA RoomActivates ==
    ASSUME TypeOK, RoomInv, NEW c \in Calls, ActivateGranted(c)
    PROVE  RoomInv'
<1> USE DEF ActivateGranted, licenceVars, deviceVars
<1>1. req[c] \in Requests /\ req[c].licence \in Licences /\ req[c].device \in Devices
    BY RequestType DEF TypeOK
<1>2. \A d \in Calls : d # c => pc'[d] = pc[d] /\ adds'[d] = adds[d]
    BY DEF TypeOK
<1>3. pc'[c] = "granting" /\ adds'[c] = (bound[req[c].device] = NoLicence)
    BY DEF TypeOK
<1>4. lock'[req[c].licence] = c BY <1>1 DEF TypeOK
<1>5. \A l \in Licences : Holders(l)' = Holders(l) BY DEF Holders, DeviceGood
<1>6. \A d \in Calls : pc[d] # "idle" => req[d].licence \in Licences
    BY RequestType DEF TypeOK
<1>7. \A l \in Licences : l # req[c].licence => lock'[l] = lock[l]
    BY DEF TypeOK
<1>8. \A d \in Calls : pc[d] = "granting" /\ req[d].op = "activate" =>
          req[d].licence # req[c].licence
    BY ControlPlaneAssumption DEF RoomInv, RoomReserved, Free
<1>9. RoomReserved'
  <2>1. \A d \in Calls : adds'[d] => pc'[d] # "idle" /\ req'[d].op = "activate"
      BY <1>2, <1>3 DEF RoomInv, RoomReserved
  <2>2. \A d \in Calls : pc'[d] = "granting" /\ req'[d].op = "activate" =>
            lock'[req'[d].licence] = d /\ req'[d].licence \in created'
      BY <1>2, <1>4, <1>6, <1>7, <1>8 DEF RoomInv, RoomReserved, MayActivate, LicenceGood
  <2>3. ASSUME NEW d \in Calls, pc'[d] = "granting", adds'[d]
        PROVE  Cardinality(Holders(req[d].licence))' < maxDevices'[req'[d].licence]
    <3>1. req'[d] = req[d] /\ maxDevices' = maxDevices OBVIOUS
    <3>2. CASE d = c
      <4>1. bound[req[c].device] = NoLicence BY <1>3, <2>3, <3>2
      <4>2. Cardinality(Holders(req[c].licence)) < maxDevices[req[c].licence]
          BY <4>1 DEF MayActivate, RoomFor
      <4>3. QED BY <1>1, <1>5, <3>1, <3>2, <4>2
    <3>3. CASE d # c
      <4>1. pc[d] = "granting" /\ adds[d] BY <1>2, <2>3, <3>3
      <4>2. Cardinality(Holders(req[d].licence)) < maxDevices[req[d].licence]
          BY <4>1 DEF RoomInv, RoomReserved
      <4>3. QED BY <1>5, <1>6, <3>1, <4>1, <4>2
    <3>4. QED BY <3>2, <3>3
  <2>4. QED BY <2>1, <2>2, <2>3 DEF RoomReserved
<1>10. Bindings'
  <2>1. UNCHANGED <<req, bound>> OBVIOUS
  <2>2. bound[req[c].device] # NoLicence => bound[req[c].device] = req[c].licence
      BY DEF MayActivate
  <2>3. QED BY <1>2, <1>3, <2>1, <2>2 DEF RoomInv, Bindings
<1>11. QED BY <1>9, <1>10 DEF RoomInv

LEMMA RoomGrants ==
    ASSUME TypeOK, RoomInv, NEW c \in Calls, RenewGranted(c) \/ ReleaseChecked(c)
    PROVE  RoomInv'
<1> USE DEF RenewGranted, ReleaseChecked, licenceVars, deviceVars
<1>1. \A d \in Calls : d # c => pc'[d] = pc[d]
    BY DEF TypeOK
<1>2. req[c].op # "activate" /\ ~adds[c] /\ pc'[c] = "granting"
    BY DEF RoomInv, RoomReserved, TypeOK
<1>3. \A l \in Licences : Holders(l)' = Holders(l) BY DEF Holders, DeviceGood
<1>4. \A d \in Calls : pc[d] # "idle" => req[d].licence \in Licences
    BY RequestType DEF TypeOK
<1>5. RoomReserved' BY <1>1, <1>2, <1>3, <1>4 DEF RoomInv, RoomReserved
<1>6. Bindings' BY <1>1, <1>2 DEF RoomInv, Bindings
<1>7. QED BY <1>5, <1>6 DEF RoomInv

\* A commit that adds no device changes no binding; one that does holds the licence row.
LEMMA RoomCommits ==
    ASSUME TypeOK, RoomInv, NEW c \in Calls, Commit(c) \/ CommitFails(c)
    PROVE  RoomInv'
<1> USE DEF licenceVars, deviceVars
<1>1. pc[c] = "granting" BY DEF Commit, CommitFails
<1>2. req[c] \in Requests /\ req[c].licence \in Licences /\ req[c].device \in Devices
    BY <1>1, RequestType DEF TypeOK
<1>3. \A d \in Calls : d # c => pc'[d] = pc[d] BY DEF Commit, CommitFails, TypeOK
<1>4. pc'[c] \in {"ok", "refused"} BY DEF Commit, CommitFails, TypeOK
<1>5. UNCHANGED <<created, req, adds, maxDevices, deviceRevokedAt>> BY DEF Commit, CommitFails
<1>6. \A l \in Licences, d \in Calls : d # c /\ lock[l] = d => lock'[l] = d
    BY DEF Commit, CommitFails, Unlock, TypeOK
<1>7. \A d \in Calls : pc[d] # "idle" =>
          req[d].licence \in Licences /\ req[d].device \in Devices
    BY RequestType DEF TypeOK
<1>8. \A e \in Devices : bound[e] # NoLicence => bound'[e] = bound[e]
    BY <1>2 DEF Commit, CommitFails, Conflict, TypeOK
<1>9. \A l \in Licences : l # req[c].licence \/ ~adds[c] => Holders(l)' = Holders(l)
  <2>1. CASE CommitFails(c) BY <2>1 DEF CommitFails, Holders, DeviceGood
  <2>2. CASE Commit(c) /\ ~adds[c]
    <3>1. bound' = bound BY <2>2, <1>2 DEF Commit, TypeOK
    <3>2. QED BY <3>1, <1>5 DEF Holders, DeviceGood
  <2>3. CASE Commit(c) /\ adds[c]
    <3>1. bound' = [bound EXCEPT ![req[c].device] = req[c].licence]
        BY <2>3, <1>2 DEF Commit, TypeOK
    <3>2. bound[req[c].device] = NoLicence BY <2>3 DEF Commit, Conflict
    <3>3. \A e \in Devices : bound'[e] = bound[e]
              \/ (bound[e] = NoLicence /\ bound'[e] = req[c].licence)
        BY <1>2, <3>1, <3>2 DEF TypeOK
    <3>4. QED BY <2>3, <3>3, <1>5, ControlPlaneAssumption DEF Holders, DeviceGood
  <2>4. QED BY <2>1, <2>2, <2>3
<1>10. RoomReserved'
  <2>1. \A d \in Calls : adds'[d] => pc'[d] # "idle" /\ req'[d].op = "activate"
      BY <1>3, <1>4, <1>5 DEF RoomInv, RoomReserved
  <2>2. \A d \in Calls : pc'[d] = "granting" /\ req'[d].op = "activate" =>
            lock'[req'[d].licence] = d /\ req'[d].licence \in created'
      BY <1>3, <1>4, <1>5, <1>6, <1>7 DEF RoomInv, RoomReserved
  <2>3. ASSUME NEW d \in Calls, pc'[d] = "granting", adds'[d]
        PROVE  Cardinality(Holders(req[d].licence))' < maxDevices'[req'[d].licence]
    <3>1. d # c /\ pc[d] = "granting" /\ adds[d] BY <1>3, <1>4, <1>5, <2>3
    <3>2. req[d].licence # req[c].licence \/ ~adds[c]
        BY <1>1, <3>1 DEF RoomInv, RoomReserved
    <3>3. QED BY <1>5, <1>7, <1>9, <3>1, <3>2 DEF RoomInv, RoomReserved
  <2>4. QED BY <2>1, <2>2, <2>3 DEF RoomReserved
<1>11. Bindings'
  <2>1. ASSUME NEW d \in Calls, d # c PROVE pc'[d] = pc[d] BY <1>3, <2>1
  <2>2. CASE CommitFails(c)
      BY <1>3, <2>2 DEF CommitFails, RoomInv, Bindings, TypeOK
  <2>3. CASE Commit(c)
    <3>1. bound'[req[c].device] = req[c].licence
        BY <1>1, <1>2, <2>3 DEF Commit, RoomInv, Bindings, RoomReserved, TypeOK
    <3>2. \A d \in Calls : pc[d] # "idle" /\ bound[req[d].device] = req[d].licence =>
              bound'[req[d].device] = req[d].licence
        BY <1>7, <1>8, ControlPlaneAssumption
    <3>3. QED BY <1>3, <1>5, <2>3, <3>1, <3>2 DEF Commit, RoomInv, Bindings
  <2>4. QED BY <2>2, <2>3
<1>12. QED BY <1>10, <1>11 DEF RoomInv

\* The administrator changes a limit only while no activation holds the row,
\* and a revoked device only makes room.
LEMMA RoomAdministered ==
    ASSUME TypeOK, RoomInv, Administer
    PROVE  RoomInv'
<1> USE DEF licenceVars, deviceVars, callVars
<1>1. \A d \in Calls : pc[d] # "idle" => req[d].licence \in Licences
    BY RequestType DEF TypeOK
<1>2. ASSUME NEW l \in Licences, NEW e \in Expiries, NEW m \in Limits,
             CreateLicence(l, e, m) \/ UpdateLicence(l, e, m)
      PROVE  RoomInv'
  <2>1. UNCHANGED <<bound, deviceRevokedAt, lock, pc, req, adds>>
      BY <1>2 DEF CreateLicence, UpdateLicence
  <2>2. created \subseteq created' BY <1>2 DEF CreateLicence, UpdateLicence
  <2>3. \A k \in Licences : Holders(k)' = Holders(k) BY <2>1 DEF Holders, DeviceGood
  <2>4. \A d \in Calls : pc[d] = "granting" /\ req[d].op = "activate" => req[d].licence # l
      BY <1>2, ControlPlaneAssumption DEF CreateLicence, UpdateLicence, Free, RoomInv, RoomReserved
  <2>5. \A k \in Licences : k # l => maxDevices'[k] = maxDevices[k]
      BY <1>2 DEF CreateLicence, UpdateLicence, TypeOK
  <2>6. RoomReserved' BY <1>1, <2>1, <2>2, <2>3, <2>4, <2>5 DEF RoomInv, RoomReserved
  <2>7. QED BY <2>1, <2>6 DEF RoomInv, Bindings
<1>3. ASSUME NEW d \in Devices, DeviceRevoked(d) PROVE RoomInv'
  <2>1. UNCHANGED <<created, maxDevices, bound, lock, pc, req, adds>>
      BY <1>3 DEF DeviceRevoked
  <2>2. \A e \in Devices : e # d => deviceRevokedAt'[e] = deviceRevokedAt[e]
      BY <1>3 DEF DeviceRevoked, TypeOK
  <2>3. \A e \in Devices : deviceRevokedAt'[e] = Never => deviceRevokedAt[e] = Never
      BY <1>3 DEF DeviceRevoked, TypeOK
  <2>4. ASSUME NEW k \in Licences
        PROVE  /\ Cardinality(Holders(k))' \in Nat /\ Cardinality(Holders(k)) \in Nat
               /\ Cardinality(Holders(k))' <= Cardinality(Holders(k))
    <3>1. Holders(k)' \subseteq Holders(k) BY <2>1, <2>3 DEF Holders, DeviceGood
    <3>2. IsFiniteSet(Holders(k))
        BY FS_Subset, ControlPlaneAssumption DEF Holders
    <3>3. QED BY <3>1, <3>2, FS_Subset, FS_CardinalityType
  <2>5. \A k \in Licences : maxDevices[k] \in Nat BY DEF TypeOK
  <2>6. RoomReserved' BY <1>1, <2>1, <2>4, <2>5 DEF RoomInv, RoomReserved
  <2>7. QED BY <2>1, <2>6 DEF RoomInv, Bindings
<1>4. ASSUME NEW l \in Licences, RevokeLicence(l) \/ LicenceRevoked(l) PROVE RoomInv'
    BY <1>4, RoomStill DEF RevokeLicence, LicenceRevoked
<1>7. ASSUME NEW d \in Devices, RevokeDevice(d) PROVE RoomInv'
    BY <1>7, RoomStill DEF RevokeDevice
<1>5. ASSUME NEW a \in Artifacts, RegisterRelease(a) \/ DeactivateRelease(a) PROVE RoomInv'
    BY <1>5, RoomStill DEF RegisterRelease, DeactivateRelease
<1>6. QED BY <1>2, <1>3, <1>4, <1>5, <1>7 DEF Administer

LEMMA RoomStep ==
    ASSUME TypeOK, RoomInv, [Next]_vars
    PROVE  RoomInv'
<1> USE DEF licenceVars, deviceVars, callVars
<1>1. ASSUME NEW c \in Calls, ActivateDenied(c) \/ LicenceDenied(c) PROVE RoomInv'
    BY <1>1, RoomStill DEF ActivateDenied, LicenceDenied, Refuse, TypeOK
<1>2. ASSUME NEW f \in Fetches, Fetch(f) PROVE RoomInv'
    BY <1>2, RoomStill DEF Fetch, FetchBegin, FetchFails, FetchCommit
<1>3. CASE Tick BY <1>3, RoomStill DEF Tick
<1>4. CASE UNCHANGED vars BY <1>4, RoomStill DEF vars
<1>5. QED BY <1>1, <1>2, <1>3, <1>4, RoomBegins, RoomActivates, RoomGrants, RoomCommits,
             RoomAdministered DEF Next, Call

-----------------------------------------------------------------------------
(* Leases.                                                                 *)

\* Steps that grant nothing and commit no revocation.
LEMMA LeasesStill ==
    ASSUME TypeOK, LeasesBounded, clock' \in Nat, clock <= clock',
           UNCHANGED <<revokedAt, deviceRevokedAt, req, began, due>>,
           \A c \in Calls : \/ pc'[c] = pc[c]
                            \/ pc'[c] = "refused"
                            \/ pc[c] = "granting" /\ pc'[c] = "ok"
    PROVE  LeasesBounded'
<1>1. clock \in Nat /\ LeaseTtl \in Nat BY ControlPlaneAssumption DEF TypeOK
<1>2. \A l \in Licences : revokedAt'[l] <= clock'
    BY <1>1 DEF TypeOK, LeasesBounded
<1>3. \A c \in Calls : pc'[c] \in {"granting", "ok"} => pc[c] \in {"granting", "ok"}
    OBVIOUS
<1>4. \A c \in Calls : pc'[c] = "proved" => pc[c] = "proved" OBVIOUS
<1>5. \A c \in Calls : due[c] \in Nat BY DEF TypeOK
<1>6. \A c \in Calls : due[c] <= clock + LeaseTtl => due[c] <= clock' + LeaseTtl
    BY <1>1, <1>5
<1>7. QED BY <1>2, <1>3, <1>4, <1>6 DEF LeasesBounded, Lends

LEMMA LeaseGranted ==
    ASSUME TypeOK, CallsTimed, LeasesBounded, NEW c \in Calls,
           ActivateGranted(c) \/ RenewGranted(c)
    PROVE  LeasesBounded'
<1> USE DEF ActivateGranted, RenewGranted, licenceVars, deviceVars
<1>1. req[c].licence \in Licences BY RequestType DEF TypeOK
<1>2. clock \in Nat /\ began[c] \in Nat /\ clock <= began[c] + MaxHandling
    BY DEF TypeOK, CallsTimed, Open
<1>3. LicenceGood(req[c].licence) BY DEF MayActivate, StillLicensed
<1>4. LeaseUntil(req[c].licence) \in Nat /\ LeaseUntil(req[c].licence) <= clock + LeaseTtl
    BY <1>1, ControlPlaneAssumption DEF LeaseUntil, Smaller, TypeOK
<1>5. due'[c] = LeaseUntil(req[c].licence) /\ pc'[c] = "granting" BY DEF TypeOK
<1>6. \A d \in Calls : d # c => due'[d] = due[d] /\ pc'[d] = pc[d] BY DEF TypeOK
<1>7. UNCHANGED <<clock, revokedAt, deviceRevokedAt, req, began>> OBVIOUS
<1>8. due'[c] <= began[c] + MaxHandling + LeaseTtl
    BY <1>2, <1>4, <1>5, ControlPlaneAssumption
<1>9. ASSUME NEW d \in Calls, pc'[d] \in {"granting", "ok"}, Lends(d)
      PROVE  /\ due'[d] <= clock + LeaseTtl
             /\ due'[d] <= began[d] + MaxHandling + LeaseTtl
             /\ revokedAt[req[d].licence] # Never =>
                    due'[d] <= revokedAt[req[d].licence] + MaxHandling + LeaseTtl
  <2>1. CASE d = c BY <1>3, <1>4, <1>5, <1>8, <2>1 DEF LicenceGood
  <2>2. CASE d # c BY <1>6, <1>9, <2>2 DEF LeasesBounded
  <2>3. QED BY <2>1, <2>2
<1>10. \A d \in Calls : pc'[d] \in {"proved", "granting", "ok"} =>
           pc[d] \in {"proved", "granting", "ok"}
    BY <1>5, <1>6
<1>11. QED BY <1>7, <1>9, <1>10 DEF LeasesBounded, Lends

LEMMA LeasesStep ==
    ASSUME TypeOK, CallsTimed, LeasesBounded, [Next]_vars
    PROVE  LeasesBounded'
<1> USE DEF licenceVars, deviceVars, callVars
<1>1. ASSUME NEW c \in Calls, NEW r \in Requests, Begin(c, r) PROVE LeasesBounded'
  <2>1. UNCHANGED <<clock, revokedAt, deviceRevokedAt, due>> BY <1>1 DEF Begin
  <2>2. \A d \in Calls : d # c => pc'[d] = pc[d] /\ req'[d] = req[d] /\ began'[d] = began[d]
      BY <1>1 DEF Begin, TypeOK
  <2>3. pc'[c] = "proved" /\ req'[c] = r BY <1>1 DEF Begin, TypeOK
  <2>4. r.op # "activate" => deviceRevokedAt[r.device] = Never
      BY <1>1 DEF Begin, Acceptable, DeviceGood
  <2>5. QED BY <2>1, <2>2, <2>3, <2>4 DEF LeasesBounded, Lends
<1>2. ASSUME NEW c \in Calls, ReleaseChecked(c) PROVE LeasesBounded'
  <2>1. UNCHANGED <<clock, revokedAt, deviceRevokedAt, req, began>>
      BY <1>2 DEF ReleaseChecked
  <2>2. \A d \in Calls : d # c => pc'[d] = pc[d] /\ due'[d] = due[d]
      BY <1>2 DEF ReleaseChecked, TypeOK
  <2>3. pc[c] = "proved" /\ req[c].op = "release" BY <1>2 DEF ReleaseChecked
  <2>4. QED BY <2>1, <2>2, <2>3 DEF LeasesBounded, Lends
<1>3. ASSUME NEW c \in Calls, ActivateDenied(c) \/ LicenceDenied(c) PROVE LeasesBounded'
    BY <1>3, LeasesStill DEF ActivateDenied, LicenceDenied, Refuse, TypeOK
<1>4. ASSUME NEW c \in Calls, CommitFails(c) \/ Commit(c) PROVE LeasesBounded'
    BY <1>4, LeasesStill DEF CommitFails, Commit, TypeOK
<1>5. ASSUME NEW l \in Licences, RevokeLicence(l) \/ LicenceRevoked(l)
      PROVE  LeasesBounded'
  <2>1. CASE RevokeLicence(l) BY <2>1, LeasesStill DEF RevokeLicence, TypeOK
  <2>2. CASE LicenceRevoked(l)
    <3>1. UNCHANGED <<clock, deviceRevokedAt, pc, req, began, due>>
        BY <2>2 DEF LicenceRevoked
    <3>2. \A k \in Licences : revokedAt'[k] = IF k = l THEN revoking[l] ELSE revokedAt[k]
        BY <2>2 DEF LicenceRevoked, TypeOK
    <3>3. /\ clock \in Nat /\ revoking[l] \in Int
          /\ revoking[l] <= clock /\ clock <= revoking[l] + MaxHandling
        BY <2>2 DEF LicenceRevoked, TypeOK, CallsTimed
    <3>4. \A c \in Calls : pc[c] \in {"granting", "ok"} =>
              req[c].licence \in Licences /\ due[c] \in Nat
        BY RequestType DEF TypeOK
    <3>5. \A c \in Calls : due[c] \in Nat /\ due[c] <= clock + LeaseTtl =>
              due[c] <= revoking[l] + MaxHandling + LeaseTtl
        BY <3>3, ControlPlaneAssumption
    <3>6. QED BY <3>1, <3>2, <3>3, <3>4, <3>5 DEF LeasesBounded, Lends
  <2>3. QED BY <1>5, <2>1, <2>2
<1>6. ASSUME NEW d \in Devices, RevokeDevice(d) \/ DeviceRevoked(d)
      PROVE  LeasesBounded'
  <2>1. CASE RevokeDevice(d) BY <2>1, LeasesStill DEF RevokeDevice, TypeOK
  <2>2. CASE DeviceRevoked(d)
    <3>1. UNCHANGED <<clock, revokedAt, pc, req, began, due>> BY <2>2 DEF DeviceRevoked
    <3>2. \A e \in Devices : deviceRevokedAt'[e] =
              IF e = d THEN deviceRevoking[d] ELSE deviceRevokedAt[e]
        BY <2>2 DEF DeviceRevoked, TypeOK
    <3>3. /\ clock \in Nat /\ deviceRevoking[d] \in Int
          /\ clock <= deviceRevoking[d] + MaxHandling
        BY <2>2 DEF DeviceRevoked, TypeOK, CallsTimed
    <3>4. \A c \in Calls : pc[c] # "idle" =>
              /\ req[c].device \in Devices /\ began[c] \in Nat
              /\ began[c] <= deviceRevoking[d] + MaxHandling
        BY <3>3, RequestType, ControlPlaneAssumption DEF TypeOK, CallsTimed
    <3>5. QED BY <3>1, <3>2, <3>4 DEF LeasesBounded, Lends
  <2>3. QED BY <1>6, <2>1, <2>2
<1>7. ASSUME NEW l \in Licences, NEW e \in Expiries, NEW m \in Limits,
             CreateLicence(l, e, m) \/ UpdateLicence(l, e, m)
      PROVE  LeasesBounded'
    BY <1>7, LeasesStill DEF CreateLicence, UpdateLicence, TypeOK
<1>8. ASSUME NEW a \in Artifacts, RegisterRelease(a) \/ DeactivateRelease(a)
      PROVE  LeasesBounded'
    BY <1>8, LeasesStill DEF RegisterRelease, DeactivateRelease, TypeOK
<1>9. ASSUME NEW f \in Fetches, Fetch(f) PROVE LeasesBounded'
    BY <1>9, LeasesStill DEF Fetch, FetchBegin, FetchFails, FetchCommit, TypeOK
<1>10. CASE Tick BY <1>10, LeasesStill DEF Tick, TypeOK
<1>11. CASE UNCHANGED vars BY <1>11, LeasesStill DEF vars, TypeOK
<1>12. QED
    BY <1>1, <1>2, <1>3, <1>4, <1>5, <1>6, <1>7, <1>8, <1>9, <1>10, <1>11, LeaseGranted
    DEF Next, Call, Administer

-----------------------------------------------------------------------------
(* Download grants.                                                        *)

GrantInv == GrantsRemembered /\ GrantSpentOnceWhileValid

\* Steps of the calls, the administrator and the clock: a grant, once given, stays as it is.
LEMMA GrantsStill ==
    ASSUME TypeOK, GrantInv, clock' \in Nat, clock <= clock', UNCHANGED <<used, fetchVars>>,
           \A c \in Calls : pc[c] = "ok" => pc'[c] = "ok" /\ due'[c] = due[c]
    PROVE  GrantInv'
<1> USE DEF fetchVars
<1>1. clock \in Nat BY DEF TypeOK
<1>2. \A f \in Fetches : fpc[f] # "idle" => source[f] \in Calls /\ due[source[f]] \in Nat
    BY DEF TypeOK
<1>3. \A f \in Fetches : fpc[f] # "idle" =>
          pc[source[f]] = "ok" /\ due'[source[f]] = due[source[f]]
    BY <1>2 DEF GrantInv, GrantsRemembered
<1>4. \A f \in Fetches : fbegan[f] \in Nat BY DEF TypeOK
<1>5. GrantsRemembered' BY <1>1, <1>2, <1>3, <1>4 DEF GrantInv, GrantsRemembered
<1>6. GrantSpentOnceWhileValid' BY <1>3 DEF GrantInv, GrantSpentOnceWhileValid
<1>7. QED BY <1>5, <1>6 DEF GrantInv

\* Steps of a download that does not spend its grant.
LEMMA GrantsFetched ==
    ASSUME TypeOK, GrantInv, NEW f \in Fetches,
           (\E c \in Calls : FetchBegin(f, c)) \/ FetchFails(f)
    PROVE  GrantInv'
<1> USE DEF callVars
<1>1. PICK c \in Calls : FetchBegin(f, c) \/ FetchFails(f)
    BY DEF TypeOK, FetchFails, Fetching
<1>2. UNCHANGED <<clock, used, pc, req, due, fdone>> BY <1>1 DEF FetchBegin, FetchFails
<1>3. \A g \in Fetches : g # f => /\ fpc'[g] = fpc[g] /\ source'[g] = source[g]
                                 /\ fbegan'[g] = fbegan[g]
    BY <1>1 DEF FetchBegin, FetchFails, TypeOK
<1>4. fpc'[f] \in {"hashing", "refused"} BY <1>1 DEF FetchBegin, FetchFails, TypeOK
<1>5. pc[source'[f]] = "ok" /\ fbegan'[f] <= clock
    BY <1>1 DEF FetchBegin, FetchFails, Fetching, Granted, TypeOK, GrantInv, GrantsRemembered
<1>6. GrantsRemembered' BY <1>2, <1>3, <1>4, <1>5 DEF GrantInv, GrantsRemembered
<1>7. GrantSpentOnceWhileValid' BY <1>2, <1>3, <1>4 DEF GrantInv, GrantSpentOnceWhileValid
<1>8. QED BY <1>6, <1>7 DEF GrantInv

\* The purge drops only rows of grants that have expired.
LEMMA GrantSpent ==
    ASSUME TypeOK, GrantInv, NEW f \in Fetches, FetchCommit(f)
    PROVE  GrantInv'
<1> USE DEF callVars, Fetching
<1>1. source[f] \in Calls /\ pc[source[f]] = "ok" /\ fbegan[f] <= clock
    BY DEF FetchCommit, TypeOK, GrantInv, GrantsRemembered
<1>2. UNCHANGED <<clock, pc, due, source, fbegan>> BY DEF FetchCommit
<1>3. \A g \in Fetches : g # f => fpc'[g] = fpc[g] /\ fdone'[g] = fdone[g]
    BY DEF FetchCommit, TypeOK
<1>4. fpc'[f] = "ok" /\ fdone'[f] = clock BY DEF FetchCommit, TypeOK
<1>5. used' = Spend(f) BY DEF FetchCommit
<1>6. clock \in Nat /\ fbegan[f] \in Nat BY DEF TypeOK
<1>7. \A c \in Calls : due[c] \in Nat /\ used[c] \in Int BY DEF TypeOK
<1>8. used'[source[f]] = due[source[f]] BY <1>1, <1>5 DEF Spend
<1>9. \A c \in Calls : c # source[f] =>
          used'[c] = used[c] \/ used[c] < fbegan[f]
    BY <1>5 DEF Spend
<1>10. ASSUME NEW g \in Fetches, fpc[g] = "ok"
       PROVE  used'[source[g]] = due[source[g]] \/ due[source[g]] < clock
  <2>1. source[g] \in Calls BY <1>10 DEF TypeOK
  <2>2. used[source[g]] = due[source[g]] \/ due[source[g]] < clock
      BY <1>10 DEF GrantInv, GrantsRemembered
  <2>3. QED BY <1>1, <1>6, <1>7, <1>8, <1>9, <2>1, <2>2
<1>11. GrantsRemembered'
    BY <1>1, <1>2, <1>3, <1>4, <1>8, <1>10 DEF GrantInv, GrantsRemembered, FetchCommit
<1>12. ASSUME NEW g \in Fetches, g # f, fpc[g] = "ok", source[g] = source[f]
       PROVE  due[source[f]] < clock
  <2>1. used[source[g]] = due[source[g]] \/ due[source[g]] < clock
      BY <1>12 DEF GrantInv, GrantsRemembered
  <2>2. used[source[f]] = Never BY DEF FetchCommit, Unspent
  <2>3. QED BY <1>1, <1>7, <1>12, <2>1, <2>2 DEF Never
<1>13. GrantSpentOnceWhileValid'
  <2>1. ~(clock <= due[source[f]]) \/ \A g \in Fetches :
            g # f /\ fpc[g] = "ok" => source[g] # source[f]
      BY <1>1, <1>6, <1>7, <1>12
  <2>2. QED BY <1>2, <1>3, <1>4, <2>1 DEF GrantInv, GrantSpentOnceWhileValid
<1>14. QED BY <1>11, <1>13 DEF GrantInv

LEMMA GrantsStep ==
    ASSUME TypeOK, TypeOK', GrantInv, [Next]_vars
    PROVE  GrantInv'
<1> USE DEF callVars, fetchVars
<1>1. ASSUME NEW c \in Calls, Call(c) PROVE GrantInv'
  <2>1. CASE \E r \in Requests : Begin(c, r) BY <2>1, GrantsStill DEF Begin, TypeOK
  <2>2. CASE ActivateDenied(c) \/ LicenceDenied(c)
      BY <2>2, GrantsStill DEF ActivateDenied, LicenceDenied, Refuse, TypeOK
  <2>3. CASE ActivateGranted(c) \/ RenewGranted(c) \/ ReleaseChecked(c)
      BY <2>3, GrantsStill DEF ActivateGranted, RenewGranted, ReleaseChecked, TypeOK
  <2>4. CASE CommitFails(c) \/ Commit(c)
      BY <2>4, GrantsStill DEF CommitFails, Commit, TypeOK
  <2>5. QED BY <1>1, <2>1, <2>2, <2>3, <2>4 DEF Call
<1>2. CASE Administer
    BY <1>2, GrantsStill
    DEF Administer, CreateLicence, UpdateLicence, RevokeLicence, LicenceRevoked,
          RevokeDevice, DeviceRevoked, RegisterRelease, DeactivateRelease, TypeOK
<1>3. CASE Tick BY <1>3, GrantsStill DEF Tick, TypeOK
<1>4. CASE UNCHANGED vars BY <1>4, GrantsStill DEF vars, TypeOK
<1>5. QED BY <1>1, <1>2, <1>3, <1>4, GrantsFetched, GrantSpent DEF Next, Fetch

-----------------------------------------------------------------------------
(* The theorems.                                                           *)

LEMMA InitInd == Init => IndInv
<1> SUFFICES ASSUME Init PROVE IndInv
    OBVIOUS
<1>1. TypeOK BY TypeInit
<1>2. CallsTimed /\ ProofsRemembered /\ ProofUsedOnce /\ RoomReserved /\ Bindings
    BY DEF Init, CallsTimed, ProofsRemembered, ProofUsedOnce, RoomReserved, Bindings, Open
<1>3. LeasesBounded BY DEF Init, LeasesBounded, Never
<1>4. GrantsRemembered /\ GrantSpentOnceWhileValid
    BY DEF Init, GrantsRemembered, GrantSpentOnceWhileValid
<1>5. QED BY <1>1, <1>2, <1>3, <1>4 DEF IndInv

LEMMA StepInd == IndInv /\ [Next]_vars => IndInv'
<1> SUFFICES ASSUME IndInv, [Next]_vars PROVE IndInv'
    OBVIOUS
<1>1. TypeOK' BY TypeStep DEF IndInv
<1>2. CallsTimed' BY TimedStep DEF IndInv
<1>3. ProofInv' BY <1>1, ProofStep DEF IndInv, ProofInv
<1>4. RoomInv' BY RoomStep DEF IndInv, RoomInv
<1>5. LeasesBounded' BY LeasesStep DEF IndInv
<1>6. GrantInv' BY <1>1, GrantsStep DEF IndInv, GrantInv
<1>7. QED BY <1>1, <1>2, <1>3, <1>4, <1>5, <1>6 DEF IndInv, ProofInv, RoomInv, GrantInv

\* The inductive invariant of the licence server holds in every reachable state.
THEOREM Inductive == Spec => []IndInv
BY InitInd, StepInd, PTL DEF Spec

\* The type invariant.
THEOREM Types == Spec => []TypeOK
<1>1. IndInv => TypeOK BY DEF IndInv
<1>2. QED BY <1>1, Inductive, PTL

\* No signed request takes effect twice, at any number of retries and purges.
THEOREM ProofsUsedOnce == Spec => []ProofUsedOnce
<1>1. IndInv => ProofUsedOnce BY DEF IndInv
<1>2. QED BY <1>1, Inductive, PTL

\* A lease names the licence its device is bound to.
THEOREM LeasesNameBindings == Spec => []LeaseNamesBinding
<1>1. IndInv => LeaseNamesBinding BY DEF IndInv, Bindings, LeaseNamesBinding, Leased
<1>2. QED BY <1>1, Inductive, PTL

\* Revoking a licence ends every lease of it within the time to live and the
\* time the revocation itself took.
THEOREM RevokedLicenceEnds == Spec => []LeasesEndWithLicence
<1>1. IndInv => LeasesEndWithLicence
    BY DEF IndInv, LeasesBounded, Lends, LeasesEndWithLicence, Leased
<1>2. QED BY <1>1, Inductive, PTL

\* Revoking a device ends its renewed leases within two handling times and the
\* time to live.
THEOREM RevokedDeviceEnds == Spec => []RenewalsEndWithDevice
<1>1. IndInv => RenewalsEndWithDevice
  <2> SUFFICES ASSUME IndInv, NEW c \in Calls, Leased(c), req[c].op = "renew",
                      deviceRevokedAt[req[c].device] # Never
               PROVE  due[c] <= deviceRevokedAt[req[c].device] + 2 * MaxHandling + LeaseTtl
      BY DEF RenewalsEndWithDevice
  <2>1. req[c].device \in Devices BY RequestType DEF IndInv, TypeOK, Leased
  <2>2. due[c] <= began[c] + MaxHandling + LeaseTtl
      BY DEF IndInv, LeasesBounded, Lends, Leased
  <2>3. began[c] <= deviceRevokedAt[req[c].device] + MaxHandling
      BY DEF IndInv, LeasesBounded, Leased
  <2>4. deviceRevokedAt[req[c].device] \in Int /\ began[c] \in Nat /\ due[c] \in Nat
      BY <2>1 DEF IndInv, TypeOK
  <2>5. QED BY <2>2, <2>3, <2>4, ControlPlaneAssumption
<1>2. QED BY <1>1, Inductive, PTL

\* While a download grant is valid it is spent at most once.
THEOREM GrantsSpentOnce == Spec => []GrantSpentOnceWhileValid
<1>1. IndInv => GrantSpentOnceWhileValid BY DEF IndInv
<1>2. QED BY <1>1, Inductive, PTL

\* One more element is at most one more to count.
LEMMA OneMore ==
    ASSUME NEW S, IsFiniteSet(S), NEW x
    PROVE  /\ IsFiniteSet(S \cup {x})
           /\ Cardinality(S \cup {x}) <= Cardinality(S) + 1
<1>1. Cardinality(S) \in Nat BY FS_CardinalityType
<1>2. /\ IsFiniteSet(S \cup {x})
      /\ \/ Cardinality(S \cup {x}) = Cardinality(S)
         \/ Cardinality(S \cup {x}) = Cardinality(S) + 1
    BY FS_AddElement
<1>3. QED BY <1>1, <1>2

\* Only the commit of an activation that brings a device adds to a licence, and
\* there was room.
LEMMA LimitStep ==
    ASSUME IndInv, [Next]_vars, NEW l \in Licences, ~(Holders(l)' \subseteq Holders(l))
    PROVE  Cardinality(Holders(l)') <= maxDevices'[l]
<1> USE DEF licenceVars, deviceVars
<1>1. TypeOK /\ RoomReserved BY DEF IndInv
<1>2. ~(UNCHANGED <<bound, deviceRevokedAt>>) BY DEF Holders, DeviceGood
<1>3. ASSUME NEW d \in Devices, DeviceRevoked(d) PROVE FALSE
  <2>1. UNCHANGED bound BY <1>3 DEF DeviceRevoked
  <2>2. deviceRevoking[d] # Never BY <1>3 DEF DeviceRevoked
  <2>3. \A e \in Devices : deviceRevokedAt'[e] = Never => deviceRevokedAt[e] = Never
      BY <1>1, <1>3, <2>2 DEF DeviceRevoked, TypeOK
  <2>4. QED BY <2>1, <2>3 DEF Holders, DeviceGood
<1>4. PICK c \in Calls : Commit(c)
    BY <1>2, <1>3, StepShape
    DEF Begin, ActivateDenied, LicenceDenied, Refuse, ActivateGranted, RenewGranted,
        ReleaseChecked, CommitFails, FetchBegin, FetchFails, FetchCommit, CreateLicence,
        UpdateLicence, RevokeLicence, LicenceRevoked, RevokeDevice, RegisterRelease,
        DeactivateRelease, Tick, vars
<1>5. req[c] \in Requests /\ req[c].device \in Devices /\ req[c].licence \in Licences
    BY <1>1, <1>4, RequestType DEF Commit, TypeOK
<1>6. UNCHANGED <<deviceRevokedAt, maxDevices>> BY <1>4 DEF Commit
<1>7. adds[c]
  <2>1. ~adds[c] => bound' = bound BY <1>1, <1>4, <1>5 DEF Commit, TypeOK
  <2>2. QED BY <1>2, <1>6, <2>1
<1>8. bound' = [bound EXCEPT ![req[c].device] = req[c].licence]
    BY <1>1, <1>4, <1>7 DEF Commit, TypeOK
<1>9. \A d \in Holders(l)' : d \in Holders(l) \/ (d = req[c].device /\ l = req[c].licence)
    BY <1>1, <1>5, <1>6, <1>8 DEF Holders, DeviceGood, TypeOK
<1>10. l = req[c].licence BY <1>9
<1>11. Holders(l)' \subseteq Holders(l) \cup {req[c].device} BY <1>9
<1>12. Cardinality(Holders(l)) < maxDevices[l]
    BY <1>1, <1>4, <1>7, <1>10 DEF Commit, RoomReserved
<1>13. IsFiniteSet(Holders(l)) BY FS_Subset, ControlPlaneAssumption DEF Holders
<1>14. maxDevices[l] \in Nat BY <1>1 DEF TypeOK
<1>15. IsFiniteSet(Holders(l) \cup {req[c].device})
       /\ Cardinality(Holders(l) \cup {req[c].device}) <= Cardinality(Holders(l)) + 1
    BY <1>13, OneMore
<1>16. /\ Cardinality(Holders(l)') <= Cardinality(Holders(l) \cup {req[c].device})
       /\ Cardinality(Holders(l)') \in Nat
       /\ Cardinality(Holders(l) \cup {req[c].device}) \in Nat
       /\ Cardinality(Holders(l)) \in Nat
  <2>1. IsFiniteSet(Holders(l)')
      BY <1>11, <1>15, FS_Subset
  <2>2. QED BY <1>11, <1>13, <1>15, <2>1, FS_Subset, FS_CardinalityType
<1>17. QED BY <1>6, <1>12, <1>14, <1>15, <1>16

\* A licence never gains a device beyond its limit.
THEOREM DevicesLimited == Spec => DeviceLimit
<1>1. IndInv /\ [Next]_vars =>
          [\A l \in Licences : ~(Holders(l)' \subseteq Holders(l)) =>
              Cardinality(Holders(l)') <= maxDevices'[l]]_vars
  <2> SUFFICES ASSUME IndInv, [Next]_vars, NEW l \in Licences,
                      ~(Holders(l)' \subseteq Holders(l))
               PROVE  Cardinality(Holders(l)') <= maxDevices'[l]
      OBVIOUS
  <2>1. QED BY LimitStep
<1>2. QED BY <1>1, Inductive, PTL DEF Spec, DeviceLimit
=============================================================================
