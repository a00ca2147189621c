---------------------------- MODULE ControlPlane ----------------------------
(***************************************************************************)
(* The licence server, src/control_plane/app/main.py with security.py and  *)
(* models.py: activation of devices, renewal of leases, release checks,    *)
(* downloads, and what the administrator does to licences, devices and     *)
(* releases.                                                               *)
(*                                                                         *)
(* FastAPI runs each synchronous handler in a thread and each has a        *)
(* database transaction of its own, so handlers interleave between their   *)
(* statements; production is PostgreSQL with read-committed statements.    *)
(* A member of Calls is one delivery of a signed request; two deliveries   *)
(* of one request are a client's retry.  A member of Fetches is one        *)
(* download.  Time is a clock of the server; a handler ends within         *)
(* MaxHandling.                                                            *)
(*                                                                         *)
(* A definition X_Y that precedes X is X with a plausible bug.             *)
(***************************************************************************)
EXTENDS Integers, FiniteSets

CONSTANTS
    Licences, Devices, Artifacts,
    Requests,       \* signed requests: [op, device, licence, issued]
    Calls, Fetches, \* handler invocations of one behaviour (a bound)
    NoLicence, NoRequest, NoCall, NoArtifact,
    Version,        \* the version of each artifact
    Installed,      \* the version the clients run (current_version)
    Limits,         \* the values the administrator gives max_devices
    Expiries,       \* the values the administrator gives expires_at
    Skew,           \* max_clock_skew_seconds
    LeaseTtl,       \* lease_ttl_seconds
    GrantTtl,       \* download_grant_ttl_seconds
    MaxHandling,    \* the longest a handler runs
    MaxTime         \* bound: the clock stops here

Never == -1         \* an absent row, revoked_at = None, no revocation
Operations == {"activate", "renew", "release"}

ASSUME ControlPlaneAssumption ==
    /\ IsFiniteSet(Devices)
    /\ NoLicence \notin Licences /\ NoRequest \notin Requests
    /\ NoCall \notin Calls /\ NoArtifact \notin Artifacts
    /\ Requests \subseteq [op : Operations, device : Devices,
                           licence : Licences, issued : Int]
    /\ Version \in [Artifacts -> Nat] /\ Installed \in Nat
    /\ Limits \subseteq Nat /\ Limits # {}
    /\ Expiries \subseteq Nat /\ Expiries # {}
    /\ {Skew, LeaseTtl, GrantTtl, MaxHandling, MaxTime} \subseteq Nat

\* Production closes a request long before max_clock_skew_seconds (300 s).
ASSUME HandlingAssumption == MaxHandling <= Skew

VARIABLES
    clock,
    created, expires, maxDevices, revokedAt,    \* table LicenseRecord
    lock,                                       \* its rows locked FOR UPDATE
    bound, deviceRevokedAt,                     \* table DeviceRecord
    revoking, deviceRevoking,                   \* revocations under way: their time
    nonce,                                      \* table UsedNonce: expires_at
    used,                                       \* table UsedDownloadGrant
    registered, active,                         \* table ReleaseRecord
    pc, req, began, due, adds, offer,           \* the calls
    fpc, source, fbegan, fdone                  \* the downloads

licenceVars == <<created, expires, maxDevices, revokedAt, revoking>>
deviceVars  == <<bound, deviceRevokedAt, deviceRevoking>>
releaseVars == <<registered, active>>
callVars    == <<pc, req, began, due, adds, offer>>
fetchVars   == <<fpc, source, fbegan, fdone>>
vars == <<clock, licenceVars, lock, deviceVars, nonce, used, releaseVars,
          callVars, fetchVars>>

Smaller(a, b) == IF a < b THEN a ELSE b

\* Calls and downloads whose transaction is open.
Open(c)     == pc[c] \in {"proved", "granting"}
Fetching(f) == fpc[f] = "hashing"

LicenceGood(l) == l \in created /\ revokedAt[l] = Never /\ expires[l] > clock
DeviceGood(d, l) == bound[d] = l /\ deviceRevokedAt[d] = Never
\* The devices that count against the limit of a licence.
Holders(l) == {d \in Devices : DeviceGood(d, l)}
\* The releases a client on Installed may be offered.
Candidates == {a \in active : Version[a] > Installed}

Init ==
    /\ clock = 0
    /\ created = {}
    /\ expires    = [l \in Licences |-> 0]
    /\ maxDevices = [l \in Licences |-> 0]
    /\ revokedAt  = [l \in Licences |-> Never]
    /\ lock  = [l \in Licences |-> NoCall]
    /\ bound = [d \in Devices |-> NoLicence]
    /\ deviceRevokedAt = [d \in Devices |-> Never]
    /\ revoking = [l \in Licences |-> Never]
    /\ deviceRevoking = [d \in Devices |-> Never]
    /\ nonce = [r \in Requests |-> Never]
    /\ used  = [c \in Calls |-> Never]
    /\ registered = {} /\ active = {}
    /\ pc    = [c \in Calls |-> "idle"]
    /\ req   = [c \in Calls |-> NoRequest]
    /\ began = [c \in Calls |-> 0]
    /\ due   = [c \in Calls |-> 0]
    /\ adds  = [c \in Calls |-> FALSE]
    /\ offer = [c \in Calls |-> NoArtifact]
    /\ fpc    = [f \in Fetches |-> "idle"]
    /\ source = [f \in Fetches |-> NoCall]
    /\ fbegan = [f \in Fetches |-> 0]
    /\ fdone  = [f \in Fetches |-> Never]

-----------------------------------------------------------------------------
(* The signed requests.                                                    *)

\* enforce_fresh_proof deletes the nonce rows that have expired and looks for
\* that of the request; for renew and check_release the device row is read
\* before it.
Fresh(r) == /\ r.issued - Skew <= clock /\ clock <= r.issued + Skew
            /\ nonce[r] < clock
Acceptable_AnyDevice(r) == Fresh(r)
Acceptable(r) ==
    /\ Fresh(r)
    /\ r.op # "activate" => DeviceGood(r.device, r.licence)

\* A request that is refused here has changed nothing.
Begin(c, r) ==
    /\ pc[c] = "idle" /\ Acceptable(r)
    /\ pc' = [pc EXCEPT ![c] = "proved"]
    /\ req' = [req EXCEPT ![c] = r]
    /\ began' = [began EXCEPT ![c] = clock]
    /\ UNCHANGED <<clock, licenceVars, lock, deviceVars, nonce, used,
                   releaseVars, due, adds, offer, fetchVars>>

\* An HTTPException: the session is closed without a commit.
Refuse(c) ==
    /\ pc' = [pc EXCEPT ![c] = "refused"]
    /\ UNCHANGED <<clock, licenceVars, lock, deviceVars, nonce, used,
                   releaseVars, req, began, due, adds, offer, fetchVars>>

\* The statements of activate after the nonce.  The licence row is selected
\* FOR UPDATE, so the call waits for whoever holds it.
Free_Ignored(l) == l \in Licences
Free(l) == lock[l] = NoCall
RoomFor(d, l) == bound[d] = NoLicence => Cardinality(Holders(l)) < maxDevices[l]
MayActivate(r) ==
    /\ LicenceGood(r.licence)
    /\ bound[r.device] \in {NoLicence, r.licence}
    /\ RoomFor(r.device, r.licence)

ActivateDenied(c) ==
    /\ pc[c] = "proved" /\ req[c].op = "activate"
    /\ Free(req[c].licence)
    /\ ~MayActivate(req[c])
    /\ Refuse(c)

\* issue_lease.
LeaseUntil(l) == Smaller(expires[l], clock + LeaseTtl)

ActivateGranted(c) ==
    /\ pc[c] = "proved" /\ req[c].op = "activate"
    /\ Free(req[c].licence)
    /\ MayActivate(req[c])
    /\ pc' = [pc EXCEPT ![c] = "granting"]
    /\ lock' = [lock EXCEPT ![req[c].licence] = c]
    /\ adds' = [adds EXCEPT ![c] = bound[req[c].device] = NoLicence]
    /\ due' = [due EXCEPT ![c] = LeaseUntil(req[c].licence)]
    /\ UNCHANGED <<clock, licenceVars, deviceVars, nonce, used, releaseVars,
                   req, began, offer, fetchVars>>

\* renew and check_release read the licence row without locking it.
StillLicensed_Unread(c) == req[c].licence \in created
StillLicensed(c) == LicenceGood(req[c].licence)

LicenceDenied(c) ==
    /\ pc[c] = "proved" /\ req[c].op # "activate"
    /\ ~StillLicensed(c)
    /\ Refuse(c)

RenewGranted(c) ==
    /\ pc[c] = "proved" /\ req[c].op = "renew"
    /\ StillLicensed(c)
    /\ pc' = [pc EXCEPT ![c] = "granting"]
    /\ due' = [due EXCEPT ![c] = LeaseUntil(req[c].licence)]
    /\ UNCHANGED <<clock, licenceVars, lock, deviceVars, nonce, used,
                   releaseVars, req, began, adds, offer, fetchVars>>

\* check_release: the newest candidate, or none, and a download grant for it.
Newest(a) == a \in Candidates /\ \A b \in Candidates : Version[b] <= Version[a]

ReleaseChecked(c) ==
    /\ pc[c] = "proved" /\ req[c].op = "release"
    /\ StillLicensed(c)
    /\ \/ \E a \in Candidates : Newest(a) /\ offer' = [offer EXCEPT ![c] = a]
       \/ Candidates = {} /\ UNCHANGED offer
    /\ pc' = [pc EXCEPT ![c] = "granting"]
    /\ due' = [due EXCEPT ![c] = clock + GrantTtl]
    /\ UNCHANGED <<clock, licenceVars, lock, deviceVars, nonce, used,
                   releaseVars, req, began, adds, fetchVars>>

\* session.commit(): the primary keys of UsedNonce and DeviceRecord decide
\* between transactions that did not see each other.
Conflict(c) ==
    \/ nonce[req[c]] >= began[c]
    \/ adds[c] /\ bound[req[c].device] # NoLicence
Unlock(c) == lock' = [l \in Licences |-> IF lock[l] = c THEN NoCall ELSE lock[l]]

CommitFails(c) ==
    /\ pc[c] = "granting" /\ Conflict(c)
    /\ pc' = [pc EXCEPT ![c] = "refused"]
    /\ Unlock(c)
    /\ UNCHANGED <<clock, licenceVars, deviceVars, nonce, used, releaseVars,
                   req, began, due, adds, offer, fetchVars>>

\* The nonce rows after call c: those that had expired when it deleted them
\* are gone, its own is there for twice the skew.
NonceExpiry_OneSkew(c) == began[c] + Skew
NonceExpiry(c) == began[c] + 2 * Skew
Commit(c) ==
    /\ pc[c] = "granting" /\ ~Conflict(c)
    /\ pc' = [pc EXCEPT ![c] = "ok"]
    /\ nonce' = [r \in Requests |->
                    CASE r = req[c] -> NonceExpiry(c)
                      [] r # req[c] /\ nonce[r] < began[c] -> Never
                      [] OTHER -> nonce[r]]
    /\ bound' = [bound EXCEPT ![req[c].device] =
                    IF adds[c] THEN req[c].licence ELSE @]
    /\ Unlock(c)
    /\ UNCHANGED <<clock, licenceVars, deviceRevokedAt, deviceRevoking, used,
                   releaseVars, req, began, due, adds, offer, fetchVars>>

-----------------------------------------------------------------------------
(* download_artifact: f presents the grant that call c was given.          *)

Granted(c) == pc[c] = "ok" /\ req[c].op = "release" /\ offer[c] # NoArtifact
MayDownload(c) ==
    /\ clock < due[c]
    /\ LET d == req[c].device
       IN  /\ bound[d] # NoLicence /\ deviceRevokedAt[d] = Never
           /\ LicenceGood(bound[d])
    /\ offer[c] \in active

FetchBegin(f, c) ==
    /\ fpc[f] = "idle" /\ Granted(c) /\ MayDownload(c)
    /\ fpc' = [fpc EXCEPT ![f] = "hashing"]
    /\ source' = [source EXCEPT ![f] = c]
    /\ fbegan' = [fbegan EXCEPT ![f] = clock]
    /\ UNCHANGED <<clock, licenceVars, lock, deviceVars, nonce, used,
                   releaseVars, callVars, fdone>>

\* The file is missing or its digest differs, or the grant's row is there.
FetchFails(f) ==
    /\ Fetching(f)
    /\ fpc' = [fpc EXCEPT ![f] = "refused"]
    /\ UNCHANGED <<clock, licenceVars, lock, deviceVars, nonce, used,
                   releaseVars, callVars, source, fbegan, fdone>>

Spend(f) ==
    [c \in Calls |-> IF c = source[f] THEN due[c]
                     ELSE IF used[c] < fbegan[f] THEN Never ELSE used[c]]
Unspent_Unchecked(f) == source[f] \in Calls
Unspent(f) == used[source[f]] = Never
FetchCommit(f) ==
    /\ Fetching(f) /\ Unspent(f)
    /\ fpc' = [fpc EXCEPT ![f] = "ok"]
    /\ fdone' = [fdone EXCEPT ![f] = clock]
    /\ used' = Spend(f)
    /\ UNCHANGED <<clock, licenceVars, lock, deviceVars, nonce, releaseVars,
                   callVars, source, fbegan>>

-----------------------------------------------------------------------------
(* The administrator, one request at a time.  An UPDATE of a licence row   *)
(* waits for the activation that holds it, and a revocation takes its time *)
(* before its UPDATE.                                                      *)

Idle == /\ \A l \in Licences : revoking[l] = Never
        /\ \A d \in Devices : deviceRevoking[d] = Never

CreateLicence(l, e, m) ==
    /\ Idle /\ l \notin created /\ e > clock
    /\ created' = created \cup {l}
    /\ expires' = [expires EXCEPT ![l] = e]
    /\ maxDevices' = [maxDevices EXCEPT ![l] = m]
    /\ UNCHANGED <<clock, revokedAt, revoking, lock, deviceVars, nonce, used,
                   releaseVars, callVars, fetchVars>>

UpdateLicence(l, e, m) ==
    /\ Idle /\ l \in created /\ revokedAt[l] = Never /\ Free(l) /\ e > clock
    /\ expires' = [expires EXCEPT ![l] = e]
    /\ maxDevices' = [maxDevices EXCEPT ![l] = m]
    /\ UNCHANGED <<clock, created, revokedAt, revoking, lock, deviceVars,
                   nonce, used, releaseVars, callVars, fetchVars>>

RevokeLicence(l) ==
    /\ Idle /\ l \in created /\ revokedAt[l] = Never
    /\ revoking' = [revoking EXCEPT ![l] = clock]
    /\ UNCHANGED <<clock, created, expires, maxDevices, revokedAt, lock,
                   deviceVars, nonce, used, releaseVars, callVars, fetchVars>>

LicenceRevoked(l) ==
    /\ revoking[l] # Never /\ Free(l)
    /\ revokedAt' = [revokedAt EXCEPT ![l] = revoking[l]]
    /\ revoking' = [revoking EXCEPT ![l] = Never]
    /\ UNCHANGED <<clock, created, expires, maxDevices, lock, deviceVars,
                   nonce, used, releaseVars, callVars, fetchVars>>

RevokeDevice(d) ==
    /\ Idle /\ bound[d] # NoLicence /\ deviceRevokedAt[d] = Never
    /\ deviceRevoking' = [deviceRevoking EXCEPT ![d] = clock]
    /\ UNCHANGED <<clock, licenceVars, lock, bound, deviceRevokedAt, nonce,
                   used, releaseVars, callVars, fetchVars>>

DeviceRevoked(d) ==
    /\ deviceRevoking[d] # Never
    /\ deviceRevokedAt' = [deviceRevokedAt EXCEPT ![d] = deviceRevoking[d]]
    /\ deviceRevoking' = [deviceRevoking EXCEPT ![d] = Never]
    /\ UNCHANGED <<clock, licenceVars, lock, bound, nonce, used, releaseVars,
                   callVars, fetchVars>>

\* A version that was registered once is refused, deactivated or not.
RegisterRelease(a) ==
    /\ Idle /\ \A b \in registered : Version[b] # Version[a]
    /\ registered' = registered \cup {a}
    /\ active' = active \cup {a}
    /\ UNCHANGED <<clock, licenceVars, lock, deviceVars, nonce, used,
                   callVars, fetchVars>>

DeactivateRelease(a) ==
    /\ Idle /\ a \in active
    /\ active' = active \ {a}
    /\ UNCHANGED <<clock, licenceVars, lock, deviceVars, nonce, used,
                   registered, callVars, fetchVars>>

Tick ==
    /\ clock < MaxTime
    /\ \A c \in Calls : Open(c) => clock < began[c] + MaxHandling
    /\ \A f \in Fetches : Fetching(f) => clock < fbegan[f] + MaxHandling
    /\ \A l \in Licences : revoking[l] # Never => clock < revoking[l] + MaxHandling
    /\ \A d \in Devices :
           deviceRevoking[d] # Never => clock < deviceRevoking[d] + MaxHandling
    /\ clock' = clock + 1
    /\ UNCHANGED <<licenceVars, lock, deviceVars, nonce, used, releaseVars,
                   callVars, fetchVars>>

Call(c) ==
    \/ \E r \in Requests : Begin(c, r)
    \/ ActivateDenied(c) \/ ActivateGranted(c)
    \/ LicenceDenied(c) \/ RenewGranted(c) \/ ReleaseChecked(c)
    \/ CommitFails(c) \/ Commit(c)
Fetch(f) == (\E c \in Calls : FetchBegin(f, c)) \/ FetchFails(f) \/ FetchCommit(f)
Administer ==
    \/ \E l \in Licences, e \in Expiries, m \in Limits :
           CreateLicence(l, e, m) \/ UpdateLicence(l, e, m)
    \/ \E l \in Licences : RevokeLicence(l) \/ LicenceRevoked(l)
    \/ \E d \in Devices : RevokeDevice(d) \/ DeviceRevoked(d)
    \/ \E a \in Artifacts : RegisterRelease(a) \/ DeactivateRelease(a)

Next ==
    \/ \E c \in Calls : Call(c)
    \/ \E f \in Fetches : Fetch(f)
    \/ Administer
    \/ Tick

Spec == Init /\ [][Next]_vars

-----------------------------------------------------------------------------
(* Properties.                                                             *)

\* The leases the server has handed out.
Leased(c) == pc[c] = "ok" /\ req[c].op \in {"activate", "renew"}

\* Type correctness; a call that is under way belongs to a request, only an
\* activation holds a licence row, and only registered releases are active.
TypeOK ==
    /\ clock \in Nat
    /\ created \subseteq Licences
    /\ expires \in [Licences -> Nat] /\ maxDevices \in [Licences -> Nat]
    /\ revokedAt \in [Licences -> Int]
    /\ lock \in [Licences -> Calls \cup {NoCall}]
    /\ bound \in [Devices -> Licences \cup {NoLicence}]
    /\ deviceRevokedAt \in [Devices -> Int]
    /\ revoking \in [Licences -> Int] /\ deviceRevoking \in [Devices -> Int]
    /\ nonce \in [Requests -> Int] /\ used \in [Calls -> Int]
    /\ registered \subseteq Artifacts /\ active \subseteq registered
    /\ pc \in [Calls -> {"idle", "proved", "granting", "ok", "refused"}]
    /\ req \in [Calls -> Requests \cup {NoRequest}]
    /\ \A c \in Calls : pc[c] # "idle" => req[c] \in Requests
    /\ began \in [Calls -> Nat] /\ due \in [Calls -> Nat]
    /\ adds \in [Calls -> BOOLEAN]
    /\ offer \in [Calls -> Artifacts \cup {NoArtifact}]
    /\ fpc \in [Fetches -> {"idle", "hashing", "ok", "refused"}]
    /\ source \in [Fetches -> Calls \cup {NoCall}]
    /\ \A f \in Fetches : fpc[f] # "idle" => source[f] \in Calls
    /\ fbegan \in [Fetches -> Nat] /\ fdone \in [Fetches -> Int]

\* A licence never gains a device beyond the limit in force at that moment,
\* however many activations count its devices at once and whatever the
\* administrator changes in between (activate, main.py:478-512).
DeviceLimit ==
    [][\A l \in Licences : ~(Holders(l)' \subseteq Holders(l)) =>
            Cardinality(Holders(l)') <= maxDevices'[l]]_vars

\* A signed request takes effect at most once, although rows of UsedNonce are
\* deleted as they expire and a retry may overlap the first delivery
\* (enforce_fresh_proof, security.py:179-195).
ProofUsedOnce ==
    \A c, d \in Calls :
        pc[c] = "ok" /\ pc[d] = "ok" /\ req[c] = req[d] => c = d

\* A device with a lease is bound to the licence that the lease names, also
\* when two licences are activated on one device at the same time
\* (activate, main.py:489-512).
LeaseNamesBinding ==
    \A c \in Calls : Leased(c) => bound[req[c].device] = req[c].licence

\* Once a licence is revoked, none of its leases outlives the revocation by
\* more than the time to live and the time the revocation itself took: its
\* time is taken before an UPDATE that waits for the activation that holds the
\* row, and until it commits leases are granted and renewed (renew
\* main.py:568-592, revoke_license 787-796, issue_lease security.py:208-237).
LeasesEndWithLicence ==
    \A c \in Calls : Leased(c) /\ revokedAt[req[c].licence] # Never =>
        due[c] <= revokedAt[req[c].licence] + MaxHandling + LeaseTtl

\* A renewal reads the device row first and decides last, and the revocation
\* of a device takes its time before it commits: a lease that was renewed ends
\* within two handling times and one time to live of the revocation of its
\* device (renew, main.py:540-592, revoke_device 812-821).  Of activations this
\* says nothing: activate never reads revoked_at of a known device.
RenewalsEndWithDevice ==
    \A c \in Calls :
        Leased(c) /\ req[c].op = "renew"
            /\ deviceRevokedAt[req[c].device] # Never =>
        due[c] <= deviceRevokedAt[req[c].device] + 2 * MaxHandling + LeaseTtl

\* While a download grant is valid it is spent at most once, whatever overlaps
\* and whatever other downloads purge (download_artifact, main.py:740-768).
GrantSpentOnceWhileValid ==
    \A f, g \in Fetches :
        /\ fpc[f] = "ok" /\ fpc[g] = "ok" /\ source[f] = source[g]
        /\ fdone[f] <= due[source[f]] /\ fdone[g] <= due[source[g]]
        => f = g

-----------------------------------------------------------------------------
(* The inductive invariant of the proofs, by topic.                        *)

Lends(c) == req[c].op \in {"activate", "renew"}

\* A call begins while its proof is fresh and ends within MaxHandling; so does
\* a revocation.
CallsTimed ==
    /\ \A c \in Calls : pc[c] # "idle" =>
           /\ began[c] <= clock
           /\ req[c].issued - Skew <= began[c] /\ began[c] <= req[c].issued + Skew
    /\ \A c \in Calls : Open(c) => clock <= began[c] + MaxHandling
    /\ \A l \in Licences : revoking[l] # Never =>
           revoking[l] <= clock /\ clock <= revoking[l] + MaxHandling
    /\ \A d \in Devices : deviceRevoking[d] # Never =>
           deviceRevoking[d] <= clock /\ clock <= deviceRevoking[d] + MaxHandling

\* The nonce row of an accepted request is there until it has expired, and a
\* retry that slipped past it began before the first delivery had ended.
ProofsRemembered ==
    /\ \A c \in Calls : pc[c] = "ok" =>
           nonce[req[c]] = NonceExpiry(c) \/ NonceExpiry(c) < clock
    /\ \A c, d \in Calls : pc[c] = "ok" /\ Open(d) /\ req[c] = req[d] =>
           began[d] <= began[c] + MaxHandling

\* An activation about to commit holds the licence row; if it brings a device
\* there is still room for it.
RoomReserved ==
    /\ \A c \in Calls : adds[c] => pc[c] # "idle" /\ req[c].op = "activate"
    /\ \A c \in Calls : pc[c] = "granting" /\ req[c].op = "activate" =>
           lock[req[c].licence] = c /\ req[c].licence \in created
    /\ \A c \in Calls : pc[c] = "granting" /\ adds[c] =>
           Cardinality(Holders(req[c].licence)) < maxDevices[req[c].licence]

\* A call that relies on the binding of its device finds it as it read it.
Bindings ==
    \A c \in Calls :
        \/ pc[c] \in {"proved", "granting", "ok"} /\ req[c].op # "activate"
        \/ pc[c] = "granting" /\ req[c].op = "activate" /\ ~adds[c]
        \/ pc[c] = "ok" /\ req[c].op = "activate"
        => bound[req[c].device] = req[c].licence

\* How long leases run, granted or handed out.
LeasesBounded ==
    /\ \A l \in Licences : revokedAt[l] <= clock
    /\ \A c \in Calls : pc[c] \in {"granting", "ok"} /\ Lends(c) =>
           /\ due[c] <= clock + LeaseTtl
           /\ due[c] <= began[c] + MaxHandling + LeaseTtl
           /\ revokedAt[req[c].licence] # Never =>
                  due[c] <= revokedAt[req[c].licence] + MaxHandling + LeaseTtl
    /\ \A c \in Calls :
           /\ pc[c] \in {"proved", "granting", "ok"} /\ req[c].op = "renew"
           /\ deviceRevokedAt[req[c].device] # Never
           => began[c] <= deviceRevokedAt[req[c].device] + MaxHandling

\* The row of a spent grant is there until the grant has expired.
GrantsRemembered ==
    \A f \in Fetches :
        /\ fpc[f] # "idle" => pc[source[f]] = "ok" /\ fbegan[f] <= clock
        /\ fpc[f] = "ok" => used[source[f]] = due[source[f]] \/ due[source[f]] < clock

IndInv ==
    /\ TypeOK /\ CallsTimed /\ ProofsRemembered /\ ProofUsedOnce
    /\ RoomReserved /\ Bindings /\ LeasesBounded
    /\ GrantsRemembered /\ GrantSpentOnceWhileValid
=============================================================================
