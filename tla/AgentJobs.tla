----------------------------- MODULE AgentJobs ------------------------------
(***************************************************************************)
(* The Desktop Agent protocol service and its store: device pairing,       *)
(* device authentication, job leases and device revocation, as in          *)
(* packages/agent-protocol/src/service.ts and store.ts.                    *)
(*                                                                         *)
(* Every method of AgentService awaits the store more than once, so a call *)
(* is two steps here: the first awaits of completePairing (the code is     *)
(* found) and of authenticate (the token is found), and the final store    *)
(* operation, which InMemoryAgentStore runs without a suspension point.    *)
(* Other calls, the clock and the browser run in between.                  *)
(***************************************************************************)
EXTENDS AgentStores, FiniteSets, Sequences

CONSTANTS
  Tenants,      \* workspaces
  Events,       \* event identifiers chosen by Agents
  PairCalls,    \* completePairing calls that may be in flight together
  TokenTTL,     \* DEVICE_TOKEN_TTL_MS
  MaxLog        \* bound on the events of one job

ASSUME BoundsAssumption ==
  /\ MaxAttempts \in Nat \ {0}
  /\ Lease \in Nat \ {0}
  /\ PairTTL \in Nat
  /\ TokenTTL \in Nat
  /\ MaxTime \in Nat
  /\ MaxLog \in Nat

ASSUME NoneAssumption == None \notin Tenants \cup Codes \cup Devices \cup Jobs \cup Events

VARIABLES
  now,        \* the service's clock
  pairings,   \* the pairing record of each code
  pairCalls,  \* completePairing calls between their two awaits
  devices,    \* device records, each with the one token minted for it
  requests,   \* device calls that authenticated and have not reached the store
  jobs,       \* job records
  log,        \* the events of each job record
  promised,   \* history: the last lease end the service promised to each claim
  issued,     \* history: the devices each code has paired
  acked       \* history: the outcomes the service acknowledged for each job

vars == <<now, pairings, pairCalls, devices, requests, jobs, log, promised, issued, acked>>

-----------------------------------------------------------------------------

ActiveStatuses == {"claimed", "running"}
OpenStatuses == {"pending"} \cup ActiveStatuses

Pairing == [status : {"none", "open", "consumed"},
            tenant : Tenants \cup {None},
            expiresAt : Nat]

PairCall == [code : Codes, at : Nat]

Device == [status : {"none", "online", "revoked"},
           revokedAt : BOOLEAN,
           tenant : Tenants \cup {None},
           tokenExpiresAt : Nat,
           tokenRevoked : BOOLEAN]

Request == [device : Devices, job : Jobs \cup {None}, claim : {0} \cup Claims]

Job == [status : {"none", "cancelled"} \cup OpenStatuses \cup Outcomes,
        tenant : Tenants \cup {None},
        device : Devices \cup {None},
        attempt : {0} \cup Claims,
        claim : {0} \cup Claims,
        leaseExpiresAt : Nat]

\* lease_renewed events are left out: nothing reads them.
Entry == [kind : {"claimed", "progress", "cancelled"} \cup Outcomes,
          claim : {0} \cup Claims,
          event : Events \cup {None}]

TypeOK ==
  /\ now \in 0 .. MaxTime
  /\ pairings \in [Codes -> Pairing]
  /\ pairCalls \in [PairCalls -> PairCall \cup {None}]
  /\ devices \in [Devices -> Device]
  /\ requests \in [Requests -> Request \cup {None}]
  /\ jobs \in [Jobs -> Job]
  /\ log \in [Jobs -> Seq(Entry)]
  /\ promised \in [Jobs -> [Claims -> Nat]]
  /\ issued \in [Codes -> SUBSET Devices]
  /\ acked \in [Jobs -> SUBSET Outcomes]

Init ==
  /\ now = 0
  /\ pairings = [k \in Codes |-> [status |-> "none", tenant |-> None, expiresAt |-> 0]]
  /\ pairCalls = [p \in PairCalls |-> None]
  /\ devices = [d \in Devices |->
       [status |-> "none", revokedAt |-> FALSE, tenant |-> None,
        tokenExpiresAt |-> 0, tokenRevoked |-> FALSE]]
  /\ requests = [r \in Requests |-> None]
  /\ jobs = [j \in Jobs |->
       [status |-> "none", tenant |-> None, device |-> None, attempt |-> 0,
        claim |-> 0, leaseExpiresAt |-> 0]]
  /\ log = [j \in Jobs |-> <<>>]
  /\ promised = [j \in Jobs |-> [c \in Claims |-> 0]]
  /\ issued = [k \in Codes |-> {}]
  /\ acked = [j \in Jobs |-> {}]

-----------------------------------------------------------------------------
(* Pairing *)

\* An owner or administrator of tenant t asks for a code.
StartPairing(k, t) ==
  /\ pairings[k].status = "none"
  /\ pairings' = [pairings EXCEPT
       ![k] = [status |-> "open", tenant |-> t, expiresAt |-> now + PairTTL]]
  /\ UNCHANGED <<now, pairCalls, devices, requests, jobs, log, promised, issued, acked>>

PairingUsable(k, at) == pairings[k].status = "open" /\ pairings[k].expiresAt > at

\* completePairing up to the answer of findPairingByHash. Its clock reading
\* travels with the call.
FindPairing(p, k) ==
  /\ pairCalls[p] = None
  /\ PairingUsable(k, now)
  /\ pairCalls' = [pairCalls EXCEPT ![p] = [code |-> k, at |-> now]]
  /\ UNCHANGED <<now, pairings, devices, requests, jobs, log, promised, issued, acked>>

\* The store checks the code again before it consumes it.
ConsumeGuard(k, at) == PairingUsable(k, at)

\* store.completePairing: consume the code, create device d and its token.
ConsumePairing(p, d) ==
  /\ pairCalls[p] # None
  /\ devices[d].status = "none"
  /\ ConsumeGuard(pairCalls[p].code, pairCalls[p].at)
  /\ pairings' = [pairings EXCEPT ![pairCalls[p].code].status = "consumed"]
  /\ devices' = [devices EXCEPT
       ![d] = [status |-> "online", revokedAt |-> FALSE,
               tenant |-> pairings[pairCalls[p].code].tenant,
               tokenExpiresAt |-> pairCalls[p].at + TokenTTL, tokenRevoked |-> FALSE]]
  /\ issued' = [issued EXCEPT ![pairCalls[p].code] = @ \cup {d}]
  /\ pairCalls' = [pairCalls EXCEPT ![p] = None]
  /\ UNCHANGED <<now, requests, jobs, log, promised, acked>>

\* The store refuses the code: another call consumed it first.
PairingRefused(p) ==
  /\ pairCalls[p] # None
  /\ ~ ConsumeGuard(pairCalls[p].code, pairCalls[p].at)
  /\ pairCalls' = [pairCalls EXCEPT ![p] = None]
  /\ UNCHANGED <<now, pairings, devices, requests, jobs, log, promised, issued, acked>>

-----------------------------------------------------------------------------
(* Authenticated device calls *)

Authentic(d) ==
  /\ devices[d].status = "online"
  /\ ~ devices[d].revokedAt
  /\ ~ devices[d].tokenRevoked
  /\ devices[d].tokenExpiresAt > now

\* authenticate(): the call names the job and the claim token it knows of when
\* it is sent. A call without a job is a heartbeat, one with a job and no claim
\* token is a claim.
Authenticate(r, d, j, c) ==
  /\ requests[r] = None
  /\ Authentic(d)
  /\ j # None => jobs[j].status # "none"
  /\ c # 0 => j # None /\ c <= jobs[j].attempt
  /\ requests' = [requests EXCEPT ![r] = [device |-> d, job |-> j, claim |-> c]]
  /\ UNCHANGED <<now, pairings, pairCalls, devices, jobs, log, promised, issued, acked>>

Done(r) == requests' = [requests EXCEPT ![r] = None]

\* A call the store refuses changes nothing; neither does one whose connection
\* or process is lost between the two awaits.
Refuse(r) ==
  /\ requests[r] # None
  /\ Done(r)
  /\ UNCHANGED <<now, pairings, pairCalls, devices, jobs, log, promised, issued, acked>>

\* Fault: a heartbeat updates every device it finds.
HeartbeatAllowedAlways(d) == devices[d].status # "none"

HeartbeatAllowed(d) == devices[d].status \notin {"none", "revoked"}

Heartbeat(r) ==
  /\ requests[r] # None
  /\ requests[r].job = None
  /\ HeartbeatAllowed(requests[r].device)
  /\ devices' = [devices EXCEPT ![requests[r].device].status = "online"]
  /\ Done(r)
  /\ UNCHANGED <<now, pairings, pairCalls, jobs, log, promised, issued, acked>>

\* The job the call names belongs to the calling device and to its tenant.
Addressed(q) ==
  /\ q.job # None
  /\ jobs[q.job].device = q.device
  /\ jobs[q.job].tenant = devices[q.device].tenant

LeaseRuns(j) == jobs[j].status \in ActiveStatuses /\ jobs[j].leaseExpiresAt > now

Claimable(j) ==
  /\ jobs[j].attempt < MaxAttempts
  /\ jobs[j].status \in OpenStatuses
  /\ ~ LeaseRuns(j)

Noted(j, kind, c, e) ==
  log' = [log EXCEPT ![j] = Append(@, [kind |-> kind, claim |-> c, event |-> e])]

\* store.atomicClaim with the fresh claim token of this call.
Claim(r) ==
  /\ requests[r] # None
  /\ requests[r].claim = 0
  /\ Addressed(requests[r])
  /\ Claimable(requests[r].job)
  /\ LET j == requests[r].job
         fresh == jobs[j].attempt + 1
     IN /\ jobs' = [jobs EXCEPT ![j].claim = fresh, ![j].attempt = fresh,
                      ![j].leaseExpiresAt = now + Lease, ![j].status = "claimed"]
        /\ promised' = [promised EXCEPT ![j][fresh] = now + Lease]
        /\ Noted(j, "claimed", fresh, None)
  /\ Done(r)
  /\ UNCHANGED <<now, pairings, pairCalls, devices, issued, acked>>

\* Faults: the claim token is not compared; the lease may have lapsed.
HoldsAnyClaim(q) == Addressed(q) /\ q.claim # 0 /\ LeaseRuns(q.job)

HoldsLapsedLease(q) ==
  /\ Addressed(q)
  /\ q.claim # 0
  /\ q.claim = jobs[q.job].claim
  /\ jobs[q.job].status \in ActiveStatuses

\* getActiveJob: the claim token is the current one and its lease still runs.
HoldsLease(q) ==
  /\ Addressed(q)
  /\ q.claim # 0
  /\ q.claim = jobs[q.job].claim
  /\ LeaseRuns(q.job)

RenewLease(r) ==
  /\ requests[r] # None
  /\ HoldsLease(requests[r])
  /\ jobs' = [jobs EXCEPT ![requests[r].job].leaseExpiresAt = now + Lease,
                          ![requests[r].job].status = "running"]
  /\ promised' = [promised EXCEPT ![requests[r].job][requests[r].claim] = now + Lease]
  /\ Done(r)
  /\ UNCHANGED <<now, pairings, pairCalls, devices, log, issued, acked>>

Seen(j, e) == \E i \in DOMAIN log[j] : log[j][i].event = e

\* A duplicate event is answered without a change, as Refuse.
RecordProgress(r, e) ==
  /\ requests[r] # None
  /\ HoldsLease(requests[r])
  /\ ~ Seen(requests[r].job, e)
  /\ Len(log[requests[r].job]) < MaxLog
  /\ jobs' = [jobs EXCEPT ![requests[r].job].status = "running"]
  /\ Noted(requests[r].job, "progress", requests[r].claim, e)
  /\ Done(r)
  /\ UNCHANGED <<now, pairings, pairCalls, devices, promised, issued, acked>>

\* completeJob and failJob.
FinishJob(r, e, outcome) ==
  /\ requests[r] # None
  /\ HoldsLease(requests[r])
  /\ jobs' = [jobs EXCEPT ![requests[r].job].status = outcome,
                          ![requests[r].job].leaseExpiresAt = 0]
  /\ Noted(requests[r].job, outcome, requests[r].claim, e)
  /\ acked' = [acked EXCEPT ![requests[r].job] = @ \cup {outcome}]
  /\ Done(r)
  /\ UNCHANGED <<now, pairings, pairCalls, devices, promised, issued>>

\* A repeated terminal event is acknowledged again, without a claim check, when
\* the job has the status it asks for.
FinishAgain(r, e, outcome) ==
  /\ requests[r] # None
  /\ requests[r].claim # 0
  /\ Addressed(requests[r])
  /\ Seen(requests[r].job, e)
  /\ jobs[requests[r].job].status = outcome
  /\ acked' = [acked EXCEPT ![requests[r].job] = @ \cup {outcome}]
  /\ Done(r)
  /\ UNCHANGED <<now, pairings, pairCalls, devices, jobs, log, promised, issued>>

-----------------------------------------------------------------------------
(* The control plane *)

\* seedJob: the Run dispatcher files a pending job. The device is not looked up
\* again: it may belong to another tenant or be revoked by now.
SeedJob(j, t, d) ==
  /\ jobs[j].status = "none"
  /\ devices[d].status # "none"
  /\ jobs' = [jobs EXCEPT
       ![j] = [status |-> "pending", tenant |-> t, device |-> d, attempt |-> 0,
               claim |-> 0, leaseExpiresAt |-> 0]]
  /\ UNCHANGED <<now, pairings, pairCalls, devices, requests, log, promised, issued, acked>>

Stoppable(j) == jobs[j].status \in OpenStatuses

\* Every stoppable job of S becomes cancelled and notes it.
Stop(S) ==
  LET stopped == {j \in S : Stoppable(j)}
  IN /\ jobs' = [j \in Jobs |->
          IF j \in stopped
          THEN [jobs[j] EXCEPT !.status = "cancelled", !.leaseExpiresAt = 0]
          ELSE jobs[j]]
     /\ log' = [j \in Jobs |->
          IF j \in stopped
          THEN Append(log[j], [kind |-> "cancelled", claim |-> jobs[j].claim, event |-> None])
          ELSE log[j]]

CancelJob(j) ==
  /\ Stoppable(j)
  /\ Stop({j})
  /\ UNCHANGED <<now, pairings, pairCalls, devices, requests, promised, issued, acked>>

JobsOf(d) == {j \in Jobs : jobs[j].device = d /\ jobs[j].tenant = devices[d].tenant}

\* revokeDevice by an owner or administrator of the device's tenant.
RevokeDevice(d) ==
  /\ devices[d].status = "online"
  /\ devices' = [devices EXCEPT ![d].status = "revoked", ![d].revokedAt = TRUE,
                                ![d].tokenRevoked = TRUE]
  /\ Stop(JobsOf(d))
  /\ UNCHANGED <<now, pairings, pairCalls, requests, promised, issued, acked>>

Tick ==
  /\ now < MaxTime
  /\ now' = now + 1
  /\ UNCHANGED <<pairings, pairCalls, devices, requests, jobs, log, promised, issued, acked>>

-----------------------------------------------------------------------------

PairingNext ==
  \/ \E k \in Codes, t \in Tenants : StartPairing(k, t)
  \/ \E p \in PairCalls :
       \/ \E k \in Codes : FindPairing(p, k)
       \/ \E d \in Devices : ConsumePairing(p, d)
       \/ PairingRefused(p)

DeviceNext ==
  \E r \in Requests :
    \/ \E d \in Devices, j \in Jobs \cup {None}, c \in {0} \cup Claims : Authenticate(r, d, j, c)
    \/ Refuse(r)
    \/ Heartbeat(r)
    \/ Claim(r)
    \/ RenewLease(r)
    \/ \E e \in Events :
         \/ RecordProgress(r, e)
         \/ \E outcome \in Outcomes : FinishJob(r, e, outcome) \/ FinishAgain(r, e, outcome)

ControlNext ==
  \/ \E j \in Jobs :
       \/ \E t \in Tenants, d \in Devices : SeedJob(j, t, d)
       \/ CancelJob(j)
  \/ \E d \in Devices : RevokeDevice(d)

Next == PairingNext \/ DeviceNext \/ ControlNext \/ Tick

Spec == Init /\ [][Next]_vars

-----------------------------------------------------------------------------
(* Properties *)

\* A pairing code pairs at most one device, however many completePairing calls
\* found it open before the first of them consumed it.
OneDevicePerCode ==
  \A k \in Codes : \A d, e \in issued[k] : d = e

\* At any instant at most one claim of a job was promised a lease that still
\* runs: two Agent processes never both believe that they hold the job.
LeaseExclusive ==
  \A j \in Jobs : \A b, c \in Claims :
    promised[j][b] > now /\ promised[j][c] > now => b = c

\* The journal of a job is fenced: no entry of a superseded claim follows one of
\* a newer claim, and nothing follows the entry that ended the job.
LogFenced ==
  \A j \in Jobs : \A i, k \in DOMAIN log[j] :
    i < k => /\ log[j][i].claim <= log[j][k].claim
             /\ log[j][i].kind \in {"claimed", "progress"}

\* What an Agent was told about the end of a job stays true: an acknowledged
\* outcome is the status of the job, so success and failure are never both
\* acknowledged and no later cancellation or revocation undoes it.
AckStable ==
  \A j \in Jobs : \A outcome \in acked[j] : jobs[j].status = outcome

\* No job of a revoked device is claimed or running, although calls that
\* authenticated before the revocation reach the store after it and new jobs may
\* be seeded for the device.
RevokedDeviceIdle ==
  \A j \in Jobs : \A d \in Devices :
    /\ jobs[j].device = d
    /\ devices[d].status = "revoked"
    => jobs[j].status \notin ActiveStatuses

\* A job is only ever claimed by a device of its own tenant, although a Run may
\* name a device of another tenant.
ClaimedInTenant ==
  \A j \in Jobs :
    jobs[j].attempt > 0 => jobs[j].tenant = devices[jobs[j].device].tenant

\* Revocation is final: no step makes a revoked device or its token usable again,
\* a heartbeat that authenticated earlier included.
RevocationIsFinal ==
  [][\A d \in Devices :
       devices[d].revokedAt => devices'[d].status = "revoked" /\ devices'[d].tokenRevoked]_vars

\* The store keeps the promise of JobLease.
Phase(j) ==
  CASE LeaseRuns(j) -> "held"
    [] jobs[j].status \in OpenStatuses /\ ~ LeaseRuns(j) -> "free"
    [] OTHER -> jobs[j].status

Promise == INSTANCE JobLease WITH
  phase <- [j \in Jobs |-> Phase(j)],
  epoch <- [j \in Jobs |-> jobs[j].attempt],
  journal <- [j \in Jobs |-> [i \in DOMAIN log[j] |-> <<log[j][i].kind, log[j][i].claim>>]]

KeepsPromise == Promise!Spec

\* What holds of the store in memory at any instant, whatever calls meet in it: codes,
\* leases, journals and outcomes are used once, and devices reach only what is theirs.
AgentsSafe ==
  /\ TypeOK
  /\ OneDevicePerCode
  /\ LeaseExclusive
  /\ LogFenced
  /\ AckStable
  /\ RevokedDeviceIdle
  /\ ClaimedInTenant

=============================================================================
