-------------------------- MODULE AgentJobsProofs ---------------------------
(***************************************************************************)
(* Theorems about AgentJobs, for all tenants, codes, devices, jobs, calls  *)
(* in flight and bounds.                                                   *)
(***************************************************************************)
EXTENDS AgentJobs, TLAPS

USE BoundsAssumption DEF Outcomes, ActiveStatuses, OpenStatuses, Claims

-----------------------------------------------------------------------------
(* Type correctness *)

LEMMA InitTyped == Init => TypeOK
  BY DEF Init, TypeOK, Pairing, Device, Job

LEMMA PairingTyped ==
  ASSUME TypeOK, PairingNext
  PROVE  TypeOK'
<1>1. ASSUME NEW k \in Codes, NEW t \in Tenants, StartPairing(k, t)
      PROVE  TypeOK'
  BY <1>1 DEF TypeOK, StartPairing, Pairing
<1>2. ASSUME NEW p \in PairCalls, NEW k \in Codes, FindPairing(p, k)
      PROVE  TypeOK'
  BY <1>2 DEF TypeOK, FindPairing, PairCall
<1>3. ASSUME NEW p \in PairCalls, NEW d \in Devices, ConsumePairing(p, d)
      PROVE  TypeOK'
  <2>1. pairCalls[p] \in PairCall
    BY <1>3 DEF TypeOK, ConsumePairing
  <2>2. pairings[pairCalls[p].code] \in Pairing
    BY <2>1 DEF TypeOK, PairCall
  <2>3. pairings' \in [Codes -> Pairing]
    BY <1>3, <2>1, <2>2 DEF TypeOK, ConsumePairing, Pairing, PairCall
  <2>4. devices' \in [Devices -> Device]
    BY <1>3, <2>1, <2>2 DEF TypeOK, ConsumePairing, Pairing, PairCall, Device
  <2>5. issued' \in [Codes -> SUBSET Devices] /\ pairCalls' \in [PairCalls -> PairCall \cup {None}]
    BY <1>3, <2>1 DEF TypeOK, ConsumePairing, PairCall
  <2> QED
    BY <1>3, <2>3, <2>4, <2>5 DEF TypeOK, ConsumePairing
<1>4. ASSUME NEW p \in PairCalls, PairingRefused(p)
      PROVE  TypeOK'
  BY <1>4 DEF TypeOK, PairingRefused
<1> QED
  BY <1>1, <1>2, <1>3, <1>4 DEF PairingNext

\* A call the store accepts names an existing job record.
LEMMA AddressedTyped ==
  ASSUME TypeOK, NEW r \in Requests, requests[r] # None, Addressed(requests[r])
  PROVE  /\ requests[r] \in Request
         /\ requests[r].job \in Jobs
         /\ jobs[requests[r].job] \in Job
  BY DEF TypeOK, Addressed, Request

\* A journal grows by one entry.
LEMMA NotedTyped ==
  ASSUME TypeOK, NEW j \in Jobs, NEW kind \in {"claimed", "progress", "cancelled"} \cup Outcomes,
         NEW c \in {0} \cup Claims, NEW e \in Events \cup {None}, Noted(j, kind, c, e)
  PROVE  log' \in [Jobs -> Seq(Entry)]
<1>1. [kind |-> kind, claim |-> c, event |-> e] \in Entry
  BY DEF Entry
<1>2. Append(log[j], [kind |-> kind, claim |-> c, event |-> e]) \in Seq(Entry)
  BY <1>1 DEF TypeOK
<1> QED
  BY <1>2 DEF TypeOK, Noted

\* A claim gets the next attempt number, which is in range.
LEMMA ClaimFresh ==
  ASSUME TypeOK, NEW r \in Requests, Claim(r)
  PROVE  jobs[requests[r].job].attempt + 1 \in Claims
<1>1. jobs[requests[r].job] \in Job
  BY AddressedTyped DEF Claim
<1>2. jobs[requests[r].job].attempt \in {0} \cup Claims
  BY ONLY <1>1 DEF Job
<1>3. jobs[requests[r].job].attempt < MaxAttempts
  BY ONLY Claim(r) DEF Claim, Claimable
<1> QED
  BY <1>2, <1>3

\* What a claim makes of a job record, and of the table.
LEMMA ClaimedRow ==
  ASSUME TypeOK, NEW r \in Requests, Claim(r), NEW j \in Jobs, j = requests[r].job,
         jobs[j].attempt + 1 \in Claims
  PROVE  /\ jobs' \in [Jobs -> Job]
         /\ jobs'[j].claim = jobs[j].attempt + 1
         /\ jobs'[j].attempt = jobs[j].attempt + 1
         /\ jobs'[j].leaseExpiresAt = now + Lease
         /\ jobs'[j].status = "claimed"
         /\ \A i \in Jobs : i # j => jobs'[i] = jobs[i]
<1> DEFINE fresh == jobs[j].attempt + 1
           row == [jobs[j] EXCEPT !.claim = fresh, !.attempt = fresh,
                                  !.leaseExpiresAt = now + Lease, !.status = "claimed"]
<1>1. jobs \in [Jobs -> Job] /\ jobs[j] \in Job /\ now + Lease \in Nat
  BY DEF TypeOK
<1>2. /\ row \in Job
      /\ row.claim = fresh /\ row.attempt = fresh
      /\ row.leaseExpiresAt = now + Lease /\ row.status = "claimed"
  <2> HIDE DEF fresh
  <2>1. /\ fresh \in {0} \cup Claims
        /\ "claimed" \in {"none", "cancelled"} \cup OpenStatuses \cup Outcomes
    BY DEF fresh
  <2>2. row \in Job
    BY ONLY <1>1, <2>1 DEF Job
  <2> QED
    BY ONLY <1>1, <2>2 DEF Job
<1>3. jobs' = [jobs EXCEPT ![j].claim = fresh, ![j].attempt = fresh,
                          ![j].leaseExpiresAt = now + Lease, ![j].status = "claimed"]
  BY DEF Claim
<1>4. jobs' = [jobs EXCEPT ![j] = row]
  <2> HIDE DEF fresh
  <2> QED
    BY <1>1, <1>3
<1> HIDE DEF row
<1>5. jobs' \in [Jobs -> Job] /\ jobs'[j] = row
  BY <1>1, <1>2, <1>4
<1>6. \A i \in Jobs : i # j => jobs'[i] = jobs[i]
  BY <1>1, <1>4
<1> QED
  BY <1>2, <1>5, <1>6

\* What a terminal event makes of a job record, and of the table.
LEMMA FinishedRow ==
  ASSUME TypeOK, NEW r \in Requests, NEW e \in Events, NEW outcome \in Outcomes,
         FinishJob(r, e, outcome), NEW j \in Jobs, j = requests[r].job
  PROVE  /\ jobs' \in [Jobs -> Job]
         /\ jobs'[j].claim = jobs[j].claim
         /\ jobs'[j].attempt = jobs[j].attempt
         /\ jobs'[j].status = outcome
         /\ \A i \in Jobs : i # j => jobs'[i] = jobs[i]
<1>1. jobs \in [Jobs -> Job] /\ jobs[j] \in Job
  BY DEF TypeOK
<1>2. jobs' = [jobs EXCEPT ![j].status = outcome, ![j].leaseExpiresAt = 0]
  BY DEF FinishJob
<1>4. \A i \in Jobs : i # j => jobs'[i] = jobs[i]
  BY <1>1, <1>2
<1> DEFINE row == [jobs[j] EXCEPT !.status = outcome, !.leaseExpiresAt = 0]
<1>5. /\ row \in Job
      /\ row.claim = jobs[j].claim /\ row.attempt = jobs[j].attempt /\ row.status = outcome
  <2>1. 0 \in Nat /\ outcome \in {"none", "cancelled"} \cup OpenStatuses \cup Outcomes
    OBVIOUS
  <2> QED
    BY ONLY <1>1, <2>1 DEF Job
<1>6. jobs' = [jobs EXCEPT ![j] = row]
  BY ONLY <1>1, <1>2
<1>7. jobs' \in [Jobs -> Job]
  <2> HIDE DEF row
  <2> QED
    BY <1>1, <1>5, <1>6
<1> QED
  <2> HIDE DEF row
  <2>1. jobs'[j] = row
    BY <1>1, <1>6
  <2> QED
    BY <1>4, <1>5, <1>7, <2>1

LEMMA DeviceTyped ==
  ASSUME TypeOK, DeviceNext
  PROVE  TypeOK'
<1>1. ASSUME NEW r \in Requests, NEW d \in Devices, NEW j \in Jobs \cup {None},
             NEW c \in {0} \cup Claims, Authenticate(r, d, j, c)
      PROVE  TypeOK'
  BY <1>1 DEF TypeOK, Authenticate, Request
<1>2. ASSUME NEW r \in Requests, Refuse(r)
      PROVE  TypeOK'
  BY <1>2 DEF TypeOK, Refuse, Done
<1>3. ASSUME NEW r \in Requests, Heartbeat(r)
      PROVE  TypeOK'
  <2>1. requests[r] \in Request
    BY <1>3 DEF TypeOK, Heartbeat
  <2>2. \A x \in Device : [x EXCEPT !.status = "online"] \in Device
    BY DEF Device
  <2>3. devices' \in [Devices -> Device]
    BY <1>3, <2>1, <2>2 DEF TypeOK, Heartbeat, Request
  <2> QED
    BY <1>3, <2>3 DEF TypeOK, Heartbeat, Done
<1>4. ASSUME NEW r \in Requests, Claim(r)
      PROVE  TypeOK'
  <2> DEFINE j == requests[r].job
             fresh == jobs[j].attempt + 1
  <2>1. requests[r] \in Request /\ j \in Jobs /\ jobs[j] \in Job
    BY <1>4, AddressedTyped DEF Claim
  <2>2. fresh \in Claims
    BY <1>4, ClaimFresh
  <2>3. now + Lease \in Nat
    BY DEF TypeOK
  <2>4. jobs' \in [Jobs -> Job]
    BY <1>4, <2>1, <2>2, ClaimedRow
  <2>5. promised' \in [Jobs -> [Claims -> Nat]]
    BY <1>4, <2>1, <2>2, <2>3 DEF TypeOK, Claim
  <2>6. log' \in [Jobs -> Seq(Entry)]
    BY <1>4, <2>1, <2>2, NotedTyped DEF Claim
  <2> QED
    BY <1>4, <2>4, <2>5, <2>6 DEF TypeOK, Claim, Done
<1>5. ASSUME NEW r \in Requests, RenewLease(r)
      PROVE  TypeOK'
  <2>1. requests[r] \in Request /\ requests[r].job \in Jobs /\ jobs[requests[r].job] \in Job
    BY <1>5, AddressedTyped DEF RenewLease, HoldsLease
  <2>2. now + Lease \in Nat
    BY DEF TypeOK
  <2>3. jobs' \in [Jobs -> Job]
    <3>1. PICK j \in Jobs : j = requests[r].job
      BY <2>1
    <3>2. [jobs[j] EXCEPT !.leaseExpiresAt = now + Lease, !.status = "running"] \in Job
      BY ONLY <2>1, <2>2, <3>1 DEF Job, OpenStatuses, ActiveStatuses
    <3>3. jobs' = [jobs EXCEPT ![j] =
            [jobs[j] EXCEPT !.leaseExpiresAt = now + Lease, !.status = "running"]]
      BY <1>5, <3>1 DEF RenewLease, TypeOK
    <3> QED
      BY <3>2, <3>3 DEF TypeOK
  <2>4. promised' \in [Jobs -> [Claims -> Nat]]
    BY <1>5, <2>1, <2>2 DEF TypeOK, RenewLease, Request
  <2> QED
    BY <1>5, <2>3, <2>4 DEF TypeOK, RenewLease, Done
<1>6. ASSUME NEW r \in Requests, NEW e \in Events, RecordProgress(r, e)
      PROVE  TypeOK'
  <2>1. requests[r] \in Request /\ requests[r].job \in Jobs /\ jobs[requests[r].job] \in Job
    BY <1>6, AddressedTyped DEF RecordProgress, HoldsLease
  <2>2. jobs' \in [Jobs -> Job]
    BY <1>6, <2>1 DEF TypeOK, RecordProgress, Job
  <2>3. log' \in [Jobs -> Seq(Entry)]
    BY <1>6, <2>1, NotedTyped DEF RecordProgress, Request
  <2> QED
    BY <1>6, <2>2, <2>3 DEF TypeOK, RecordProgress, Done
<1>7. ASSUME NEW r \in Requests, NEW e \in Events, NEW outcome \in Outcomes,
             FinishJob(r, e, outcome)
      PROVE  TypeOK'
  <2>1. requests[r] \in Request /\ requests[r].job \in Jobs /\ jobs[requests[r].job] \in Job
    BY <1>7, AddressedTyped DEF FinishJob, HoldsLease
  <2>2. jobs' \in [Jobs -> Job]
    BY <1>7, <2>1, FinishedRow
  <2>3. log' \in [Jobs -> Seq(Entry)]
    BY <1>7, <2>1, NotedTyped DEF FinishJob, Request
  <2> QED
    BY <1>7, <2>1, <2>2, <2>3 DEF TypeOK, FinishJob, Done
<1>8. ASSUME NEW r \in Requests, NEW e \in Events, NEW outcome \in Outcomes,
             FinishAgain(r, e, outcome)
      PROVE  TypeOK'
  BY <1>8 DEF TypeOK, FinishAgain, Done
<1> QED
  BY <1>1, <1>2, <1>3, <1>4, <1>5, <1>6, <1>7, <1>8 DEF DeviceNext

LEMMA StopTyped ==
  ASSUME TypeOK, NEW S \in SUBSET Jobs, Stop(S)
  PROVE  jobs' \in [Jobs -> Job] /\ log' \in [Jobs -> Seq(Entry)]
<1>1. \A j \in Jobs : [jobs[j] EXCEPT !.status = "cancelled", !.leaseExpiresAt = 0] \in Job
  <2>1. \A x \in Job : [x EXCEPT !.status = "cancelled", !.leaseExpiresAt = 0] \in Job
    BY DEF Job
  <2> QED
    BY <2>1 DEF TypeOK
<1>2. \A j \in Jobs : [kind |-> "cancelled", claim |-> jobs[j].claim, event |-> None] \in Entry
  BY DEF TypeOK, Job, Entry
<1>3. \A j \in Jobs :
        Append(log[j], [kind |-> "cancelled", claim |-> jobs[j].claim, event |-> None])
          \in Seq(Entry)
  BY <1>2 DEF TypeOK
<1> QED
  BY <1>1, <1>3 DEF TypeOK, Stop

LEMMA ControlTyped ==
  ASSUME TypeOK, ControlNext
  PROVE  TypeOK'
<1>1. ASSUME NEW j \in Jobs, NEW t \in Tenants, NEW d \in Devices, SeedJob(j, t, d)
      PROVE  TypeOK'
  BY <1>1 DEF TypeOK, SeedJob, Job
<1>2. ASSUME NEW j \in Jobs, CancelJob(j)
      PROVE  TypeOK'
  <2>1. jobs' \in [Jobs -> Job] /\ log' \in [Jobs -> Seq(Entry)]
    BY <1>2, StopTyped DEF CancelJob
  <2> QED
    BY <1>2, <2>1 DEF TypeOK, CancelJob
<1>3. ASSUME NEW d \in Devices, RevokeDevice(d)
      PROVE  TypeOK'
  <2>1. jobs' \in [Jobs -> Job] /\ log' \in [Jobs -> Seq(Entry)]
    BY <1>3, StopTyped DEF RevokeDevice, JobsOf
  <2>2. \A x \in Device :
          [x EXCEPT !.status = "revoked", !.revokedAt = TRUE, !.tokenRevoked = TRUE] \in Device
    BY DEF Device
  <2>3. devices' \in [Devices -> Device]
    BY <1>3, <2>2 DEF TypeOK, RevokeDevice
  <2> QED
    BY <1>3, <2>1, <2>3 DEF TypeOK, RevokeDevice
<1> QED
  BY <1>1, <1>2, <1>3 DEF ControlNext

LEMMA TickTyped ==
  ASSUME TypeOK, Tick
  PROVE  TypeOK'
  BY DEF TypeOK, Tick

\* Every variable of the service and its store keeps its type: attempts stay within
\* the job's limit and claims within the tokens that were minted.
THEOREM TypeCorrect == Spec => []TypeOK
<1>1. TypeOK /\ UNCHANGED vars => TypeOK'
  BY DEF TypeOK, vars
<1>2. TypeOK /\ [Next]_vars => TypeOK'
  BY <1>1, PairingTyped, DeviceTyped, ControlTyped, TickTyped DEF Next
<1> QED
  BY InitTyped, <1>2, PTL DEF Spec

-----------------------------------------------------------------------------
(* A code pairs one device *)

\* A code that has paired a device is consumed, and there is only one such device.
PairInv ==
  \A k \in Codes :
    /\ issued[k] # {} => pairings[k].status = "consumed"
    /\ \A d, e \in issued[k] : d = e

\* However many completePairing calls found a code open before one of them consumed
\* it, the code pairs at most one device.
THEOREM PairsOnce == Spec => []OneDevicePerCode
<1>1. Init => PairInv
  BY DEF Init, PairInv
<1>2. TypeOK /\ PairInv /\ [Next]_vars => PairInv'
  <2> SUFFICES ASSUME TypeOK, PairInv, [Next]_vars
               PROVE  PairInv'
    OBVIOUS
  <2>1. ASSUME NEW k \in Codes, NEW t \in Tenants, StartPairing(k, t)
        PROVE  PairInv'
    BY <2>1 DEF TypeOK, PairInv, StartPairing, Pairing
  <2>2. ASSUME NEW p \in PairCalls, NEW d \in Devices, ConsumePairing(p, d)
        PROVE  PairInv'
    <3>1. pairCalls[p].code \in Codes
      BY <2>2 DEF TypeOK, ConsumePairing, PairCall
    <3>2. issued[pairCalls[p].code] = {}
      BY <2>2, <3>1 DEF PairInv, ConsumePairing, ConsumeGuard, PairingUsable
    <3> QED
      BY <2>2, <3>1, <3>2 DEF TypeOK, PairInv, ConsumePairing, Pairing
  <2>3. ASSUME UNCHANGED <<pairings, issued>>
        PROVE  PairInv'
    BY <2>3 DEF PairInv
  <2>4. CASE PairingNext
    BY <2>1, <2>2, <2>3, <2>4 DEF PairingNext, FindPairing, PairingRefused
  <2>5. CASE DeviceNext
    <3>1. ASSUME NEW r \in Requests, Claim(r) \/ RenewLease(r) \/ Refuse(r) \/ Heartbeat(r)
          PROVE  UNCHANGED <<pairings, issued>>
      BY <3>1 DEF Claim, RenewLease, Refuse, Heartbeat
    <3>2. ASSUME NEW r \in Requests, NEW e \in Events,
                 \/ RecordProgress(r, e)
                 \/ \E outcome \in Outcomes : FinishJob(r, e, outcome) \/ FinishAgain(r, e, outcome)
          PROVE  UNCHANGED <<pairings, issued>>
      BY <3>2 DEF RecordProgress, FinishJob, FinishAgain
    <3> QED
      BY <2>3, <2>5, <3>1, <3>2 DEF DeviceNext, Authenticate
  <2>6. CASE ControlNext \/ Tick \/ UNCHANGED vars
    BY <2>3, <2>6 DEF ControlNext, SeedJob, CancelJob, RevokeDevice, Tick, vars
  <2> QED
    BY <2>4, <2>5, <2>6 DEF Next
<1>3. PairInv => OneDevicePerCode
  BY DEF PairInv, OneDevicePerCode
<1> QED
  BY <1>1, <1>2, <1>3, TypeCorrect, PTL DEF Spec

-----------------------------------------------------------------------------
(* Leases exclude each other *)

\* Only the current claim may still be promised a running lease, and while the job is
\* claimed or running that promise is the lease the store enforces.
LeaseInvOf(j) ==
  /\ jobs[j].claim = jobs[j].attempt
  /\ jobs[j].status \in {"none", "pending"} => jobs[j].claim = 0
  /\ jobs[j].status \in ActiveStatuses =>
       /\ jobs[j].claim # 0
       /\ promised[j][jobs[j].claim] <= jobs[j].leaseExpiresAt
  /\ \A c \in Claims : c # jobs[j].claim => promised[j][c] <= now

LeaseInv == \A j \in Jobs : LeaseInvOf(j)

LEMMA LeaseInvStep ==
  ASSUME TypeOK, LeaseInv, [Next]_vars
  PROVE  LeaseInv'
<1>1. ASSUME UNCHANGED <<jobs, promised, now>>
      PROVE  LeaseInv'
  BY <1>1 DEF LeaseInv, LeaseInvOf
<1>2. CASE PairingNext
  BY <1>1, <1>2 DEF PairingNext, StartPairing, FindPairing, ConsumePairing, PairingRefused
<1>3. CASE DeviceNext
  <2>1. ASSUME NEW r \in Requests, Claim(r)
        PROVE  LeaseInv'
    <3>0. PICK j \in Jobs : j = requests[r].job
      BY <2>1, AddressedTyped DEF Claim
    <3> DEFINE fresh == jobs[j].attempt + 1
    <3>1. jobs[j] \in Job
      BY DEF TypeOK
    <3>2. fresh \in Claims
      BY <2>1, <3>0, ClaimFresh
    <3>3. /\ jobs'[j].claim = fresh /\ jobs'[j].attempt = fresh
          /\ jobs'[j].leaseExpiresAt = now + Lease /\ jobs'[j].status = "claimed"
          /\ promised'[j][fresh] = now + Lease
          /\ \A c \in Claims : c # fresh => promised'[j][c] = promised[j][c]
          /\ \A i \in Jobs : i # j => jobs'[i] = jobs[i] /\ promised'[i] = promised[i]
          /\ now' = now
      <4>1. promised' = [promised EXCEPT ![j][fresh] = now + Lease] /\ now' = now
        BY <2>1, <3>0 DEF Claim
      <4>2. promised \in [Jobs -> [Claims -> Nat]]
        BY DEF TypeOK
      <4>3. /\ promised'[j][fresh] = now + Lease
            /\ \A c \in Claims : c # fresh => promised'[j][c] = promised[j][c]
            /\ \A i \in Jobs : i # j => promised'[i] = promised[i]
        <5> HIDE DEF fresh
        <5> QED
          BY ONLY <3>2, <4>1, <4>2
      <4> QED
        BY <2>1, <3>0, <3>2, <4>1, <4>3, ClaimedRow
    <3>4. \A c \in Claims : promised[j][c] <= now
      <4> SUFFICES ASSUME NEW c \in Claims, c = jobs[j].claim
                   PROVE  promised[j][c] <= now
        BY <3>1 DEF LeaseInv, LeaseInvOf
      <4>1. LeaseInvOf(j) /\ Claimable(j) /\ now \in Nat /\ jobs[j].leaseExpiresAt \in Nat
        <5>1. Claimable(j)
          BY ONLY <2>1, <3>0 DEF Claim
        <5> QED
          BY <3>1, <5>1 DEF LeaseInv, Job, TypeOK
      <4>2. jobs[j].status \in ActiveStatuses /\ jobs[j].leaseExpiresAt <= now
        BY <4>1 DEF LeaseInvOf, Claimable, LeaseRuns
      <4>3. promised[j][c] <= jobs[j].leaseExpiresAt /\ promised[j][c] \in Nat
        BY <3>1, <4>1, <4>2 DEF LeaseInvOf, TypeOK
      <4> QED
        BY <4>1, <4>2, <4>3
    <3>5. LeaseInvOf(j)'
      <4>1. now + Lease \in Nat
        BY DEF TypeOK
      <4> QED
        BY <3>2, <3>3, <3>4, <4>1 DEF LeaseInvOf
    <3>6. \A i \in Jobs : i # j => LeaseInvOf(i)'
      BY <3>3 DEF LeaseInv, LeaseInvOf
    <3> QED
      BY <3>5, <3>6 DEF LeaseInv
  <2>2. ASSUME NEW r \in Requests, RenewLease(r)
        PROVE  LeaseInv'
    <3>0. PICK j \in Jobs : j = requests[r].job
      BY <2>2, AddressedTyped DEF RenewLease, HoldsLease
    <3>1. jobs[j] \in Job /\ requests[r] \in Request
      BY <2>2 DEF TypeOK, RenewLease
    <3>2. requests[r].claim = jobs[j].claim /\ jobs[j].claim \in Claims
      BY <2>2, <3>0, <3>1 DEF RenewLease, HoldsLease, Request
    <3>3. /\ jobs'[j].claim = jobs[j].claim /\ jobs'[j].attempt = jobs[j].attempt
          /\ jobs'[j].leaseExpiresAt = now + Lease /\ jobs'[j].status = "running"
          /\ promised'[j][jobs[j].claim] = now + Lease
          /\ \A c \in Claims : c # jobs[j].claim => promised'[j][c] = promised[j][c]
          /\ \A i \in Jobs : i # j => jobs'[i] = jobs[i] /\ promised'[i] = promised[i]
          /\ now' = now
      BY <2>2, <3>0, <3>1, <3>2 DEF TypeOK, RenewLease, Job
    <3>4. LeaseInvOf(j)'
      <4>1. now + Lease \in Nat /\ LeaseInvOf(j)
        BY DEF TypeOK, LeaseInv
      <4> QED
        BY <3>2, <3>3, <4>1 DEF LeaseInvOf
    <3>5. \A i \in Jobs : i # j => LeaseInvOf(i)'
      BY <3>3 DEF LeaseInv, LeaseInvOf
    <3> QED
      BY <3>4, <3>5 DEF LeaseInv
  <2>3. ASSUME NEW r \in Requests, NEW e \in Events, RecordProgress(r, e)
        PROVE  LeaseInv'
    <3>1. requests[r].job \in Jobs /\ jobs[requests[r].job] \in Job
      BY <2>3, AddressedTyped DEF RecordProgress, HoldsLease
    <3> QED
      BY <2>3, <3>1 DEF TypeOK, LeaseInv, LeaseInvOf, RecordProgress, HoldsLease, LeaseRuns, Job
  <2>4. ASSUME NEW r \in Requests, NEW e \in Events, NEW outcome \in Outcomes,
               FinishJob(r, e, outcome)
        PROVE  LeaseInv'
    <3>1. PICK j \in Jobs : j = requests[r].job
      BY <2>4, AddressedTyped DEF FinishJob, HoldsLease
    <3>2. promised' = promised /\ now' = now
      BY <2>4 DEF FinishJob
    <3>3. outcome \notin {"none", "pending"} /\ outcome \notin ActiveStatuses
      BY DEF Outcomes, ActiveStatuses
    <3>4. LeaseInvOf(j)'
      BY <2>4, <3>1, <3>2, <3>3, FinishedRow DEF LeaseInv, LeaseInvOf
    <3>5. \A i \in Jobs : i # j => LeaseInvOf(i)'
      BY <2>4, <3>1, <3>2, FinishedRow DEF LeaseInv, LeaseInvOf
    <3> QED
      BY <3>4, <3>5 DEF LeaseInv
  <2> QED
    BY <1>1, <1>3, <2>1, <2>2, <2>3, <2>4
    DEF DeviceNext, Authenticate, Refuse, Heartbeat, FinishAgain
<1>4. CASE ControlNext
  <2>1. ASSUME NEW j \in Jobs, NEW t \in Tenants, NEW d \in Devices, SeedJob(j, t, d)
        PROVE  LeaseInv'
    BY <2>1 DEF TypeOK, LeaseInv, LeaseInvOf, SeedJob, Job
  <2>2. ASSUME NEW S \in SUBSET Jobs, Stop(S), UNCHANGED <<promised, now>>
        PROVE  LeaseInv'
    <3>1. \A j \in Jobs :
            \/ jobs'[j] = jobs[j]
            \/ /\ jobs'[j].claim = jobs[j].claim /\ jobs'[j].attempt = jobs[j].attempt
               /\ jobs'[j].status = "cancelled"
      <4> SUFFICES ASSUME NEW j \in Jobs
                   PROVE  \/ jobs'[j] = jobs[j]
                          \/ /\ jobs'[j].claim = jobs[j].claim /\ jobs'[j].attempt = jobs[j].attempt
                             /\ jobs'[j].status = "cancelled"
        OBVIOUS
      <4>1. jobs[j] \in Job
        BY DEF TypeOK
      <4> QED
        BY <2>2, <4>1 DEF Stop, Job
    <3> QED
      BY <2>2, <3>1 DEF LeaseInv, LeaseInvOf
  <2> QED
    BY <1>4, <2>1, <2>2 DEF ControlNext, CancelJob, RevokeDevice, JobsOf
<1>5. CASE Tick
  BY <1>5 DEF TypeOK, LeaseInv, LeaseInvOf, Tick, Job
<1> QED
  BY <1>1, <1>2, <1>3, <1>4, <1>5 DEF Next, vars

\* At most one claim of a job is ever promised a lease that still runs: a reclaim is
\* granted only after every lease promised before it has lapsed.
THEOREM LeasesExclude == Spec => []LeaseExclusive
<1>1. Init => LeaseInv
  BY DEF Init, LeaseInv, LeaseInvOf
<1>2. TypeOK /\ LeaseInv => LeaseExclusive
  <2> SUFFICES ASSUME TypeOK, LeaseInv, NEW j \in Jobs, NEW b \in Claims, NEW c \in Claims,
                      promised[j][b] > now, promised[j][c] > now
               PROVE  b = c
    BY DEF LeaseExclusive
  <2>1. now \in Nat /\ promised[j][b] \in Nat /\ promised[j][c] \in Nat
    BY DEF TypeOK
  <2> QED
    BY <2>1 DEF LeaseInv, LeaseInvOf
<1> QED
  BY <1>1, <1>2, LeaseInvStep, TypeCorrect, PTL DEF Spec

-----------------------------------------------------------------------------
(* Acknowledged outcomes are final *)

\* An outcome the service acknowledged is the status of the job for ever: no second
\* finish, cancellation or revocation changes it.
THEOREM AcksAreStable == Spec => []AckStable
<1>1. Init => AckStable
  BY DEF Init, AckStable
<1>2. TypeOK /\ AckStable /\ [Next]_vars => AckStable'
  <2> SUFFICES ASSUME TypeOK, AckStable, [Next]_vars
               PROVE  AckStable'
    OBVIOUS
  <2>1. ASSUME acked' = acked, \A j \in Jobs : jobs[j].status \in Outcomes => jobs'[j].status = jobs[j].status
        PROVE  AckStable'
    BY <2>1 DEF AckStable, TypeOK
  <2>2. CASE PairingNext \/ Tick \/ UNCHANGED vars
    BY <2>1, <2>2
    DEF PairingNext, StartPairing, FindPairing, ConsumePairing, PairingRefused, Tick, vars
  <2>3. CASE DeviceNext
    <3>1. ASSUME NEW r \in Requests, Claim(r) \/ RenewLease(r) \/ \E e \in Events : RecordProgress(r, e)
          PROVE  AckStable'
      <4>1. requests[r].job \in Jobs /\ jobs[requests[r].job].status \notin Outcomes
        BY <3>1, AddressedTyped
        DEF Claim, Claimable, RenewLease, RecordProgress, HoldsLease, LeaseRuns
      <4>2. acked' = acked /\ \A j \in Jobs : j # requests[r].job => jobs'[j] = jobs[j]
        BY <3>1 DEF TypeOK, Claim, RenewLease, RecordProgress
      <4> QED
        BY <2>1, <4>1, <4>2
    <3>2. ASSUME NEW r \in Requests, NEW e \in Events, NEW outcome \in Outcomes,
                 FinishJob(r, e, outcome)
          PROVE  AckStable'
      <4>1. requests[r].job \in Jobs /\ jobs[requests[r].job] \in Job
        BY <3>2, AddressedTyped DEF FinishJob, HoldsLease
      <4>2. acked[requests[r].job] = {}
        BY <3>2, <4>1 DEF AckStable, FinishJob, HoldsLease, LeaseRuns, TypeOK
      <4> QED
        BY <3>2, <4>1, <4>2 DEF TypeOK, AckStable, FinishJob, Job
    <3>3. ASSUME NEW r \in Requests, NEW e \in Events, NEW outcome \in Outcomes,
                 FinishAgain(r, e, outcome)
          PROVE  AckStable'
      BY <3>3, AddressedTyped DEF TypeOK, AckStable, FinishAgain
    <3> QED
      BY <2>1, <2>3, <3>1, <3>2, <3>3 DEF DeviceNext, Authenticate, Refuse, Heartbeat
  <2>4. CASE ControlNext
    <3>1. ASSUME NEW S \in SUBSET Jobs, Stop(S)
          PROVE  \A j \in Jobs : jobs[j].status \in Outcomes => jobs'[j].status = jobs[j].status
      BY <3>1 DEF Stop, Stoppable
    <3>2. ASSUME NEW j \in Jobs, NEW t \in Tenants, NEW d \in Devices, SeedJob(j, t, d)
          PROVE  \A i \in Jobs : jobs[i].status \in Outcomes => jobs'[i].status = jobs[i].status
      BY <3>2 DEF TypeOK, SeedJob
    <3> QED
      BY <2>1, <2>4, <3>1, <3>2 DEF ControlNext, SeedJob, CancelJob, RevokeDevice, JobsOf
  <2> QED
    BY <2>2, <2>3, <2>4 DEF Next
<1> QED
  BY <1>1, <1>2, TypeCorrect, PTL DEF Spec

-----------------------------------------------------------------------------
(* What one step does to a job and its journal *)

Entered(j, kind, c, e) ==
  log'[j] = Append(log[j], [kind |-> kind, claim |-> c, event |-> e])

SameOwner(j) == jobs'[j].device = jobs[j].device /\ jobs'[j].tenant = jobs[j].tenant

SameClaim(j) == jobs'[j].claim = jobs[j].claim /\ jobs'[j].attempt = jobs[j].attempt

Offered(j) ==
  /\ jobs[j].status = "none" /\ jobs'[j].status = "pending"
  /\ jobs'[j].claim = 0 /\ jobs'[j].attempt = 0
  /\ jobs'[j].device \in Devices /\ devices[jobs'[j].device].status # "none"
  /\ log'[j] = log[j]

\* Some call of the job's device, of the job's tenant, claims it.
Claimed(j) ==
  /\ Claimable(j) /\ SameOwner(j)
  /\ jobs'[j].status = "claimed" /\ jobs'[j].leaseExpiresAt = now + Lease
  /\ jobs'[j].claim = jobs[j].attempt + 1 /\ jobs'[j].attempt = jobs[j].attempt + 1
  /\ Entered(j, "claimed", jobs[j].attempt + 1, None)
  /\ \E r \in Requests :
       requests[r] # None /\ requests[r].job = j /\ Addressed(requests[r])

\* Its holder renews the lease or reports progress.
Worked(j) ==
  /\ LeaseRuns(j) /\ jobs[j].claim # 0 /\ SameOwner(j) /\ SameClaim(j)
  /\ jobs'[j].status = "running"
  /\ jobs'[j].leaseExpiresAt \in {jobs[j].leaseExpiresAt, now + Lease}
  /\ log'[j] = log[j] \/ \E e \in Events : Entered(j, "progress", jobs[j].claim, e)

Ended(j) ==
  /\ LeaseRuns(j) /\ jobs[j].claim # 0 /\ SameOwner(j) /\ SameClaim(j)
  /\ \E outcome \in Outcomes, e \in Events :
       jobs'[j].status = outcome /\ Entered(j, outcome, jobs[j].claim, e)

Stopped(j) ==
  /\ Stoppable(j) /\ SameOwner(j) /\ SameClaim(j)
  /\ jobs'[j].status = "cancelled"
  /\ Entered(j, "cancelled", jobs[j].claim, None)

Kept(j) == jobs'[j] = jobs[j] /\ log'[j] = log[j]

OneStep(j) ==
  /\ now' = now
  /\ Offered(j) \/ Claimed(j) \/ Worked(j) \/ Ended(j)
  /\ \A i \in Jobs : i # j => Kept(i)

StopStep ==
  /\ now' = now
  /\ \A j \in Jobs : Kept(j) \/ Stopped(j)

LEMMA StopSteps ==
  ASSUME TypeOK, NEW S \in SUBSET Jobs, Stop(S), now' = now
  PROVE  StopStep /\ \A j \in S : Stoppable(j) => Stopped(j)
<1>1. ASSUME NEW i \in Jobs, i \in S, Stoppable(i)
      PROVE  Stopped(i)
  <2>1. jobs[i] \in Job
    BY DEF TypeOK
  <2>2. /\ jobs'[i] = [jobs[i] EXCEPT !.status = "cancelled", !.leaseExpiresAt = 0]
        /\ log'[i] = Append(log[i], [kind |-> "cancelled", claim |-> jobs[i].claim, event |-> None])
    BY <1>1, Zenon DEF Stop
  <2>3. Stoppable(i) /\ SameOwner(i) /\ SameClaim(i) /\ jobs'[i].status = "cancelled"
    BY <1>1, <2>1, <2>2 DEF SameOwner, SameClaim, Job
  <2> QED
    BY <2>2, <2>3 DEF Stopped, Entered
<1>2. ASSUME NEW i \in Jobs, i \notin S \/ ~ Stoppable(i)
      PROVE  Kept(i)
  BY <1>2, Zenon DEF Stop, Kept
<1>3. \A j \in Jobs : Kept(j) \/ Stopped(j)
  BY <1>1, <1>2
<1> QED
  BY <1>1, <1>3 DEF StopStep

\* A step leaves all jobs alone, or serves one of them, or stops some.
LEMMA StepShapes ==
  ASSUME TypeOK, [Next]_vars
  PROVE  \/ UNCHANGED <<jobs, log>> /\ now <= now'
         \/ \E j \in Jobs : OneStep(j)
         \/ StopStep
<1>1. ASSUME NEW r \in Requests, Claim(r)
      PROVE  \E j \in Jobs : OneStep(j)
  <2>0. PICK j \in Jobs : j = requests[r].job
    BY <1>1, AddressedTyped DEF Claim
  <2>1. jobs[j].attempt + 1 \in Claims
    BY <1>1, <2>0, ClaimFresh
  <2>2. /\ jobs'[j].claim = jobs[j].attempt + 1 /\ jobs'[j].attempt = jobs[j].attempt + 1
        /\ jobs'[j].leaseExpiresAt = now + Lease /\ jobs'[j].status = "claimed"
        /\ \A i \in Jobs : i # j => jobs'[i] = jobs[i]
    BY <1>1, <2>0, <2>1, ClaimedRow
  <2>3. SameOwner(j)
    <3>1. jobs[j] \in Job /\ jobs \in [Jobs -> Job]
      BY DEF TypeOK
    <3> DEFINE f == jobs[j].attempt + 1
    <3>2. jobs' = [jobs EXCEPT ![j].claim = f, ![j].attempt = f,
                      ![j].leaseExpiresAt = now + Lease, ![j].status = "claimed"]
      BY <1>1, <2>0 DEF Claim
    <3> HIDE DEF f
    <3> QED
      BY ONLY <3>1, <3>2 DEF SameOwner, Job
  <2>4. /\ Entered(j, "claimed", jobs[j].attempt + 1, None)
        /\ \A i \in Jobs : i # j => log'[i] = log[i]
    <3>1. log' = [log EXCEPT ![j] = Append(log[j], [kind |-> "claimed", claim |-> jobs[j].attempt + 1, event |-> None])]
      BY <1>1, <2>0 DEF Claim, Noted
    <3> QED
      BY <3>1 DEF TypeOK, Entered
  <2>5. now' = now /\ Claimable(j) /\ requests[r] # None /\ Addressed(requests[r])
    BY ONLY <1>1, <2>0 DEF Claim
  <2> QED
    BY <2>0, <2>2, <2>3, <2>4, <2>5 DEF OneStep, Claimed, Kept
<1>2. ASSUME NEW r \in Requests, RenewLease(r)
      PROVE  \E j \in Jobs : OneStep(j)
  <2>0. PICK j \in Jobs : j = requests[r].job
    BY <1>2, AddressedTyped DEF RenewLease, HoldsLease
  <2>1. jobs[j] \in Job /\ LeaseRuns(j) /\ jobs[j].claim # 0 /\ now' = now
    BY <1>2, <2>0 DEF TypeOK, RenewLease, HoldsLease
  <2>2. /\ SameOwner(j) /\ SameClaim(j) /\ jobs'[j].status = "running"
        /\ jobs'[j].leaseExpiresAt = now + Lease
        /\ \A i \in Jobs : i # j => jobs'[i] = jobs[i]
        /\ log' = log
    BY <1>2, <2>0, <2>1 DEF TypeOK, RenewLease, Job, SameOwner, SameClaim
  <2> QED
    BY <2>1, <2>2 DEF OneStep, Worked, Kept
<1>3. ASSUME NEW r \in Requests, NEW e \in Events, RecordProgress(r, e)
      PROVE  \E j \in Jobs : OneStep(j)
  <2>0. PICK j \in Jobs : j = requests[r].job
    BY <1>3, AddressedTyped DEF RecordProgress, HoldsLease
  <2>1. /\ jobs[j] \in Job /\ LeaseRuns(j) /\ jobs[j].claim # 0 /\ now' = now
        /\ requests[r].claim = jobs[j].claim
    BY <1>3, <2>0 DEF TypeOK, RecordProgress, HoldsLease
  <2>2. /\ SameOwner(j) /\ SameClaim(j) /\ jobs'[j].status = "running"
        /\ jobs'[j].leaseExpiresAt = jobs[j].leaseExpiresAt
        /\ \A i \in Jobs : i # j => jobs'[i] = jobs[i]
    BY <1>3, <2>0, <2>1 DEF TypeOK, RecordProgress, Job, SameOwner, SameClaim
  <2>3. Entered(j, "progress", jobs[j].claim, e) /\ \A i \in Jobs : i # j => log'[i] = log[i]
    BY <1>3, <2>0, <2>1 DEF TypeOK, RecordProgress, Noted, Entered
  <2> QED
    BY <2>1, <2>2, <2>3 DEF OneStep, Worked, Kept
<1>4. ASSUME NEW r \in Requests, NEW e \in Events, NEW outcome \in Outcomes, FinishJob(r, e, outcome)
      PROVE  \E j \in Jobs : OneStep(j)
  <2>0. PICK j \in Jobs : j = requests[r].job
    BY <1>4, AddressedTyped DEF FinishJob, HoldsLease
  <2>1. /\ jobs[j] \in Job /\ LeaseRuns(j) /\ jobs[j].claim # 0 /\ now' = now
        /\ requests[r].claim = jobs[j].claim
    BY <1>4, <2>0 DEF TypeOK, FinishJob, HoldsLease
  <2>2. /\ SameOwner(j) /\ SameClaim(j) /\ jobs'[j].status = outcome
        /\ \A i \in Jobs : i # j => jobs'[i] = jobs[i]
    BY <1>4, <2>0, <2>1 DEF TypeOK, FinishJob, Job, SameOwner, SameClaim
  <2>3. Entered(j, outcome, jobs[j].claim, e) /\ \A i \in Jobs : i # j => log'[i] = log[i]
    BY <1>4, <2>0, <2>1 DEF TypeOK, FinishJob, Noted, Entered
  <2> QED
    BY <2>1, <2>2, <2>3 DEF OneStep, Ended, Kept
<1>5. ASSUME NEW j \in Jobs, NEW t \in Tenants, NEW d \in Devices, SeedJob(j, t, d)
      PROVE  OneStep(j)
  BY <1>5 DEF TypeOK, SeedJob, OneStep, Offered, Kept
<1>6. CASE ControlNext
  <2>1. ASSUME NEW j \in Jobs, CancelJob(j)
        PROVE  StopStep
    BY <2>1, StopSteps DEF CancelJob
  <2>2. ASSUME NEW d \in Devices, RevokeDevice(d)
        PROVE  StopStep
    BY <2>2, StopSteps DEF RevokeDevice, JobsOf
  <2> QED
    BY <1>5, <1>6, <2>1, <2>2 DEF ControlNext
<1>7. CASE PairingNext \/ Tick \/ UNCHANGED vars
  <2>1. now \in Nat
    BY DEF TypeOK
  <2>2. ASSUME PairingNext \/ UNCHANGED vars
        PROVE  UNCHANGED <<jobs, log, now>>
    BY <2>2 DEF PairingNext, StartPairing, FindPairing, ConsumePairing, PairingRefused, vars
  <2> QED
    BY <1>7, <2>1, <2>2 DEF Tick
<1>8. CASE DeviceNext
  <2>1. ASSUME UNCHANGED <<jobs, log, now>>
        PROVE  UNCHANGED <<jobs, log>> /\ now <= now'
    BY <2>1 DEF TypeOK
  <2>2. ASSUME NEW r \in Requests, Refuse(r) \/ Heartbeat(r)
        PROVE  UNCHANGED <<jobs, log, now>>
    BY <2>2 DEF Refuse, Heartbeat
  <2>3. ASSUME NEW r \in Requests, NEW e \in Events, NEW outcome \in Outcomes,
               FinishAgain(r, e, outcome)
        PROVE  UNCHANGED <<jobs, log, now>>
    BY <2>3 DEF FinishAgain
  <2>4. ASSUME NEW r \in Requests, NEW d \in Devices, NEW j \in Jobs \cup {None},
               NEW c \in {0} \cup Claims, Authenticate(r, d, j, c)
        PROVE  UNCHANGED <<jobs, log, now>>
    BY <2>4 DEF Authenticate
  <2> QED
    BY <1>1, <1>2, <1>3, <1>4, <1>8, <2>1, <2>2, <2>3, <2>4 DEF DeviceNext
<1> QED
  BY <1>6, <1>7, <1>8 DEF Next

-----------------------------------------------------------------------------
(* The journal of a job is fenced *)

Final == {"cancelled"} \cup Outcomes

\* The journal of a job starts with its first claim, no entry is newer than the current
\* claim, and an entry that ends the job is the last one of an ended job.
JournalInvOf(j) ==
  /\ jobs[j].status = "none" => log[j] = <<>>
  /\ \A i \in DOMAIN log[j] :
       /\ log[j][i].claim <= jobs[j].claim
       /\ \/ log[j][i].kind \in {"claimed", "progress"}
          \/ i = Len(log[j]) /\ jobs[j].status \in Final
  /\ \A i, k \in DOMAIN log[j] : i < k => log[j][i].claim <= log[j][k].claim

JournalInv == \A j \in Jobs : JournalInvOf(j)

\* An entry of the current or a newer claim keeps the journal of an open job in order.
LEMMA JournalGrows ==
  ASSUME TypeOK, NEW j \in Jobs, JournalInvOf(j), jobs[j].status \in OpenStatuses,
         NEW kind, NEW e, NEW c \in Nat, Entered(j, kind, c, e),
         jobs[j].claim <= c, c <= jobs'[j].claim, jobs'[j].claim \in Nat,
         jobs'[j].status # "none",
         kind \in {"claimed", "progress"} \/ jobs'[j].status \in Final
  PROVE  JournalInvOf(j)'
<1>1. log[j] \in Seq(Entry) /\ jobs[j] \in Job
  BY DEF TypeOK
<1> DEFINE x == [kind |-> kind, claim |-> c, event |-> e]
<1>2. log'[j] = Append(log[j], x)
  BY DEF Entered
<1>3. /\ Len(log[j]) \in Nat /\ DOMAIN log[j] = 1 .. Len(log[j])
      /\ Len(log'[j]) = Len(log[j]) + 1
      /\ DOMAIN log'[j] = 1 .. Len(log[j]) + 1
      /\ \A i \in 1 .. Len(log[j]) : log'[j][i] = log[j][i]
      /\ log'[j][Len(log[j]) + 1] = x
  BY <1>1, <1>2
<1>4. x.kind = kind /\ x.claim = c
  OBVIOUS
<1>5. ASSUME NEW i \in 1 .. Len(log[j])
      PROVE  /\ log[j][i].claim \in Nat /\ log[j][i].claim <= jobs[j].claim
             /\ log[j][i].kind \in {"claimed", "progress"}
  <2>1. log[j][i] \in Entry
    BY <1>1
  <2>2. log[j][i].claim \in Nat
    BY <2>1 DEF Entry
  <2>3. jobs[j].status \notin Final
    BY DEF Final
  <2> QED
    BY <1>3, <2>2, <2>3 DEF JournalInvOf
<1>6. jobs[j].claim \in Nat
  BY <1>1 DEF Job
<1> HIDE DEF x
<1>7. ASSUME NEW i \in DOMAIN log'[j]
      PROVE  /\ log'[j][i].claim <= jobs'[j].claim
             /\ \/ log'[j][i].kind \in {"claimed", "progress"}
                \/ i = Len(log'[j]) /\ jobs'[j].status \in Final
  <2>1. CASE i \in 1 .. Len(log[j])
    <3>1. log[j][i].claim \in Nat /\ log[j][i].claim <= jobs[j].claim
      BY <1>5, <2>1
    <3>2. log'[j][i] = log[j][i] /\ log[j][i].kind \in {"claimed", "progress"}
      BY <1>3, <1>5, <2>1
    <3>3. log[j][i].claim <= jobs'[j].claim
      BY <1>6, <3>1
    <3> QED
      BY ONLY <3>2, <3>3
  <2>2. CASE i = Len(log[j]) + 1
    BY <1>3, <1>4, <2>2
  <2> QED
    BY <1>3, <2>1, <2>2
<1>8. ASSUME NEW i \in DOMAIN log'[j], NEW k \in DOMAIN log'[j], i < k
      PROVE  log'[j][i].claim <= log'[j][k].claim
  <2>0. i \in 1 .. Len(log[j])
    BY <1>3, <1>8
  <2>1. CASE k \in 1 .. Len(log[j])
    <3>1. log[j][i].claim <= log[j][k].claim
      BY <1>3, <1>8, <2>0, <2>1 DEF JournalInvOf
    <3>2. log'[j][i] = log[j][i] /\ log'[j][k] = log[j][k]
      BY <1>3, <2>0, <2>1
    <3> QED
      BY ONLY <3>1, <3>2
  <2>2. CASE k = Len(log[j]) + 1
    <3>1. log[j][i].claim \in Nat /\ log[j][i].claim <= jobs[j].claim
      BY <1>5, <2>0
    <3>2. log'[j][i] = log[j][i] /\ log'[j][k] = x
      BY <1>3, <2>0, <2>2
    <3>3. log[j][i].claim <= c
      BY <1>6, <3>1
    <3> QED
      BY ONLY <1>4, <3>2, <3>3
  <2> QED
    BY <1>3, <2>1, <2>2
<1> QED
  BY <1>7, <1>8 DEF JournalInvOf

LEMMA JournalStep ==
  ASSUME TypeOK, LeaseInv, JournalInv, TypeOK', [Next]_vars
  PROVE  JournalInv'
<1>1. ASSUME NEW j \in Jobs
      PROVE  jobs[j].claim \in Nat /\ jobs'[j].claim \in Nat /\ jobs[j].attempt \in Nat
  <2>1. jobs[j] \in Job /\ jobs'[j] \in Job
    BY DEF TypeOK
  <2> QED
    BY <2>1 DEF Job
<1>2. \A j \in Jobs : JournalInvOf(j) /\ jobs[j].claim = jobs[j].attempt
  BY DEF JournalInv, LeaseInv, LeaseInvOf
<1>3. ASSUME NEW j \in Jobs, Kept(j)
      PROVE  JournalInvOf(j)'
  BY <1>2, <1>3 DEF Kept, JournalInvOf
<1>4. ASSUME NEW j \in Jobs, Offered(j)
      PROVE  JournalInvOf(j)'
  BY <1>2, <1>4 DEF Offered, JournalInvOf
<1>5. ASSUME NEW j \in Jobs, Claimed(j)
      PROVE  JournalInvOf(j)'
  <2>1. jobs[j].attempt + 1 \in Nat /\ jobs[j].claim <= jobs[j].attempt + 1
    BY <1>1, <1>2
  <2> QED
    BY <1>1, <1>2, <1>5, <2>1, JournalGrows DEF Claimed, Claimable
<1>6. ASSUME NEW j \in Jobs, Worked(j)
      PROVE  JournalInvOf(j)'
  <2>1. CASE log'[j] = log[j]
    BY <1>2, <1>6, <2>1 DEF Worked, SameClaim, LeaseRuns, JournalInvOf, Final
  <2>2. CASE \E e \in Events : Entered(j, "progress", jobs[j].claim, e)
    BY <1>1, <1>2, <1>6, <2>2, JournalGrows DEF Worked, SameClaim, LeaseRuns
  <2> QED
    BY <1>6, <2>1, <2>2 DEF Worked
<1>7. ASSUME NEW j \in Jobs, Ended(j)
      PROVE  JournalInvOf(j)'
  BY <1>1, <1>2, <1>7, JournalGrows DEF Ended, SameClaim, LeaseRuns, Final
<1>8. ASSUME NEW j \in Jobs, Stopped(j)
      PROVE  JournalInvOf(j)'
  BY <1>1, <1>2, <1>8, JournalGrows DEF Stopped, Stoppable, SameClaim, Final
<1>9. CASE UNCHANGED <<jobs, log>>
  BY <1>3, <1>9 DEF Kept, JournalInv
<1>10. CASE \E j \in Jobs : OneStep(j)
  BY <1>3, <1>4, <1>5, <1>6, <1>7, <1>10 DEF OneStep, JournalInv
<1>11. CASE StopStep
  BY <1>3, <1>8, <1>11 DEF StopStep, JournalInv
<1> QED
  BY <1>9, <1>10, <1>11, StepShapes

\* The journal of a job never holds an entry of a superseded claim after one of a newer
\* claim, and the entry that ends the job is the last one.
THEOREM JournalsAreFenced == Spec => []LogFenced
<1>1. Init => JournalInv
  BY DEF Init, JournalInv, JournalInvOf
<1>2. TypeOK /\ JournalInv => LogFenced
  <2> SUFFICES ASSUME TypeOK, JournalInv, NEW j \in Jobs,
                      NEW i \in DOMAIN log[j], NEW k \in DOMAIN log[j], i < k
               PROVE  /\ log[j][i].claim <= log[j][k].claim
                      /\ log[j][i].kind \in {"claimed", "progress"}
    BY DEF LogFenced
  <2>1. log[j] \in Seq(Entry)
    BY DEF TypeOK
  <2>2. i \in 1 .. Len(log[j]) /\ k \in 1 .. Len(log[j]) /\ i # Len(log[j])
    BY <2>1
  <2> QED
    BY <2>2 DEF JournalInv, JournalInvOf
<1>3. Init => LeaseInv
  BY DEF Init, LeaseInv, LeaseInvOf
<1> QED
  BY <1>1, <1>2, <1>3, JournalStep, LeaseInvStep, TypeCorrect, PTL DEF Spec

-----------------------------------------------------------------------------
(* Revocation *)

\* A device that was revoked has no usable token, and says that it is revoked.
RevokedInv ==
  \A d \in Devices : devices[d].revokedAt => devices[d].status = "revoked" /\ devices[d].tokenRevoked

\* Devices are never forgotten or moved to another tenant, and only a revocation revokes.
DeviceStep(d) ==
  /\ devices[d].status # "none" =>
       devices'[d].status # "none" /\ devices'[d].tenant = devices[d].tenant
  /\ devices[d].status = "revoked" => devices'[d] = devices[d]
  /\ devices[d].status # "revoked" /\ devices'[d].status = "revoked" => RevokeDevice(d)
  /\ devices'[d].status # "revoked" =>
       devices'[d].revokedAt = devices[d].revokedAt \/ devices'[d].revokedAt = FALSE

LEMMA DevicesStep ==
  ASSUME TypeOK, [Next]_vars
  PROVE  \A d \in Devices : DeviceStep(d)
<1> SUFFICES ASSUME NEW d \in Devices
             PROVE  DeviceStep(d)
  BY DEF DeviceStep
<1>0. devices[d] \in Device
  BY DEF TypeOK
<1>1. ASSUME devices' = devices
      PROVE  DeviceStep(d)
  BY <1>1 DEF DeviceStep
<1>2. ASSUME NEW p \in PairCalls, NEW e \in Devices, ConsumePairing(p, e)
      PROVE  DeviceStep(d)
  BY <1>2 DEF TypeOK, ConsumePairing, DeviceStep
<1>3. ASSUME NEW r \in Requests, Heartbeat(r)
      PROVE  DeviceStep(d)
  BY <1>0, <1>3 DEF TypeOK, Heartbeat, HeartbeatAllowed, DeviceStep, Device
<1>4. ASSUME NEW e \in Devices, RevokeDevice(e)
      PROVE  DeviceStep(d)
  <2>1. e # d => devices'[d] = devices[d]
    BY <1>4 DEF TypeOK, RevokeDevice
  <2>2. devices'[e].status = "revoked" /\ devices'[e].tenant = devices[e].tenant
    BY <1>4 DEF TypeOK, RevokeDevice, Device
  <2>3. devices[e].status = "online"
    BY <1>4 DEF RevokeDevice
  <2> QED
    BY <1>4, <2>1, <2>2, <2>3 DEF DeviceStep
<1>5. CASE PairingNext
  BY <1>1, <1>2, <1>5 DEF PairingNext, StartPairing, FindPairing, PairingRefused
<1>6. CASE DeviceNext
  <2>1. ASSUME NEW r \in Requests, Claim(r) \/ RenewLease(r) \/ Refuse(r)
        PROVE  devices' = devices
    BY <2>1 DEF Claim, RenewLease, Refuse
  <2>2. ASSUME NEW r \in Requests, NEW e \in Events,
               \/ RecordProgress(r, e)
               \/ \E outcome \in Outcomes : FinishJob(r, e, outcome) \/ FinishAgain(r, e, outcome)
        PROVE  devices' = devices
    BY <2>2 DEF RecordProgress, FinishJob, FinishAgain
  <2> QED
    BY <1>1, <1>3, <1>6, <2>1, <2>2 DEF DeviceNext, Authenticate
<1>7. CASE ControlNext \/ Tick \/ UNCHANGED vars
  BY <1>1, <1>4, <1>7 DEF ControlNext, SeedJob, CancelJob, Tick, vars
<1> QED
  BY <1>5, <1>6, <1>7 DEF Next

LEMMA RevokedInvStep ==
  ASSUME TypeOK, RevokedInv, [Next]_vars
  PROVE  RevokedInv'
<1> SUFFICES ASSUME NEW d \in Devices, devices'[d].revokedAt
             PROVE  devices'[d].status = "revoked" /\ devices'[d].tokenRevoked
  BY DEF RevokedInv
<1>1. CASE devices[d].status = "revoked"
  BY <1>1, DevicesStep DEF DeviceStep, RevokedInv
<1>2. CASE devices[d].status # "revoked" /\ devices'[d].status = "revoked"
  <2>1. RevokeDevice(d)
    BY <1>2, DevicesStep DEF DeviceStep
  <2> QED
    BY <2>1 DEF RevokeDevice, TypeOK, Device
<1>3. CASE devices[d].status # "revoked" /\ devices'[d].status # "revoked"
  BY <1>3, DevicesStep DEF DeviceStep, RevokedInv
<1> QED
  BY <1>1, <1>2, <1>3

\* No step makes a revoked device or its token usable again, a heartbeat that
\* authenticated before the revocation included.
THEOREM RevocationsAreFinal == Spec => RevocationIsFinal
<1>1. Init => RevokedInv
  BY DEF Init, RevokedInv
<1>2. TypeOK /\ RevokedInv /\ [Next]_vars =>
        [\A d \in Devices :
           devices[d].revokedAt => devices'[d].status = "revoked" /\ devices'[d].tokenRevoked]_vars
  BY DevicesStep DEF DeviceStep, RevokedInv
<1> QED
  BY <1>1, <1>2, RevokedInvStep, TypeCorrect, PTL DEF Spec, RevocationIsFinal

-----------------------------------------------------------------------------
(* Devices reach only the jobs of their tenant, and nothing once revoked *)

\* A job that exists names a paired device, and one that was ever claimed belongs to the
\* tenant of its device.
OwnerInvOf(j) ==
  /\ jobs[j].status # "none" =>
       jobs[j].device \in Devices /\ devices[jobs[j].device].status # "none"
  /\ jobs[j].attempt > 0 =>
       /\ jobs[j].status # "none"
       /\ jobs[j].tenant = devices[jobs[j].device].tenant

OwnerInv == \A j \in Jobs : OwnerInvOf(j)

LEMMA OwnerInvStep ==
  ASSUME TypeOK, LeaseInv, OwnerInv, [Next]_vars
  PROVE  OwnerInv'
<1> SUFFICES ASSUME NEW j \in Jobs
             PROVE  OwnerInvOf(j)'
  BY DEF OwnerInv
<1>1. OwnerInvOf(j) /\ jobs[j] \in Job /\ jobs[j].attempt \in Nat
  BY DEF OwnerInv, TypeOK, Job
<1>2. jobs[j].status # "none" =>
        /\ devices'[jobs[j].device].status # "none"
        /\ devices'[jobs[j].device].tenant = devices[jobs[j].device].tenant
  BY <1>1, DevicesStep DEF OwnerInvOf, DeviceStep
<1>3. CASE Kept(j)
  BY <1>1, <1>2, <1>3 DEF Kept, OwnerInvOf
<1>4. CASE Offered(j)
  <2>1. /\ jobs'[j].device \in Devices /\ devices[jobs'[j].device].status # "none"
        /\ ~ (jobs'[j].attempt > 0)
    BY <1>4 DEF Offered
  <2>2. devices'[jobs'[j].device].status # "none"
    BY <2>1, DevicesStep DEF DeviceStep
  <2> QED
    BY <2>1, <2>2 DEF OwnerInvOf
<1>5. CASE Claimed(j)
  <2>1. PICK r \in Requests : requests[r] # None /\ requests[r].job = j /\ Addressed(requests[r])
    BY <1>5 DEF Claimed
  <2>2. jobs[j].tenant = devices[jobs[j].device].tenant
    BY <2>1 DEF Addressed
  <2> QED
    BY <1>1, <1>2, <1>5, <2>2 DEF Claimed, Claimable, SameOwner, OwnerInvOf
<1>6. CASE Worked(j) \/ Ended(j) \/ Stopped(j)
  <2>1. jobs[j].status # "none" /\ jobs'[j].status # "none" /\ SameOwner(j) /\ SameClaim(j)
    BY <1>6 DEF Worked, Ended, Stopped, LeaseRuns, Stoppable
  <2> QED
    BY <1>1, <1>2, <2>1 DEF SameOwner, SameClaim, OwnerInvOf
<1>7. CASE UNCHANGED <<jobs, log>>
  BY <1>3, <1>7 DEF Kept
<1>8. CASE \E i \in Jobs : OneStep(i)
  BY <1>3, <1>4, <1>5, <1>6, <1>8 DEF OneStep
<1>9. CASE StopStep
  BY <1>3, <1>6, <1>9 DEF StopStep
<1> QED
  BY <1>7, <1>8, <1>9, StepShapes

\* A call in flight names a job that exists; when its device has been revoked since it
\* authenticated, that job has been stopped or is not the device's to work on.
ReachInvOf(q) ==
  q.job # None =>
    /\ jobs[q.job].status # "none"
    /\ devices[q.device].status = "revoked" =>
         ~ (Addressed(q) /\ jobs[q.job].status \in OpenStatuses)

ReachInv == \A r \in Requests : requests[r] # None => ReachInvOf(requests[r])

\* A call in flight stays what it is, ends, or has just been authenticated.
RequestStep(r) ==
  \/ requests'[r] = requests[r]
  \/ requests'[r] = None
  \/ /\ UNCHANGED <<jobs, devices>>
     /\ requests'[r] \in Request
     /\ devices[requests'[r].device].status = "online"
     /\ requests'[r].job # None => jobs[requests'[r].job].status # "none"

LEMMA RequestsStep ==
  ASSUME TypeOK, [Next]_vars
  PROVE  \A r \in Requests : RequestStep(r)
<1> SUFFICES ASSUME NEW r \in Requests
             PROVE  RequestStep(r)
  OBVIOUS
<1>1. ASSUME NEW s \in Requests, Done(s)
      PROVE  RequestStep(r)
  BY <1>1 DEF TypeOK, Done, RequestStep
<1>2. ASSUME NEW s \in Requests, NEW d \in Devices, NEW j \in Jobs \cup {None},
             NEW c \in {0} \cup Claims, Authenticate(s, d, j, c)
      PROVE  RequestStep(r)
  <2>1. CASE s = r
    BY <1>2, <2>1 DEF TypeOK, Authenticate, Authentic, RequestStep, Request
  <2>2. CASE s # r
    BY <1>2, <2>2 DEF TypeOK, Authenticate, RequestStep
  <2> QED
    BY <2>1, <2>2
<1>3. CASE UNCHANGED requests
  BY <1>3 DEF RequestStep
<1>4. CASE PairingNext
  BY <1>3, <1>4 DEF PairingNext, StartPairing, FindPairing, ConsumePairing, PairingRefused
<1>5. CASE DeviceNext
  <2>1. ASSUME NEW s \in Requests, Claim(s) \/ RenewLease(s) \/ Refuse(s) \/ Heartbeat(s)
        PROVE  Done(s)
    BY <2>1 DEF Claim, RenewLease, Refuse, Heartbeat
  <2>2. ASSUME NEW s \in Requests, NEW e \in Events,
               \/ RecordProgress(s, e)
               \/ \E outcome \in Outcomes : FinishJob(s, e, outcome) \/ FinishAgain(s, e, outcome)
        PROVE  Done(s)
    BY <2>2 DEF RecordProgress, FinishJob, FinishAgain
  <2> QED
    BY <1>1, <1>2, <1>5, <2>1, <2>2 DEF DeviceNext
<1>6. CASE ControlNext \/ Tick \/ UNCHANGED vars
  <2>1. ASSUME NEW j \in Jobs, CancelJob(j)
        PROVE  UNCHANGED requests
    BY <2>1 DEF CancelJob
  <2>2. ASSUME NEW d \in Devices, RevokeDevice(d)
        PROVE  UNCHANGED requests
    BY <2>2 DEF RevokeDevice
  <2> QED
    BY <1>3, <1>6, <2>1, <2>2 DEF ControlNext, SeedJob, Tick, vars
<1> QED
  BY <1>4, <1>5, <1>6 DEF Next

\* A job that exists keeps its owner, and is open only if it was.
LEMMA JobsStep ==
  ASSUME TypeOK, [Next]_vars
  PROVE  \A j \in Jobs : jobs[j].status # "none" =>
           /\ jobs'[j].status # "none" /\ SameOwner(j)
           /\ jobs'[j].status \in OpenStatuses => jobs[j].status \in OpenStatuses
<1> SUFFICES ASSUME NEW j \in Jobs, jobs[j].status # "none"
             PROVE  /\ jobs'[j].status # "none" /\ SameOwner(j)
                    /\ jobs'[j].status \in OpenStatuses => jobs[j].status \in OpenStatuses
  OBVIOUS
<1>1. CASE Kept(j)
  BY <1>1 DEF Kept, SameOwner
<1>2. CASE Claimed(j) \/ Worked(j) \/ Ended(j) \/ Stopped(j)
  BY <1>2 DEF Claimed, Claimable, Worked, Ended, Stopped, LeaseRuns, Stoppable
<1>3. ~ Offered(j)
  BY DEF Offered
<1> QED
  BY <1>1, <1>2, <1>3, StepShapes DEF OneStep, StopStep, Kept

\* A revocation stops every open job its device may work on.
LEMMA RevocationStops ==
  ASSUME TypeOK, NEW d \in Devices, RevokeDevice(d), NEW j \in Jobs,
         jobs[j].device = d, jobs[j].tenant = devices[d].tenant
  PROVE  jobs'[j].status \notin OpenStatuses
<1>1. j \in JobsOf(d) /\ JobsOf(d) \in SUBSET Jobs
  BY DEF JobsOf
<1>2. Stop(JobsOf(d)) /\ now' = now
  BY DEF RevokeDevice
<1>3. StopStep /\ \A i \in JobsOf(d) : Stoppable(i) => Stopped(i)
  BY <1>1, <1>2, StopSteps
<1> QED
  BY <1>1, <1>3 DEF StopStep, Kept, Stopped, Stoppable

LEMMA ReachInvStep ==
  ASSUME TypeOK, ReachInv, [Next]_vars
  PROVE  ReachInv'
<1> SUFFICES ASSUME NEW r \in Requests, requests'[r] # None, requests'[r].job # None
             PROVE  /\ jobs'[requests'[r].job].status # "none"
                    /\ devices'[requests'[r].device].status = "revoked" =>
                         ~ (Addressed(requests[r])' /\ jobs'[requests'[r].job].status \in OpenStatuses)
  BY DEF ReachInv, ReachInvOf
<1>1. CASE UNCHANGED <<jobs, devices>> /\ devices[requests'[r].device].status = "online"
           /\ jobs[requests'[r].job].status # "none"
  BY <1>1
<1>2. CASE requests'[r] = requests[r]
  <2> DEFINE q == requests[r]
             j == q.job
             d == q.device
  <2>1. q \in Request /\ j \in Jobs /\ d \in Devices /\ ReachInvOf(q)
    BY <1>2 DEF TypeOK, Request, ReachInv
  <2>2. jobs[j].status # "none"
    BY <1>2, <2>1 DEF ReachInvOf
  <2>3. /\ jobs'[j].status # "none" /\ SameOwner(j)
        /\ jobs'[j].status \in OpenStatuses => jobs[j].status \in OpenStatuses
    BY <2>1, <2>2, JobsStep
  <2>4. Addressed(q)' <=> q.job # None /\ jobs'[j].device = d /\ jobs'[j].tenant = devices'[d].tenant
    BY <1>2 DEF Addressed
  <2>5. CASE devices[d].status = "revoked"
    BY <1>2, <2>1, <2>3, <2>4, <2>5, DevicesStep DEF DeviceStep, SameOwner, ReachInvOf, Addressed
  <2>6. CASE devices[d].status # "revoked" /\ devices'[d].status = "revoked"
    <3>1. RevokeDevice(d)
      BY <2>1, <2>6, DevicesStep DEF DeviceStep
    <3>2. devices[d].status = "online"
      BY <3>1 DEF RevokeDevice
    <3>3. devices'[d].tenant = devices[d].tenant
      BY <2>1, <3>2, DevicesStep DEF DeviceStep
    <3> QED
      BY <1>2, <2>1, <2>3, <2>4, <3>1, <3>3, RevocationStops DEF SameOwner
  <2> QED
    BY <1>2, <2>1, <2>3, <2>5, <2>6
<1> QED
  BY <1>1, <1>2, RequestsStep DEF RequestStep

LEMMA RevokedIdleStep ==
  ASSUME TypeOK, LeaseInv, OwnerInv, ReachInv, RevokedDeviceIdle, [Next]_vars
  PROVE  RevokedDeviceIdle'
<1> SUFFICES ASSUME NEW j \in Jobs, NEW d \in Devices, jobs'[j].device = d,
                    devices'[d].status = "revoked", jobs'[j].status \in ActiveStatuses
             PROVE  FALSE
  BY DEF RevokedDeviceIdle
<1>1. jobs[j] \in Job /\ jobs[j].attempt \in Nat /\ LeaseInvOf(j) /\ OwnerInvOf(j)
  BY DEF TypeOK, Job, LeaseInv, OwnerInv
<1>2. ASSUME jobs[j].status \in ActiveStatuses, jobs[j].device = d
      PROVE  FALSE
  <2>1. devices[d].status # "revoked"
    BY <1>2 DEF RevokedDeviceIdle
  <2>2. RevokeDevice(d)
    BY <2>1, DevicesStep DEF DeviceStep
  <2>3. jobs[j].attempt > 0
    BY <1>1, <1>2 DEF LeaseInvOf
  <2>4. jobs[j].tenant = devices[d].tenant
    BY <1>1, <1>2, <2>3 DEF OwnerInvOf
  <2> QED
    BY <1>2, <2>2, <2>4, RevocationStops
<1>3. CASE Kept(j)
  BY <1>2, <1>3 DEF Kept
<1>4. CASE Claimed(j)
  <2>1. PICK r \in Requests : requests[r] # None /\ requests[r].job = j /\ Addressed(requests[r])
    BY <1>4 DEF Claimed
  <2>2. jobs[j].device = d /\ requests[r].device = d /\ jobs[j].status \in OpenStatuses
    BY <1>4, <2>1 DEF Claimed, SameOwner, Addressed, Claimable
  <2>3. devices[d].status # "revoked"
    BY <2>1, <2>2, NoneAssumption DEF ReachInv, ReachInvOf
  <2>4. RevokeDevice(d)
    BY <2>3, DevicesStep DEF DeviceStep
  <2>5. jobs[j].tenant = devices[d].tenant
    BY <2>1, <2>2 DEF Addressed
  <2> QED
    BY <2>2, <2>4, <2>5, RevocationStops
<1>5. CASE Worked(j)
  BY <1>2, <1>5 DEF Worked, LeaseRuns, SameOwner
<1>6. CASE Offered(j) \/ Ended(j) \/ Stopped(j)
  BY <1>6 DEF Offered, Ended, Stopped
<1>7. CASE UNCHANGED <<jobs, log>>
  BY <1>3, <1>7 DEF Kept
<1>8. CASE \E i \in Jobs : OneStep(i)
  BY <1>3, <1>4, <1>5, <1>6, <1>8 DEF OneStep
<1>9. CASE StopStep
  BY <1>3, <1>6, <1>9 DEF StopStep
<1> QED
  BY <1>7, <1>8, <1>9, StepShapes

\* The store keeps all it promises at once: every part of AgentsSafe, for any number of
\* tenants, devices, jobs and calls in flight.
THEOREM AgentsAreSafe == Spec => []AgentsSafe
<1> DEFINE IInv == LeaseInv /\ OwnerInv /\ ReachInv /\ RevokedDeviceIdle
<1>1. Init => IInv
  BY DEF Init, LeaseInv, LeaseInvOf, OwnerInv, OwnerInvOf, ReachInv, RevokedDeviceIdle
<1>2. TypeOK /\ IInv /\ [Next]_vars => IInv'
  BY LeaseInvStep, OwnerInvStep, ReachInvStep, RevokedIdleStep
<1>3. TypeOK /\ IInv => RevokedDeviceIdle /\ ClaimedInTenant
  BY DEF OwnerInv, OwnerInvOf, ClaimedInTenant
<1> HIDE DEF IInv
<1>4. Spec => [](RevokedDeviceIdle /\ ClaimedInTenant)
  BY <1>1, <1>2, <1>3, TypeCorrect, PTL DEF Spec
<1> QED
  BY <1>4, TypeCorrect, PairsOnce, LeasesExclude, JournalsAreFenced, AcksAreStable, PTL
  DEF AgentsSafe

-----------------------------------------------------------------------------
(* The store implements JobLease *)

\* The state of JobLease that a state of the store stands for.
Phases == [j \in Jobs |-> Phase(j)]
Epochs == [j \in Jobs |-> jobs[j].attempt]
Entries(j) == [i \in DOMAIN log[j] |-> <<log[j][i].kind, log[j][i].claim>>]
Journals == [j \in Jobs |-> Entries(j)]

\* An entry of the store's journal is an entry of the promised one.
LEMMA EntryAdded ==
  ASSUME TypeOK, NEW j \in Jobs, NEW kind, NEW c, NEW e, Entered(j, kind, c, e)
  PROVE  Entries(j)' = Append(Entries(j), <<kind, c>>)
<1> DEFINE x == [kind |-> kind, claim |-> c, event |-> e]
           n == Len(log[j])
<1>1. log[j] \in Seq(Entry) /\ log'[j] = Append(log[j], x)
  BY DEF TypeOK, Entered
<1>2. /\ n \in Nat /\ DOMAIN log[j] = 1 .. n /\ DOMAIN log'[j] = 1 .. n + 1
      /\ \A i \in 1 .. n : log'[j][i] = log[j][i]
      /\ log'[j][n + 1] = x
  BY <1>1
<1>3. x.kind = kind /\ x.claim = c
  OBVIOUS
<1>4. Entries(j) \in Seq({<<log[j][i].kind, log[j][i].claim>> : i \in 1 .. n}) /\ Len(Entries(j)) = n
  BY <1>2 DEF Entries
<1>5. Entries(j)' = [i \in 1 .. n + 1 |-> <<log'[j][i].kind, log'[j][i].claim>>]
  BY <1>2 DEF Entries
<1> HIDE DEF x, n
<1>6. Append(Entries(j), <<kind, c>>) = [i \in 1 .. n + 1 |-> IF i = n + 1 THEN <<kind, c>> ELSE Entries(j)[i]]
  BY <1>2, <1>4
<1>7. \A i \in 1 .. n : Entries(j)[i] = <<log[j][i].kind, log[j][i].claim>>
  BY <1>2 DEF Entries
<1>8. ASSUME NEW i \in 1 .. n + 1
      PROVE  <<log'[j][i].kind, log'[j][i].claim>> = IF i = n + 1 THEN <<kind, c>> ELSE Entries(j)[i]
  <2>1. CASE i = n + 1
    BY <1>2, <1>3, <2>1
  <2>2. CASE i \in 1 .. n
    BY <1>2, <1>7, <2>2
  <2> QED
    BY <1>2, <2>1, <2>2
<1> QED
  BY <1>5, <1>6, <1>8

LEMMA PhaseValues ==
  ASSUME TypeOK, NEW j \in Jobs
  PROVE  /\ LeaseRuns(j) => Phase(j) = "held"
         /\ jobs[j].status \in OpenStatuses /\ ~ LeaseRuns(j) => Phase(j) = "free"
         /\ jobs[j].status \notin OpenStatuses => Phase(j) = jobs[j].status
  BY DEF Phase, LeaseRuns

\* What each kind of step does to the phase, the epoch and the journal of one job.
Becomes(j, phase, epoch, entries) ==
  Phase(j)' = phase /\ jobs'[j].attempt = epoch /\ Entries(j)' = entries

LEMMA KeptMaps ==
  ASSUME NEW j \in Jobs, Kept(j), now' = now
  PROVE  Becomes(j, Phase(j), jobs[j].attempt, Entries(j))
  BY DEF Kept, Becomes, Phase, LeaseRuns, Entries

LEMMA OfferedMaps ==
  ASSUME TypeOK, TypeOK', LeaseInv, NEW j \in Jobs, Offered(j), now' = now
  PROVE  Phase(j) = "none" /\ Becomes(j, "free", jobs[j].attempt, Entries(j))
<1>1. Phase(j) = "none"
  BY PhaseValues DEF Offered
<1>2. Phase(j)' = "free"
  BY DEF Offered, Phase, LeaseRuns
<1>3. jobs'[j].attempt = jobs[j].attempt
  BY DEF Offered, LeaseInv, LeaseInvOf
<1> QED
  BY <1>1, <1>2, <1>3 DEF Becomes, Entries, Offered

LEMMA ClaimedMaps ==
  ASSUME TypeOK, NEW j \in Jobs, Claimed(j), now' = now
  PROVE  /\ Phase(j) = "free"
         /\ Becomes(j, "held", jobs[j].attempt + 1,
                    Append(Entries(j), <<"claimed", jobs[j].attempt + 1>>))
<1>1. Phase(j) = "free"
  BY PhaseValues DEF Claimed, Claimable
<1>2. Phase(j)' = "held"
  <2>1. now \in Nat /\ now + Lease > now
    BY DEF TypeOK
  <2> QED
    BY <2>1 DEF Claimed, Phase, LeaseRuns
<1>3. Entries(j)' = Append(Entries(j), <<"claimed", jobs[j].attempt + 1>>)
  BY EntryAdded DEF Claimed
<1> QED
  BY <1>1, <1>2, <1>3 DEF Becomes, Claimed

LEMMA WorkedMaps ==
  ASSUME TypeOK, LeaseInv, NEW j \in Jobs, Worked(j), now' = now
  PROVE  /\ Phase(j) = "held"
         /\ \/ Becomes(j, "held", jobs[j].attempt, Entries(j))
            \/ Becomes(j, "held", jobs[j].attempt,
                       Append(Entries(j), <<"progress", jobs[j].attempt>>))
<1>1. Phase(j) = "held" /\ jobs[j].claim = jobs[j].attempt
  BY PhaseValues DEF Worked, LeaseInv, LeaseInvOf
<1>2. Phase(j)' = "held"
  <2>1. now \in Nat /\ now + Lease > now
    BY DEF TypeOK
  <2> QED
    BY <2>1 DEF Worked, Phase, LeaseRuns
<1>3. CASE log'[j] = log[j]
  BY <1>1, <1>2, <1>3 DEF Becomes, Entries, Worked, SameClaim
<1>4. CASE \E e \in Events : Entered(j, "progress", jobs[j].claim, e)
  <2>1. Entries(j)' = Append(Entries(j), <<"progress", jobs[j].attempt>>)
    BY <1>1, <1>4, EntryAdded
  <2> QED
    BY <1>1, <1>2, <2>1 DEF Becomes, Worked, SameClaim
<1> QED
  BY <1>3, <1>4 DEF Worked

LEMMA EndedMaps ==
  ASSUME TypeOK, LeaseInv, NEW j \in Jobs, Ended(j), now' = now
  PROVE  /\ Phase(j) = "held"
         /\ \E outcome \in Outcomes :
              Becomes(j, outcome, jobs[j].attempt, Append(Entries(j), <<outcome, jobs[j].attempt>>))
<1>1. Phase(j) = "held" /\ jobs[j].claim = jobs[j].attempt
  BY PhaseValues DEF Ended, LeaseInv, LeaseInvOf
<1>2. PICK outcome \in Outcomes, e \in Events :
        jobs'[j].status = outcome /\ Entered(j, outcome, jobs[j].claim, e)
  BY DEF Ended
<1>3. Phase(j)' = outcome
  BY <1>2 DEF Phase, LeaseRuns
<1>4. Entries(j)' = Append(Entries(j), <<outcome, jobs[j].attempt>>)
  BY <1>1, <1>2, EntryAdded
<1> QED
  BY <1>1, <1>3, <1>4 DEF Becomes, Ended, SameClaim

LEMMA StoppedMaps ==
  ASSUME TypeOK, LeaseInv, NEW j \in Jobs, Stopped(j), now' = now
  PROVE  /\ Phase(j) \in {"free", "held"}
         /\ Becomes(j, "cancelled", jobs[j].attempt, Append(Entries(j), <<"cancelled", jobs[j].attempt>>))
<1>1. Phase(j) \in {"free", "held"} /\ jobs[j].claim = jobs[j].attempt
  BY PhaseValues DEF Stopped, Stoppable, LeaseInv, LeaseInvOf
<1>2. Phase(j)' = "cancelled"
  BY DEF Stopped, Phase, LeaseRuns
<1>3. Entries(j)' = Append(Entries(j), <<"cancelled", jobs[j].attempt>>)
  BY <1>1, EntryAdded DEF Stopped
<1> QED
  BY <1>1, <1>2, <1>3 DEF Becomes, Stopped, SameClaim


\* Every step of the store is a step of JobLease, or leaves what JobLease sees alone.
LEMMA PromiseStep ==
  ASSUME TypeOK, TypeOK', LeaseInv, [Next]_vars
  PROVE  Promise!Next \/ UNCHANGED Promise!vars
<1>1. CASE UNCHANGED <<jobs, log>> /\ now <= now'
  <2> DEFINE S == {j \in Jobs : LeaseRuns(j) /\ ~ LeaseRuns(j)'}
  <2>1. ASSUME NEW j \in Jobs
        PROVE  /\ j \in S => Phase(j) = "held" /\ Phase(j)' = "free"
               /\ j \notin S => Phase(j)' = Phase(j)
    <3>1. now \in Nat /\ now' \in Nat /\ jobs[j] \in Job /\ jobs[j].leaseExpiresAt \in Nat
      BY DEF TypeOK, Job
    <3>2. LeaseRuns(j)' => LeaseRuns(j)
      BY <1>1, <3>1 DEF LeaseRuns
    <3> QED
      BY <1>1, <3>2 DEF Phase, LeaseRuns
  <2> HIDE DEF S
  <2>2. S \in SUBSET Jobs
    BY DEF S
  <2>3. Promise!Lapse(S)
    BY <1>1, <2>1, <2>2, Zenon DEF Promise!Lapse
  <2> QED
    BY <2>2, <2>3 DEF Promise!Next
<1>2. ASSUME NEW j \in Jobs, OneStep(j)
      PROVE  Promise!Next \/ UNCHANGED Promise!vars
  <2>1. /\ now' = now
        /\ Offered(j) \/ Claimed(j) \/ Worked(j) \/ Ended(j)
        /\ \A i \in Jobs : i # j => Becomes(i, Phase(i), jobs[i].attempt, Entries(i))
    BY <1>2, KeptMaps DEF OneStep
  <2>2. CASE Offered(j)
    <3>1. Phase(j) = "none" /\ Becomes(j, "free", jobs[j].attempt, Entries(j))
      BY <2>1, <2>2, OfferedMaps
    <3>2. Promise!Offer(j)
      BY <2>1, <3>1 DEF Promise!Offer, Becomes, Entries
    <3> QED
      BY <3>2 DEF Promise!Next
  <2>3. CASE Claimed(j)
    <3>1. /\ Phase(j) = "free"
          /\ Becomes(j, "held", jobs[j].attempt + 1,
                     Append(Entries(j), <<"claimed", jobs[j].attempt + 1>>))
      BY <2>1, <2>3, ClaimedMaps
    <3>2. /\ Phases[j] = "free"
          /\ Phases' = [Phases EXCEPT ![j] = "held"]
      BY <2>1, <3>1 DEF Phases, Becomes
    <3>3. Epochs' = [Epochs EXCEPT ![j] = Epochs[j] + 1]
      BY <2>1, <3>1 DEF Epochs, Becomes
    <3>4. Journals' = [Journals EXCEPT ![j] = Append(Journals[j], <<"claimed", Epochs[j] + 1>>)]
      <4>1. /\ Entries(j)' = Append(Entries(j), <<"claimed", jobs[j].attempt + 1>>)
            /\ \A i \in Jobs : i # j => Entries(i)' = Entries(i)
        BY <2>1, <3>1 DEF Becomes
      <4> QED
        BY <4>1, Zenon DEF Epochs, Journals
    <3>5. Promise!Grant(j)
      BY <3>2, <3>3, <3>4 DEF Promise!Grant, Phases, Epochs, Journals, Entries
    <3> QED
      BY <3>5 DEF Promise!Next
  <2>4. ASSUME NEW kind, Becomes(j, Phase(j)', jobs[j].attempt, Append(Entries(j), <<kind, jobs[j].attempt>>))
        PROVE  Epochs' = Epochs /\ Journals' = Promise!Note({j}, kind)
    <3>1. /\ Entries(j)' = Append(Entries(j), <<kind, jobs[j].attempt>>)
          /\ \A i \in Jobs : i # j => Entries(i)' = Entries(i)
          /\ \A i \in Jobs : jobs'[i].attempt = jobs[i].attempt
      BY <2>1, <2>4 DEF Becomes
    <3>2. Journals' = [i \in Jobs |-> IF i \in {j} THEN Append(Journals[i], <<kind, Epochs[i]>>) ELSE Journals[i]]
      BY <3>1, Zenon DEF Epochs, Journals
    <3>3. Epochs' = Epochs
      BY <3>1 DEF Epochs
    <3> QED
      BY <3>2, <3>3 DEF Epochs, Journals, Entries, Promise!Note
  <2>5. CASE Worked(j)
    <3>1. /\ Phase(j) = "held"
          /\ \/ Becomes(j, "held", jobs[j].attempt, Entries(j))
             \/ Becomes(j, "held", jobs[j].attempt,
                        Append(Entries(j), <<"progress", jobs[j].attempt>>))
      BY <2>1, <2>5, WorkedMaps
    <3>2. Phases[j] = "held" /\ Phases' = Phases
      BY <2>1, <3>1 DEF Phases, Becomes
    <3>3. CASE Becomes(j, "held", jobs[j].attempt, Entries(j))
      <4>1. Epochs' = Epochs /\ Journals' = Journals
        BY <2>1, <3>3 DEF Epochs, Journals, Becomes
      <4> QED
        BY <3>2, <4>1 DEF Promise!vars, Phases, Epochs, Journals, Entries
    <3>4. CASE Becomes(j, "held", jobs[j].attempt, Append(Entries(j), <<"progress", jobs[j].attempt>>))
      <4>1. Epochs' = Epochs /\ Journals' = Promise!Note({j}, "progress")
        BY <2>4, <3>4 DEF Becomes
      <4>2. Promise!Report(j)
        BY <3>2, <4>1 DEF Promise!Report, Phases, Epochs, Journals, Entries
      <4> QED
        BY <4>2 DEF Promise!Next
    <3> QED
      BY <3>1, <3>3, <3>4
  <2>6. CASE Ended(j)
    <3>1. PICK outcome \in Outcomes :
            Becomes(j, outcome, jobs[j].attempt, Append(Entries(j), <<outcome, jobs[j].attempt>>))
      BY <2>1, <2>6, EndedMaps
    <3>2. Phases[j] = "held" /\ Phases' = [Phases EXCEPT ![j] = outcome]
      BY <2>1, <2>6, <3>1, EndedMaps DEF Phases, Becomes
    <3>3. Epochs' = Epochs /\ Journals' = Promise!Note({j}, outcome)
      BY <2>4, <3>1 DEF Becomes
    <3>4. Promise!Finish(j, outcome)
      BY <3>2, <3>3 DEF Promise!Finish, Phases, Epochs, Journals, Entries
    <3> QED
      BY <3>4 DEF Promise!Next, Promise!Outcomes
  <2> QED
    BY <2>1, <2>2, <2>3, <2>5, <2>6
<1>3. CASE StopStep
  <2>0. PICK S \in SUBSET Jobs : \A j \in Jobs : j \in S <=> Stopped(j)
    <3>1. {j \in Jobs : Stopped(j)} \in SUBSET Jobs
      OBVIOUS
    <3> QED
      BY <3>1
  <2>1. ASSUME NEW j \in Jobs
        PROVE  /\ j \in S =>
                    /\ Phase(j) \in {"free", "held"}
                    /\ Becomes(j, "cancelled", jobs[j].attempt,
                               Append(Entries(j), <<"cancelled", jobs[j].attempt>>))
               /\ j \notin S => Becomes(j, Phase(j), jobs[j].attempt, Entries(j))
    BY <1>3, <2>0, StoppedMaps, KeptMaps DEF StopStep
  <2>2. \A j \in S : Phases[j] \in {"free", "held"}
    BY <2>1 DEF Phases
  <2>3. Phases' = [j \in Jobs |-> IF j \in S THEN "cancelled" ELSE Phases[j]]
    BY <2>1 DEF Phases, Becomes
  <2>4. Epochs' = Epochs
    BY <2>1 DEF Epochs, Becomes
  <2>5. Journals' = Promise!Note(S, "cancelled")
    BY <2>1 DEF Journals, Becomes, Entries, Promise!Note
  <2>6. Promise!Cancel(S)
    BY <2>2, <2>3, <2>4, <2>5 DEF Promise!Cancel, Phases, Epochs, Journals, Entries
  <2> QED
    BY <2>6 DEF Promise!Next
<1> QED
  BY <1>1, <1>2, <1>3, StepShapes

\* The store keeps the promise of JobLease: without clocks, devices and calls, a job is
\* held by one claim at a time, and only that claim adds to its journal or ends it.
THEOREM StoreKeepsPromise == Spec => KeepsPromise
<1>1. Init => Promise!Init
  BY PhaseValues, InitTyped DEF Init, Promise!Init, Phase, LeaseRuns
<1>2. TypeOK /\ TypeOK' /\ LeaseInv /\ [Next]_vars => [Promise!Next]_(Promise!vars)
  BY PromiseStep
<1>3. Init => LeaseInv
  BY DEF Init, LeaseInv, LeaseInvOf
<1> QED
  BY <1>1, <1>2, <1>3, LeaseInvStep, TypeCorrect, PTL DEF Spec, KeepsPromise, Promise!Spec

=============================================================================
