---------------------------- MODULE SupabaseAgents -----------------------------
(*****************************************************************************)
(* The AgentStore of production: apps/web/src/lib/supabase-agent-store.ts    *)
(* with the SQL functions and triggers it calls, as AgentService uses it.    *)
(*                                                                           *)
(* A request of an Agent is authenticated by one call and served by others;  *)
(* each SQL function is one transaction, and where it waits for a lock it is *)
(* shown in the steps between which others may commit.  One tenant, whose    *)
(* tokens do not expire: what tenants and expiry change is in AgentJobs.     *)
(*****************************************************************************)
EXTENDS AgentStores, Sequences, FiniteSets

CONSTANTS
  Reports,      \* keys of progress reports
  Finals,       \* keys of terminal reports; an Agent makes a key for each report
  Folders,      \* folder aliases an Agent may report
  DeviceLimit,  \* devices the tenant's plan allows
  ReportLog     \* bound on the journal of a job

VARIABLES
  time,
  codes,       \* device_pairing_codes
  deviceRows,  \* status of each row of devices, and of its token
  folders,     \* folder_aliases of each device
  jobRows,     \* agent_jobs
  journals,    \* agent_job_events, with the claims and cancellations as history
  agentCalls,  \* requests under way
  answered,    \* history: of each job the outcomes that were acknowledged, and the progress
               \* that was as new
  beats        \* history: of each device the folders of its last heartbeat, None if it met another

tablesVars == <<time, codes, deviceRows, folders, jobRows, journals, agentCalls, answered, beats>>

Active == {"claimed", "running"}

\* claim: the claim_token_hash, by the attempt it was made for.
JobRow == [status : {"none", "pending", "cancelled"} \cup Active \cup Outcomes, device : Devices \cup {None},
           attempt : {0} \cup Claims, until : 0 .. MaxTime + Lease]

EventRow == [kind : {"claimed", "progress", "cancelled"} \cup Outcomes, claim : {0} \cup Claims,
             event : Reports \cup Finals \cup {None}]

Kinds == {"pair", "heartbeat", "claim", "renew", "progress"} \cup Outcomes

\* about: the code, the folders or the job; found: was there such an event, a row to insert, or
\* the aliases there were.
AgentCall == [kind : Kinds, at : {"begin", "taken", "locked", "counted", "sent", "listed", "written"},
              device : Devices, about : Codes \cup Jobs \cup SUBSET Folders,
              claim : {0} \cup Claims, event : Reports \cup Finals \cup {None},
              found : BOOLEAN, stale : SUBSET Folders]

\* What the constants are; None is no request in particular.
SupabaseConstants ==
  /\ {MaxAttempts, Lease, PairTTL, DeviceLimit} \subseteq Nat \ {0}
  /\ {MaxTime, ReportLog} \subseteq Nat
  /\ Reports \cap Finals = {} /\ None \notin Reports \cup Finals \cup Jobs \cup Devices \cup AgentCall

ASSUME SupabaseAssumption == SupabaseConstants

TablesInit ==
  /\ time = 0
  /\ codes = [k \in Codes |-> [status |-> "none", until |-> 0]]
  /\ deviceRows = [d \in Devices |-> "none"]
  /\ folders = [d \in Devices |-> {}]
  /\ jobRows = [j \in Jobs |-> [status |-> "none", device |-> None, attempt |-> 0, until |-> 0]]
  /\ journals = [j \in Jobs |-> <<>>]
  /\ agentCalls = [r \in Requests |-> None]
  /\ answered = [j \in Jobs |-> {}]
  /\ beats = [d \in Devices |-> {}]

-----------------------------------------------------------------------------
(* Requests *)

Begin(r, kind, d, about, c, e) ==
  /\ agentCalls[r] = None
  /\ agentCalls' = [agentCalls EXCEPT ![r] = [kind |-> kind, at |-> "begin", device |-> d, about |-> about,
       claim |-> c, event |-> e, found |-> FALSE, stale |-> {}]]

At(r, kinds, step) == agentCalls[r] # None /\ agentCalls[r].kind \in kinds /\ agentCalls[r].at = step

Step(r, step) == agentCalls' = [agentCalls EXCEPT ![r].at = step]

End(r) == agentCalls' = [agentCalls EXCEPT ![r] = None]

\* The service answers with an error, or the instance dies: what a transaction has not
\* committed is rolled back.
Drop(r) ==
  /\ agentCalls[r] # None
  /\ End(r)
  /\ beats' = IF agentCalls[r].kind = "heartbeat" THEN [beats EXCEPT ![agentCalls[r].device] = None] ELSE beats
  /\ UNCHANGED <<time, codes, deviceRows, folders, jobRows, journals, answered>>

\* AgentService.authenticate, over the rows of the token and of its device.
AuthenticateAgent(r, kind, d, j, c, e) ==
  /\ deviceRows[d] = "active"
  /\ Begin(r, kind, d, j, c, e)
  /\ UNCHANGED <<time, codes, deviceRows, folders, jobRows, journals, answered, beats>>

-----------------------------------------------------------------------------
(* Pairing *)

CreatePairing(k) ==
  /\ codes[k].status = "none"
  /\ codes' = [codes EXCEPT ![k] = [status |-> "open", until |-> time + PairTTL]]
  /\ UNCHANGED <<time, deviceRows, folders, jobRows, journals, agentCalls, answered, beats>>

Usable(k) == codes[k].status = "open" /\ codes[k].until > time

\* The code is found and is usable.
FindPairingByHash(r, k, d) ==
  /\ Usable(k)
  /\ deviceRows[d] = "none" /\ \A q \in Requests : agentCalls[q] # None => agentCalls[q].device # d
  /\ Begin(r, "pair", d, k, 0, None)
  /\ UNCHANGED <<time, codes, deviceRows, folders, jobRows, journals, answered, beats>>

\* complete_agent_pairing: the row of the code is updated, and so locked.
TakeCode(r) ==
  LET k == agentCalls[r].about IN
  /\ At(r, {"pair"}, "begin")
  /\ Usable(k)
  /\ \A q \in Requests \ {r} : At(q, {"pair"}, "taken") \/ At(q, {"pair"}, "locked") \/ At(q, {"pair"}, "counted")
       => agentCalls[q].about # k
  /\ Step(r, "taken")
  /\ UNCHANGED <<time, codes, deviceRows, folders, jobRows, journals, answered, beats>>

\* Fault: the count of the devices waits for no other insertion.
TenantNeverLocked(r) == TRUE

TenantFree(r) == \A q \in Requests : ~ At(q, {"pair"}, "locked") /\ ~ At(q, {"pair"}, "counted")

\* a_lock_tenant_for_device_limit, before the count of enforce_device_subscription_limit.
LockTenant(r) ==
  /\ At(r, {"pair"}, "taken")
  /\ TenantFree(r)
  /\ Step(r, "locked")
  /\ UNCHANGED <<time, codes, deviceRows, folders, jobRows, journals, answered, beats>>

CountDevices(r) ==
  /\ At(r, {"pair"}, "locked")
  /\ Cardinality({d \in Devices : deviceRows[d] = "active"}) < DeviceLimit
  /\ Step(r, "counted")
  /\ UNCHANGED <<time, codes, deviceRows, folders, jobRows, journals, answered, beats>>

CommitPairing(r) ==
  /\ At(r, {"pair"}, "counted")
  /\ codes' = [codes EXCEPT ![agentCalls[r].about].status = "consumed"]
  /\ deviceRows' = [deviceRows EXCEPT ![agentCalls[r].device] = "active"]
  /\ End(r)
  /\ UNCHANGED <<time, folders, jobRows, journals, answered, beats>>

-----------------------------------------------------------------------------
(* recordHeartbeat *)

Beating(d) == {q \in Requests : agentCalls[q] # None /\ agentCalls[q].kind = "heartbeat" /\ agentCalls[q].device = d}

\* The folders the Agent grants at this time are sent along.
SendHeartbeat(r, d, F) ==
  /\ deviceRows[d] = "active"
  /\ Begin(r, "heartbeat", d, F, 0, None)
  /\ beats' = [beats EXCEPT ![d] = IF Beating(d) = {} THEN F ELSE None]
  /\ UNCHANGED <<time, codes, deviceRows, folders, jobRows, journals, answered>>

MayBeat(d) == deviceRows[d] = "active"

RecordHeartbeat(r) ==
  /\ At(r, {"heartbeat"}, "begin")
  /\ MayBeat(agentCalls[r].device)
  /\ deviceRows' = [deviceRows EXCEPT ![agentCalls[r].device] = "active"]
  /\ Step(r, "sent")
  /\ UNCHANGED <<time, codes, folders, jobRows, journals, answered, beats>>

Stale(r) == folders[agentCalls[r].device] \ agentCalls[r].about

ListFolders(r) ==
  /\ At(r, {"heartbeat"}, "sent")
  /\ agentCalls' = [agentCalls EXCEPT ![r].at = "listed", ![r].stale = Stale(r)]
  /\ UNCHANGED <<time, codes, deviceRows, folders, jobRows, journals, answered, beats>>

\* Each alias is updated, or inserted when no row was.
WriteFolder(r, f) ==
  LET q == agentCalls[r] IN
  /\ At(r, {"heartbeat"}, "listed")
  /\ f \in q.about
  /\ folders' = [folders EXCEPT ![q.device] = @ \cup {f}]
  /\ agentCalls' = [agentCalls EXCEPT ![r].about = @ \ {f}]
  /\ UNCHANGED <<time, codes, deviceRows, jobRows, journals, answered, beats>>

DeleteStale(r) ==
  /\ At(r, {"heartbeat"}, "listed")
  /\ agentCalls[r].about = {}
  /\ folders' = [folders EXCEPT ![agentCalls[r].device] = @ \ agentCalls[r].stale]
  /\ End(r)
  /\ UNCHANGED <<time, codes, deviceRows, jobRows, journals, answered, beats>>

-----------------------------------------------------------------------------
(* claim_agent_job, renew_agent_job_lease *)

Leased(j) == jobRows[j].status \in Active /\ jobRows[j].until > time

Journaled(j, kind, c, e) == journals' = [journals EXCEPT ![j] = Append(@, [kind |-> kind, claim |-> c, event |-> e])]

ClaimableJob(j) ==
  /\ jobRows[j].status \in {"pending"} \cup Active /\ ~ Leased(j)
  /\ jobRows[j].attempt < MaxAttempts

ClaimJob(r) ==
  LET j == agentCalls[r].about IN
  /\ At(r, {"claim"}, "begin")
  /\ jobRows[j].device = agentCalls[r].device
  /\ ClaimableJob(j)
  /\ jobRows' = [jobRows EXCEPT ![j].status = "claimed", ![j].attempt = @ + 1, ![j].until = time + Lease]
  /\ Journaled(j, "claimed", jobRows[j].attempt + 1, None)
  /\ End(r)
  /\ UNCHANGED <<time, codes, deviceRows, folders, answered, beats>>

\* Fault: a lapsed lease still holds.
HoldsLapsed(r) ==
  LET j == agentCalls[r].about IN
  jobRows[j].device = agentCalls[r].device /\ jobRows[j].status \in Active /\ jobRows[j].attempt = agentCalls[r].claim

HoldsJob(r) ==
  LET j == agentCalls[r].about IN
  jobRows[j].device = agentCalls[r].device /\ Leased(j) /\ jobRows[j].attempt = agentCalls[r].claim

RenewJob(r) ==
  /\ At(r, {"renew"}, "begin")
  /\ HoldsJob(r)
  /\ jobRows' = [jobRows EXCEPT ![agentCalls[r].about].status = "running", ![agentCalls[r].about].until = time + Lease]
  /\ End(r)
  /\ UNCHANGED <<time, codes, deviceRows, folders, journals, answered, beats>>

-----------------------------------------------------------------------------
(* recordProgress, finishJob *)

Logged(j, e) == \E i \in DOMAIN journals[j] : journals[j][i].event = e

\* record_agent_job_progress: found says whether an event was inserted.
WriteProgress(r) ==
  LET q == agentCalls[r] IN
  /\ At(r, {"progress"}, "begin")
  /\ IF HoldsJob(r)
     THEN /\ jobRows' = [jobRows EXCEPT ![q.about].status = "running"]
          /\ IF Logged(q.about, q.event) THEN UNCHANGED journals
             ELSE Len(journals[q.about]) < ReportLog /\ Journaled(q.about, "progress", q.claim, q.event)
          /\ agentCalls' = [agentCalls EXCEPT ![r].at = "written", ![r].found = ~ Logged(q.about, q.event)]
     ELSE /\ Step(r, "written")
          /\ UNCHANGED <<jobRows, journals>>
  /\ UNCHANGED <<time, codes, deviceRows, folders, answered, beats>>

Acknowledge(j, entry) == answered' = [answered EXCEPT ![j] = @ \cup {entry}]

\* The job is read back; what was not inserted counts as a duplicate if the job is active.
AnswerProgress(r) ==
  /\ At(r, {"progress"}, "written")
  /\ jobRows[agentCalls[r].about].status \in Active
  /\ IF agentCalls[r].found
     THEN Acknowledge(agentCalls[r].about, [kind |-> "progress", claim |-> agentCalls[r].claim, event |-> agentCalls[r].event])
     ELSE UNCHANGED answered
  /\ End(r)
  /\ UNCHANGED <<time, codes, deviceRows, folders, jobRows, journals, beats>>

DoneBefore(j, outcome, e) == jobRows[j].status = outcome /\ Logged(j, e)

\* finish_agent_job.  Whether there was such an event before is looked up first, and only tells
\* the Agent so.
FinishAgentJob(r) ==
  LET q == agentCalls[r]
      j == q.about
  IN
  /\ At(r, Outcomes, "begin")
  /\ \/ /\ HoldsJob(r)
        /\ IF Logged(j, q.event) THEN UNCHANGED journals ELSE Journaled(j, q.kind, q.claim, q.event)
        /\ jobRows' = [jobRows EXCEPT ![j].status = q.kind, ![j].until = 0]
     \/ /\ ~ HoldsJob(r)
        /\ jobRows[j].device = q.device /\ DoneBefore(j, q.kind, q.event)
        /\ UNCHANGED <<jobRows, journals>>
  /\ Acknowledge(j, [kind |-> q.kind, claim |-> 0, event |-> None])
  /\ End(r)
  /\ UNCHANGED <<time, codes, deviceRows, folders, beats>>

-----------------------------------------------------------------------------
(* The control plane *)

\* require_active_device_for_agent_job, which waits for a revocation under way.
ActiveDevice(d) == deviceRows[d] = "active"

InsertJob(j, d) ==
  /\ jobRows[j].status = "none"
  /\ ActiveDevice(d)
  /\ jobRows' = [jobRows EXCEPT ![j].status = "pending", ![j].device = d]
  /\ UNCHANGED <<time, codes, deviceRows, folders, journals, agentCalls, answered, beats>>

Cancelled(S) ==
  /\ jobRows' = [j \in Jobs |-> IF j \in S THEN [jobRows[j] EXCEPT !.status = "cancelled", !.until = 0] ELSE jobRows[j]]
  /\ journals' = [j \in Jobs |-> IF j \in S
       THEN Append(journals[j], [kind |-> "cancelled", claim |-> jobRows[j].attempt, event |-> None]) ELSE journals[j]]

StoppableJobs == {j \in Jobs : jobRows[j].status \in {"pending"} \cup Active}

CancelAgentJob(j) ==
  /\ j \in StoppableJobs
  /\ Cancelled({j})
  /\ UNCHANGED <<time, codes, deviceRows, folders, agentCalls, answered, beats>>

\* revoke_agent_device_v2.
RevokeAgentDevice(d) ==
  /\ deviceRows[d] = "active"
  /\ deviceRows' = [deviceRows EXCEPT ![d] = "revoked"]
  /\ Cancelled({j \in StoppableJobs : jobRows[j].device = d})
  /\ UNCHANGED <<time, codes, folders, agentCalls, answered, beats>>

TablesTick ==
  /\ time < MaxTime
  /\ time' = time + 1
  /\ UNCHANGED <<codes, deviceRows, folders, jobRows, journals, agentCalls, answered, beats>>

-----------------------------------------------------------------------------

PairingsNext ==
  \/ \E k \in Codes : CreatePairing(k)
  \/ \E r \in Requests :
       \/ \E k \in Codes, d \in Devices : FindPairingByHash(r, k, d)
       \/ TakeCode(r) \/ LockTenant(r) \/ CountDevices(r) \/ CommitPairing(r)

HeartbeatNext ==
  \E r \in Requests :
    \/ \E d \in Devices, F \in SUBSET Folders : SendHeartbeat(r, d, F)
    \/ RecordHeartbeat(r) \/ ListFolders(r) \/ (\E f \in Folders : WriteFolder(r, f)) \/ DeleteStale(r)

JobNext ==
  \/ \E r \in Requests :
       \/ \E d \in Devices, j \in Jobs :
            \/ AuthenticateAgent(r, "claim", d, j, 0, None)
            \/ \E c \in 1 .. jobRows[j].attempt :
                 \/ AuthenticateAgent(r, "renew", d, j, c, None)
                 \/ \E e \in Reports : AuthenticateAgent(r, "progress", d, j, c, e)
                 \/ \E e \in Finals, outcome \in Outcomes : AuthenticateAgent(r, outcome, d, j, c, e)
       \/ ClaimJob(r) \/ RenewJob(r) \/ WriteProgress(r) \/ AnswerProgress(r)
       \/ FinishAgentJob(r)
  \/ \E j \in Jobs : CancelAgentJob(j) \/ \E d \in Devices : InsertJob(j, d)

TablesNext ==
  \/ PairingsNext \/ HeartbeatNext \/ JobNext \/ TablesTick
  \/ (\E r \in Requests : Drop(r)) \/ (\E d \in Devices : RevokeAgentDevice(d))

TablesSpec == TablesInit /\ [][TablesNext]_tablesVars

-----------------------------------------------------------------------------
(* Properties *)

TablesTypeOK ==
  /\ time \in 0 .. MaxTime
  /\ codes \in [Codes -> [status : {"none", "open", "consumed"}, until : 0 .. MaxTime + PairTTL]]
  /\ deviceRows \in [Devices -> {"none", "active", "revoked"}]
  /\ folders \in [Devices -> SUBSET Folders]
  /\ jobRows \in [Jobs -> JobRow]
  /\ journals \in [Jobs -> Seq(EventRow)]
  /\ agentCalls \in [Requests -> AgentCall \cup {None}]
  /\ answered \in [Jobs -> SUBSET EventRow]
  /\ beats \in [Devices -> {None} \cup SUBSET Folders]

\* However pairings overlap, the tenant has no more active devices than its plan allows, and
\* each code paired at most one.
WithinDeviceLimit ==
  /\ Cardinality({d \in Devices : deviceRows[d] = "active"}) <= DeviceLimit
  /\ Cardinality({d \in Devices : deviceRows[d] # "none"}) = Cardinality({k \in Codes : codes[k].status = "consumed"})

\* A revoked device has no job that it could still be given or work on.
RevokedHasNoJob ==
  \A j \in Jobs : jobRows[j].status \in {"pending"} \cup Active => deviceRows[jobRows[j].device] = "active"

\* A terminal report that was acknowledged stays the outcome of the job, and a progress report
\* that was acknowledged as new is in the journal, once, under the claim it was made with.
AcknowledgedIsKept ==
  \A j \in Jobs : \A a \in answered[j] :
    IF a.kind \in Outcomes THEN jobRows[j].status = a.kind
    ELSE Cardinality({i \in DOMAIN journals[j] : journals[j][i] = a}) = 1

\* After a heartbeat that met no other and was not cut short, the folders of a device are those
\* it reported.
FoldersFollow ==
  \A d \in Devices : beats[d] # None /\ Beating(d) = {} => folders[d] = beats[d]

\* The tables keep the promise of JobLease, as the store in memory does.
RowPhase(j) ==
  CASE Leased(j) -> "held"
    [] jobRows[j].status \in {"pending"} \cup Active /\ ~ Leased(j) -> "free"
    [] OTHER -> jobRows[j].status

TablesPromise == INSTANCE JobLease WITH
  phase <- [j \in Jobs |-> RowPhase(j)],
  epoch <- [j \in Jobs |-> jobRows[j].attempt],
  journal <- [j \in Jobs |-> [i \in DOMAIN journals[j] |-> <<journals[j][i].kind, journals[j][i].claim>>]]

TablesKeepPromise == TablesPromise!Spec

\* What holds of the tables at any instant, between the calls and the transactions.
TablesSafe ==
  /\ TablesTypeOK
  /\ WithinDeviceLimit
  /\ RevokedHasNoJob
  /\ AcknowledgedIsKept
  /\ FoldersFollow

=============================================================================
