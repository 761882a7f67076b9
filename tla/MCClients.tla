------------------------------ MODULE MCClients ------------------------------
(* Agents before the two stores of jobs, and the visitors and members of a site.  They  *)
(* keep no state in common: a behaviour is about one of them, chosen at the start, and  *)
(* the others stay in one initial state.                                                *)
EXTENDS AgentJobs, SupabaseAgents, SiteData, TLC

CONSTANT MakingKey  \* the key under which records are made

VARIABLE about

MCInit ==
  /\ about \in {"memory", "pairing", "folders", "reports", "site data", "site members"}
  /\ Init
  /\ TablesInit
  /\ SiteInit /\ (about \notin {"site data", "site members"} => fields = Absent)

-----------------------------------------------------------------------------
(* The tables: races of pairings, or what one device that was paired before does *)

Unpaired == \A d \in Devices : deviceRows[d] = "none"

FirstPairing ==
  \E k \in Codes, r \in Requests, d \in Devices :
    /\ \A l \in Codes \ {k} : codes[l].status = "none"
    /\ \A q \in Requests \ {r} : agentCalls[q] = None
    /\ \/ CreatePairing(k) \/ FindPairingByHash(r, k, d) \/ TakeCode(r)
       \/ LockTenant(r) \/ CountDevices(r) \/ CommitPairing(r)

AnyTime == TablesTick \/ (\E r \in Requests : Drop(r)) \/ (\E d \in Devices : RevokeAgentDevice(d))

TablesStep ==
  \/ about = "pairing" /\ (PairingsNext \/ AnyTime)
  \/ about \in {"folders", "reports"} /\ Unpaired /\ FirstPairing
  \/ about = "folders" /\ ~ Unpaired /\ (HeartbeatNext \/ AnyTime)
  \/ about = "reports" /\ ~ Unpaired /\ (JobNext \/ AnyTime)

-----------------------------------------------------------------------------

CallsOf(kinds) == \A c \in Calls : calls'[c] # Absent => calls'[c].kind \in kinds

MadeUnderOneKey ==
  \A c \in Calls : calls'[c] # Absent /\ calls'[c].kind \in Creating => calls'[c].key = MakingKey

SiteStep ==
  /\ SiteNext
  /\ MadeUnderOneKey
  /\ \/ about = "site data" /\ CallsOf({"create", "update", "delete", "collection"}) /\ UNCHANGED <<members, registration>>
     \/ about = "site members" /\ CallsOf({"submit", "login", "form"})

MCNext ==
  \/ about = "memory" /\ Next /\ UNCHANGED <<tablesVars, siteVars, about>>
  \/ TablesStep /\ UNCHANGED <<vars, siteVars, about>>
  \/ SiteStep /\ UNCHANGED <<vars, tablesVars, about>>

MCSpec == MCInit /\ [][MCNext]_<<vars, tablesVars, siteVars, about>>

\* Things of several parts have the same names, so that few permutations permute them all.
Symmetry ==
  Permutations(Requests) \cup Permutations(Events) \cup Permutations(PairCalls)
  \cup Permutations(Codes) \cup Permutations(Devices) \cup Permutations(Tenants)

=============================================================================
