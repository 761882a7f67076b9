---------------------------- MODULE ClientsProofs -----------------------------
(***************************************************************************)
(* Theorems about two components of MCClients: SupabaseAgents, for all     *)
(* devices, jobs, codes, requests and bounds, and SiteData, for all        *)
(* requests, keys, users, fields, roles and bounds.                        *)
(***************************************************************************)
EXTENDS SupabaseAgents, SiteData, FiniteSetTheorems, TLAPS

-----------------------------------------------------------------------------
(* SupabaseAgents: the inductive invariant *)

\* A request carries what its kind is about.
Bears(q) ==
  /\ q \in AgentCall
  /\ q.kind = "pair" => q.about \in Codes
  /\ q.kind = "heartbeat" => q.about \in SUBSET Folders
  /\ q.kind \notin {"pair", "heartbeat"} => q.about \in Jobs
  /\ q.kind = "progress" => q.event \in Reports
  /\ q.kind \in Outcomes => q.event \in Finals

RequestsFit == \A r \in Requests : agentCalls[r] # None => Bears(agentCalls[r])

(* Pairing *)

Pairing(r) == agentCalls[r] # None /\ agentCalls[r].kind = "pair"

\* The row of the code is locked, and then the tenant's.
CodeTaken(r) == Pairing(r) /\ agentCalls[r].at \in {"taken", "locked", "counted"}
TenantTaken(r) == Pairing(r) /\ agentCalls[r].at \in {"locked", "counted"}

DevicesThat(statuses) == {d \in Devices : deviceRows[d] \in statuses}
Consumed == {k \in Codes : codes[k].status = "consumed"}

\* Locks exclude each other, a device is paired by one request, and the request that counted
\* the devices still finds room for one more.
PairingsFit ==
  /\ \A r \in Requests :
       /\ Pairing(r) => deviceRows[agentCalls[r].device] = "none"
       /\ CodeTaken(r) => codes[agentCalls[r].about].status = "open"
       /\ Pairing(r) /\ agentCalls[r].at = "counted" =>
            Cardinality(DevicesThat({"active"})) < DeviceLimit
  /\ \A r, q \in Requests :
       /\ Pairing(r) /\ agentCalls[q] # None /\ r # q => agentCalls[r].device # agentCalls[q].device
       /\ CodeTaken(r) /\ CodeTaken(q) /\ agentCalls[r].about = agentCalls[q].about => r = q
       /\ TenantTaken(r) /\ TenantTaken(q) => r = q
  /\ IsFiniteSet(DevicesThat({"active", "revoked"})) /\ IsFiniteSet(Consumed)
  /\ Cardinality(DevicesThat({"active"})) <= DeviceLimit
  /\ Cardinality(DevicesThat({"active", "revoked"})) = Cardinality(Consumed)

(* Heartbeats *)

\* The only heartbeat of a device on its way to the folders it reported: what was there and
\* is not stale, with what is still to be written, is what it reported.
OnItsWay(d, q) ==
  /\ agentCalls[q].at \in {"begin", "sent"} => agentCalls[q].about = beats[d]
  /\ agentCalls[q].at \notin {"begin", "sent"} =>
       /\ (folders[d] \ agentCalls[q].stale) \cup agentCalls[q].about = beats[d]
       /\ agentCalls[q].stale \cap beats[d] = {}

HeartbeatsFit ==
  \A d \in Devices :
    beats[d] # None =>
      /\ \A p, q \in Beating(d) : p = q
      /\ \A q \in Beating(d) : OnItsWay(d, q)
      /\ Beating(d) = {} => folders[d] = beats[d]

(* Jobs *)

\* A job that can still be given or worked on belongs to an active device.
JobsOwned ==
  \A j \in Jobs :
    jobRows[j].status \in {"pending"} \cup Active =>
      jobRows[j].device \in Devices /\ deviceRows[jobRows[j].device] = "active"

InLog(j, entry) == \E i \in DOMAIN journals[j] : journals[j][i] = entry

\* A progress event enters the journal once, a terminal one only with an outcome, and what was
\* acknowledged, or is about to be, is there.
JournalFits(j) ==
  /\ \A i, k \in DOMAIN journals[j] :
       journals[j][i].kind = "progress" /\ journals[j][k].kind = "progress" /\ journals[j][i].event = journals[j][k].event
         => i = k
  /\ \A i \in DOMAIN journals[j] : journals[j][i].event \in Finals => jobRows[j].status \in Outcomes
  /\ \A a \in answered[j] :
       IF a.kind \in Outcomes THEN jobRows[j].status = a.kind
       ELSE a.kind = "progress" /\ InLog(j, a)

JournalsFit ==
  /\ \A j \in Jobs : JournalFits(j)
  /\ \A r \in Requests :
       agentCalls[r] # None /\ agentCalls[r].kind = "progress" /\ agentCalls[r].found =>
         InLog(agentCalls[r].about,
               [kind |-> "progress", claim |-> agentCalls[r].claim, event |-> agentCalls[r].event])

TablesInv ==
  /\ TablesTypeOK
  /\ RequestsFit
  /\ PairingsFit
  /\ HeartbeatsFit
  /\ JobsOwned
  /\ JournalsFit


LEMMA TablesInitInv ==
  ASSUME SupabaseConstants, TablesInit
  PROVE  TablesInv
<1>1. TablesTypeOK
  <2>1. [status |-> "none", device |-> None, attempt |-> 0, until |-> 0] \in JobRow
    BY DEF JobRow, SupabaseConstants
  <2>2. [status |-> "none", until |-> 0] \in [status : {"none", "open", "consumed"}, until : 0 .. MaxTime + PairTTL]
    BY DEF SupabaseConstants
  <2>3. time \in 0 .. MaxTime /\ journals \in [Jobs -> Seq(EventRow)]
    BY DEF TablesInit, SupabaseConstants
  <2>4. /\ codes \in [Codes -> [status : {"none", "open", "consumed"}, until : 0 .. MaxTime + PairTTL]]
        /\ jobRows \in [Jobs -> JobRow]
    BY <2>1, <2>2 DEF TablesInit
  <2> QED
    BY <2>3, <2>4 DEF TablesInit, TablesTypeOK
<1>2. RequestsFit
  BY DEF TablesInit, RequestsFit
<1>3. PairingsFit
  <2>1. DevicesThat({"active"}) = {} /\ DevicesThat({"active", "revoked"}) = {} /\ Consumed = {}
    BY DEF TablesInit, DevicesThat, Consumed
  <2>2. /\ \A r \in Requests : ~ Pairing(r) /\ ~ CodeTaken(r) /\ ~ TenantTaken(r)
        /\ IsFiniteSet({}) /\ Cardinality({}) = 0 /\ 0 <= DeviceLimit
    BY FS_EmptySet DEF TablesInit, Pairing, CodeTaken, TenantTaken, SupabaseConstants
  <2> QED
    BY <2>1, <2>2 DEF PairingsFit
<1>4. HeartbeatsFit
  BY DEF TablesInit, HeartbeatsFit, Beating
<1>5. JobsOwned /\ JournalsFit
  BY DEF TablesInit, JobsOwned, JournalsFit, JournalFits, Active
<1> QED
  BY <1>1, <1>2, <1>3, <1>4, <1>5 DEF TablesInv

-----------------------------------------------------------------------------
(* A request is served *)

Moves(r, x) == agentCalls' = [agentCalls EXCEPT ![r] = x] /\ (x # None => Bears(x))

LEMMA Moved ==
  ASSUME TablesInv, NEW r \in Requests, NEW x, Moves(r, x)
  PROVE  /\ agentCalls' \in [Requests -> AgentCall \cup {None}]
         /\ RequestsFit'
         /\ agentCalls'[r] = x
         /\ \A q \in Requests \ {r} : agentCalls'[q] = agentCalls[q]
<1>1. agentCalls \in [Requests -> AgentCall \cup {None}] /\ x \in AgentCall \cup {None}
  BY DEF TablesInv, TablesTypeOK, Moves, Bears
<1>2. agentCalls'[r] = x /\ \A q \in Requests \ {r} : agentCalls'[q] = agentCalls[q]
  BY <1>1 DEF Moves
<1>3. agentCalls' \in [Requests -> AgentCall \cup {None}]
  BY <1>1 DEF Moves
<1>4. RequestsFit'
  BY <1>2 DEF TablesInv, RequestsFit, Moves, Bears
<1> QED
  BY <1>2, <1>3, <1>4

\* The next step of a request.
Advanced(q, step, x) ==
  /\ x = [q EXCEPT !.at = step]
  /\ Bears(x)
  /\ x.at = step
  /\ x.kind = q.kind
  /\ x.device = q.device
  /\ x.about = q.about
  /\ x.claim = q.claim
  /\ x.event = q.event
  /\ x.found = q.found
  /\ x.stale = q.stale

LEMMA Stepped ==
  ASSUME NEW q, Bears(q),
         NEW step \in {"begin", "taken", "locked", "counted", "sent", "listed", "written"}
  PROVE  \E x : Advanced(q, step, x)
<1>1. PICK x : x = [q EXCEPT !.at = step]
  OBVIOUS
<1>2. /\ x \in AgentCall
      /\ x.at = step
      /\ x.kind = q.kind
      /\ x.device = q.device
      /\ x.about = q.about
      /\ x.claim = q.claim
      /\ x.event = q.event
      /\ x.found = q.found
      /\ x.stale = q.stale
  BY <1>1 DEF Bears, AgentCall
<1>3. Bears(x)
  BY <1>2 DEF Bears
<1> QED
  BY <1>1, <1>2, <1>3 DEF Advanced

\* A request that begins, with what its kind is about.
Begins(r, kind, d, about, c, e) ==
  /\ Begin(r, kind, d, about, c, e)
  /\ kind \in Kinds /\ d \in Devices /\ c \in {0} \cup Claims /\ e \in Reports \cup Finals \cup {None}
  /\ kind = "pair" => about \in Codes
  /\ kind = "heartbeat" => about \in SUBSET Folders
  /\ kind \notin {"pair", "heartbeat"} => about \in Jobs
  /\ kind = "progress" => e \in Reports
  /\ kind \in Outcomes => e \in Finals

LEMMA Begun ==
  ASSUME TablesInv, SupabaseConstants, NEW r, NEW kind, NEW d, NEW about, NEW c, NEW e,
         Begins(r, kind, d, about, c, e)
  PROVE  /\ agentCalls[r] = None
         /\ \E x : /\ Moves(r, x)
                   /\ x.at = "begin"
                   /\ x.kind = kind
                   /\ x.device = d
                   /\ x.about = about
                   /\ ~ x.found
<1>1. PICK x : x = [kind |-> kind, at |-> "begin", device |-> d, about |-> about,
                    claim |-> c, event |-> e, found |-> FALSE, stale |-> {}]
  OBVIOUS
<1>2. /\ x \in AgentCall
      /\ x.at = "begin"
      /\ x.kind = kind
      /\ x.device = d
      /\ x.about = about
      /\ x.event = e
      /\ ~ x.found
  BY <1>1 DEF Begins, AgentCall, Kinds
<1>3. Bears(x)
  BY <1>2 DEF Begins, Bears
<1>4. agentCalls[r] = None /\ agentCalls' = [agentCalls EXCEPT ![r] = x]
  BY <1>1 DEF Begins, Begin
<1> QED
  BY <1>2, <1>3, <1>4 DEF Moves

\* Pairings do not mind the requests of devices that are paired.
LEMMA PairingsKept ==
  ASSUME TablesInv, NEW r \in Requests, NEW x, Moves(r, x), codes' = codes, deviceRows' = deviceRows,
         x # None =>
           /\ x.kind # "pair"
           /\ \/ deviceRows[x.device] # "none"
              \/ /\ agentCalls[r] # None
                 /\ agentCalls[r].kind # "pair"
                 /\ agentCalls[r].device = x.device
  PROVE  PairingsFit'
<1>1. agentCalls'[r] = x /\ \A q \in Requests \ {r} : agentCalls'[q] = agentCalls[q]
  BY Moved
<1>2. \A q \in Requests : Pairing(q)' => q # r /\ Pairing(q) /\ agentCalls'[q] = agentCalls[q]
  BY <1>1 DEF Pairing
<1>3. DevicesThat({"active"})' = DevicesThat({"active"})
      /\ DevicesThat({"active", "revoked"})' = DevicesThat({"active", "revoked"})
      /\ Consumed' = Consumed
  BY DEF DevicesThat, Consumed
<1>4. PairingsFit
  BY DEF TablesInv
<1>5. \A p, q \in Requests :
        Pairing(p)' /\ agentCalls'[q] # None /\ p # q => agentCalls'[p].device # agentCalls'[q].device
  BY <1>1, <1>2, <1>4 DEF PairingsFit, Pairing
<1> QED
  BY <1>2, <1>3, <1>4, <1>5 DEF PairingsFit, CodeTaken, TenantTaken

\* Heartbeats do not mind other requests.
LEMMA HeartbeatsKept ==
  ASSUME TablesInv, NEW r \in Requests, NEW x, Moves(r, x), folders' = folders, beats' = beats,
         agentCalls[r] # None => agentCalls[r].kind # "heartbeat",
         x # None => x.kind # "heartbeat"
  PROVE  HeartbeatsFit'
<1>1. agentCalls'[r] = x /\ \A q \in Requests \ {r} : agentCalls'[q] = agentCalls[q]
  BY Moved
<1>2. \A d \in Devices : Beating(d)' = Beating(d) /\ r \notin Beating(d)
  BY <1>1 DEF Beating
<1>3. \A d \in Devices : \A q \in Beating(d) : agentCalls'[q] = agentCalls[q]
  BY <1>1, <1>2 DEF Beating
<1> QED
  BY <1>2, <1>3 DEF TablesInv, HeartbeatsFit, OnItsWay

\* Journals do not mind requests that insert nothing.
LEMMA JournalsKept ==
  ASSUME TablesInv, NEW r \in Requests, NEW x, Moves(r, x), UNCHANGED <<jobRows, journals, answered>>,
         x # None /\ x.kind = "progress" => ~ x.found
  PROVE  JournalsFit'
<1>1. agentCalls'[r] = x /\ \A q \in Requests \ {r} : agentCalls'[q] = agentCalls[q]
  BY Moved
<1>2. \A j \in Jobs : JournalFits(j)'
  BY DEF TablesInv, JournalsFit, JournalFits, InLog
<1>3. \A q \in Requests :
        agentCalls'[q] # None /\ agentCalls'[q].kind = "progress" /\ agentCalls'[q].found =>
          InLog(agentCalls'[q].about,
                [kind |-> "progress", claim |-> agentCalls'[q].claim, event |-> agentCalls'[q].event])
  BY <1>1 DEF TablesInv, JournalsFit
<1>4. \A j, entry : InLog(j, entry)' <=> InLog(j, entry)
  BY DEF InLog
<1> QED
  BY <1>2, <1>3, <1>4 DEF JournalsFit, InLog

\* What a request that is served for jobs, or ends, leaves of the other tables.
LEMMA OthersKept ==
  ASSUME TablesInv, NEW r \in Requests, NEW x, Moves(r, x),
         UNCHANGED <<time, codes, deviceRows, folders, beats>>,
         jobRows' = jobRows, journals' = journals, answered' = answered,
         agentCalls[r] # None => agentCalls[r].kind # "heartbeat",
         x # None =>
           /\ x.kind \notin {"pair", "heartbeat"}
           /\ x.kind = "progress" => ~ x.found
           /\ \/ deviceRows[x.device] # "none"
              \/ /\ agentCalls[r] # None
                 /\ agentCalls[r].kind # "pair"
                 /\ agentCalls[r].device = x.device
  PROVE  TablesInv'
<1>1. TablesTypeOK' /\ RequestsFit'
  BY Moved DEF TablesInv, TablesTypeOK
<1>2. PairingsFit'
  BY PairingsKept
<1>3. HeartbeatsFit'
  BY HeartbeatsKept
<1>4. JournalsFit'
  BY JournalsKept
<1>5. JobsOwned'
  BY DEF TablesInv, JobsOwned
<1> QED
  BY <1>1, <1>2, <1>3, <1>4, <1>5 DEF TablesInv

-----------------------------------------------------------------------------
(* Pairings are served *)

LEMMA StartPairingInv ==
  ASSUME TablesInv, SupabaseConstants, NEW k \in Codes, CreatePairing(k)
  PROVE  TablesInv'
<1>0. PICK row : row = [status |-> "open", until |-> time + PairTTL]
  OBVIOUS
<1>1. /\ row \in [status : {"none", "open", "consumed"}, until : 0 .. MaxTime + PairTTL]
      /\ row.status = "open"
  BY <1>0 DEF TablesInv, TablesTypeOK, SupabaseConstants
<1>2. codes' = [codes EXCEPT ![k] = row] /\ codes[k].status = "none"
  BY <1>0 DEF CreatePairing
<1>3. /\ codes' \in [Codes -> [status : {"none", "open", "consumed"}, until : 0 .. MaxTime + PairTTL]]
      /\ codes'[k] = row /\ \A q \in Codes \ {k} : codes'[q] = codes[q]
  BY <1>1, <1>2 DEF TablesInv, TablesTypeOK
<1>4. UNCHANGED <<time, deviceRows, folders, jobRows, journals, agentCalls, answered, beats>>
  BY DEF CreatePairing
<1>5. TablesTypeOK'
  BY <1>3, <1>4 DEF TablesInv, TablesTypeOK
<1>6. Consumed' = Consumed
  BY <1>1, <1>2, <1>3 DEF Consumed
<1>7. PairingsFit'
  <2>1. /\ \A r \in Requests : Pairing(r)' = Pairing(r) /\ CodeTaken(r)' = CodeTaken(r) /\ TenantTaken(r)' = TenantTaken(r)
        /\ \A statuses : DevicesThat(statuses)' = DevicesThat(statuses)
    BY <1>4 DEF Pairing, CodeTaken, TenantTaken, DevicesThat
  <2>2. \A r \in Requests : CodeTaken(r) => agentCalls[r].about \in Codes /\ codes'[agentCalls[r].about].status = "open"
    <3>1. \A r \in Requests : CodeTaken(r) => agentCalls[r].about \in Codes /\ codes[agentCalls[r].about].status = "open"
      BY DEF TablesInv, PairingsFit, RequestsFit, CodeTaken, Pairing, Bears
    <3> QED
      BY <3>1, <1>2, <1>3
  <2>3. PairingsFit
    BY DEF TablesInv
  <2> QED
    BY <1>4, <1>6, <2>1, <2>2, <2>3 DEF PairingsFit
<1>8. /\ RequestsFit' /\ HeartbeatsFit' /\ JobsOwned' /\ JournalsFit'
  BY <1>4 DEF TablesInv, RequestsFit, HeartbeatsFit, OnItsWay, Beating, JobsOwned, JournalsFit, JournalFits, InLog
<1> QED
  BY <1>5, <1>7, <1>8 DEF TablesInv

\* A request of a pairing takes a step: it may lock the row of the code, and that of the tenant,
\* when no other has, and may have counted the devices.
LEMMA PairingMoves ==
  ASSUME TablesInv, NEW r \in Requests, NEW x, Moves(r, x), x # None, x.kind = "pair",
         UNCHANGED <<time, codes, deviceRows, folders, jobRows, journals, answered, beats>>,
         agentCalls[r] # None => agentCalls[r].kind = "pair",
         deviceRows[x.device] = "none",
         \A q \in Requests : q # r /\ agentCalls[q] # None => agentCalls[q].device # x.device,
         x.at \in {"taken", "locked", "counted"} =>
           /\ codes[x.about].status = "open"
           /\ \A q \in Requests : q # r /\ CodeTaken(q) => agentCalls[q].about # x.about,
         x.at \in {"locked", "counted"} => \A q \in Requests : q # r => ~ TenantTaken(q),
         x.at = "counted" => Cardinality(DevicesThat({"active"})) < DeviceLimit
  PROVE  TablesInv'
<1>1. /\ TablesTypeOK' /\ RequestsFit'
      /\ agentCalls'[r] = x /\ \A q \in Requests \ {r} : agentCalls'[q] = agentCalls[q]
  BY Moved DEF TablesInv, TablesTypeOK
<1>2. HeartbeatsFit'
  BY HeartbeatsKept
<1>3. JournalsFit'
  BY JournalsKept
<1>4. JobsOwned'
  BY DEF TablesInv, JobsOwned
<1>5. PairingsFit'
  <2>1. PairingsFit
    BY DEF TablesInv
  <2>2. DevicesThat({"active"})' = DevicesThat({"active"})
        /\ DevicesThat({"active", "revoked"})' = DevicesThat({"active", "revoked"})
        /\ Consumed' = Consumed
    BY DEF DevicesThat, Consumed
  <2>3. \A q \in Requests \ {r} : /\ Pairing(q)' = Pairing(q)
                                  /\ CodeTaken(q)' = CodeTaken(q)
                                  /\ TenantTaken(q)' = TenantTaken(q)
    BY <1>1 DEF Pairing, CodeTaken, TenantTaken
  <2>4. \A q \in Requests :
          /\ Pairing(q)' => deviceRows'[agentCalls'[q].device] = "none"
          /\ CodeTaken(q)' => codes'[agentCalls'[q].about].status = "open"
          /\ Pairing(q)' /\ agentCalls'[q].at = "counted" => Cardinality(DevicesThat({"active"})') < DeviceLimit
    <3>1. ASSUME NEW q \in Requests, q # r
          PROVE  /\ Pairing(q)' => deviceRows'[agentCalls'[q].device] = "none"
                 /\ CodeTaken(q)' => codes'[agentCalls'[q].about].status = "open"
                 /\ Pairing(q)' /\ agentCalls'[q].at = "counted" => Cardinality(DevicesThat({"active"})') < DeviceLimit
      BY <1>1, <2>1, <2>2, <2>3, <3>1 DEF PairingsFit
    <3>2. /\ Pairing(r)' => deviceRows'[agentCalls'[r].device] = "none"
          /\ CodeTaken(r)' => codes'[agentCalls'[r].about].status = "open"
          /\ Pairing(r)' /\ agentCalls'[r].at = "counted" => Cardinality(DevicesThat({"active"})') < DeviceLimit
      BY <1>1, <2>2 DEF CodeTaken, Pairing
    <3> QED
      BY <3>1, <3>2
  <2>5. \A p, q \in Requests :
          Pairing(p)' /\ agentCalls'[q] # None /\ p # q => agentCalls'[p].device # agentCalls'[q].device
    <3>1. ASSUME NEW p \in Requests, NEW q \in Requests, Pairing(p)', agentCalls'[q] # None, p # q
          PROVE  agentCalls'[p].device # agentCalls'[q].device
      <4>1. CASE p = r
        BY <1>1, <3>1, <4>1
      <4>2. CASE q = r
        BY <1>1, <2>3, <3>1, <4>2 DEF Pairing
      <4>3. CASE p # r /\ q # r
        BY <1>1, <2>1, <2>3, <3>1, <4>3 DEF PairingsFit
      <4> QED
        BY <4>1, <4>2, <4>3
    <3> QED
      BY <3>1
  <2>6. \A p, q \in Requests : CodeTaken(p)' /\ CodeTaken(q)' /\ agentCalls'[p].about = agentCalls'[q].about => p = q
    <3>1. CodeTaken(r)' => \A q \in Requests : q # r /\ CodeTaken(q) => agentCalls[q].about # agentCalls'[r].about
      BY <1>1 DEF CodeTaken
    <3> QED
      BY <1>1, <2>1, <2>3, <3>1 DEF PairingsFit
  <2>7. \A p, q \in Requests : TenantTaken(p)' /\ TenantTaken(q)' => p = q
    <3>1. TenantTaken(r)' => \A q \in Requests : q # r => ~ TenantTaken(q)
      BY <1>1 DEF TenantTaken
    <3> QED
      BY <2>1, <2>3, <3>1 DEF PairingsFit
  <2> QED
    BY <2>1, <2>2, <2>4, <2>5, <2>6, <2>7 DEF PairingsFit
<1> QED
  BY <1>1, <1>2, <1>3, <1>4, <1>5 DEF TablesInv

LEMMA FindPairingInv ==
  ASSUME TablesInv, SupabaseConstants, NEW r \in Requests, NEW k \in Codes, NEW d \in Devices, FindPairingByHash(r, k, d)
  PROVE  TablesInv'
<1>1. Begin(r, "pair", d, k, 0, None)
  BY DEF FindPairingByHash
<1>2. /\ agentCalls[r] = None
      /\ \E x : Moves(r, x) /\ x.at = "begin" /\ x.kind = "pair" /\ x.device = d
  <2>1. Begins(r, "pair", d, k, 0, None)
    BY <1>1 DEF Begins, Kinds, Outcomes
  <2> QED
    BY ONLY <2>1, TablesInv, SupabaseConstants, Begun
<1>3. PICK x : Moves(r, x) /\ x.at = "begin" /\ x.kind = "pair" /\ x.device = d
  BY <1>2
<1>4. UNCHANGED <<time, codes, deviceRows, folders, jobRows, journals, answered, beats>>
  BY DEF FindPairingByHash
<1>5. CASE x = None
  BY <1>2, <1>3, <1>4, <1>5, OthersKept
<1>6. CASE x # None
  <2>1. deviceRows[d] = "none" /\ \A q \in Requests : agentCalls[q] # None => agentCalls[q].device # d
    BY DEF FindPairingByHash
  <2> QED
    BY <1>2, <1>3, <1>4, <1>6, <2>1, PairingMoves
<1> QED
  BY <1>5, <1>6

\* What holds of a pairing, wherever it is.
LEMMA PairingHolds ==
  ASSUME TablesInv, NEW r \in Requests, Pairing(r)
  PROVE  /\ Bears(agentCalls[r]) /\ agentCalls[r].about \in Codes /\ agentCalls[r].device \in Devices
         /\ deviceRows[agentCalls[r].device] = "none"
         /\ \A q \in Requests : q # r /\ agentCalls[q] # None => agentCalls[q].device # agentCalls[r].device
         /\ CodeTaken(r) =>
              /\ codes[agentCalls[r].about].status = "open"
              /\ \A q \in Requests : q # r /\ CodeTaken(q) => agentCalls[q].about # agentCalls[r].about
         /\ TenantTaken(r) => \A q \in Requests : q # r => ~ TenantTaken(q)
<1>1. Bears(agentCalls[r]) /\ agentCalls[r].about \in Codes /\ agentCalls[r].device \in Devices
  BY DEF TablesInv, RequestsFit, Pairing, Bears, AgentCall
<1>2. PairingsFit
  BY DEF TablesInv
<1> QED
  BY <1>1, <1>2 DEF PairingsFit

\* The next step of a pairing.
LEMMA PairingSteps ==
  ASSUME TablesInv, NEW r \in Requests, Pairing(r), NEW step \in {"taken", "locked", "counted"}, Step(r, step),
         UNCHANGED <<time, codes, deviceRows, folders, jobRows, journals, answered, beats>>,
         CodeTaken(r) \/ (/\ codes[agentCalls[r].about].status = "open"
                          /\ \A q \in Requests : q # r /\ CodeTaken(q) => agentCalls[q].about # agentCalls[r].about),
         step \in {"locked", "counted"} => TenantTaken(r) \/ \A q \in Requests : q # r => ~ TenantTaken(q),
         step = "counted" => Cardinality(DevicesThat({"active"})) < DeviceLimit
  PROVE  TablesInv'
<1>0. PICK w : w = agentCalls[r]
  OBVIOUS
<1>1. Bears(w) /\ step \in {"begin", "taken", "locked", "counted", "sent", "listed", "written"}
  BY <1>0, PairingHolds
<1>2. PICK x : Advanced(w, step, x)
  BY <1>1, Stepped
<1>3. x.kind = "pair"
  BY <1>0, <1>2 DEF Pairing, Advanced
<1>4. Moves(r, x)
  <2>1. agentCalls' = [agentCalls EXCEPT ![r].at = step]
    BY DEF Step
  <2>2. agentCalls' = [agentCalls EXCEPT ![r] = x]
    BY <1>0, <1>2, <2>1, Zenon DEF Advanced
  <2> QED
    BY <1>2, <2>2 DEF Moves, Advanced
<1>5. CASE x # None
  <2>1. agentCalls[r] # None /\ agentCalls[r].kind = "pair"
    BY DEF Pairing
  <2>2. /\ deviceRows[x.device] = "none"
        /\ \A q \in Requests : q # r /\ agentCalls[q] # None => agentCalls[q].device # x.device
        /\ codes[x.about].status = "open"
        /\ \A q \in Requests : q # r /\ CodeTaken(q) => agentCalls[q].about # x.about
    <3>1. x.device = agentCalls[r].device /\ x.about = agentCalls[r].about
      BY <1>0, <1>2 DEF Advanced
    <3>2. codes[agentCalls[r].about].status = "open"
          /\ \A q \in Requests : q # r /\ CodeTaken(q) => agentCalls[q].about # agentCalls[r].about
      BY PairingHolds
    <3> QED
      BY <3>1, <3>2, PairingHolds
  <2>3. x.at \in {"locked", "counted"} => \A q \in Requests : q # r => ~ TenantTaken(q)
    BY <1>0, <1>2, PairingHolds DEF Advanced
  <2>4. x.at = "counted" => Cardinality(DevicesThat({"active"})) < DeviceLimit
    BY <1>2 DEF Advanced
  <2> QED
    BY <1>3, <1>4, <1>5, <2>1, <2>2, <2>3, <2>4, PairingMoves
<1>6. CASE x = None
  <2>1. agentCalls[r] # None /\ agentCalls[r].kind # "heartbeat"
    BY DEF Pairing
  <2> QED
    BY <1>4, <1>6, <2>1, OthersKept
<1> QED
  BY <1>5, <1>6

LEMMA TakeCodeInv ==
  ASSUME TablesInv, NEW r \in Requests, TakeCode(r)
  PROVE  TablesInv'
<1>1. Pairing(r) /\ Step(r, "taken")
  BY DEF TakeCode, At, Pairing
<1>2. codes[agentCalls[r].about].status = "open"
  BY DEF TakeCode, Usable
<1>3. \A q \in Requests : q # r /\ CodeTaken(q) => agentCalls[q].about # agentCalls[r].about
  BY DEF TakeCode, At, CodeTaken, Pairing
<1> QED
  BY <1>1, <1>2, <1>3, PairingSteps DEF TakeCode

LEMMA LockTenantInv ==
  ASSUME TablesInv, NEW r \in Requests, LockTenant(r)
  PROVE  TablesInv'
<1>1. Pairing(r) /\ CodeTaken(r) /\ Step(r, "locked")
  BY DEF LockTenant, At, Pairing, CodeTaken
<1>2. \A q \in Requests : q # r => ~ TenantTaken(q)
  BY DEF LockTenant, TenantFree, At, TenantTaken, Pairing
<1> QED
  BY <1>1, <1>2, PairingSteps DEF LockTenant

LEMMA CountDevicesInv ==
  ASSUME TablesInv, NEW r \in Requests, CountDevices(r)
  PROVE  TablesInv'
<1>1. Pairing(r) /\ CodeTaken(r) /\ TenantTaken(r) /\ Step(r, "counted")
  BY DEF CountDevices, At, Pairing, CodeTaken, TenantTaken
<1>2. Cardinality(DevicesThat({"active"})) < DeviceLimit
  <2>1. DevicesThat({"active"}) = {d \in Devices : deviceRows[d] = "active"}
    BY DEF DevicesThat
  <2> QED
    BY <2>1 DEF CountDevices
<1> QED
  BY <1>1, <1>2, PairingSteps DEF CountDevices

LEMMA CommitPairingInv ==
  ASSUME TablesInv, SupabaseConstants, NEW r \in Requests, CommitPairing(r)
  PROVE  TablesInv'
<1>0. Pairing(r) /\ CodeTaken(r) /\ TenantTaken(r) /\ agentCalls[r].at = "counted"
  BY DEF CommitPairing, At, Pairing, CodeTaken, TenantTaken
<1>1. PICK k, d : k = agentCalls[r].about /\ d = agentCalls[r].device
  OBVIOUS
<1>2. /\ k \in Codes /\ d \in Devices /\ deviceRows[d] = "none" /\ codes[k].status = "open"
      /\ \A q \in Requests : q # r /\ agentCalls[q] # None => agentCalls[q].device # d
      /\ \A q \in Requests : q # r /\ CodeTaken(q) => agentCalls[q].about # k
      /\ \A q \in Requests : q # r => ~ TenantTaken(q)
  BY <1>0, <1>1, PairingHolds
<1>3. PairingsFit
  BY DEF TablesInv
<1>4. Moves(r, None)
  BY DEF CommitPairing, End, Moves
<1>5. /\ RequestsFit' /\ agentCalls' \in [Requests -> AgentCall \cup {None}]
      /\ agentCalls'[r] = None /\ \A q \in Requests \ {r} : agentCalls'[q] = agentCalls[q]
  BY <1>4, Moved
<1>6. /\ codes' = [codes EXCEPT ![k].status = "consumed"]
      /\ deviceRows' = [deviceRows EXCEPT ![d] = "active"]
      /\ UNCHANGED <<time, folders, jobRows, journals, answered, beats>>
  BY <1>1 DEF CommitPairing
<1>7. /\ codes' \in [Codes -> [status : {"none", "open", "consumed"}, until : 0 .. MaxTime + PairTTL]]
      /\ codes'[k].status = "consumed" /\ \A q \in Codes \ {k} : codes'[q] = codes[q]
  BY <1>2, <1>6 DEF TablesInv, TablesTypeOK
<1>8. /\ deviceRows' \in [Devices -> {"none", "active", "revoked"}]
      /\ deviceRows'[d] = "active" /\ \A e \in Devices \ {d} : deviceRows'[e] = deviceRows[e]
  BY <1>2, <1>6 DEF TablesInv, TablesTypeOK
<1>9. TablesTypeOK'
  BY <1>5, <1>6, <1>7, <1>8 DEF TablesInv, TablesTypeOK
<1>10. HeartbeatsFit' /\ JournalsFit'
  BY <1>0, <1>4, <1>6, HeartbeatsKept, JournalsKept DEF Pairing
<1>11. JobsOwned'
  BY <1>6, <1>8 DEF TablesInv, JobsOwned
<1>12. PairingsFit'
  <2>1. \A q \in Requests : Pairing(q)' => q # r /\ Pairing(q) /\ agentCalls'[q] = agentCalls[q]
    BY <1>5 DEF Pairing
  <2>2. \A q \in Requests :
          /\ Pairing(q)' => deviceRows'[agentCalls'[q].device] = "none"
          /\ CodeTaken(q)' => codes'[agentCalls'[q].about].status = "open"
          /\ ~ TenantTaken(q)'
    <3>1. \A q \in Requests : CodeTaken(q)' => q # r /\ CodeTaken(q) /\ agentCalls'[q] = agentCalls[q]
      BY <2>1 DEF CodeTaken
    <3>2. \A q \in Requests : TenantTaken(q)' => q # r /\ TenantTaken(q)
      BY <2>1 DEF TenantTaken
    <3>3. \A q \in Requests : Pairing(q) => agentCalls[q].device \in Devices /\ agentCalls[q].about \in Codes
      BY PairingHolds
    <3>4. \A q \in Requests : CodeTaken(q) => Pairing(q)
      BY DEF CodeTaken
    <3>5. \A q \in Requests : Pairing(q)' => deviceRows'[agentCalls'[q].device] = "none"
      BY <1>2, <1>3, <1>8, <2>1, <3>3 DEF PairingsFit, Pairing
    <3>6. \A q \in Requests : CodeTaken(q)' => codes'[agentCalls'[q].about].status = "open"
      BY <1>2, <1>3, <1>7, <3>1, <3>3, <3>4 DEF PairingsFit
    <3> QED
      BY <1>2, <3>2, <3>5, <3>6
  <2>3. \A p, q \in Requests :
          Pairing(p)' /\ agentCalls'[q] # None /\ p # q => agentCalls'[p].device # agentCalls'[q].device
    BY <1>3, <1>5, <2>1 DEF PairingsFit
  <2>4. \A p, q \in Requests : CodeTaken(p)' /\ CodeTaken(q)' /\ agentCalls'[p].about = agentCalls'[q].about => p = q
    BY <1>3, <2>1 DEF PairingsFit, CodeTaken
  <2>5. /\ DevicesThat({"active"})' = DevicesThat({"active"}) \cup {d} /\ d \notin DevicesThat({"active"})
        /\ DevicesThat({"active", "revoked"})' = DevicesThat({"active", "revoked"}) \cup {d}
        /\ d \notin DevicesThat({"active", "revoked"})
        /\ Consumed' = Consumed \cup {k} /\ k \notin Consumed
    BY <1>2, <1>7, <1>8 DEF DevicesThat, Consumed
  <2>6. IsFiniteSet(DevicesThat({"active"}))
    <3>1. DevicesThat({"active"}) \subseteq DevicesThat({"active", "revoked"})
      BY DEF DevicesThat
    <3> QED
      BY <1>3, <3>1, FS_Subset DEF PairingsFit
  <2>7. /\ Cardinality(DevicesThat({"active"})') = Cardinality(DevicesThat({"active"})) + 1
        /\ Cardinality(DevicesThat({"active"})) \in Nat
    BY <2>5, <2>6, FS_AddElement, FS_CardinalityType
  <2>8. /\ IsFiniteSet(DevicesThat({"active", "revoked"})')
        /\ Cardinality(DevicesThat({"active", "revoked"})') = Cardinality(DevicesThat({"active", "revoked"})) + 1
        /\ IsFiniteSet(Consumed') /\ Cardinality(Consumed') = Cardinality(Consumed) + 1
    BY <1>3, <2>5, FS_AddElement DEF PairingsFit
  <2>9. Cardinality(DevicesThat({"active"})) < DeviceLimit /\ DeviceLimit \in Nat
    BY <1>0, <1>3 DEF PairingsFit, SupabaseConstants
  <2> QED
    BY <1>3, <2>2, <2>3, <2>4, <2>7, <2>8, <2>9 DEF PairingsFit, TenantTaken
<1> QED
  BY <1>5, <1>9, <1>10, <1>11, <1>12 DEF TablesInv

-----------------------------------------------------------------------------
(* Heartbeats are served *)

\* A heartbeat takes a step: when no other is on its way, what it does to the folders of its
\* device leads to those it reported.
LEMMA HeartbeatMoves ==
  ASSUME TablesInv, NEW r \in Requests, NEW x, Moves(r, x), NEW d \in Devices,
         agentCalls[r] # None, agentCalls[r].kind = "heartbeat", agentCalls[r].device = d,
         x # None => x.kind = "heartbeat" /\ x.device = d,
         UNCHANGED <<time, codes, deviceRows, jobRows, journals, answered, beats>>,
         folders' \in [Devices -> SUBSET Folders],
         \A e \in Devices : e # d => folders'[e] = folders[e],
         beats[d] # None /\ OnItsWay(d, r) =>
           IF x = None THEN folders'[d] = beats[d] ELSE OnItsWay(d, r)'
  PROVE  TablesInv'
<1>1. /\ TablesTypeOK' /\ RequestsFit'
      /\ agentCalls'[r] = x /\ \A q \in Requests \ {r} : agentCalls'[q] = agentCalls[q]
  BY Moved DEF TablesInv, TablesTypeOK
<1>2. PairingsFit'
  <2>1. deviceRows[d] # "none" \/ (agentCalls[r] # None /\ agentCalls[r].kind # "pair")
    OBVIOUS
  <2> QED
    BY <2>1, PairingsKept
<1>3. JournalsFit'
  BY JournalsKept
<1>4. JobsOwned'
  BY DEF TablesInv, JobsOwned
<1>5. ASSUME NEW e \in Devices, beats'[e] # None
      PROVE  /\ \A p, q \in Beating(e)' : p = q
             /\ \A q \in Beating(e)' : OnItsWay(e, q)'
             /\ Beating(e)' = {} => folders'[e] = beats'[e]
  <2>1. /\ beats' = beats /\ beats[e] # None
        /\ \A p, q \in Beating(e) : p = q
        /\ \A q \in Beating(e) : OnItsWay(e, q)
        /\ Beating(e) = {} => folders[e] = beats[e]
    BY <1>5 DEF TablesInv, HeartbeatsFit
  <2>2. CASE e # d
    <3>1. Beating(e)' = Beating(e) /\ r \notin Beating(e)
      BY <1>1, <2>2 DEF Beating
    <3>2. \A q \in Beating(e) : agentCalls'[q] = agentCalls[q]
      BY <1>1, <3>1 DEF Beating
    <3>3. folders'[e] = folders[e]
      BY <2>2
    <3> QED
      BY <2>1, <3>1, <3>2, <3>3 DEF OnItsWay
  <2>3. CASE e = d
    <3>1. Beating(d) = {r} /\ Beating(d)' = IF x = None THEN {} ELSE {r}
      <4>1. r \in Beating(d)
        BY DEF Beating
      <4>2. Beating(d) = {r}
        BY <2>1, <2>3, <4>1
      <4>3. \A q \in Requests \ {r} : q \notin Beating(d)'
        BY <1>1, <4>2 DEF Beating
      <4>4. r \in Beating(d)' <=> x # None
        BY <1>1 DEF Beating
      <4>5. Beating(d)' \subseteq Requests
        BY DEF Beating
      <4> QED
        BY <4>2, <4>3, <4>4, <4>5
    <3>2. IF x = None THEN folders'[d] = beats[d] ELSE OnItsWay(d, r)'
      BY <2>1, <2>3, <3>1
    <3> QED
      BY <2>1, <2>3, <3>1, <3>2
  <2> QED
    BY <2>2, <2>3
<1>6. HeartbeatsFit'
  BY <1>5 DEF HeartbeatsFit
<1> QED
  BY <1>1, <1>2, <1>3, <1>4, <1>6 DEF TablesInv

\* What holds of a heartbeat, wherever it is.
LEMMA HeartbeatHolds ==
  ASSUME TablesInv, NEW r \in Requests, NEW step, At(r, {"heartbeat"}, step)
  PROVE  /\ agentCalls[r] # None /\ agentCalls[r].kind = "heartbeat" /\ agentCalls[r].at = step
         /\ Bears(agentCalls[r]) /\ agentCalls[r] \in AgentCall
         /\ agentCalls[r].device \in Devices /\ agentCalls[r].about \in SUBSET Folders
         /\ folders \in [Devices -> SUBSET Folders]
  BY DEF TablesInv, TablesTypeOK, RequestsFit, Bears, AgentCall, At

LEMMA RecordHeartbeatInv ==
  ASSUME TablesInv, SupabaseConstants, NEW r \in Requests, RecordHeartbeat(r)
  PROVE  TablesInv'
<1>0. At(r, {"heartbeat"}, "begin") /\ Step(r, "sent")
  BY DEF RecordHeartbeat
<1>1. PICK w, d : w = agentCalls[r] /\ d = w.device
  OBVIOUS
<1>2. /\ Bears(w) /\ w.kind = "heartbeat" /\ w.at = "begin" /\ d \in Devices /\ w # None
      /\ folders \in [Devices -> SUBSET Folders]
  BY <1>0, <1>1, HeartbeatHolds
<1>3. PICK x : Advanced(w, "sent", x)
  BY <1>2, Stepped
<1>4. Moves(r, x)
  <2>1. agentCalls' = [agentCalls EXCEPT ![r].at = "sent"]
    BY <1>0 DEF Step
  <2>2. agentCalls' = [agentCalls EXCEPT ![r] = x]
    BY <1>1, <1>3, <2>1, Zenon DEF Advanced
  <2> QED
    BY <1>3, <2>2 DEF Moves, Advanced
<1>5. deviceRows' = deviceRows
  BY <1>1 DEF RecordHeartbeat, MayBeat, TablesInv, TablesTypeOK
<1>6. UNCHANGED <<time, codes, deviceRows, folders, jobRows, journals, answered, beats>>
  BY <1>5 DEF RecordHeartbeat
<1>7. agentCalls'[r] = x
  BY <1>4, Moved
<1>8. x.about = w.about /\ x.at = "sent" /\ x.kind = "heartbeat" /\ x.device = d /\ x # None
  BY <1>1, <1>2, <1>3 DEF Advanced, Bears, SupabaseConstants
<1>9. beats[d] # None /\ OnItsWay(d, r) => IF x = None THEN folders'[d] = beats[d] ELSE OnItsWay(d, r)'
  BY <1>1, <1>2, <1>6, <1>7, <1>8 DEF OnItsWay
<1> QED
  BY <1>1, <1>2, <1>4, <1>6, <1>8, <1>9, HeartbeatMoves

LEMMA ListFoldersInv ==
  ASSUME TablesInv, SupabaseConstants, NEW r \in Requests, ListFolders(r)
  PROVE  TablesInv'
<1>0. At(r, {"heartbeat"}, "sent")
  BY DEF ListFolders
<1>1. PICK w, d : w = agentCalls[r] /\ d = w.device
  OBVIOUS
<1>2. /\ Bears(w) /\ w \in AgentCall /\ w.kind = "heartbeat" /\ w.at = "sent" /\ d \in Devices /\ w # None
      /\ w.about \in SUBSET Folders /\ folders \in [Devices -> SUBSET Folders]
  BY <1>0, <1>1, HeartbeatHolds
<1>3. PICK S \in SUBSET Folders : S = folders[d] \ w.about
  BY <1>2
<1>4. PICK x : x = [w EXCEPT !.at = "listed", !.stale = S]
  OBVIOUS
<1>5. /\ x \in AgentCall /\ x.kind = "heartbeat" /\ x.device = d /\ x.about = w.about
      /\ x.at = "listed" /\ x.stale = S /\ x # None
  <2>1. x = [kind |-> w.kind, at |-> "listed", device |-> w.device, about |-> w.about,
             claim |-> w.claim, event |-> w.event, found |-> w.found, stale |-> S]
    BY <1>2, <1>4 DEF AgentCall
  <2>2. x \in AgentCall
    BY <1>2, <1>3, <2>1 DEF AgentCall
  <2> QED
    BY <1>1, <1>2, <2>1, <2>2 DEF SupabaseConstants
<1>6. Moves(r, x)
  <2>1. agentCalls' = [agentCalls EXCEPT ![r].at = "listed", ![r].stale = S]
    BY <1>1, <1>3 DEF ListFolders, Stale
  <2>2. agentCalls' = [agentCalls EXCEPT ![r] = x]
    BY <1>1, <1>4, <2>1, Zenon
  <2>3. Bears(x)
    BY <1>2, <1>5 DEF Bears, Outcomes
  <2> QED
    BY <2>2, <2>3 DEF Moves
<1>7. UNCHANGED <<time, codes, deviceRows, folders, jobRows, journals, answered, beats>>
  BY DEF ListFolders
<1>8. agentCalls'[r] = x
  BY <1>6, Moved
<1>9. OnItsWay(d, r) => OnItsWay(d, r)'
  BY <1>1, <1>2, <1>3, <1>5, <1>7, <1>8 DEF OnItsWay
<1> QED
  BY <1>1, <1>2, <1>5, <1>6, <1>7, <1>9, HeartbeatMoves

LEMMA WriteFolderInv ==
  ASSUME TablesInv, SupabaseConstants, NEW r \in Requests, NEW f \in Folders, WriteFolder(r, f)
  PROVE  TablesInv'
<1>0. At(r, {"heartbeat"}, "listed")
  BY DEF WriteFolder
<1>1. PICK w, d : w = agentCalls[r] /\ d = w.device
  OBVIOUS
<1>2. /\ Bears(w) /\ w \in AgentCall /\ w.kind = "heartbeat" /\ w.at = "listed" /\ d \in Devices /\ w # None
      /\ w.about \in SUBSET Folders /\ folders \in [Devices -> SUBSET Folders]
  BY <1>0, <1>1, HeartbeatHolds
<1>3. PICK A \in SUBSET Folders : A = w.about \ {f}
  BY <1>2
<1>4. PICK x : x = [w EXCEPT !.about = A]
  OBVIOUS
<1>5. /\ x \in AgentCall /\ x.kind = "heartbeat" /\ x.device = d /\ x.about = A
      /\ x.at = "listed" /\ x.stale = w.stale /\ x # None
  BY <1>1, <1>2, <1>3, <1>4 DEF AgentCall, SupabaseConstants
<1>6. Moves(r, x)
  <2>1. agentCalls' = [agentCalls EXCEPT ![r].about = A]
    BY <1>1, <1>3 DEF WriteFolder
  <2>2. agentCalls' = [agentCalls EXCEPT ![r] = x]
    BY <1>1, <1>4, <2>1, Zenon
  <2>3. Bears(x)
    BY <1>3, <1>5 DEF Bears, Outcomes
  <2> QED
    BY <2>2, <2>3 DEF Moves
<1>7. UNCHANGED <<time, codes, deviceRows, jobRows, journals, answered, beats>> /\ f \in w.about
  BY <1>1 DEF WriteFolder
<1>8. /\ folders' \in [Devices -> SUBSET Folders]
      /\ folders'[d] = folders[d] \cup {f} /\ \A e \in Devices : e # d => folders'[e] = folders[e]
  <2>1. folders' = [folders EXCEPT ![d] = folders[d] \cup {f}]
    BY <1>1 DEF WriteFolder
  <2> QED
    BY <1>2, <2>1
<1>9. agentCalls'[r] = x
  BY <1>6, Moved
<1>10. beats[d] # None /\ OnItsWay(d, r) => OnItsWay(d, r)'
  <2>1. SUFFICES ASSUME /\ (folders[d] \ w.stale) \cup w.about = beats[d]
                        /\ w.stale \cap beats[d] = {}
                 PROVE  /\ (folders'[d] \ x.stale) \cup x.about = beats[d]
                        /\ x.stale \cap beats[d] = {}
    BY <1>1, <1>2, <1>5, <1>7, <1>9 DEF OnItsWay
  <2>2. f \notin w.stale
    BY <1>7, <2>1
  <2> QED
    BY <1>3, <1>5, <1>7, <1>8, <2>1, <2>2
<1> QED
  BY <1>1, <1>2, <1>5, <1>6, <1>7, <1>8, <1>10, HeartbeatMoves

LEMMA DeleteStaleInv ==
  ASSUME TablesInv, NEW r \in Requests, DeleteStale(r)
  PROVE  TablesInv'
<1>0. At(r, {"heartbeat"}, "listed")
  BY DEF DeleteStale
<1>1. PICK w, d : w = agentCalls[r] /\ d = w.device
  OBVIOUS
<1>2. /\ w \in AgentCall /\ w.kind = "heartbeat" /\ w.at = "listed" /\ d \in Devices /\ w # None
      /\ folders \in [Devices -> SUBSET Folders]
  BY <1>0, <1>1, HeartbeatHolds
<1>3. Moves(r, None) /\ w.about = {} /\ UNCHANGED <<time, codes, deviceRows, jobRows, journals, answered, beats>>
  BY <1>1 DEF DeleteStale, End, Moves
<1>4. /\ folders' \in [Devices -> SUBSET Folders]
      /\ folders'[d] = folders[d] \ w.stale /\ \A e \in Devices : e # d => folders'[e] = folders[e]
  <2>1. folders' = [folders EXCEPT ![d] = folders[d] \ w.stale]
    BY <1>1 DEF DeleteStale
  <2> QED
    BY <1>2, <2>1
<1>5. OnItsWay(d, r) => folders'[d] = beats[d]
  BY <1>1, <1>2, <1>3, <1>4 DEF OnItsWay
<1> QED
  BY <1>1, <1>2, <1>3, <1>4, <1>5, HeartbeatMoves

LEMMA SendHeartbeatInv ==
  ASSUME TablesInv, SupabaseConstants, NEW r \in Requests, NEW d \in Devices, NEW F \in SUBSET Folders,
         SendHeartbeat(r, d, F)
  PROVE  TablesInv'
<1>1. Begin(r, "heartbeat", d, F, 0, None) /\ deviceRows[d] = "active"
  BY DEF SendHeartbeat
<1>2. /\ agentCalls[r] = None
      /\ \E x : Moves(r, x) /\ x.at = "begin" /\ x.kind = "heartbeat" /\ x.device = d /\ x.about = F
  <2>1. Begins(r, "heartbeat", d, F, 0, None)
    BY <1>1 DEF Begins, Kinds, Outcomes
  <2> QED
    BY ONLY <2>1, TablesInv, SupabaseConstants, Begun
<1>3. PICK x : Moves(r, x) /\ x.at = "begin" /\ x.kind = "heartbeat" /\ x.device = d /\ x.about = F
  BY <1>2
<1>4. /\ UNCHANGED <<time, codes, deviceRows, folders, jobRows, journals, answered>>
      /\ beats' = [beats EXCEPT ![d] = IF Beating(d) = {} THEN F ELSE None]
  BY DEF SendHeartbeat
<1>5. /\ agentCalls' \in [Requests -> AgentCall \cup {None}] /\ RequestsFit'
      /\ agentCalls'[r] = x /\ \A q \in Requests \ {r} : agentCalls'[q] = agentCalls[q]
  BY <1>3, Moved
<1>6. /\ beats' \in [Devices -> {None} \cup SUBSET Folders]
      /\ beats'[d] = IF Beating(d) = {} THEN F ELSE None
      /\ \A e \in Devices : e # d => beats'[e] = beats[e]
  BY <1>4 DEF TablesInv, TablesTypeOK
<1>7. TablesTypeOK'
  BY <1>4, <1>5, <1>6 DEF TablesInv, TablesTypeOK
<1>8. PairingsFit' /\ JournalsFit'
  BY <1>1, <1>3, <1>4, PairingsKept, JournalsKept
<1>9. JobsOwned'
  BY <1>4 DEF TablesInv, JobsOwned
<1>10. x # None
  <2>1. agentCalls' = [agentCalls EXCEPT ![r] = [kind |-> "heartbeat", at |-> "begin", device |-> d, about |-> F,
                      claim |-> 0, event |-> None, found |-> FALSE, stale |-> {}]]
    BY <1>1 DEF Begin
  <2>2. x = [kind |-> "heartbeat", at |-> "begin", device |-> d, about |-> F,
                      claim |-> 0, event |-> None, found |-> FALSE, stale |-> {}]
    BY <1>5, <2>1 DEF TablesInv, TablesTypeOK
  <2>3. x \in AgentCall
    BY <2>2 DEF AgentCall, Kinds
  <2> QED
    BY <2>3 DEF SupabaseConstants
<1>11. HeartbeatsFit'
  <2>1. ASSUME NEW e \in Devices, beats'[e] # None
        PROVE  /\ \A p, q \in Beating(e)' : p = q
               /\ \A q \in Beating(e)' : OnItsWay(e, q)'
               /\ Beating(e)' = {} => folders'[e] = beats'[e]
    <3>1. CASE e # d
      <4>1. Beating(e)' = Beating(e) /\ r \notin Beating(e)
        BY <1>2, <1>3, <1>5, <3>1 DEF Beating
      <4>2. \A q \in Beating(e) : agentCalls'[q] = agentCalls[q]
        BY <1>5, <4>1 DEF Beating
      <4>3. beats'[e] = beats[e] /\ folders'[e] = folders[e]
        BY <1>4, <1>6, <3>1
      <4> QED
        BY <2>1, <4>1, <4>2, <4>3 DEF TablesInv, HeartbeatsFit, OnItsWay
    <3>2. CASE e = d
      <4>1. Beating(d) = {} /\ beats'[d] = F
        BY <1>6, <2>1, <3>2
      <4>2. Beating(d)' = {r}
        BY <1>3, <1>5, <1>10, <4>1 DEF Beating
      <4>3. OnItsWay(d, r)'
        BY <1>3, <1>5, <4>1 DEF OnItsWay
      <4> QED
        BY <3>2, <4>2, <4>3
    <3> QED
      BY <3>1, <3>2
  <2> QED
    BY <2>1 DEF HeartbeatsFit
<1> QED
  BY <1>5, <1>7, <1>8, <1>9, <1>11 DEF TablesInv

\* A request that is cut short leaves what was committed; the folders of a device whose
\* heartbeat it was are not those it reported.
LEMMA DropInv ==
  ASSUME TablesInv, NEW r \in Requests, Drop(r)
  PROVE  TablesInv'
<1>1. /\ agentCalls[r] # None /\ Moves(r, None)
      /\ UNCHANGED <<time, codes, deviceRows, folders, jobRows, journals, answered>>
  BY DEF Drop, End, Moves
<1>2. CASE agentCalls[r].kind # "heartbeat"
  <2>1. beats' = beats
    BY <1>2 DEF Drop
  <2> QED
    BY <1>1, <1>2, <2>1, OthersKept
<1>3. CASE agentCalls[r].kind = "heartbeat"
  <2>1. PICK d \in Devices : d = agentCalls[r].device
    BY <1>1, <1>3 DEF TablesInv, RequestsFit, Bears, AgentCall
  <2>2. /\ beats' \in [Devices -> {None} \cup SUBSET Folders]
        /\ beats'[d] = None /\ \A e \in Devices : e # d => beats'[e] = beats[e]
    <3>1. beats' = [beats EXCEPT ![d] = None]
      BY <1>3, <2>1 DEF Drop
    <3> QED
      BY <3>1 DEF TablesInv, TablesTypeOK
  <2>3. /\ agentCalls' \in [Requests -> AgentCall \cup {None}] /\ RequestsFit'
        /\ agentCalls'[r] = None /\ \A q \in Requests \ {r} : agentCalls'[q] = agentCalls[q]
    BY <1>1, Moved
  <2>4. TablesTypeOK'
    BY <1>1, <2>2, <2>3 DEF TablesInv, TablesTypeOK
  <2>5. PairingsFit' /\ JournalsFit'
    BY <1>1, PairingsKept, JournalsKept
  <2>6. JobsOwned'
    BY <1>1 DEF TablesInv, JobsOwned
  <2>7. ASSUME NEW e \in Devices, beats'[e] # None
        PROVE  /\ \A p, q \in Beating(e)' : p = q
               /\ \A q \in Beating(e)' : OnItsWay(e, q)'
               /\ Beating(e)' = {} => folders'[e] = beats'[e]
    <3>1. e # d /\ beats'[e] = beats[e] /\ folders'[e] = folders[e]
      BY <1>1, <2>2, <2>7
    <3>2. Beating(e)' = Beating(e) /\ r \notin Beating(e)
      BY <2>1, <2>3, <3>1 DEF Beating
    <3>3. \A q \in Beating(e) : agentCalls'[q] = agentCalls[q]
      BY <2>3, <3>2 DEF Beating
    <3> QED
      BY <2>7, <3>1, <3>2, <3>3 DEF TablesInv, HeartbeatsFit, OnItsWay
  <2>8. HeartbeatsFit'
    BY <2>7 DEF HeartbeatsFit
  <2> QED
    BY <2>3, <2>4, <2>5, <2>6, <2>8 DEF TablesInv
<1> QED
  BY <1>2, <1>3

-----------------------------------------------------------------------------
(* What one step does to a job and its journal *)

Entered(j, kind, c, e) ==
  journals'[j] = Append(journals[j], [kind |-> kind, claim |-> c, event |-> e])

SameOwner(j) == jobRows'[j].device = jobRows[j].device /\ jobRows'[j].attempt = jobRows[j].attempt

Offered(j) ==
  /\ jobRows[j].status = "none" /\ jobRows'[j].status = "pending" /\ jobRows'[j].attempt = jobRows[j].attempt
  /\ jobRows'[j].device \in Devices /\ deviceRows[jobRows'[j].device] = "active"
  /\ journals'[j] = journals[j]

Claimed(j) ==
  /\ ClaimableJob(j) /\ jobRows'[j].device = jobRows[j].device
  /\ jobRows'[j].status = "claimed" /\ jobRows'[j].until = time + Lease
  /\ jobRows'[j].attempt = jobRows[j].attempt + 1
  /\ Entered(j, "claimed", jobRows[j].attempt + 1, None)

\* The holder of the lease renews it or reports progress.
Worked(j) ==
  /\ Leased(j) /\ SameOwner(j)
  /\ jobRows'[j].status = "running" /\ jobRows'[j].until \in {jobRows[j].until, time + Lease}
  /\ \/ journals'[j] = journals[j]
     \/ \E e \in Reports : ~ Logged(j, e) /\ Entered(j, "progress", jobRows[j].attempt, e)

Ended(j) ==
  /\ Leased(j) /\ SameOwner(j)
  /\ \E outcome \in Outcomes, e \in Finals :
       jobRows'[j].status = outcome /\ Entered(j, outcome, jobRows[j].attempt, e)

Stopped(j) ==
  /\ j \in StoppableJobs /\ SameOwner(j)
  /\ jobRows'[j].status = "cancelled"
  /\ Entered(j, "cancelled", jobRows[j].attempt, None)

Kept(j) == jobRows'[j] = jobRows[j] /\ journals'[j] = journals[j]

\* One step at one job, with its types.
Altered(j) == Kept(j) \/ Offered(j) \/ Claimed(j) \/ Worked(j) \/ Ended(j) \/ Stopped(j)

RowsTyped == jobRows' \in [Jobs -> JobRow] /\ journals' \in [Jobs -> Seq(EventRow)]

OneStep(j) ==
  /\ RowsTyped /\ time' = time
  /\ Offered(j) \/ Claimed(j) \/ Worked(j) \/ Ended(j) \/ Kept(j)
  /\ \A i \in Jobs : i # j => Kept(i)

StopStep ==
  /\ RowsTyped /\ time' = time
  /\ \A j \in Jobs : Kept(j) \/ Stopped(j)

LEMMA RowWritten ==
  ASSUME TablesTypeOK, NEW j \in Jobs, NEW row \in JobRow, jobRows' = [jobRows EXCEPT ![j] = row]
  PROVE  jobRows' \in [Jobs -> JobRow] /\ jobRows'[j] = row /\ \A i \in Jobs : i # j => jobRows'[i] = jobRows[i]
  BY DEF TablesTypeOK

LEMMA EntryWritten ==
  ASSUME TablesTypeOK, NEW j \in Jobs, NEW kind \in {"claimed", "progress", "cancelled"} \cup Outcomes,
         NEW c \in {0} \cup Claims, NEW e \in Reports \cup Finals \cup {None}, Journaled(j, kind, c, e)
  PROVE  /\ journals' \in [Jobs -> Seq(EventRow)] /\ Entered(j, kind, c, e)
         /\ \A i \in Jobs : i # j => journals'[i] = journals[i]
<1>1. PICK x \in EventRow : x = [kind |-> kind, claim |-> c, event |-> e]
  BY DEF EventRow
<1>2. journals' = [journals EXCEPT ![j] = Append(journals[j], x)]
  BY <1>1 DEF Journaled
<1>3. journals \in [Jobs -> Seq(EventRow)] /\ Append(journals[j], x) \in Seq(EventRow)
  BY DEF TablesTypeOK
<1> QED
  BY <1>1, <1>2, <1>3 DEF Entered

LEMMA SeedJobStep ==
  ASSUME TablesInv, NEW j \in Jobs, NEW d \in Devices, InsertJob(j, d)
  PROVE  OneStep(j) /\ Offered(j)
<1>1. jobRows[j] \in JobRow /\ journals \in [Jobs -> Seq(EventRow)] /\ TablesTypeOK
  BY DEF TablesInv, TablesTypeOK
<1>2. PICK row : row = [jobRows[j] EXCEPT !.status = "pending", !.device = d]
  OBVIOUS
<1>3. row \in JobRow /\ row.status = "pending" /\ row.device = d /\ row.attempt = jobRows[j].attempt
  BY <1>1, <1>2 DEF JobRow
<1>4. jobRows' = [jobRows EXCEPT ![j] = row] /\ journals' = journals /\ time' = time
  <2>1. jobRows' = [jobRows EXCEPT ![j].status = "pending", ![j].device = d]
    BY DEF InsertJob
  <2> QED
    BY <1>2, <2>1, Zenon DEF InsertJob
<1>5. jobRows' \in [Jobs -> JobRow] /\ jobRows'[j] = row /\ \A i \in Jobs : i # j => jobRows'[i] = jobRows[i]
  BY <1>1, <1>3, <1>4, RowWritten
<1>6. Offered(j)
  BY <1>3, <1>4, <1>5 DEF Offered, InsertJob, ActiveDevice
<1> QED
  BY <1>1, <1>4, <1>5, <1>6 DEF OneStep, RowsTyped, Kept

\* The job that a request is about.
LEMMA JobHolds ==
  ASSUME TablesInv, NEW r \in Requests, agentCalls[r] # None, agentCalls[r].kind \notin {"pair", "heartbeat"}
  PROVE  /\ Bears(agentCalls[r]) /\ agentCalls[r] \in AgentCall /\ agentCalls[r].about \in Jobs
         /\ jobRows[agentCalls[r].about] \in JobRow /\ TablesTypeOK
         /\ agentCalls[r].kind = "progress" => agentCalls[r].event \in Reports
         /\ agentCalls[r].kind \in Outcomes => agentCalls[r].event \in Finals
  BY DEF TablesInv, TablesTypeOK, RequestsFit, Bears

LEMMA ClaimJobStep ==
  ASSUME TablesInv, SupabaseConstants, NEW r \in Requests, ClaimJob(r), NEW j, j = agentCalls[r].about
  PROVE  j \in Jobs /\ OneStep(j) /\ Claimed(j)
<1>1. /\ agentCalls[r] # None /\ agentCalls[r].kind = "claim" /\ ClaimableJob(j) /\ time' = time
      /\ jobRows' = [jobRows EXCEPT ![j].status = "claimed", ![j].attempt = @ + 1, ![j].until = time + Lease]
      /\ Journaled(j, "claimed", jobRows[j].attempt + 1, None)
  BY DEF ClaimJob, At
<1>2. j \in Jobs /\ jobRows[j] \in JobRow /\ TablesTypeOK
  BY <1>1, JobHolds
<1>3. PICK n, t : n = jobRows[j].attempt + 1 /\ t = time + Lease
  OBVIOUS
<1>4. n \in Claims /\ t \in 0 .. MaxTime + Lease
  BY <1>1, <1>2, <1>3, SMTT(30) DEF JobRow, Claims, ClaimableJob, SupabaseConstants, TablesTypeOK
<1>5. PICK row : row = [jobRows[j] EXCEPT !.status = "claimed", !.attempt = n, !.until = t]
  OBVIOUS
<1>6. row \in JobRow /\ row.status = "claimed" /\ row.attempt = n /\ row.until = t /\ row.device = jobRows[j].device
  BY <1>2, <1>4, <1>5 DEF JobRow, Active
<1>7. jobRows' = [jobRows EXCEPT ![j] = row]
  BY <1>1, <1>3, <1>5, Zenon
<1>8. jobRows' \in [Jobs -> JobRow] /\ jobRows'[j] = row /\ \A i \in Jobs : i # j => jobRows'[i] = jobRows[i]
  BY <1>2, <1>6, <1>7, RowWritten
<1>9. /\ journals' \in [Jobs -> Seq(EventRow)] /\ Entered(j, "claimed", n, None)
      /\ \A i \in Jobs : i # j => journals'[i] = journals[i]
  BY <1>1, <1>2, <1>3, <1>4, EntryWritten
<1>10. Claimed(j)
  BY <1>1, <1>3, <1>6, <1>8, <1>9 DEF Claimed
<1> QED
  BY <1>1, <1>2, <1>8, <1>9, <1>10 DEF OneStep, RowsTyped, Kept

LEMMA RenewJobStep ==
  ASSUME TablesInv, SupabaseConstants, NEW r \in Requests, RenewJob(r), NEW j, j = agentCalls[r].about
  PROVE  j \in Jobs /\ OneStep(j) /\ Worked(j)
<1>1. /\ agentCalls[r] # None /\ agentCalls[r].kind = "renew" /\ Leased(j) /\ time' = time /\ journals' = journals
      /\ jobRows' = [jobRows EXCEPT ![j].status = "running", ![j].until = time + Lease]
  BY DEF RenewJob, At, HoldsJob
<1>2. j \in Jobs /\ jobRows[j] \in JobRow /\ TablesTypeOK
  BY <1>1, JobHolds
<1>3. PICK t : t = time + Lease
  OBVIOUS
<1>4. t \in 0 .. MaxTime + Lease
  BY <1>2, <1>3 DEF SupabaseConstants, TablesTypeOK
<1>5. PICK row : row = [jobRows[j] EXCEPT !.status = "running", !.until = t]
  OBVIOUS
<1>6. /\ row \in JobRow /\ row.status = "running" /\ row.attempt = jobRows[j].attempt
      /\ row.until = t /\ row.device = jobRows[j].device
  BY <1>2, <1>4, <1>5 DEF JobRow, Active
<1>7. jobRows' = [jobRows EXCEPT ![j] = row]
  BY <1>1, <1>3, <1>5, Zenon
<1>8. jobRows' \in [Jobs -> JobRow] /\ jobRows'[j] = row /\ \A i \in Jobs : i # j => jobRows'[i] = jobRows[i]
  BY <1>2, <1>6, <1>7, RowWritten
<1>9. Worked(j)
  BY <1>1, <1>3, <1>6, <1>8 DEF Worked, SameOwner
<1> QED
  BY <1>1, <1>2, <1>8, <1>9 DEF OneStep, RowsTyped, Kept, TablesTypeOK

\* What a report writes, when its claim still holds the job.
LEMMA WriteProgressStep ==
  ASSUME TablesInv, NEW r \in Requests, WriteProgress(r), HoldsJob(r), NEW j, j = agentCalls[r].about
  PROVE  /\ j \in Jobs /\ OneStep(j) /\ Worked(j)
         /\ ~ Logged(j, agentCalls[r].event) => Entered(j, "progress", agentCalls[r].claim, agentCalls[r].event)
<1>1. /\ agentCalls[r] # None /\ agentCalls[r].kind = "progress" /\ Leased(j) /\ time' = time
      /\ jobRows[j].attempt = agentCalls[r].claim
      /\ jobRows' = [jobRows EXCEPT ![j].status = "running"]
  BY DEF WriteProgress, At, HoldsJob
<1>2. j \in Jobs /\ jobRows[j] \in JobRow /\ agentCalls[r].event \in Reports /\ TablesTypeOK
  BY <1>1, JobHolds
<1>3. PICK row : row = [jobRows[j] EXCEPT !.status = "running"]
  OBVIOUS
<1>4. /\ row \in JobRow /\ row.status = "running" /\ row.attempt = jobRows[j].attempt
      /\ row.until = jobRows[j].until /\ row.device = jobRows[j].device
  BY <1>2, <1>3 DEF JobRow, Active
<1>5. jobRows' = [jobRows EXCEPT ![j] = row]
  BY <1>1, <1>3, Zenon
<1>6. jobRows' \in [Jobs -> JobRow] /\ jobRows'[j] = row /\ \A i \in Jobs : i # j => jobRows'[i] = jobRows[i]
  BY <1>2, <1>4, <1>5, RowWritten
<1>7. CASE Logged(j, agentCalls[r].event)
  <2>1. journals' = journals
    BY <1>7 DEF WriteProgress
  <2>2. Worked(j)
    BY <1>1, <1>4, <1>6, <2>1 DEF Worked, SameOwner
  <2> QED
    BY <1>1, <1>2, <1>6, <1>7, <2>1, <2>2 DEF OneStep, RowsTyped, Kept, TablesTypeOK
<1>8. CASE ~ Logged(j, agentCalls[r].event)
  <2>1. PICK e \in Reports : e = agentCalls[r].event
    BY <1>2
  <2>2. Journaled(j, "progress", jobRows[j].attempt, e) /\ jobRows[j].attempt \in {0} \cup Claims
    BY <1>1, <1>2, <1>8, <2>1 DEF WriteProgress, JobRow
  <2>3. /\ journals' \in [Jobs -> Seq(EventRow)] /\ Entered(j, "progress", jobRows[j].attempt, e)
        /\ \A i \in Jobs : i # j => journals'[i] = journals[i]
    BY <1>2, <2>2, EntryWritten
  <2>4. Worked(j)
    BY <1>1, <1>4, <1>6, <1>8, <2>1, <2>3 DEF Worked, SameOwner
  <2> QED
    BY <1>1, <1>2, <1>6, <2>1, <2>3, <2>4 DEF OneStep, RowsTyped, Kept
<1> QED
  BY <1>7, <1>8

\* No job that is still leased has a terminal event, so that of the outcome is new.
LEMMA FinishJobStep ==
  ASSUME TablesInv, SupabaseConstants, NEW r \in Requests, FinishAgentJob(r), NEW j, j = agentCalls[r].about
  PROVE  /\ j \in Jobs /\ OneStep(j)
         /\ agentCalls[r].kind \in Outcomes /\ jobRows'[j].status = agentCalls[r].kind
<1>1. /\ agentCalls[r] # None /\ agentCalls[r].kind \in Outcomes /\ time' = time
  BY DEF FinishAgentJob, At
<1>2. j \in Jobs /\ jobRows[j] \in JobRow /\ agentCalls[r].event \in Finals /\ TablesTypeOK
  BY <1>1, JobHolds DEF Outcomes
<1>3. PICK kind \in Outcomes, e \in Finals : kind = agentCalls[r].kind /\ e = agentCalls[r].event
  BY <1>1, <1>2
<1>4. CASE HoldsJob(r)
  <2>1. /\ Leased(j) /\ jobRows[j].attempt = agentCalls[r].claim
        /\ jobRows' = [jobRows EXCEPT ![j].status = kind, ![j].until = 0]
        /\ ~ Logged(j, e) => Journaled(j, kind, jobRows[j].attempt, e)
    BY <1>3, <1>4 DEF FinishAgentJob, HoldsJob
  <2>2. ~ Logged(j, e)
    <3>1. jobRows[j].status \notin Outcomes
      BY <2>1 DEF Leased, Active, Outcomes
    <3> QED
      BY <1>2, <3>1 DEF TablesInv, JournalsFit, JournalFits, Logged
  <2>3. PICK row : row = [jobRows[j] EXCEPT !.status = kind, !.until = 0]
    OBVIOUS
  <2>4. row \in JobRow /\ row.status = kind /\ row.attempt = jobRows[j].attempt /\ row.device = jobRows[j].device
    <3>1. 0 \in 0 .. MaxTime + Lease
      BY DEF SupabaseConstants
    <3> QED
      BY <1>2, <2>3, <3>1 DEF JobRow
  <2>5. jobRows' = [jobRows EXCEPT ![j] = row]
    BY <2>1, <2>3, Zenon
  <2>6. jobRows' \in [Jobs -> JobRow] /\ jobRows'[j] = row /\ \A i \in Jobs : i # j => jobRows'[i] = jobRows[i]
    BY <1>2, <2>4, <2>5, RowWritten
  <2>7. jobRows[j].attempt \in {0} \cup Claims
    BY <1>2 DEF JobRow
  <2>8. /\ journals' \in [Jobs -> Seq(EventRow)] /\ Entered(j, kind, jobRows[j].attempt, e)
        /\ \A i \in Jobs : i # j => journals'[i] = journals[i]
    BY <1>2, <2>1, <2>2, <2>7, EntryWritten
  <2>9. Ended(j)
    BY <2>1, <2>4, <2>6, <2>8 DEF Ended, SameOwner
  <2> QED
    BY <1>1, <1>2, <1>3, <2>4, <2>6, <2>8, <2>9 DEF OneStep, RowsTyped, Kept
<1>5. CASE ~ HoldsJob(r)
  <2>1. jobRows' = jobRows /\ journals' = journals /\ jobRows[j].status = agentCalls[r].kind
    BY <1>5 DEF FinishAgentJob, DoneBefore
  <2> QED
    BY <1>1, <1>2, <2>1 DEF OneStep, RowsTyped, Kept, TablesTypeOK
<1> QED
  BY <1>4, <1>5

LEMMA CancelledStep ==
  ASSUME TablesInv, SupabaseConstants, NEW S \in SUBSET StoppableJobs, Cancelled(S), time' = time
  PROVE  StopStep /\ (\A j \in Jobs : j \in S => Stopped(j)) /\ (\A j \in Jobs : j \notin S => Kept(j))
<1>0. TablesTypeOK /\ S \subseteq Jobs
  BY DEF TablesInv, StoppableJobs
<1>1. ASSUME NEW j \in Jobs, j \in S
      PROVE  Stopped(j) /\ jobRows'[j] \in JobRow /\ journals'[j] \in Seq(EventRow)
  <2>1. jobRows[j] \in JobRow /\ journals[j] \in Seq(EventRow)
    BY <1>0 DEF TablesTypeOK
  <2>2. /\ jobRows'[j] = [jobRows[j] EXCEPT !.status = "cancelled", !.until = 0]
        /\ journals'[j] = Append(journals[j], [kind |-> "cancelled", claim |-> jobRows[j].attempt, event |-> None])
    BY <1>1, Zenon DEF Cancelled
  <2>3. 0 \in 0 .. MaxTime + Lease /\ jobRows[j].attempt \in {0} \cup Claims
    BY <2>1 DEF JobRow, SupabaseConstants
  <2>4. jobRows'[j] \in JobRow /\ SameOwner(j) /\ jobRows'[j].status = "cancelled"
    BY <2>1, <2>2, <2>3 DEF SameOwner, JobRow
  <2>5. [kind |-> "cancelled", claim |-> jobRows[j].attempt, event |-> None] \in EventRow
    BY <2>3 DEF EventRow
  <2>6. journals'[j] \in Seq(EventRow)
    BY <2>1, <2>2, <2>5
  <2> QED
    BY <1>1, <2>2, <2>4, <2>6 DEF Stopped, Entered
<1>2. ASSUME NEW j \in Jobs, j \notin S
      PROVE  Kept(j) /\ jobRows'[j] \in JobRow /\ journals'[j] \in Seq(EventRow)
  BY <1>0, <1>2, Zenon DEF Cancelled, Kept, TablesTypeOK
<1>3. \E f, g : jobRows' = [j \in Jobs |-> f[j]] /\ journals' = [j \in Jobs |-> g[j]]
  <2>1. jobRows' = [j \in Jobs |-> jobRows'[j]] /\ journals' = [j \in Jobs |-> journals'[j]]
    BY DEF Cancelled
  <2> QED
    BY <2>1
<1>4. RowsTyped
  BY <1>1, <1>2, <1>3 DEF RowsTyped
<1> QED
  BY <1>1, <1>2, <1>4 DEF StopStep

-----------------------------------------------------------------------------
(* Jobs are served *)

\* What is in a journal stays in it.
LEMMA JournalsGrow ==
  ASSUME TablesTypeOK, NEW j \in Jobs, Altered(j)
  PROVE  \A entry : InLog(j, entry) => InLog(j, entry)'
<1>1. CASE journals'[j] = journals[j]
  BY <1>1 DEF InLog
<1>2. ASSUME NEW kind, NEW c, NEW e, Entered(j, kind, c, e)
      PROVE  \A entry : InLog(j, entry) => InLog(j, entry)'
  <2>1. PICK x : x = [kind |-> kind, claim |-> c, event |-> e]
    OBVIOUS
  <2>2. journals'[j] = Append(journals[j], x) /\ journals[j] \in Seq(EventRow)
    BY <1>2, <2>1 DEF Entered, TablesTypeOK
  <2>3. \A i \in DOMAIN journals[j] : i \in DOMAIN journals'[j] /\ journals'[j][i] = journals[j][i]
    BY <2>2
  <2> QED
    BY <2>3 DEF InLog
<1> QED
  BY <1>1, <1>2 DEF Altered, Kept, Offered, Claimed, Worked, Ended, Stopped

\* A journal with one more entry, of a kind that the job may have.
LEMMA EntryFits ==
  ASSUME TablesTypeOK, NEW j \in Jobs, JournalFits(j), NEW kind, NEW c, NEW e, Entered(j, kind, c, e),
         kind = "progress" => ~ Logged(j, e),
         e \in Finals => jobRows'[j].status \in Outcomes,
         jobRows[j].status \notin Outcomes
  PROVE  /\ \A i, k \in DOMAIN journals'[j] :
              journals'[j][i].kind = "progress" /\ journals'[j][k].kind = "progress" /\ journals'[j][i].event = journals'[j][k].event
                => i = k
         /\ \A i \in DOMAIN journals'[j] : journals'[j][i].event \in Finals => jobRows'[j].status \in Outcomes
         /\ InLog(j, [kind |-> kind, claim |-> c, event |-> e])'
<1>1. PICK x : x = [kind |-> kind, claim |-> c, event |-> e]
  OBVIOUS
<1>2. journals'[j] = Append(journals[j], x) /\ journals[j] \in Seq(EventRow) /\ x.kind = kind /\ x.event = e
  BY <1>1 DEF Entered, TablesTypeOK
<1>3. PICK n \in Nat :
        /\ DOMAIN journals[j] = 1 .. n /\ DOMAIN journals'[j] = 1 .. n + 1
        /\ \A i \in 1 .. n : journals'[j][i] = journals[j][i]
        /\ journals'[j][n + 1] = x
  BY <1>2
<1>4. \A i \in 1 .. n : journals[j][i].event \notin Finals
  BY <1>3 DEF JournalFits
<1>5. \A i \in 1 .. n + 1 : i \in 1 .. n \/ i = n + 1
  OBVIOUS
<1>6. \A i \in 1 .. n : kind = "progress" => journals[j][i].event # e
  BY <1>3 DEF Logged
<1>7. ASSUME NEW i \in DOMAIN journals'[j], NEW k \in DOMAIN journals'[j],
             journals'[j][i].kind = "progress", journals'[j][k].kind = "progress", journals'[j][i].event = journals'[j][k].event
      PROVE  i = k
  <2>1. CASE i \in 1 .. n /\ k \in 1 .. n
    BY <1>3, <1>7, <2>1 DEF JournalFits
  <2>2. CASE i = n + 1 /\ k \in 1 .. n
    BY <1>2, <1>3, <1>6, <1>7, <2>2
  <2>3. CASE k = n + 1 /\ i \in 1 .. n
    BY <1>2, <1>3, <1>6, <1>7, <2>3
  <2> QED
    BY <1>3, <1>5, <2>1, <2>2, <2>3
<1>8. \A i \in DOMAIN journals'[j] : journals'[j][i].event \in Finals => jobRows'[j].status \in Outcomes
  BY <1>2, <1>3, <1>4, <1>5
<1>9. InLog(j, [kind |-> kind, claim |-> c, event |-> e])'
  BY <1>1, <1>3 DEF InLog
<1> QED
  BY <1>7, <1>8, <1>9

\* Whatever happens to a job, its journal stays in order and what was acknowledged stays true.
LEMMA JournalMoves ==
  ASSUME TablesInv, SupabaseConstants, NEW j \in Jobs, Altered(j),
         \A a \in answered'[j] : a \in answered[j] \/ (a.kind \in Outcomes /\ jobRows'[j].status = a.kind)
  PROVE  JournalFits(j)'
<1>0. TablesTypeOK /\ JournalFits(j) /\ None \notin Finals /\ Reports \cap Finals = {}
  BY DEF TablesInv, JournalsFit, SupabaseConstants
<1>1. Kept(j) \/ jobRows[j].status \notin Outcomes
  BY DEF Altered, Offered, Claimed, Worked, Ended, Stopped, ClaimableJob, Leased, StoppableJobs, Active, Outcomes
<1>2. \A a \in answered'[j] :
        IF a.kind \in Outcomes THEN jobRows'[j].status = a.kind ELSE a.kind = "progress" /\ InLog(j, a)'
  <2>1. \A a \in answered[j] : IF a.kind \in Outcomes THEN Kept(j) ELSE a.kind = "progress" /\ InLog(j, a)'
    BY <1>0, <1>1, JournalsGrow DEF JournalFits
  <2>2. \A a \in answered[j] : a.kind \in Outcomes => jobRows[j].status = a.kind
    BY <1>0 DEF JournalFits
  <2> QED
    BY <2>1, <2>2 DEF Kept
<1>3. /\ \A i, k \in DOMAIN journals'[j] :
           journals'[j][i].kind = "progress" /\ journals'[j][k].kind = "progress" /\ journals'[j][i].event = journals'[j][k].event
             => i = k
      /\ \A i \in DOMAIN journals'[j] : journals'[j][i].event \in Finals => jobRows'[j].status \in Outcomes
  <2>1. CASE Kept(j)
    BY <1>0, <2>1 DEF Kept, JournalFits
  <2>2. CASE journals'[j] = journals[j] /\ jobRows[j].status \notin Outcomes
    BY <1>0, <2>2 DEF JournalFits
  <2>3. CASE Claimed(j) /\ jobRows[j].status \notin Outcomes
    <3>1. Entered(j, "claimed", jobRows[j].attempt + 1, None)
      BY <2>3 DEF Claimed
    <3> QED
      BY <1>0, <2>3, <3>1, EntryFits
  <2>4. ASSUME NEW e \in Reports, ~ Logged(j, e), Entered(j, "progress", jobRows[j].attempt, e),
               jobRows[j].status \notin Outcomes
        PROVE  /\ \A i, k \in DOMAIN journals'[j] :
                    journals'[j][i].kind = "progress" /\ journals'[j][k].kind = "progress"
                      /\ journals'[j][i].event = journals'[j][k].event => i = k
               /\ \A i \in DOMAIN journals'[j] : journals'[j][i].event \in Finals => jobRows'[j].status \in Outcomes
    <3>1. e \notin Finals
      BY <1>0
    <3> QED
      BY <1>0, <2>4, <3>1, EntryFits
  <2>5. CASE Ended(j) /\ jobRows[j].status \notin Outcomes
    <3>1. PICK outcome \in Outcomes, e \in Finals :
            jobRows'[j].status = outcome /\ Entered(j, outcome, jobRows[j].attempt, e)
      BY <2>5 DEF Ended
    <3>2. outcome # "progress"
      BY DEF Outcomes
    <3> QED
      BY <1>0, <2>5, <3>1, <3>2, EntryFits
  <2>6. CASE Stopped(j) /\ jobRows[j].status \notin Outcomes
    <3>1. Entered(j, "cancelled", jobRows[j].attempt, None)
      BY <2>6 DEF Stopped
    <3> QED
      BY <1>0, <2>6, <3>1, EntryFits
  <2> QED
    BY <1>1, <2>1, <2>2, <2>3, <2>4, <2>5, <2>6 DEF Altered, Offered, Worked
<1> QED
  BY <1>2, <1>3 DEF JournalFits

\* A job that can still be given or worked on was given to an active device, and stays with it.
LEMMA OwnerMoves ==
  ASSUME TablesInv, NEW j \in Jobs, Altered(j), deviceRows' = deviceRows,
         jobRows'[j].status \in {"pending"} \cup Active
  PROVE  jobRows'[j].device \in Devices /\ deviceRows'[jobRows'[j].device] = "active"
<1>1. CASE Offered(j)
  BY <1>1 DEF Offered
<1>2. CASE ~ Offered(j)
  <2>1. jobRows[j].status \in {"pending"} \cup Active /\ jobRows'[j].device = jobRows[j].device
    BY <1>2 DEF Altered, Kept, Claimed, Worked, Ended, Stopped, ClaimableJob, Leased, SameOwner, Outcomes, Active
  <2> QED
    BY <2>1 DEF TablesInv, JobsOwned
<1> QED
  BY <1>1, <1>2

\* A request about a job takes a step, and the job with it.
LEMMA JobMoves ==
  ASSUME TablesInv, SupabaseConstants, NEW r \in Requests, NEW x, Moves(r, x),
         NEW j \in Jobs, OneStep(j),
         agentCalls[r] # None, agentCalls[r].kind \notin {"pair", "heartbeat"},
         x # None => /\ x.kind = agentCalls[r].kind /\ x.device = agentCalls[r].device
                     /\ x.kind = "progress" /\ x.found =>
                          InLog(x.about, [kind |-> "progress", claim |-> x.claim, event |-> x.event])',
         UNCHANGED <<codes, deviceRows, folders, beats>>,
         answered' \in [Jobs -> SUBSET EventRow],
         \A a \in answered'[j] : a \in answered[j] \/ (a.kind \in Outcomes /\ jobRows'[j].status = a.kind),
         \A i \in Jobs : i # j => answered'[i] = answered[i]
  PROVE  TablesInv'
<1>1. /\ agentCalls' \in [Requests -> AgentCall \cup {None}] /\ RequestsFit'
      /\ agentCalls'[r] = x /\ \A q \in Requests \ {r} : agentCalls'[q] = agentCalls[q]
  BY Moved
<1>2. \A i \in Jobs : Altered(i)
  BY DEF OneStep, Altered
<1>3. TablesTypeOK'
  BY <1>1 DEF OneStep, RowsTyped, TablesInv, TablesTypeOK
<1>4. PairingsFit'
  BY PairingsKept
<1>5. HeartbeatsFit'
  BY HeartbeatsKept
<1>6. JobsOwned'
  BY <1>2, OwnerMoves DEF JobsOwned
<1>7. JournalsFit'
  <2>1. \A i \in Jobs : JournalFits(i)'
    BY <1>2, JournalMoves
  <2>2. ASSUME NEW q \in Requests, NEW y, y = agentCalls'[q], y # None, y.kind = "progress", y.found
        PROVE  InLog(y.about, [kind |-> "progress", claim |-> y.claim, event |-> y.event])'
    <3>1. CASE q = r
      BY <1>1, <2>2, <3>1
    <3>2. CASE q # r
      <4>1. /\ y = agentCalls[q] /\ y.about \in Jobs
            /\ InLog(y.about, [kind |-> "progress", claim |-> y.claim, event |-> y.event])
        BY <1>1, <2>2, <3>2, JobHolds DEF TablesInv, JournalsFit
      <4>2. TablesTypeOK
        BY DEF TablesInv
      <4> QED
        BY <1>2, <4>1, <4>2, JournalsGrow
    <3> QED
      BY <3>1, <3>2
  <2>3. \A q \in Requests :
          agentCalls'[q] # None /\ agentCalls'[q].kind = "progress" /\ agentCalls'[q].found =>
            \E i \in DOMAIN journals'[agentCalls'[q].about] :
              journals'[agentCalls'[q].about][i] =
                [kind |-> "progress", claim |-> agentCalls'[q].claim, event |-> agentCalls'[q].event]
    BY <2>2 DEF InLog
  <2> QED
    BY <2>1, <2>3 DEF JournalsFit, InLog
<1> QED
  BY <1>1, <1>3, <1>4, <1>5, <1>6, <1>7 DEF TablesInv

LEMMA AuthenticateInv ==
  ASSUME TablesInv, SupabaseConstants, NEW r \in Requests, NEW kind \in Kinds \ {"pair", "heartbeat"},
         NEW d \in Devices, NEW j \in Jobs, NEW c \in {0} \cup Claims, NEW e \in Reports \cup Finals \cup {None},
         kind = "progress" => e \in Reports, kind \in Outcomes => e \in Finals,
         AuthenticateAgent(r, kind, d, j, c, e)
  PROVE  TablesInv'
<1>1. /\ Begin(r, kind, d, j, c, e) /\ deviceRows[d] = "active"
      /\ UNCHANGED <<time, codes, deviceRows, folders, jobRows, journals, answered, beats>>
  BY DEF AuthenticateAgent
<1>2. /\ agentCalls[r] = None
      /\ \E x : Moves(r, x) /\ x.kind = kind /\ x.device = d /\ ~ x.found
  <2>1. Begins(r, kind, d, j, c, e)
    BY <1>1 DEF Begins
  <2> QED
    BY ONLY <2>1, TablesInv, SupabaseConstants, Begun
<1>3. PICK x : Moves(r, x) /\ x.kind = kind /\ x.device = d /\ ~ x.found
  BY <1>2
<1> QED
  BY <1>1, <1>2, <1>3, OthersKept

LEMMA ClaimOrRenewInv ==
  ASSUME TablesInv, SupabaseConstants, NEW r \in Requests, ClaimJob(r) \/ RenewJob(r)
  PROVE  TablesInv'
<1>1. /\ Moves(r, None) /\ UNCHANGED <<codes, deviceRows, folders, answered, beats>>
      /\ agentCalls[r] # None /\ agentCalls[r].kind \notin {"pair", "heartbeat"}
  BY DEF ClaimJob, RenewJob, End, Moves, At
<1>2. PICK j : j = agentCalls[r].about
  OBVIOUS
<1>3. j \in Jobs /\ OneStep(j)
  BY <1>2, ClaimJobStep, RenewJobStep
<1> QED
  BY <1>1, <1>3, JobMoves DEF TablesInv, TablesTypeOK

LEMMA WriteProgressInv ==
  ASSUME TablesInv, SupabaseConstants, NEW r \in Requests, WriteProgress(r)
  PROVE  TablesInv'
<1>0. /\ agentCalls[r] # None /\ agentCalls[r].kind = "progress"
      /\ UNCHANGED <<time, codes, deviceRows, folders, answered, beats>>
  BY DEF WriteProgress, At
<1>1. PICK w, j : w = agentCalls[r] /\ j = w.about
  OBVIOUS
<1>2. Bears(w) /\ w \in AgentCall /\ j \in Jobs /\ w.kind = "progress" /\ TablesTypeOK
  BY <1>0, <1>1, JobHolds
<1>3. CASE HoldsJob(r)
  <2>1. /\ OneStep(j)
        /\ ~ Logged(j, w.event) => Entered(j, "progress", w.claim, w.event)
    BY <1>1, <1>3, WriteProgressStep
  <2>2. PICK b \in BOOLEAN : b = ~ Logged(j, w.event)
    OBVIOUS
  <2>3. PICK x : x = [w EXCEPT !.at = "written", !.found = b]
    OBVIOUS
  <2>4. /\ x \in AgentCall /\ x.kind = "progress" /\ x.device = w.device /\ x.about = j
        /\ x.claim = w.claim /\ x.event = w.event /\ x.found = b
    BY <1>1, <1>2, <2>3 DEF AgentCall
  <2>5. Bears(x)
    BY <1>1, <1>2, <2>4 DEF Bears
  <2>6. agentCalls' = [agentCalls EXCEPT ![r].at = "written", ![r].found = b]
    BY <1>1, <1>3, <2>2 DEF WriteProgress
  <2>7. agentCalls' = [agentCalls EXCEPT ![r] = x]
    BY <1>1, <2>3, <2>6, Zenon
  <2>8. Moves(r, x)
    BY <2>5, <2>7 DEF Moves
  <2>9. x.found => InLog(x.about, [kind |-> "progress", claim |-> x.claim, event |-> x.event])'
    <3>1. x.found => Entered(j, "progress", w.claim, w.event)
      BY <2>1, <2>2, <2>4
    <3>2. PICK y : y = [kind |-> "progress", claim |-> w.claim, event |-> w.event]
      OBVIOUS
    <3>3. x.found => journals'[j] = Append(journals[j], y) /\ journals[j] \in Seq(EventRow)
      BY <1>2, <3>1, <3>2 DEF Entered, TablesTypeOK
    <3>4. x.found => InLog(j, y)'
      BY <3>3 DEF InLog
    <3> QED
      BY <2>4, <3>2, <3>4
  <2> QED
    BY <1>0, <1>1, <1>2, <2>1, <2>4, <2>8, <2>9, JobMoves DEF TablesTypeOK
<1>4. CASE ~ HoldsJob(r)
  <2>1. Step(r, "written") /\ jobRows' = jobRows /\ journals' = journals
    BY <1>4 DEF WriteProgress
  <2>2. PICK x : Advanced(w, "written", x)
    BY <1>2, Stepped
  <2>3. Moves(r, x)
    <3>1. agentCalls' = [agentCalls EXCEPT ![r].at = "written"]
      BY <2>1 DEF Step
    <3>2. agentCalls' = [agentCalls EXCEPT ![r] = x]
      BY <1>1, <2>2, <3>1, Zenon DEF Advanced
    <3> QED
      BY <2>2, <3>2 DEF Moves, Advanced
  <2>4. OneStep(j)
    BY <1>0, <1>2, <2>1 DEF OneStep, RowsTyped, Kept, TablesTypeOK
  <2>5. /\ x.kind = "progress" /\ x.device = w.device /\ x.found = w.found
        /\ x.about = w.about /\ x.claim = w.claim /\ x.event = w.event
    BY <1>2, <2>2 DEF Advanced
  <2>6. w.found => InLog(w.about, [kind |-> "progress", claim |-> w.claim, event |-> w.event])
    BY <1>0, <1>1, <1>2 DEF TablesInv, JournalsFit
  <2>7. x.found => InLog(x.about, [kind |-> "progress", claim |-> x.claim, event |-> x.event])'
    BY <2>1, <2>5, <2>6 DEF InLog
  <2> QED
    BY <1>0, <1>1, <1>2, <2>3, <2>4, <2>5, <2>7, JobMoves DEF TablesTypeOK
<1> QED
  BY <1>3, <1>4

LEMMA AnswerProgressInv ==
  ASSUME TablesInv, SupabaseConstants, NEW r \in Requests, AnswerProgress(r)
  PROVE  TablesInv'
<1>0. /\ agentCalls[r] # None /\ agentCalls[r].kind = "progress" /\ Moves(r, None)
      /\ UNCHANGED <<time, codes, deviceRows, folders, jobRows, journals, beats>>
  BY DEF AnswerProgress, At, End, Moves
<1>1. PICK w, j : w = agentCalls[r] /\ j = w.about
  OBVIOUS
<1>2. w \in AgentCall /\ j \in Jobs /\ w.kind = "progress" /\ TablesTypeOK
  BY <1>0, <1>1, JobHolds
<1>3. PICK y : y = [kind |-> "progress", claim |-> w.claim, event |-> w.event]
  OBVIOUS
<1>4. y \in EventRow /\ y.kind = "progress"
  BY <1>2, <1>3 DEF EventRow, AgentCall
<1>5. /\ answered' \in [Jobs -> SUBSET EventRow] /\ \A i \in Jobs : i # j => answered'[i] = answered[i]
      /\ \A a \in answered'[j] : a \in answered[j] \/ (a = y /\ w.found)
  <2>1. answered' = answered \/ (w.found /\ answered' = [answered EXCEPT ![j] = answered[j] \cup {y}])
    BY <1>1, <1>3 DEF AnswerProgress, Acknowledge
  <2>2. CASE answered' = answered
    BY <1>2, <2>2 DEF TablesTypeOK
  <2>3. CASE w.found /\ answered' = [answered EXCEPT ![j] = answered[j] \cup {y}]
    BY <1>2, <1>4, <2>3 DEF TablesTypeOK
  <2> QED
    BY <2>1, <2>2, <2>3
<1>6. w.found => InLog(j, y)
  BY <1>0, <1>1, <1>2, <1>3 DEF TablesInv, JournalsFit
<1>7. /\ agentCalls' \in [Requests -> AgentCall \cup {None}] /\ RequestsFit'
      /\ agentCalls'[r] = None /\ \A q \in Requests \ {r} : agentCalls'[q] = agentCalls[q]
  BY <1>0, Moved
<1>8. TablesTypeOK'
  BY <1>0, <1>5, <1>7 DEF TablesInv, TablesTypeOK
<1>9. PairingsFit' /\ HeartbeatsFit'
  BY <1>0, PairingsKept, HeartbeatsKept
<1>10. JobsOwned'
  BY <1>0 DEF TablesInv, JobsOwned
<1>11. JournalsFit'
  <2>1. \A i, entry : InLog(i, entry)' <=> InLog(i, entry)
    BY <1>0 DEF InLog
  <2>2. ASSUME NEW i \in Jobs
        PROVE  JournalFits(i)'
    <3>1. JournalFits(i)
      BY DEF TablesInv, JournalsFit
    <3>2. \A a \in answered'[i] : a \in answered[i] \/ (a.kind = "progress" /\ InLog(i, a))
      BY <1>4, <1>5, <1>6
    <3>3. \A a \in answered'[i] :
            IF a.kind \in Outcomes THEN jobRows'[i].status = a.kind ELSE a.kind = "progress" /\ InLog(i, a)'
      BY <1>0, <2>1, <3>1, <3>2 DEF JournalFits, Outcomes
    <3> QED
      BY <1>0, <3>1, <3>3 DEF JournalFits
  <2>3. \A q \in Requests :
          agentCalls'[q] # None /\ agentCalls'[q].kind = "progress" /\ agentCalls'[q].found =>
            \E i \in DOMAIN journals'[agentCalls'[q].about] :
              journals'[agentCalls'[q].about][i] =
                [kind |-> "progress", claim |-> agentCalls'[q].claim, event |-> agentCalls'[q].event]
    BY <1>0, <1>7 DEF TablesInv, JournalsFit, InLog
  <2> QED
    BY <2>2, <2>3 DEF JournalsFit, InLog
<1> QED
  BY <1>7, <1>8, <1>9, <1>10, <1>11 DEF TablesInv

LEMMA FinishJobInv ==
  ASSUME TablesInv, SupabaseConstants, NEW r \in Requests, FinishAgentJob(r)
  PROVE  TablesInv'
<1>0. /\ agentCalls[r] # None /\ agentCalls[r].kind \in Outcomes /\ Moves(r, None)
      /\ UNCHANGED <<codes, deviceRows, folders, beats>>
  BY DEF FinishAgentJob, At, End, Moves
<1>1. PICK w, j : w = agentCalls[r] /\ j = w.about
  OBVIOUS
<1>2. j \in Jobs /\ OneStep(j) /\ w.kind \in Outcomes /\ jobRows'[j].status = w.kind
  BY <1>1, FinishJobStep
<1>3. PICK y : y = [kind |-> w.kind, claim |-> 0, event |-> None]
  OBVIOUS
<1>4. y \in EventRow /\ y.kind = w.kind
  BY <1>2, <1>3 DEF EventRow
<1>5. answered' = [answered EXCEPT ![j] = answered[j] \cup {y}]
  BY <1>1, <1>3 DEF FinishAgentJob, Acknowledge
<1>6. /\ answered' \in [Jobs -> SUBSET EventRow] /\ \A i \in Jobs : i # j => answered'[i] = answered[i]
      /\ \A a \in answered'[j] : a \in answered[j] \/ a = y
  BY <1>2, <1>4, <1>5 DEF TablesInv, TablesTypeOK
<1>7. agentCalls[r].kind \notin {"pair", "heartbeat"}
  BY <1>0 DEF Outcomes
<1> QED
  BY <1>0, <1>2, <1>4, <1>6, <1>7, JobMoves

LEMMA SeedJobInv ==
  ASSUME TablesInv, SupabaseConstants, NEW j \in Jobs, NEW d \in Devices, InsertJob(j, d)
  PROVE  TablesInv'
<1>1. OneStep(j) /\ UNCHANGED <<time, codes, deviceRows, folders, journals, agentCalls, answered, beats>>
  BY SeedJobStep DEF InsertJob
<1>2. \A i \in Jobs : Altered(i)
  BY <1>1 DEF OneStep, Altered
<1>3. TablesTypeOK'
  BY <1>1 DEF OneStep, RowsTyped, TablesInv, TablesTypeOK
<1>4. PairingsFit' /\ RequestsFit' /\ HeartbeatsFit'
  BY <1>1 DEF TablesInv, PairingsFit, Pairing, CodeTaken, TenantTaken, DevicesThat, Consumed,
              RequestsFit, HeartbeatsFit, Beating, OnItsWay
<1>5. JobsOwned'
  BY <1>1, <1>2, OwnerMoves DEF JobsOwned
<1>6. \A i \in Jobs : JournalFits(i)'
  BY <1>1, <1>2, JournalMoves
<1>7. JournalsFit'
  BY <1>1, <1>6 DEF TablesInv, JournalsFit, InLog
<1> QED
  BY <1>3, <1>4, <1>5, <1>7 DEF TablesInv

LEMMA StopInv ==
  ASSUME TablesInv, SupabaseConstants, NEW S \in SUBSET StoppableJobs, Cancelled(S), agentCalls' = agentCalls,
         UNCHANGED <<time, codes, folders, answered, beats>>
  PROVE  /\ jobRows' \in [Jobs -> JobRow] /\ journals' \in [Jobs -> Seq(EventRow)]
         /\ RequestsFit' /\ HeartbeatsFit' /\ JournalsFit'
         /\ \A j \in Jobs : IF j \in S THEN jobRows'[j].status = "cancelled" ELSE jobRows'[j] = jobRows[j]
<1>1. StopStep /\ (\A j \in Jobs : j \in S => Stopped(j)) /\ (\A j \in Jobs : j \notin S => Kept(j))
  BY CancelledStep
<1>2. \A j \in Jobs : Altered(j)
  BY <1>1 DEF Altered
<1>3. RequestsFit' /\ HeartbeatsFit'
  BY DEF TablesInv, RequestsFit, HeartbeatsFit, Beating, OnItsWay
<1>4. \A j \in Jobs : JournalFits(j)'
  BY <1>2, JournalMoves
<1>5. TablesTypeOK
  BY DEF TablesInv
<1>6. \A j \in Jobs : \A entry : InLog(j, entry) => InLog(j, entry)'
  BY <1>2, <1>5, JournalsGrow
<1>7. ASSUME NEW q \in Requests, agentCalls[q] # None, agentCalls[q].kind = "progress", agentCalls[q].found
      PROVE  InLog(agentCalls[q].about,
                   [kind |-> "progress", claim |-> agentCalls[q].claim, event |-> agentCalls[q].event])'
  <2>1. PICK j, y : /\ j = agentCalls[q].about
                    /\ y = [kind |-> "progress", claim |-> agentCalls[q].claim, event |-> agentCalls[q].event]
    OBVIOUS
  <2>2. j \in Jobs /\ InLog(j, y)
    BY <1>7, <2>1, JobHolds DEF TablesInv, JournalsFit
  <2>3. InLog(j, y)'
    BY <1>6, <2>2
  <2> QED
    BY <2>1, <2>3 DEF InLog
<1>8. JournalsFit'
  BY <1>4, <1>7 DEF JournalsFit
<1> QED
  BY <1>1, <1>3, <1>8 DEF StopStep, RowsTyped, Stopped, Kept

LEMMA CancelJobInv ==
  ASSUME TablesInv, SupabaseConstants, NEW j \in Jobs, CancelAgentJob(j)
  PROVE  TablesInv'
<1>1. /\ Cancelled({j}) /\ {j} \in SUBSET StoppableJobs
      /\ UNCHANGED <<time, codes, deviceRows, folders, agentCalls, answered, beats>>
  BY DEF CancelAgentJob
<1>2. /\ jobRows' \in [Jobs -> JobRow] /\ journals' \in [Jobs -> Seq(EventRow)]
      /\ RequestsFit' /\ HeartbeatsFit' /\ JournalsFit'
      /\ \A i \in Jobs : IF i \in {j} THEN jobRows'[i].status = "cancelled" ELSE jobRows'[i] = jobRows[i]
  BY <1>1, StopInv
<1>3. TablesTypeOK'
  BY <1>1, <1>2 DEF TablesInv, TablesTypeOK
<1>4. PairingsFit'
  BY <1>1 DEF TablesInv, PairingsFit, Pairing, CodeTaken, TenantTaken, DevicesThat, Consumed
<1>5. JobsOwned'
  BY <1>1, <1>2 DEF TablesInv, JobsOwned, Active
<1> QED
  BY <1>2, <1>3, <1>4, <1>5 DEF TablesInv

\* A revocation makes room for a device, and takes the jobs of its device with it.
LEMMA RevokeDeviceInv ==
  ASSUME TablesInv, SupabaseConstants, NEW d \in Devices, RevokeAgentDevice(d)
  PROVE  TablesInv'
<1> DEFINE S == {j \in StoppableJobs : jobRows[j].device = d}
<1>1. /\ Cancelled(S) /\ S \in SUBSET StoppableJobs /\ deviceRows[d] = "active"
      /\ deviceRows' = [deviceRows EXCEPT ![d] = "revoked"]
      /\ UNCHANGED <<time, codes, folders, agentCalls, answered, beats>>
  BY DEF RevokeAgentDevice
<1>2. /\ jobRows' \in [Jobs -> JobRow] /\ journals' \in [Jobs -> Seq(EventRow)]
      /\ RequestsFit' /\ HeartbeatsFit' /\ JournalsFit'
      /\ \A j \in Jobs : IF j \in S THEN jobRows'[j].status = "cancelled" ELSE jobRows'[j] = jobRows[j]
  BY <1>1, StopInv
<1>3. /\ deviceRows' \in [Devices -> {"none", "active", "revoked"}]
      /\ deviceRows'[d] = "revoked" /\ \A e \in Devices : e # d => deviceRows'[e] = deviceRows[e]
  BY <1>1 DEF TablesInv, TablesTypeOK
<1>4. TablesTypeOK'
  BY <1>1, <1>2, <1>3 DEF TablesInv, TablesTypeOK
<1>5. JobsOwned'
  <2>1. ASSUME NEW j \in Jobs, jobRows'[j].status \in {"pending"} \cup Active
        PROVE  jobRows'[j].device \in Devices /\ deviceRows'[jobRows'[j].device] = "active"
    <3>1. j \notin S /\ jobRows'[j] = jobRows[j]
      BY <1>2, <2>1 DEF Active
    <3>2. jobRows[j].device \in Devices /\ deviceRows[jobRows[j].device] = "active" /\ jobRows[j].device # d
      BY <2>1, <3>1 DEF TablesInv, JobsOwned, StoppableJobs
    <3> QED
      BY <1>3, <3>1, <3>2
  <2> QED
    BY <2>1 DEF JobsOwned
<1>6. PairingsFit'
  <2>1. PairingsFit
    BY DEF TablesInv
  <2>2. \A r \in Requests : Pairing(r)' = Pairing(r) /\ CodeTaken(r)' = CodeTaken(r) /\ TenantTaken(r)' = TenantTaken(r)
    BY <1>1 DEF Pairing, CodeTaken, TenantTaken
  <2>3. DevicesThat({"active", "revoked"})' = DevicesThat({"active", "revoked"}) /\ Consumed' = Consumed
    BY <1>1, <1>3 DEF DevicesThat, Consumed
  <2>4. /\ DevicesThat({"active"})' = DevicesThat({"active"}) \ {d}
        /\ DevicesThat({"active"}) \subseteq DevicesThat({"active", "revoked"})
    BY <1>1, <1>3 DEF DevicesThat
  <2>5. IsFiniteSet(DevicesThat({"active"}))
    BY <2>1, <2>4, FS_Subset DEF PairingsFit
  <2>6. /\ Cardinality(DevicesThat({"active"})') <= Cardinality(DevicesThat({"active"}))
        /\ Cardinality(DevicesThat({"active"})') \in Nat /\ Cardinality(DevicesThat({"active"})) \in Nat
    BY <2>4, <2>5, FS_Subset, FS_CardinalityType
  <2>7. DeviceLimit \in Nat
    BY DEF SupabaseConstants
  <2>8. \A r \in Requests : Pairing(r) => deviceRows'[agentCalls[r].device] = "none"
    <3>1. \A r \in Requests : Pairing(r) => deviceRows[agentCalls[r].device] = "none" /\ agentCalls[r].device \in Devices
      BY PairingHolds
    <3> QED
      BY <1>1, <1>3, <3>1
  <2> QED
    BY <1>1, <2>1, <2>2, <2>3, <2>6, <2>7, <2>8 DEF PairingsFit
<1> QED
  BY <1>2, <1>4, <1>5, <1>6 DEF TablesInv

LEMMA TimeInv ==
  ASSUME TablesInv, SupabaseConstants, TablesTick \/ UNCHANGED tablesVars
  PROVE  TablesInv'
<1>1. UNCHANGED <<codes, deviceRows, folders, jobRows, journals, agentCalls, answered, beats>>
  BY DEF TablesTick, tablesVars
<1>2. time' \in 0 .. MaxTime
  BY DEF TablesInv, TablesTypeOK, TablesTick, tablesVars, SupabaseConstants
<1>3. TablesTypeOK'
  BY <1>1, <1>2 DEF TablesInv, TablesTypeOK
<1>4. PairingsFit' /\ RequestsFit' /\ HeartbeatsFit'
  BY <1>1 DEF TablesInv, PairingsFit, Pairing, CodeTaken, TenantTaken, DevicesThat, Consumed,
              RequestsFit, HeartbeatsFit, Beating, OnItsWay
<1>5. JobsOwned' /\ JournalsFit'
  BY <1>1 DEF TablesInv, JobsOwned, JournalsFit, JournalFits, InLog
<1> QED
  BY <1>3, <1>4, <1>5 DEF TablesInv

LEMMA TablesNextInv ==
  ASSUME TablesInv, SupabaseConstants, [TablesNext]_tablesVars
  PROVE  TablesInv'
<1>1. CASE PairingsNext
  BY <1>1, StartPairingInv, FindPairingInv, TakeCodeInv, LockTenantInv, CountDevicesInv, CommitPairingInv
     DEF PairingsNext
<1>2. CASE HeartbeatNext
  BY <1>2, SendHeartbeatInv, RecordHeartbeatInv, ListFoldersInv, WriteFolderInv, DeleteStaleInv DEF HeartbeatNext
<1>3. CASE JobNext
  <2>1. ASSUME NEW r \in Requests, NEW d \in Devices, NEW j \in Jobs, AuthenticateAgent(r, "claim", d, j, 0, None)
        PROVE  TablesInv'
    BY <2>1, AuthenticateInv DEF Kinds, Outcomes
  <2>2. ASSUME NEW r \in Requests, NEW d \in Devices, NEW j \in Jobs, NEW c \in 1 .. jobRows[j].attempt,
               \/ AuthenticateAgent(r, "renew", d, j, c, None)
               \/ \E e \in Reports : AuthenticateAgent(r, "progress", d, j, c, e)
               \/ \E e \in Finals, outcome \in Outcomes : AuthenticateAgent(r, outcome, d, j, c, e)
        PROVE  TablesInv'
    <3>1. c \in {0} \cup Claims
      <4>1. MaxAttempts \in Nat
        BY DEF SupabaseConstants
      <4>2. jobRows[j].attempt \in {0} \cup 1 .. MaxAttempts
        BY DEF TablesInv, TablesTypeOK, JobRow, Claims
      <4> QED
        BY <4>1, <4>2 DEF Claims
    <3>2. /\ Outcomes \subseteq Kinds \ {"pair", "heartbeat"}
          /\ "renew" \in Kinds \ {"pair", "heartbeat"} /\ "progress" \in Kinds \ {"pair", "heartbeat"}
          /\ "renew" \notin Outcomes /\ "progress" \notin Outcomes
      BY DEF Kinds, Outcomes
    <3> QED
      BY <2>2, <3>1, <3>2, AuthenticateInv
  <2> QED
    BY <1>3, <2>1, <2>2, ClaimOrRenewInv, WriteProgressInv, AnswerProgressInv, FinishJobInv,
       CancelJobInv, SeedJobInv DEF JobNext
<1> QED
  BY <1>1, <1>2, <1>3, DropInv, RevokeDeviceInv, TimeInv DEF TablesNext

LEMMA TablesInvariant ==
  ASSUME SupabaseConstants
  PROVE  TablesSpec => []TablesInv
<1>1. TablesInit => TablesInv
  BY TablesInitInv
<1>2. TablesInv /\ [TablesNext]_tablesVars => TablesInv'
  BY TablesNextInv
<1> QED
  BY <1>1, <1>2, PTL DEF TablesSpec

LEMMA TablesInvIsSafe ==
  ASSUME TablesInv
  PROVE  TablesSafe
<1>1. TablesTypeOK
  BY DEF TablesInv
<1>2. WithinDeviceLimit
  <2>1. /\ {d \in Devices : deviceRows[d] = "active"} = DevicesThat({"active"})
        /\ {d \in Devices : deviceRows[d] # "none"} = DevicesThat({"active", "revoked"})
    BY <1>1 DEF TablesTypeOK, DevicesThat
  <2> QED
    BY <2>1 DEF TablesInv, PairingsFit, WithinDeviceLimit, Consumed
<1>3. RevokedHasNoJob /\ FoldersFollow
  BY DEF TablesInv, JobsOwned, RevokedHasNoJob, HeartbeatsFit, FoldersFollow
<1>4. AcknowledgedIsKept
  <2>1. ASSUME NEW j \in Jobs, NEW a \in answered[j], a.kind \notin Outcomes
        PROVE  Cardinality({i \in DOMAIN journals[j] : journals[j][i] = a}) = 1
    <3>1. JournalFits(j) /\ a.kind = "progress" /\ InLog(j, a)
      BY <2>1 DEF TablesInv, JournalsFit, JournalFits
    <3>2. PICK i \in DOMAIN journals[j] : journals[j][i] = a
      BY <3>1 DEF InLog
    <3>3. {k \in DOMAIN journals[j] : journals[j][k] = a} = {i}
      BY <3>1, <3>2 DEF JournalFits
    <3> QED
      BY <3>3, FS_Singleton
  <2> QED
    BY <2>1 DEF AcknowledgedIsKept, TablesInv, JournalsFit, JournalFits
<1> QED
  BY <1>1, <1>2, <1>3, <1>4 DEF TablesSafe

\* Whatever the requests of Agents overlap with, the tables of production are in order: within
\* the plan's number of devices, each code used once; no revoked device has work; what was
\* acknowledged is kept; and the folders follow the last undisturbed heartbeat.
THEOREM TablesAreSafe == TablesSpec => []TablesSafe
  BY SupabaseAssumption, TablesInvariant, TablesInvIsSafe, PTL

-----------------------------------------------------------------------------
(* The tables implement JobLease *)

\* A step leaves all jobs alone, or serves one of them, or stops some.
LEMMA StepShapes ==
  ASSUME TablesInv, SupabaseConstants, [TablesNext]_tablesVars
  PROVE  \/ UNCHANGED <<jobRows, journals>> /\ time <= time'
         \/ \E j \in Jobs : OneStep(j)
         \/ StopStep
<1>0. time \in Nat
  BY DEF TablesInv, TablesTypeOK
<1>1. CASE PairingsNext \/ HeartbeatNext
  <2>1. \A k : CreatePairing(k) => UNCHANGED <<jobRows, journals, time>>
    BY DEF CreatePairing
  <2>2. \A r, k, d : FindPairingByHash(r, k, d) => UNCHANGED <<jobRows, journals, time>>
    BY DEF FindPairingByHash
  <2>3. \A r : TakeCode(r) \/ LockTenant(r) \/ CountDevices(r) \/ CommitPairing(r) => UNCHANGED <<jobRows, journals, time>>
    BY DEF TakeCode, LockTenant, CountDevices, CommitPairing
  <2>4. \A r, d, F : SendHeartbeat(r, d, F) => UNCHANGED <<jobRows, journals, time>>
    BY DEF SendHeartbeat
  <2>5. \A r, f : RecordHeartbeat(r) \/ ListFolders(r) \/ WriteFolder(r, f) \/ DeleteStale(r)
          => UNCHANGED <<jobRows, journals, time>>
    BY DEF RecordHeartbeat, ListFolders, WriteFolder, DeleteStale
  <2>6. UNCHANGED <<jobRows, journals, time>>
    BY <1>1, <2>1, <2>2, <2>3, <2>4, <2>5 DEF PairingsNext, HeartbeatNext
  <2> QED
    BY <1>0, <2>6
<1>2. ASSUME NEW r \in Requests, ClaimJob(r) \/ RenewJob(r) \/ FinishAgentJob(r)
      PROVE  \E j \in Jobs : OneStep(j)
  <2>1. PICK j : j = agentCalls[r].about
    OBVIOUS
  <2> QED
    BY <1>2, <2>1, ClaimJobStep, RenewJobStep, FinishJobStep
<1>3. ASSUME NEW r \in Requests, WriteProgress(r)
      PROVE  UNCHANGED <<jobRows, journals, time>> \/ \E j \in Jobs : OneStep(j)
  <2>1. PICK j : j = agentCalls[r].about
    OBVIOUS
  <2>2. CASE HoldsJob(r)
    BY <1>3, <2>1, <2>2, WriteProgressStep
  <2>3. CASE ~ HoldsJob(r)
    BY <1>3, <2>3 DEF WriteProgress
  <2> QED
    BY <2>2, <2>3
<1>4. ASSUME NEW r \in Requests, AnswerProgress(r) \/ Drop(r)
      PROVE  UNCHANGED <<jobRows, journals, time>>
  BY <1>4 DEF AnswerProgress, Drop
<1>5. ASSUME NEW r \in Requests, NEW kind, NEW d \in Devices, NEW j \in Jobs, NEW c, NEW e,
             AuthenticateAgent(r, kind, d, j, c, e)
      PROVE  UNCHANGED <<jobRows, journals, time>>
  BY <1>5 DEF AuthenticateAgent
<1>6. ASSUME NEW j \in Jobs, CancelAgentJob(j)
      PROVE  StopStep
  <2>1. Cancelled({j}) /\ {j} \in SUBSET StoppableJobs /\ time' = time
    BY <1>6 DEF CancelAgentJob
  <2> QED
    BY <2>1, CancelledStep
<1>7. ASSUME NEW j \in Jobs, NEW d \in Devices, InsertJob(j, d)
      PROVE  OneStep(j)
  BY <1>7, SeedJobStep
<1>8. CASE JobNext
  BY <1>0, <1>2, <1>3, <1>4, <1>5, <1>6, <1>7, <1>8 DEF JobNext
<1>9. ASSUME NEW d \in Devices, RevokeAgentDevice(d)
      PROVE  StopStep
  <2> DEFINE S == {j \in StoppableJobs : jobRows[j].device = d}
  <2>1. Cancelled(S) /\ S \in SUBSET StoppableJobs /\ time' = time
    BY <1>9 DEF RevokeAgentDevice
  <2> HIDE DEF S
  <2> QED
    BY <2>1, CancelledStep
<1>10. CASE TablesTick \/ UNCHANGED tablesVars
  BY <1>0, <1>10 DEF TablesTick, tablesVars
<1> QED
  BY <1>0, <1>1, <1>4, <1>8, <1>9, <1>10 DEF TablesNext

\* The state of JobLease that a state of the tables stands for.
Phases == [j \in Jobs |-> RowPhase(j)]
Epochs == [j \in Jobs |-> jobRows[j].attempt]
Entries(j) == [i \in DOMAIN journals[j] |-> <<journals[j][i].kind, journals[j][i].claim>>]
Journals == [j \in Jobs |-> Entries(j)]

\* An entry of a journal is an entry of the promised one.
LEMMA EntryAdded ==
  ASSUME TablesTypeOK, NEW j \in Jobs, NEW kind, NEW c, NEW e, Entered(j, kind, c, e)
  PROVE  Entries(j)' = Append(Entries(j), <<kind, c>>)
<1> DEFINE x == [kind |-> kind, claim |-> c, event |-> e]
           n == Len(journals[j])
<1>1. journals[j] \in Seq(EventRow) /\ journals'[j] = Append(journals[j], x)
  BY DEF TablesTypeOK, Entered
<1>2. /\ n \in Nat /\ DOMAIN journals[j] = 1 .. n /\ DOMAIN journals'[j] = 1 .. n + 1
      /\ \A i \in 1 .. n : journals'[j][i] = journals[j][i]
      /\ journals'[j][n + 1] = x
  BY <1>1
<1>3. x.kind = kind /\ x.claim = c
  OBVIOUS
<1>4. Entries(j) \in Seq({<<journals[j][i].kind, journals[j][i].claim>> : i \in 1 .. n}) /\ Len(Entries(j)) = n
  BY <1>2 DEF Entries
<1>5. Entries(j)' = [i \in 1 .. n + 1 |-> <<journals'[j][i].kind, journals'[j][i].claim>>]
  BY <1>2 DEF Entries
<1> HIDE DEF x, n
<1>6. Append(Entries(j), <<kind, c>>) = [i \in 1 .. n + 1 |-> IF i = n + 1 THEN <<kind, c>> ELSE Entries(j)[i]]
  BY <1>2, <1>4
<1>7. \A i \in 1 .. n : Entries(j)[i] = <<journals[j][i].kind, journals[j][i].claim>>
  BY <1>2 DEF Entries
<1>8. ASSUME NEW i \in 1 .. n + 1
      PROVE  <<journals'[j][i].kind, journals'[j][i].claim>> = IF i = n + 1 THEN <<kind, c>> ELSE Entries(j)[i]
  <2>1. CASE i = n + 1
    BY <1>2, <1>3, <2>1
  <2>2. CASE i \in 1 .. n
    BY <1>2, <1>7, <2>2
  <2> QED
    BY <1>2, <2>1, <2>2
<1> QED
  BY <1>5, <1>6, <1>8

LEMMA PhaseValues ==
  ASSUME NEW j \in Jobs
  PROVE  /\ Leased(j) => RowPhase(j) = "held"
         /\ jobRows[j].status \in {"pending"} \cup Active /\ ~ Leased(j) => RowPhase(j) = "free"
         /\ jobRows[j].status \notin {"pending"} \cup Active => RowPhase(j) = jobRows[j].status
  BY DEF RowPhase, Leased

\* What each kind of step does to the phase, the epoch and the journal of one job.
Becomes(j, phase, epoch, entries) ==
  RowPhase(j)' = phase /\ jobRows'[j].attempt = epoch /\ Entries(j)' = entries

LEMMA KeptMaps ==
  ASSUME NEW j \in Jobs, Kept(j), time' = time
  PROVE  Becomes(j, RowPhase(j), jobRows[j].attempt, Entries(j))
  BY DEF Kept, Becomes, RowPhase, Leased, Entries

LEMMA OfferedMaps ==
  ASSUME NEW j \in Jobs, Offered(j), time' = time
  PROVE  RowPhase(j) = "none" /\ Becomes(j, "free", jobRows[j].attempt, Entries(j))
<1>1. RowPhase(j) = "none"
  BY PhaseValues DEF Offered, Active
<1>2. RowPhase(j)' = "free"
  BY DEF Offered, RowPhase, Leased, Active
<1> QED
  BY <1>1, <1>2 DEF Becomes, Entries, Offered

LEMMA ClaimedMaps ==
  ASSUME TablesTypeOK, SupabaseConstants, NEW j \in Jobs, Claimed(j), time' = time
  PROVE  /\ RowPhase(j) = "free"
         /\ Becomes(j, "held", jobRows[j].attempt + 1,
                    Append(Entries(j), <<"claimed", jobRows[j].attempt + 1>>))
<1>1. RowPhase(j) = "free"
  BY PhaseValues DEF Claimed, ClaimableJob
<1>2. RowPhase(j)' = "held"
  <2>1. time \in Nat /\ time + Lease > time
    BY DEF TablesTypeOK, SupabaseConstants
  <2> QED
    BY <2>1 DEF Claimed, RowPhase, Leased, Active
<1>3. Entries(j)' = Append(Entries(j), <<"claimed", jobRows[j].attempt + 1>>)
  BY EntryAdded DEF Claimed
<1> QED
  BY <1>1, <1>2, <1>3 DEF Becomes, Claimed

LEMMA WorkedMaps ==
  ASSUME TablesTypeOK, SupabaseConstants, NEW j \in Jobs, Worked(j), time' = time
  PROVE  /\ RowPhase(j) = "held"
         /\ \/ Becomes(j, "held", jobRows[j].attempt, Entries(j))
            \/ Becomes(j, "held", jobRows[j].attempt,
                       Append(Entries(j), <<"progress", jobRows[j].attempt>>))
<1>1. RowPhase(j) = "held"
  BY PhaseValues DEF Worked
<1>2. RowPhase(j)' = "held"
  <2>1. time \in Nat /\ time + Lease > time
    BY DEF TablesTypeOK, SupabaseConstants
  <2> QED
    BY <2>1 DEF Worked, RowPhase, Leased, Active
<1>3. CASE journals'[j] = journals[j]
  BY <1>1, <1>2, <1>3 DEF Becomes, Entries, Worked, SameOwner
<1>4. CASE \E e \in Reports : Entered(j, "progress", jobRows[j].attempt, e)
  <2>1. Entries(j)' = Append(Entries(j), <<"progress", jobRows[j].attempt>>)
    BY <1>4, EntryAdded
  <2> QED
    BY <1>1, <1>2, <2>1 DEF Becomes, Worked, SameOwner
<1> QED
  BY <1>3, <1>4 DEF Worked

LEMMA EndedMaps ==
  ASSUME TablesTypeOK, NEW j \in Jobs, Ended(j), time' = time
  PROVE  /\ RowPhase(j) = "held"
         /\ \E outcome \in Outcomes :
              Becomes(j, outcome, jobRows[j].attempt, Append(Entries(j), <<outcome, jobRows[j].attempt>>))
<1>1. RowPhase(j) = "held"
  BY PhaseValues DEF Ended
<1>2. PICK outcome \in Outcomes, e \in Finals :
        jobRows'[j].status = outcome /\ Entered(j, outcome, jobRows[j].attempt, e)
  BY DEF Ended
<1>3. RowPhase(j)' = outcome
  BY <1>2 DEF RowPhase, Leased, Active, Outcomes
<1>4. Entries(j)' = Append(Entries(j), <<outcome, jobRows[j].attempt>>)
  BY <1>2, EntryAdded
<1> QED
  BY <1>1, <1>3, <1>4 DEF Becomes, Ended, SameOwner

LEMMA StoppedMaps ==
  ASSUME TablesTypeOK, NEW j \in Jobs, Stopped(j), time' = time
  PROVE  /\ RowPhase(j) \in {"free", "held"}
         /\ Becomes(j, "cancelled", jobRows[j].attempt, Append(Entries(j), <<"cancelled", jobRows[j].attempt>>))
<1>1. RowPhase(j) \in {"free", "held"}
  BY PhaseValues DEF Stopped, StoppableJobs
<1>2. RowPhase(j)' = "cancelled"
  BY DEF Stopped, RowPhase, Leased, Active
<1>3. Entries(j)' = Append(Entries(j), <<"cancelled", jobRows[j].attempt>>)
  BY EntryAdded DEF Stopped
<1> QED
  BY <1>1, <1>2, <1>3 DEF Becomes, Stopped, SameOwner

\* Every step of the tables is a step of JobLease, or leaves what JobLease sees alone.
LEMMA PromiseStep ==
  ASSUME TablesInv, SupabaseConstants, TablesTypeOK', [TablesNext]_tablesVars
  PROVE  TablesPromise!Next \/ UNCHANGED TablesPromise!vars
<1>0. TablesTypeOK
  BY DEF TablesInv
<1>1. CASE UNCHANGED <<jobRows, journals>> /\ time <= time'
  <2> DEFINE S == {j \in Jobs : Leased(j) /\ ~ Leased(j)'}
  <2>1. ASSUME NEW j \in Jobs
        PROVE  /\ j \in S => RowPhase(j) = "held" /\ RowPhase(j)' = "free"
               /\ j \notin S => RowPhase(j)' = RowPhase(j)
    <3>1. time \in Nat /\ time' \in Nat /\ jobRows[j].until \in Nat
      BY DEF TablesInv, TablesTypeOK, JobRow
    <3>2. Leased(j)' => Leased(j)
      BY <1>1, <3>1 DEF Leased
    <3> QED
      BY <1>1, <3>2 DEF RowPhase, Leased
  <2> HIDE DEF S
  <2>2. S \in SUBSET Jobs
    BY DEF S
  <2>3. TablesPromise!Lapse(S)
    BY <1>1, <2>1, <2>2, Zenon DEF TablesPromise!Lapse
  <2> QED
    BY <2>2, <2>3 DEF TablesPromise!Next
<1>2. ASSUME NEW j \in Jobs, OneStep(j)
      PROVE  TablesPromise!Next \/ UNCHANGED TablesPromise!vars
  <2>1. /\ time' = time
        /\ Offered(j) \/ Claimed(j) \/ Worked(j) \/ Ended(j) \/ Kept(j)
        /\ \A i \in Jobs : i # j => Becomes(i, RowPhase(i), jobRows[i].attempt, Entries(i))
    BY <1>2, KeptMaps DEF OneStep
  <2>2. CASE Offered(j)
    <3>1. RowPhase(j) = "none" /\ Becomes(j, "free", jobRows[j].attempt, Entries(j))
      BY <1>0, <2>1, <2>2, OfferedMaps
    <3>2. TablesPromise!Offer(j)
      BY <2>1, <3>1 DEF TablesPromise!Offer, Becomes, Entries
    <3> QED
      BY <3>2 DEF TablesPromise!Next
  <2>3. CASE Claimed(j)
    <3>1. /\ RowPhase(j) = "free"
          /\ Becomes(j, "held", jobRows[j].attempt + 1,
                     Append(Entries(j), <<"claimed", jobRows[j].attempt + 1>>))
      BY <1>0, <2>1, <2>3, ClaimedMaps
    <3>2. /\ Phases[j] = "free"
          /\ Phases' = [Phases EXCEPT ![j] = "held"]
      BY <2>1, <3>1 DEF Phases, Becomes
    <3>3. Epochs' = [Epochs EXCEPT ![j] = Epochs[j] + 1]
      BY <2>1, <3>1 DEF Epochs, Becomes
    <3>4. Journals' = [Journals EXCEPT ![j] = Append(Journals[j], <<"claimed", Epochs[j] + 1>>)]
      <4>1. /\ Entries(j)' = Append(Entries(j), <<"claimed", jobRows[j].attempt + 1>>)
            /\ \A i \in Jobs : i # j => Entries(i)' = Entries(i)
        BY <2>1, <3>1 DEF Becomes
      <4> QED
        BY <4>1, Zenon DEF Epochs, Journals
    <3>5. TablesPromise!Grant(j)
      BY <3>2, <3>3, <3>4 DEF TablesPromise!Grant, Phases, Epochs, Journals, Entries
    <3> QED
      BY <3>5 DEF TablesPromise!Next
  <2>4. ASSUME NEW kind, Becomes(j, RowPhase(j)', jobRows[j].attempt, Append(Entries(j), <<kind, jobRows[j].attempt>>))
        PROVE  Epochs' = Epochs /\ Journals' = TablesPromise!Note({j}, kind)
    <3>1. /\ Entries(j)' = Append(Entries(j), <<kind, jobRows[j].attempt>>)
          /\ \A i \in Jobs : i # j => Entries(i)' = Entries(i)
          /\ \A i \in Jobs : jobRows'[i].attempt = jobRows[i].attempt
      BY <2>1, <2>4 DEF Becomes
    <3>2. Journals' = [i \in Jobs |-> IF i \in {j} THEN Append(Journals[i], <<kind, Epochs[i]>>) ELSE Journals[i]]
      BY <3>1, Zenon DEF Epochs, Journals
    <3>3. Epochs' = Epochs
      BY <3>1 DEF Epochs
    <3> QED
      BY <3>2, <3>3 DEF Epochs, Journals, Entries, TablesPromise!Note
  <2>5. CASE Worked(j)
    <3>1. /\ RowPhase(j) = "held"
          /\ \/ Becomes(j, "held", jobRows[j].attempt, Entries(j))
             \/ Becomes(j, "held", jobRows[j].attempt,
                        Append(Entries(j), <<"progress", jobRows[j].attempt>>))
      BY <1>0, <2>1, <2>5, WorkedMaps
    <3>2. Phases[j] = "held" /\ Phases' = Phases
      BY <2>1, <3>1 DEF Phases, Becomes
    <3>3. CASE Becomes(j, "held", jobRows[j].attempt, Entries(j))
      <4>1. Epochs' = Epochs /\ Journals' = Journals
        BY <2>1, <3>3 DEF Epochs, Journals, Becomes
      <4> QED
        BY <3>2, <4>1 DEF TablesPromise!vars, Phases, Epochs, Journals, Entries
    <3>4. CASE Becomes(j, "held", jobRows[j].attempt, Append(Entries(j), <<"progress", jobRows[j].attempt>>))
      <4>1. Epochs' = Epochs /\ Journals' = TablesPromise!Note({j}, "progress")
        BY <2>4, <3>4 DEF Becomes
      <4>2. TablesPromise!Report(j)
        BY <3>2, <4>1 DEF TablesPromise!Report, Phases, Epochs, Journals, Entries
      <4> QED
        BY <4>2 DEF TablesPromise!Next
    <3> QED
      BY <3>1, <3>3, <3>4
  <2>6. CASE Ended(j)
    <3>1. PICK outcome \in Outcomes :
            Becomes(j, outcome, jobRows[j].attempt, Append(Entries(j), <<outcome, jobRows[j].attempt>>))
      BY <1>0, <2>1, <2>6, EndedMaps
    <3>2. Phases[j] = "held" /\ Phases' = [Phases EXCEPT ![j] = outcome]
      BY <1>0, <2>1, <2>6, <3>1, EndedMaps DEF Phases, Becomes
    <3>3. Epochs' = Epochs /\ Journals' = TablesPromise!Note({j}, outcome)
      BY <2>4, <3>1 DEF Becomes
    <3>4. TablesPromise!Finish(j, outcome)
      BY <3>2, <3>3 DEF TablesPromise!Finish, Phases, Epochs, Journals, Entries
    <3> QED
      BY <3>4 DEF TablesPromise!Next, TablesPromise!Outcomes, Outcomes
  <2>7. CASE Kept(j)
    <3>1. \A i \in Jobs : Becomes(i, RowPhase(i), jobRows[i].attempt, Entries(i))
      BY <2>1, <2>7, KeptMaps
    <3>2. Phases' = Phases /\ Epochs' = Epochs /\ Journals' = Journals
      BY <3>1 DEF Phases, Epochs, Journals, Becomes
    <3> QED
      BY <3>2 DEF TablesPromise!vars, Phases, Epochs, Journals, Entries
  <2> QED
    BY <2>1, <2>2, <2>3, <2>5, <2>6, <2>7
<1>3. CASE StopStep
  <2>0. PICK S \in SUBSET Jobs : \A j \in Jobs : j \in S <=> Stopped(j)
    <3>1. {j \in Jobs : Stopped(j)} \in SUBSET Jobs
      OBVIOUS
    <3> QED
      BY <3>1
  <2>1. ASSUME NEW j \in Jobs
        PROVE  /\ j \in S =>
                    /\ RowPhase(j) \in {"free", "held"}
                    /\ Becomes(j, "cancelled", jobRows[j].attempt,
                               Append(Entries(j), <<"cancelled", jobRows[j].attempt>>))
               /\ j \notin S => Becomes(j, RowPhase(j), jobRows[j].attempt, Entries(j))
    BY <1>0, <1>3, <2>0, StoppedMaps, KeptMaps DEF StopStep
  <2>2. \A j \in S : Phases[j] \in {"free", "held"}
    BY <2>1 DEF Phases
  <2>3. Phases' = [j \in Jobs |-> IF j \in S THEN "cancelled" ELSE Phases[j]]
    BY <2>1 DEF Phases, Becomes
  <2>4. Epochs' = Epochs
    BY <2>1 DEF Epochs, Becomes
  <2>5. Journals' = TablesPromise!Note(S, "cancelled")
    BY <2>1 DEF Journals, Becomes, Entries, TablesPromise!Note
  <2>6. TablesPromise!Cancel(S)
    BY <2>2, <2>3, <2>4, <2>5 DEF TablesPromise!Cancel, Phases, Epochs, Journals, Entries
  <2> QED
    BY <2>6 DEF TablesPromise!Next
<1> QED
  BY <1>1, <1>2, <1>3, StepShapes

\* The tables of production keep the promise of JobLease, as the store in memory does: a job is
\* held by one claim at a time, and only that claim adds to its journal or ends it, even where
\* a request is served by several transactions.
THEOREM TablesImplementJobLease == TablesSpec => TablesKeepPromise
<1> USE SupabaseAssumption
<1>1. TablesInit => TablesPromise!Init
  BY PhaseValues DEF TablesInit, TablesPromise!Init, RowPhase, Leased, Active
<1>2. TablesInv /\ TablesInv' /\ [TablesNext]_tablesVars => [TablesPromise!Next]_(TablesPromise!vars)
  BY PromiseStep DEF TablesInv
<1> QED
  BY <1>1, <1>2, TablesInvariant, PTL DEF TablesSpec, TablesKeepPromise, TablesPromise!Spec

USE SiteDataConstants DEF RecordIds, Creating, Changing, Managing

-----------------------------------------------------------------------------
(* Requests *)

\* What a request is about is as its handler has parsed it.
MadeAs(call) ==
  /\ call.kind \in Creating \cup Changing => call.key \in Keys
  /\ call.kind \in Creating => call.about = Absent
  /\ call.kind = "create" => call.user = Absent
  /\ call.kind \in Changing => call.about \in Target
  /\ call.kind = "collection" => call.about \in FieldSets
  /\ call.kind = "form" => call.about \in Form
  /\ call.kind = "login" => call.user \in Users

Made == \A c \in Calls : calls[c] # Absent => MadeAs(calls[c])

Typed == SiteTypeOK /\ Made

LEMMA CallEnded ==
  ASSUME Typed, NEW c \in Calls, EndCall(c)
  PROVE  calls' \in [Calls -> Call \cup {Absent}] /\ Made'
BY DEF EndCall, Typed, SiteTypeOK, Made

\* A request that was let through carries what it carried.
LEMMA NowAllowed ==
  ASSUME NEW call \in Call
  PROVE  LET after == [call EXCEPT !.allowed = TRUE]
         IN  /\ after \in Call
             /\ after.kind = call.kind /\ after.key = call.key
             /\ after.about = call.about /\ after.user = call.user
             /\ after.fields = call.fields /\ after.seen = call.seen
<1> DEFINE after == [call EXCEPT !.allowed = TRUE]
<1>1. PICK K, Y, A, U, F, S, M :
        Call = [kind : K, key : Y, about : A, user : U, fields : F, seen : S, own : M,
                allowed : BOOLEAN]
  BY DEF Call
<1>2. /\ after.kind = call.kind /\ after.key = call.key
      /\ after.about = call.about /\ after.user = call.user
      /\ after.fields = call.fields /\ after.seen = call.seen
  BY <1>1
<1>3. after \in Call
  BY <1>1
<1> QED
  BY <1>2, <1>3

\* A handler that gets an answer keeps what it was asked.
LEMMA CallLearned ==
  ASSUME Typed, NEW c \in Calls, calls[c] # Absent, NEW call \in Call,
         calls' = [calls EXCEPT ![c] = call],
         call.kind = calls[c].kind, call.key = calls[c].key,
         call.about = calls[c].about, call.user = calls[c].user
  PROVE  calls' \in [Calls -> Call \cup {Absent}] /\ Made'
BY DEF Typed, SiteTypeOK, Made, MadeAs

LEMMA LearnedTyped ==
  ASSUME Typed, NEW c \in Calls, calls[c] # Absent,
         \/ \E v \in FieldSets \cup {Absent} : Learns(c, "fields", v)
         \/ \E v \in (0 .. MaxVersion) \cup Roles : Learns(c, "seen", v)
         \/ \E v \in Member \cup {Absent} : Learns(c, "own", v)
         \/ Learns(c, "allowed", TRUE)
  PROVE  calls' \in [Calls -> Call \cup {Absent}] /\ Made'
<1>1. calls[c] \in Call /\ calls \in [Calls -> Call \cup {Absent}]
  BY DEF Typed, SiteTypeOK
<1>2. ASSUME NEW v \in FieldSets \cup {Absent}, Learns(c, "fields", v)
      PROVE  calls' \in [Calls -> Call \cup {Absent}] /\ Made'
  <2> DEFINE call == [calls[c] EXCEPT !.fields = v]
  <2>1. /\ call \in Call
        /\ call.kind = calls[c].kind /\ call.key = calls[c].key
        /\ call.about = calls[c].about /\ call.user = calls[c].user
    BY <1>1 DEF Call
  <2>2. calls' = [calls EXCEPT ![c] = call]
    BY <1>2 DEF Learns
  <2> HIDE DEF call
  <2> QED
    BY <2>1, <2>2, CallLearned
<1>3. ASSUME NEW v \in (0 .. MaxVersion) \cup Roles, Learns(c, "seen", v)
      PROVE  calls' \in [Calls -> Call \cup {Absent}] /\ Made'
  <2> DEFINE call == [calls[c] EXCEPT !.seen = v]
  <2>1. /\ call \in Call
        /\ call.kind = calls[c].kind /\ call.key = calls[c].key
        /\ call.about = calls[c].about /\ call.user = calls[c].user
    BY <1>1 DEF Call
  <2>2. calls' = [calls EXCEPT ![c] = call]
    BY <1>3 DEF Learns
  <2> HIDE DEF call
  <2> QED
    BY <2>1, <2>2, CallLearned
<1>4. ASSUME NEW v \in Member \cup {Absent}, Learns(c, "own", v)
      PROVE  calls' \in [Calls -> Call \cup {Absent}] /\ Made'
  <2> DEFINE call == [calls[c] EXCEPT !.own = v]
  <2>1. /\ call \in Call
        /\ call.kind = calls[c].kind /\ call.key = calls[c].key
        /\ call.about = calls[c].about /\ call.user = calls[c].user
    BY <1>1 DEF Call
  <2>2. calls' = [calls EXCEPT ![c] = call]
    BY <1>4 DEF Learns
  <2> HIDE DEF call
  <2> QED
    BY <2>1, <2>2, CallLearned
<1>5. ASSUME Learns(c, "allowed", TRUE)
      PROVE  calls' \in [Calls -> Call \cup {Absent}] /\ Made'
  <2> DEFINE call == [calls[c] EXCEPT !.allowed = TRUE]
  <2>1. /\ call \in Call
        /\ call.kind = calls[c].kind /\ call.key = calls[c].key
        /\ call.about = calls[c].about /\ call.user = calls[c].user
    BY <1>1, NowAllowed
  <2>2. calls' = [calls EXCEPT ![c] = call]
    BY <1>5 DEF Learns
  <2> HIDE DEF call
  <2> QED
    BY <2>1, <2>2, CallLearned
<1> QED
  BY <1>2, <1>3, <1>4, <1>5

LEMMA BegunTyped ==
  ASSUME Typed, NEW c \in Calls, BeginAny(c)
  PROVE  calls' \in [Calls -> Call \cup {Absent}] /\ Made'
<1> DEFINE New(kind, k, about, u) ==
             [kind |-> kind, key |-> k, about |-> about, user |-> u,
              fields |-> Unread, seen |-> Unread, own |-> Unread, allowed |-> FALSE]
<1>1. ASSUME NEW kind \in Managing \cup {"submit", "login"}, NEW k \in Keys \cup {Absent},
             NEW about \in Target \cup FieldSets \cup Form \cup {Absent},
             NEW u \in Users \cup {Absent}, MadeAs(New(kind, k, about, u)), SiteBegin(c, kind, k, about, u)
      PROVE  calls' \in [Calls -> Call \cup {Absent}] /\ Made'
  <2>1. New(kind, k, about, u) \in Call
    BY DEF Call
  <2>2. calls' = [calls EXCEPT ![c] = New(kind, k, about, u)]
    BY <1>1 DEF SiteBegin
  <2> HIDE DEF New
  <2> QED
    BY <1>1, <2>1, <2>2 DEF Typed, SiteTypeOK, Made
<1>2. ASSUME NEW k \in Keys, SiteBegin(c, "create", k, Absent, Absent)
      PROVE  calls' \in [Calls -> Call \cup {Absent}] /\ Made'
  BY <1>1, <1>2 DEF MadeAs
<1>3. ASSUME NEW k \in Keys, NEW u \in Users \cup {Absent}, SiteBegin(c, "submit", k, Absent, u)
      PROVE  calls' \in [Calls -> Call \cup {Absent}] /\ Made'
  BY <1>1, <1>3 DEF MadeAs
<1>4. ASSUME NEW k \in Keys, NEW target \in Target, NEW kind \in Changing, SiteBegin(c, kind, k, target, Absent)
      PROVE  calls' \in [Calls -> Call \cup {Absent}] /\ Made'
  BY <1>1, <1>4 DEF MadeAs
<1>5. ASSUME NEW f \in FieldSets, SiteBegin(c, "collection", Absent, f, Absent)
      PROVE  calls' \in [Calls -> Call \cup {Absent}] /\ Made'
  BY <1>1, <1>5 DEF MadeAs
<1>6. ASSUME NEW f \in Form, SiteBegin(c, "form", Absent, f, Absent)
      PROVE  calls' \in [Calls -> Call \cup {Absent}] /\ Made'
  BY <1>1, <1>6 DEF MadeAs
<1>7. ASSUME NEW u \in Users, SiteBegin(c, "login", Absent, Absent, u)
      PROVE  calls' \in [Calls -> Call \cup {Absent}] /\ Made'
  BY <1>1, <1>7 DEF MadeAs
<1> HIDE DEF New
<1> QED
  BY <1>2, <1>3, <1>4, <1>5, <1>6, <1>7 DEF BeginAny

-----------------------------------------------------------------------------
(* What execute_website_data_action writes *)

\* The place r gets its first row, of a key that was free.
Creates(c, r) ==
  /\ calls[c].kind \in Creating /\ records[r] = Absent /\ ActorMay(c)
  /\ \E row \in Record :
       /\ row.fields = calls[c].fields /\ row.version = 1 /\ row.owner = calls[c].user
       /\ records' = [records EXCEPT ![r] = row]

\* The row of the place r gives way to its next version, or goes.
Updates(c, r) ==
  /\ calls[c].kind = "update" /\ Live(r)
  /\ calls[c].about.record = r /\ calls[c].about.version = records[r].version
  /\ \E row \in Record :
       /\ row.fields = calls[c].fields /\ row.version = records[r].version + 1
       /\ records' = [records EXCEPT ![r] = row]

Deletes(c, r) ==
  /\ calls[c].kind = "delete" /\ Live(r)
  /\ calls[c].about.record = r /\ calls[c].about.version = records[r].version
  /\ records' = [records EXCEPT ![r] = Gone]

Writes(c, r) ==
  /\ Creates(c, r) \/ Updates(c, r) \/ Deletes(c, r)
  /\ calls[c].key \in Keys /\ actions[calls[c].key] = Absent
  /\ \E run \in Run :
       /\ run.request = Asked(c) /\ run.record = r
       /\ actions' = [actions EXCEPT ![calls[c].key] = run]
  /\ UNCHANGED <<fields, form, members, registration>>

LEMMA ExecuteWrites ==
  ASSUME Typed, NEW c \in Calls, Execute(c)
  PROVE  /\ calls[c] \in Call /\ calls[c].kind \in Creating \cup Changing
         /\ calls[c].fields \in FieldSets /\ EndCall(c)
         /\ UNCHANGED tables \/ \E r \in RecordIds : Writes(c, r)
<1>1. calls[c] \in Call /\ calls[c].kind \in Creating \cup Changing /\ MadeAs(calls[c])
  BY DEF Execute, Under, Typed, SiteTypeOK, Made
<1>2. calls[c].fields \in FieldSets
  BY <1>1 DEF Execute, Approved, Call
<1>3. EndCall(c)
  BY DEF Execute
<1>4. CASE Bound(c)
  BY <1>1, <1>2, <1>3, <1>4 DEF Execute
<1>5. CASE ~ Bound(c)
  <2>1. PICK r \in RecordIds :
       /\ ActorMay(c)
       /\ IF calls[c].kind \in Creating
          THEN /\ records[r] = Absent
               /\ records' = [records EXCEPT ![r] =
                    [fields |-> calls[c].fields, version |-> 1, owner |-> calls[c].user]]
          ELSE /\ r = calls[c].about.record /\ VersionHolds(c)
               /\ calls[c].kind = "update" => records[r].version < MaxVersion
               /\ records' = Changed(c)
       /\ actions' = [actions EXCEPT ![calls[c].key] = [request |-> Asked(c), record |-> r]]
       /\ UNCHANGED <<fields, form, members, registration>>
    BY <1>5, Zenon DEF Execute
  <2>2. calls[c].key \in Keys /\ actions[calls[c].key] = Absent
    BY <1>1, <1>5 DEF MadeAs, Bound
  <2>3. [request |-> Asked(c), record |-> r] \in Run
    BY <1>1, <1>2 DEF Run, Asked, MadeAs
  <2>4. ASSUME calls[c].kind \in Creating
        PROVE  Creates(c, r)
    <3> DEFINE row == [fields |-> calls[c].fields, version |-> 1, owner |-> calls[c].user]
    <3>1. row \in Record /\ row.fields = calls[c].fields /\ row.version = 1 /\ row.owner = calls[c].user
      BY <1>1, <1>2 DEF Record, Call
    <3>2. records' = [records EXCEPT ![r] = row] /\ records[r] = Absent /\ ActorMay(c)
      BY <2>1, <2>4
    <3> HIDE DEF row
    <3> QED
      BY <2>4, <3>1, <3>2 DEF Creates
  <2>5. ASSUME calls[c].kind = "update"
        PROVE  Updates(c, r)
    <3> DEFINE row == [records[r] EXCEPT !.fields = calls[c].fields, !.version = records[r].version + 1]
    <3>1. /\ r = calls[c].about.record /\ Live(r) /\ records[r].version = calls[c].about.version
          /\ records[r].version < MaxVersion /\ records' = Changed(c)
      BY <2>1, <2>5 DEF VersionHolds
    <3>2. records[r] \in Record
      BY <3>1 DEF Live, Typed, SiteTypeOK
    <3>0. records[r].version + 1 \in 1 .. MaxVersion
      <4>1. records[r].version \in 1 .. MaxVersion
        BY <3>2 DEF Record
      <4> QED
        BY <3>1, <4>1
    <3>3. row \in Record /\ row.fields = calls[c].fields /\ row.version = records[r].version + 1
      BY <1>2, <3>0, <3>2 DEF Record
    <3>4. records' = [records EXCEPT ![r] = row]
      BY <2>5, <3>1, <3>2 DEF Changed, Typed, SiteTypeOK, Record
    <3> HIDE DEF row
    <3> QED
      BY <2>5, <3>1, <3>3, <3>4 DEF Updates
  <2>6. ASSUME calls[c].kind = "delete"
        PROVE  Deletes(c, r)
    <3>1. r = calls[c].about.record /\ VersionHolds(c) /\ records' = Changed(c)
      BY <2>1, <2>6
    <3> QED
      BY <2>6, <3>1 DEF Deletes, Changed, VersionHolds
  <2>7. Creates(c, r) \/ Updates(c, r) \/ Deletes(c, r)
    BY <1>1, <2>4, <2>5, <2>6
  <2>8. Writes(c, r)
    <3> DEFINE run == [request |-> Asked(c), record |-> r]
    <3>1. run \in Run /\ run.request = Asked(c) /\ run.record = r
      BY <2>3
    <3>2. actions' = [actions EXCEPT ![calls[c].key] = run] /\ UNCHANGED <<fields, form, members, registration>>
      BY <2>1
    <3> HIDE DEF run
    <3> QED
      BY <2>2, <2>7, <3>1, <3>2 DEF Writes
  <2> QED
    BY <1>1, <1>2, <1>3, <2>8
<1> QED
  BY <1>4, <1>5

-----------------------------------------------------------------------------
(* Type correctness *)

LEMMA WritesTyped ==
  ASSUME Typed, NEW c \in Calls, NEW r \in RecordIds, Writes(c, r)
  PROVE  records' \in [RecordIds -> Record \cup {Absent, Gone}] /\ actions' \in [Keys -> Run \cup {Absent}]
<1>1. actions' \in [Keys -> Run \cup {Absent}]
  BY DEF Writes, Typed, SiteTypeOK
<1>2. \E row \in Record \cup {Gone} : records' = [records EXCEPT ![r] = row]
  BY DEF Writes, Creates, Updates, Deletes
<1> QED
  BY <1>1, <1>2 DEF Typed, SiteTypeOK

\* What ReadRecords answers: a version, or for new fields whether there are records.
LEMMA SeenTyped ==
  ASSUME Typed, NEW c \in Calls, ReadRecords(c)
  PROVE  \E v \in (0 .. MaxVersion) \cup Roles :
           /\ Learns(c, "seen", v)
           /\ calls[c].kind = "collection" => v = 1 \/ \A r \in RecordIds : ~ Live(r)
<1> DEFINE v == IF calls[c].kind = "collection"
                 THEN IF \E r \in RecordIds : Live(r) THEN 1 ELSE 0
                 ELSE LET r == calls[c].about.record IN IF Live(r) THEN records[r].version ELSE 0
<1>1. Learns(c, "seen", v) /\ calls[c].kind \in Changing \cup {"collection"} /\ MadeAs(calls[c])
  BY DEF ReadRecords, Under, Typed, Made
<1>2. ASSUME calls[c].kind = "collection"
      PROVE  v \in (0 .. MaxVersion) \cup Roles /\ (v = 1 \/ \A r \in RecordIds : ~ Live(r))
  BY <1>2
<1>3. ASSUME calls[c].kind \in Changing
      PROVE  v \in (0 .. MaxVersion) \cup Roles
  <2>1. calls[c].about.record \in RecordIds
    BY <1>1, <1>3 DEF MadeAs, Target
  <2>2. Live(calls[c].about.record) => records[calls[c].about.record] \in Record
    BY <2>1 DEF Live, Typed, SiteTypeOK
  <2> QED
    BY <1>3, <2>2 DEF Record
<1> HIDE DEF v
<1> QED
  BY <1>1, <1>2, <1>3

LEMMA TypedStep ==
  ASSUME Typed, [SiteNext]_siteVars
  PROVE  Typed'
<1> USE DEF tables
<1>1. ASSUME UNCHANGED tables, overlapped' \in BOOLEAN, calls' \in [Calls -> Call \cup {Absent}], Made'
      PROVE  Typed'
  BY <1>1 DEF Typed, SiteTypeOK
<1>2. ASSUME NEW c \in Calls, BeginAny(c)
      PROVE  Typed'
  <2>1. UNCHANGED tables /\ overlapped' \in BOOLEAN
    BY <1>2 DEF BeginAny, SiteBegin, Typed, SiteTypeOK
  <2> QED
    BY <1>1, <1>2, <2>1, BegunTyped
<1>3. ASSUME NEW c \in Calls, SiteRefuse(c)
      PROVE  Typed'
  BY <1>1, <1>3, CallEnded DEF SiteRefuse, EndCall, Typed, SiteTypeOK
<1>4. ASSUME NEW c \in Calls,
             ReadFields(c) \/ ReadRecords(c) \/ ReadForm(c) \/ ReadStanding(c) \/ ReadOwn(c) \/ ReadRegistration(c)
      PROVE  Typed'
  <2>1. calls[c] # Absent
    BY <1>4 DEF ReadFields, ReadRecords, ReadForm, ReadStanding, ReadOwn, ReadRegistration, Under
  <2>2. calls[c] \in Call /\ MadeAs(calls[c])
    BY <2>1 DEF Typed, SiteTypeOK, Made
  <2>3. \/ \E v \in FieldSets \cup {Absent} : Learns(c, "fields", v)
        \/ \E v \in (0 .. MaxVersion) \cup Roles : Learns(c, "seen", v)
        \/ \E v \in Member \cup {Absent} : Learns(c, "own", v)
        \/ Learns(c, "allowed", TRUE)
    <3>1. CASE ReadFields(c)
      BY <3>1 DEF ReadFields, Typed, SiteTypeOK
    <3>2. CASE ReadRecords(c)
      BY <3>2, SeenTyped
    <3>3. CASE ReadForm(c)
      <4>1. form \in Form
        BY <3>3 DEF ReadForm, Typed, SiteTypeOK
      <4>2. form.role \in (0 .. MaxVersion) \cup Roles
        BY <4>1 DEF Form
      <4> QED
        BY <3>3, <4>2 DEF ReadForm
    <3>4. CASE ReadStanding(c) \/ ReadRegistration(c)
      BY <3>4 DEF ReadStanding, ReadRegistration
    <3>5. CASE ReadOwn(c)
      <4>1. members[calls[c].user] \in Member \cup {Absent}
        BY <2>2, <3>5 DEF ReadOwn, Under, MadeAs, Typed, SiteTypeOK
      <4> QED
        BY <3>5, <4>1 DEF ReadOwn
    <3> QED
      BY <1>4, <3>1, <3>2, <3>3, <3>4, <3>5
  <2>4. UNCHANGED <<tables, overlapped>>
    BY <2>3 DEF Learns
  <2> QED
    BY <1>1, <2>1, <2>3, <2>4, LearnedTyped DEF Typed, SiteTypeOK
<1>5. ASSUME NEW c \in Calls, SaveCollection(c)
      PROVE  Typed'
  <2>1. calls[c].about \in FieldSets
    BY <1>5 DEF SaveCollection, Under, Typed, Made, MadeAs
  <2> QED
    BY <1>5, <2>1, CallEnded DEF SaveCollection, EndCall, Typed, SiteTypeOK
<1>6. ASSUME NEW c \in Calls, SaveForm(c)
      PROVE  Typed'
  <2>1. calls[c].about \in Form
    BY <1>6 DEF SaveForm, Under, Typed, Made, MadeAs
  <2> QED
    BY <1>6, <2>1, CallEnded DEF SaveForm, EndCall, Typed, SiteTypeOK
<1>7. ASSUME NEW c \in Calls, Execute(c)
      PROVE  Typed'
  <2>1. EndCall(c) /\ (UNCHANGED tables \/ \E r \in RecordIds : Writes(c, r))
    BY <1>7, ExecuteWrites
  <2>2. CASE UNCHANGED tables
    BY <1>1, <2>1, <2>2, CallEnded DEF EndCall, Typed, SiteTypeOK
  <2>3. CASE \E r \in RecordIds : Writes(c, r)
    BY <2>1, <2>3, CallEnded, WritesTyped DEF EndCall, Writes, Typed, SiteTypeOK
  <2> QED
    BY <2>1, <2>2, <2>3
<1>8. ASSUME NEW c \in Calls, RefreshMember(c)
      PROVE  Typed'
  BY <1>8, CallEnded DEF RefreshMember, Refreshed, EndCall, Typed, SiteTypeOK
<1>9. ASSUME NEW c \in Calls, InsertMember(c)
      PROVE  Typed'
  <2>1. members' \in [Users -> Member \cup {Absent}]
    BY <1>9 DEF InsertMember, Typed, SiteTypeOK, Member
  <2> QED
    BY <1>9, <2>1, CallEnded DEF InsertMember, EndCall, Typed, SiteTypeOK
<1>10. ASSUME NEW u \in Users, (\E open \in BOOLEAN : SaveMatrix(u, open)) \/ \E m \in Member : SetMember(u, m)
       PROVE  Typed'
  <2>1. members' \in [Users -> Member \cup {Absent}]
    BY <1>10 DEF SaveMatrix, SetMember, Typed, SiteTypeOK, Member
  <2> QED
    BY <1>10, <2>1 DEF SaveMatrix, SetMember, Typed, SiteTypeOK, Made
<1>11. CASE UNCHANGED siteVars
  BY <1>11 DEF siteVars, Typed, SiteTypeOK, Made
<1> QED
  BY <1>2, <1>3, <1>4, <1>5, <1>6, <1>7, <1>8, <1>9, <1>10, <1>11 DEF SiteNext

LEMMA AlwaysTyped == SiteSpec => []Typed
<1>1. SiteInit => Typed
  BY DEF SiteInit, Typed, SiteTypeOK, Made
<1> QED
  BY <1>1, TypedStep, PTL DEF SiteSpec

-----------------------------------------------------------------------------
(* Action runs *)

\* A step leaves the records and their runs alone, or is a write of one request.
LEMMA DataSteps ==
  ASSUME Typed, [SiteNext]_siteVars
  PROVE  UNCHANGED <<records, actions>> \/ \E c \in Calls, r \in RecordIds : Execute(c) /\ Writes(c, r)
<1> USE DEF tables
<1>1. ASSUME NEW c \in Calls, BeginAny(c)
      PROVE  UNCHANGED <<records, actions>>
  BY <1>1 DEF BeginAny, SiteBegin
<1>2. ASSUME NEW c \in Calls,
             ReadFields(c) \/ ReadRecords(c) \/ ReadForm(c) \/ ReadStanding(c) \/ ReadOwn(c) \/ ReadRegistration(c)
      PROVE  UNCHANGED <<records, actions>>
  BY <1>2, Zenon DEF ReadFields, ReadRecords, ReadForm, ReadStanding, ReadOwn, ReadRegistration, Learns
<1>3. ASSUME NEW c \in Calls, Execute(c)
      PROVE  UNCHANGED <<records, actions>> \/ \E r \in RecordIds : Writes(c, r)
  BY <1>3, ExecuteWrites
<1>4. ASSUME NEW c \in Calls,
             SiteRefuse(c) \/ SaveCollection(c) \/ SaveForm(c) \/ RefreshMember(c) \/ InsertMember(c)
      PROVE  UNCHANGED <<records, actions>>
  BY <1>4 DEF SiteRefuse, SaveCollection, SaveForm, RefreshMember, InsertMember
<1>5. ASSUME NEW u \in Users, (\E open \in BOOLEAN : SaveMatrix(u, open)) \/ \E m \in Member : SetMember(u, m)
      PROVE  UNCHANGED <<records, actions>>
  BY <1>5 DEF SaveMatrix, SetMember
<1>6. CASE UNCHANGED siteVars
  BY <1>6 DEF siteVars
<1> QED
  BY <1>1, <1>2, <1>3, <1>4, <1>5, <1>6 DEF SiteNext

RunsAt(acts, kinds, r) ==
  {k \in Keys : acts[k] # Absent /\ acts[k].request.kind \in kinds /\ acts[k].record = r}

CountIs(acts, kinds, r, n) ==
  IsFiniteSet(RunsAt(acts, kinds, r)) /\ Cardinality(RunsAt(acts, kinds, r)) = n

\* How many runs made, deleted and changed the record of a place.
CountsAt(acts, r, row) ==
  /\ CountIs(acts, Creating, r, IF row = Absent THEN 0 ELSE 1)
  /\ CountIs(acts, {"delete"}, r, IF row = Gone THEN 1 ELSE 0)
  /\ \E n \in Nat : /\ CountIs(acts, {"update"}, r, n)
                    /\ row = Absent => n = 0
                    /\ row \notin {Absent, Gone} => n = row.version - 1

Counts == \A r \in RecordIds : CountsAt(actions, r, records[r])

\* One more run, under a key that was free, counts for its record and its kind.
LEMMA CountGrows ==
  ASSUME NEW acts \in [Keys -> Run \cup {Absent}], NEW k \in Keys, acts[k] = Absent,
         NEW run \in Run, NEW kinds, NEW r, NEW n \in Nat, CountIs(acts, kinds, r, n)
  PROVE  CountIs([acts EXCEPT ![k] = run], kinds, r,
                 IF run.request.kind \in kinds /\ run.record = r THEN n + 1 ELSE n)
<1> DEFINE next == [acts EXCEPT ![k] = run]
<1>1. run # Absent /\ next[k] = run /\ \A l \in Keys : l # k => next[l] = acts[l]
  BY NullsAreNoRows
<1> HIDE DEF next
<1>2. k \notin RunsAt(acts, kinds, r)
  BY DEF RunsAt
<1>3. CASE run.request.kind \in kinds /\ run.record = r
  <2>1. RunsAt(next, kinds, r) = RunsAt(acts, kinds, r) \cup {k}
    BY <1>1, <1>3 DEF RunsAt
  <2>2. CountIs(next, kinds, r, n + 1)
    BY <1>2, <2>1, FS_AddElement DEF CountIs
  <2> QED
    BY <1>3, <2>2 DEF next
<1>4. CASE ~ (run.request.kind \in kinds /\ run.record = r)
  <2>1. RunsAt(next, kinds, r) = RunsAt(acts, kinds, r)
    BY <1>1, <1>4 DEF RunsAt
  <2>2. CountIs(next, kinds, r, n)
    BY <2>1 DEF CountIs
  <2> QED
    BY <1>4, <2>2 DEF next
<1> QED
  BY <1>3, <1>4

LEMMA CountsStep ==
  ASSUME Typed, Counts, [SiteNext]_siteVars
  PROVE  Counts'
<1>1. CASE UNCHANGED <<records, actions>>
  BY <1>1 DEF Counts
<1>2. ASSUME NEW c \in Calls, NEW s \in RecordIds, Writes(c, s), calls[c].kind \in Creating \cup Changing
      PROVE  Counts'
  <2> DEFINE k == calls[c].key
             kind == calls[c].kind
  <2>1. PICK run \in Run :
          /\ run.request = Asked(c) /\ run.record = s
          /\ actions' = [actions EXCEPT ![k] = run]
    BY <1>2 DEF Writes
  <2>2. /\ k \in Keys /\ actions[k] = Absent /\ run.request.kind = kind
        /\ kind \in Creating \cup Changing
    BY <1>2, <2>1 DEF Writes, Asked
  <2> HIDE DEF k, kind
  <2>3. ASSUME NEW r \in RecordIds, NEW kinds, NEW n \in Nat, CountIs(actions, kinds, r, n)
        PROVE  /\ kind \in kinds /\ s = r => CountIs(actions', kinds, r, n + 1)
               /\ kind \notin kinds \/ s # r => CountIs(actions', kinds, r, n)
    <3>1. actions \in [Keys -> Run \cup {Absent}]
      BY DEF Typed, SiteTypeOK
    <3>2. CountIs(actions', kinds, r, IF kind \in kinds /\ s = r THEN n + 1 ELSE n)
      BY <2>1, <2>2, <2>3, <3>1, CountGrows
    <3> QED
      BY <3>2
  <2>4. ASSUME NEW r \in RecordIds
        PROVE  CountsAt(actions', r, records'[r])
    <3>1. CountsAt(actions, r, records[r])
      BY DEF Counts
    <3>2. PICK n \in Nat : /\ CountIs(actions, {"update"}, r, n)
                           /\ records[r] = Absent => n = 0
                           /\ records[r] \notin {Absent, Gone} => n = records[r].version - 1
      BY <3>1 DEF CountsAt
    <3>3. CASE s # r
      <4>1. records'[r] = records[r]
        BY <1>2, <3>3 DEF Writes, Creates, Updates, Deletes, Typed, SiteTypeOK
      <4>2. /\ CountIs(actions', Creating, r, IF records[r] = Absent THEN 0 ELSE 1)
            /\ CountIs(actions', {"delete"}, r, IF records[r] = Gone THEN 1 ELSE 0)
            /\ CountIs(actions', {"update"}, r, n)
        BY <2>3, <3>1, <3>2, <3>3 DEF CountsAt
      <4> QED
        BY <3>2, <4>1, <4>2 DEF CountsAt
    <3>4. CASE s = r /\ Creates(c, r)
      <4>1. PICK row \in Record : row.version = 1 /\ records'[r] = row
        BY <3>4 DEF Creates, Typed, SiteTypeOK
      <4>2. row # Absent /\ row # Gone /\ records[r] = Absent /\ kind \in Creating
        BY <3>4, NullsAreNoRows DEF Creates, kind
      <4>3. CountIs(actions, Creating, r, 0) /\ CountIs(actions, {"delete"}, r, 0) /\ CountIs(actions, {"update"}, r, 0)
        BY <3>1, <3>2, <4>2 DEF CountsAt
      <4>4. CountIs(actions', Creating, r, 0 + 1)
        BY <2>3, <3>4, <4>2, <4>3
      <4>5. CountIs(actions', {"delete"}, r, 0) /\ CountIs(actions', {"update"}, r, 0)
        BY <2>3, <4>2, <4>3
      <4> QED
        BY <4>1, <4>2, <4>4, <4>5 DEF CountsAt
    <3>5. CASE s = r /\ Updates(c, r)
      <4>1. PICK row \in Record : row.version = records[r].version + 1 /\ records'[r] = row
        BY <3>5 DEF Updates, Typed, SiteTypeOK
      <4>2. /\ row # Absent /\ row # Gone /\ records[r] # Absent /\ records[r] # Gone
            /\ kind = "update" /\ records[r].version \in Nat
        BY <3>5, NullsAreNoRows DEF Updates, kind, Live, Typed, SiteTypeOK, Record
      <4>3. CountIs(actions, Creating, r, 1) /\ CountIs(actions, {"delete"}, r, 0)
        BY <3>1, <4>2 DEF CountsAt
      <4>4. CountIs(actions', {"update"}, r, n + 1)
        BY <2>3, <3>2, <3>5, <4>2
      <4>5. CountIs(actions', Creating, r, 1) /\ CountIs(actions', {"delete"}, r, 0)
        BY <2>3, <4>2, <4>3
      <4>6. n + 1 = row.version - 1
        BY <3>2, <4>1, <4>2
      <4> QED
        BY <4>1, <4>2, <4>4, <4>5, <4>6 DEF CountsAt
    <3>6. CASE s = r /\ Deletes(c, r)
      <4>1. records'[r] = Gone /\ records[r] # Absent /\ records[r] # Gone /\ kind = "delete"
        BY <3>6 DEF Deletes, Live, kind, Typed, SiteTypeOK
      <4>2. CountIs(actions, Creating, r, 1) /\ CountIs(actions, {"delete"}, r, 0)
        BY <3>1, <4>1 DEF CountsAt
      <4>3. CountIs(actions', {"delete"}, r, 0 + 1)
        BY <2>3, <3>6, <4>1, <4>2
      <4>4. CountIs(actions', Creating, r, 1) /\ CountIs(actions', {"update"}, r, n)
        BY <2>3, <3>2, <4>1, <4>2
      <4> QED
        BY <4>1, <4>3, <4>4 DEF CountsAt
    <3> QED
      BY <1>2, <3>3, <3>4, <3>5, <3>6 DEF Writes
  <2> QED
    BY <2>4 DEF Counts
<1> QED
  BY <1>1, <1>2, DataSteps, ExecuteWrites

-----------------------------------------------------------------------------
(* One change for each version *)

\* The version a run changed is not the version of its record any more.
SpentBy(run) ==
  run.request.kind \in Changing =>
    /\ run.request.about \in Target
    /\ records[run.request.about.record] # Absent
    /\ Live(run.request.about.record) =>
         run.request.about.version < records[run.request.about.record].version

Spent == \A k \in Keys : actions[k] # Absent => SpentBy(actions[k])

LEMMA SpentStep ==
  ASSUME Typed, Spent, OneChangePerVersion, [SiteNext]_siteVars
  PROVE  Spent' /\ OneChangePerVersion'
<1>1. CASE UNCHANGED <<records, actions>>
  BY <1>1 DEF Spent, SpentBy, Live, OneChangePerVersion
<1>2. ASSUME NEW c \in Calls, NEW r \in RecordIds, Writes(c, r),
             calls[c].kind \in Changing => calls[c].about \in Target
      PROVE  Spent' /\ OneChangePerVersion'
  <2> DEFINE k == calls[c].key
             about == calls[c].about
  <2>1. PICK run \in Run :
          /\ run.request = Asked(c) /\ run.record = r
          /\ actions' = [actions EXCEPT ![k] = run]
    BY <1>2 DEF Writes
  <2>2. /\ k \in Keys /\ actions[k] = Absent /\ run # Absent
        /\ run.request.kind = calls[c].kind /\ run.request.about = about
        /\ actions'[k] = run /\ \A l \in Keys : l # k => actions'[l] = actions[l]
    BY <1>2, <2>1, NullsAreNoRows DEF Writes, Asked, Typed, SiteTypeOK
  <2> HIDE DEF k
  <2>3. /\ \A s \in RecordIds : s # r => records'[s] = records[s]
        /\ records'[r] # Absent
        /\ records'[r] # Gone => records'[r].version \in Nat
        /\ records[r] # Absent =>
             /\ Live(r) /\ records[r].version \in Nat
             /\ records'[r] # Gone => records'[r].version = records[r].version + 1
             /\ about.record = r /\ about.version = records[r].version
             /\ calls[c].kind \in Changing
        /\ records[r] = Absent => calls[c].kind \in Creating
    <3>1. CASE Creates(c, r)
      BY <3>1, NullsAreNoRows DEF Creates, Typed, SiteTypeOK, Record
    <3>2. CASE Updates(c, r)
      BY <3>2, NullsAreNoRows DEF Updates, Live, Typed, SiteTypeOK, Record
    <3>3. CASE Deletes(c, r)
      BY <3>3, NullsAreNoRows DEF Deletes, Live, Typed, SiteTypeOK, Record
    <3> QED
      BY <1>2, <3>1, <3>2, <3>3 DEF Writes
  <2>4. ASSUME NEW l \in Keys, l # k, actions[l] # Absent
        PROVE  /\ SpentBy(actions[l])'
               /\ actions[l].request.kind \in Changing /\ calls[c].kind \in Changing =>
                    actions[l].request.about # about
    <3> DEFINE other == actions[l].request.about
    <3>1. SpentBy(actions[l]) /\ actions'[l] = actions[l]
      BY <2>2, <2>4 DEF Spent
    <3>2. SUFFICES ASSUME actions[l].request.kind \in Changing
                   PROVE  /\ other \in Target /\ records'[other.record] # Absent
                          /\ records'[other.record] # Gone =>
                               other.version < records'[other.record].version
                          /\ calls[c].kind \in Changing => other # about
      BY <3>1 DEF SpentBy, Live
    <3>3. /\ other \in Target /\ other.record \in RecordIds /\ other.version \in Nat
          /\ records[other.record] # Absent
          /\ Live(other.record) => other.version < records[other.record].version
      BY <3>1, <3>2 DEF SpentBy, Target
    <3> HIDE DEF other
    <3>4. CASE other.record # r
      <4>1. records'[other.record] = records[other.record]
        BY <2>3, <3>3, <3>4
      <4>2. calls[c].kind \in Changing => about.record = r
        BY <2>3
      <4> QED
        BY <3>3, <3>4, <4>1, <4>2 DEF Live
    <3>5. CASE other.record = r
      <4>1. Live(r) /\ other.version < records[r].version /\ records'[r] # Absent
        BY <2>3, <3>3, <3>5
      <4>2. records'[r] # Gone => other.version < records'[r].version
        <5>1. records[r].version \in Nat /\ (records'[r] # Gone => records'[r].version = records[r].version + 1)
          BY <2>3, <3>3, <3>5
        <5> QED
          BY <3>3, <4>1, <5>1
      <4>3. about.version = records[r].version /\ records[r].version \in Nat
        BY <2>3, <4>1 DEF Live
      <4>4. other # about
        BY <3>3, <4>1, <4>3
      <4> QED
        BY <3>3, <3>5, <4>1, <4>2, <4>4 DEF Live
    <3> QED
      BY <3>4, <3>5
  <2>5. SpentBy(run)'
    BY <1>2, <2>2, <2>3 DEF SpentBy, Live
  <2>6. Spent'
    BY <2>2, <2>4, <2>5 DEF Spent
  <2>7. OneChangePerVersion'
    BY <2>2, <2>4 DEF OneChangePerVersion
  <2> QED
    BY <2>6, <2>7
<1>3. ASSUME NEW c \in Calls, Execute(c)
      PROVE  calls[c].kind \in Changing => calls[c].about \in Target
  BY <1>3 DEF Execute, Under, Typed, Made, MadeAs
<1> QED
  BY <1>1, <1>2, <1>3, DataSteps

-----------------------------------------------------------------------------
(* Requests that come one after the other *)

\* While no two requests were under way at once, what the one under way has read of the
\* collection, and whether it has records, is how it is.
AsRead(c) ==
  /\ calls[c].fields # Unread => calls[c].fields = fields
  /\ calls[c].kind = "collection" /\ calls[c].seen # Unread =>
       calls[c].seen = 1 \/ \A r \in RecordIds : ~ Live(r)

Serial ==
  ~ overlapped =>
    /\ \A c, d \in Calls : calls[c] # Absent /\ calls[d] # Absent => c = d
    /\ \A c \in Calls : calls[c] # Absent => AsRead(c)

LEMMA SerialStep ==
  ASSUME Typed, Serial, RecordsFit, [SiteNext]_siteVars
  PROVE  Serial' /\ RecordsFit'
<1> USE DEF tables
<1>0. SUFFICES ASSUME ~ overlapped'
               PROVE  Serial' /\ RecordsFit'
  BY DEF Serial, RecordsFit
<1>1. ASSUME NEW c \in Calls, ~ overlapped, calls[c] # Absent, calls' = [calls EXCEPT ![c] = Absent]
      PROVE  Serial'
  BY <1>1 DEF Serial, Typed, SiteTypeOK
<1>2. ASSUME NEW c \in Calls, BeginAny(c)
      PROVE  Serial' /\ RecordsFit'
  <2>0. PICK kind, k, about, u : SiteBegin(c, kind, k, about, u)
    BY <1>2, Zenon DEF BeginAny
  <2>1. /\ UNCHANGED tables /\ ~ overlapped /\ \A d \in Calls : calls[d] = Absent
        /\ \A d \in Calls : d # c => calls'[d] = calls[d]
        /\ calls'[c].fields = Unread /\ calls'[c].seen = Unread
    BY <1>0, <2>0 DEF SiteBegin, Typed, SiteTypeOK
  <2> QED
    BY <2>1 DEF Serial, AsRead, RecordsFit, Live
<1>3. ASSUME NEW c \in Calls, calls[c] # Absent, UNCHANGED <<tables, overlapped>>,
             NEW call \in Call, calls' = [calls EXCEPT ![c] = call], call.kind = calls[c].kind,
             call.fields \in {calls[c].fields, fields},
             \/ call.seen = calls[c].seen
             \/ call.kind = "collection" => call.seen = 1 \/ \A r \in RecordIds : ~ Live(r)
      PROVE  Serial' /\ RecordsFit'
  <2>1. /\ calls'[c] = call /\ \A d \in Calls : d # c => calls'[d] = calls[d]
    BY <1>3 DEF Typed, SiteTypeOK
  <2>2. ~ overlapped
    BY <1>0, <1>3
  <2> QED
    BY <1>3, <2>1, <2>2 DEF Serial, AsRead, RecordsFit, Live
<1>4. ASSUME NEW c \in Calls,
             ReadFields(c) \/ ReadRecords(c) \/ ReadForm(c) \/ ReadStanding(c) \/ ReadOwn(c) \/ ReadRegistration(c)
      PROVE  Serial' /\ RecordsFit'
  <2>1. calls[c] # Absent /\ calls[c] \in Call
    BY <1>4
    DEF ReadFields, ReadRecords, ReadForm, ReadStanding, ReadOwn, ReadRegistration, Under, Typed, SiteTypeOK
  <2>2. CASE ReadFields(c)
    <3> DEFINE call == [calls[c] EXCEPT !.fields = fields]
    <3>0. fields \in FieldSets \cup {Absent}
      BY DEF Typed, SiteTypeOK
    <3>1. call \in Call /\ call.kind = calls[c].kind /\ call.fields = fields /\ call.seen = calls[c].seen
      BY <2>1, <3>0 DEF Call
    <3>2. calls' = [calls EXCEPT ![c] = call] /\ UNCHANGED <<tables, overlapped>>
      BY <2>2 DEF ReadFields, Learns
    <3> HIDE DEF call
    <3> QED
      BY <1>3, <2>1, <3>1, <3>2
  <2>3. CASE ReadRecords(c)
    <3>1. PICK v \in (0 .. MaxVersion) \cup Roles :
            /\ Learns(c, "seen", v)
            /\ calls[c].kind = "collection" => v = 1 \/ \A r \in RecordIds : ~ Live(r)
      BY <2>3, SeenTyped
    <3> DEFINE call == [calls[c] EXCEPT !.seen = v]
    <3>2. /\ call \in Call /\ call.kind = calls[c].kind /\ call.fields = calls[c].fields
          /\ call.seen = v
      BY <2>1 DEF Call
    <3>3. calls' = [calls EXCEPT ![c] = call] /\ UNCHANGED <<tables, overlapped>>
      BY <3>1 DEF Learns
    <3> HIDE DEF call
    <3> QED
      BY <1>3, <2>1, <3>1, <3>2, <3>3
  <2>4. CASE ReadForm(c)
    <3> DEFINE call == [calls[c] EXCEPT !.seen = form.role]
    <3>1. calls[c].kind = "submit" /\ form.role \in {0} \cup Roles
      BY <2>4 DEF ReadForm, Under, Form, Typed, SiteTypeOK
    <3>2. call \in Call /\ call.kind = calls[c].kind /\ call.fields = calls[c].fields
      BY <2>1, <3>1 DEF Call
    <3>3. calls' = [calls EXCEPT ![c] = call] /\ UNCHANGED <<tables, overlapped>>
      BY <2>4 DEF ReadForm, Learns
    <3> HIDE DEF call
    <3> QED
      BY <1>3, <2>1, <3>1, <3>2, <3>3
  <2>5. CASE ReadStanding(c) \/ ReadRegistration(c)
    <3> DEFINE call == [calls[c] EXCEPT !.allowed = TRUE]
    <3>1. /\ call \in Call /\ call.kind = calls[c].kind /\ call.fields = calls[c].fields
          /\ call.seen = calls[c].seen
      BY <2>1, NowAllowed
    <3>2. calls' = [calls EXCEPT ![c] = call] /\ UNCHANGED <<tables, overlapped>>
      BY <2>5 DEF ReadStanding, ReadRegistration, Learns
    <3> HIDE DEF call
    <3> QED
      BY <1>3, <2>1, <3>1, <3>2
  <2>6. CASE ReadOwn(c)
    <3> DEFINE call == [calls[c] EXCEPT !.own = members[calls[c].user]]
    <3>0. members[calls[c].user] \in Member \cup {Absent}
      BY <2>1, <2>6 DEF ReadOwn, Under, Made, MadeAs, Typed, SiteTypeOK
    <3>1. /\ call \in Call /\ call.kind = calls[c].kind /\ call.fields = calls[c].fields
          /\ call.seen = calls[c].seen
      BY <2>1, <3>0 DEF Call
    <3>2. calls' = [calls EXCEPT ![c] = call] /\ UNCHANGED <<tables, overlapped>>
      BY <2>6 DEF ReadOwn, Learns
    <3> HIDE DEF call
    <3> QED
      BY <1>3, <2>1, <3>1, <3>2
  <2> QED
    BY <1>4, <2>2, <2>3, <2>4, <2>5, <2>6
<1>5. ASSUME NEW c \in Calls, SiteRefuse(c) \/ SaveForm(c) \/ RefreshMember(c) \/ InsertMember(c)
      PROVE  Serial' /\ RecordsFit'
  <2>1. /\ calls[c] # Absent /\ EndCall(c) /\ UNCHANGED <<records, fields>>
    BY <1>5 DEF SiteRefuse, SaveForm, RefreshMember, InsertMember, Under
  <2> QED
    BY <1>0, <1>1, <2>1 DEF EndCall, RecordsFit, Live
<1>6. ASSUME NEW c \in Calls, SaveCollection(c)
      PROVE  Serial' /\ RecordsFit'
  <2>1. /\ calls[c] # Absent /\ calls[c].kind = "collection" /\ EndCall(c)
        /\ UNCHANGED records /\ ~ overlapped /\ fields' = calls[c].about
        /\ calls[c].fields # Unread /\ calls[c].seen # Unread
        /\ \/ fields = Absent
           \/ calls[c].seen = 1 => calls[c].about = calls[c].fields
    BY <1>0, <1>6 DEF SaveCollection, FieldsMayChange, EndCall, Under
  <2>2. AsRead(c)
    BY <2>1 DEF Serial
  <2>3. \A r \in RecordIds : Live(r) => records[r].fields = fields /\ records[r].fields \in FieldSets
    BY <2>1 DEF RecordsFit, Live, Typed, SiteTypeOK, Record
  <2>4. fields' = fields \/ \A r \in RecordIds : ~ Live(r)
    BY <2>1, <2>2, <2>3 DEF AsRead
  <2>5. RecordsFit'
    BY <2>1, <2>3, <2>4 DEF RecordsFit, Live
  <2> QED
    BY <1>1, <2>1, <2>5 DEF EndCall
<1>7. ASSUME NEW c \in Calls, Execute(c)
      PROVE  Serial' /\ RecordsFit'
  <2>1. /\ calls[c] # Absent /\ EndCall(c) /\ ~ overlapped /\ calls[c].fields \in FieldSets
        /\ UNCHANGED tables \/ \E r \in RecordIds : Writes(c, r)
    BY <1>0, <1>7, ExecuteWrites DEF Execute, Under, EndCall
  <2>2. AsRead(c)
    BY <2>1 DEF Serial
  <2>3. calls[c].fields = fields
    BY <2>1, <2>2 DEF AsRead
  <2>4. ASSUME NEW r \in RecordIds, Writes(c, r)
        PROVE  RecordsFit'
    <3>1. fields' = fields /\ \A s \in RecordIds : s # r => records'[s] = records[s]
      BY <2>4 DEF Writes, Creates, Updates, Deletes, Typed, SiteTypeOK
    <3>2. Live(r)' => records'[r].fields = fields
      BY <2>3, <2>4 DEF Writes, Creates, Updates, Deletes, Live, Typed, SiteTypeOK
    <3> QED
      BY <2>1, <3>1, <3>2 DEF RecordsFit, Live
  <2>5. RecordsFit'
    BY <2>1, <2>4 DEF RecordsFit, Live
  <2> QED
    BY <1>1, <2>1, <2>5 DEF EndCall
<1>8. ASSUME NEW u \in Users, (\E open \in BOOLEAN : SaveMatrix(u, open)) \/ \E m \in Member : SetMember(u, m)
      PROVE  Serial' /\ RecordsFit'
  <2>1. UNCHANGED <<records, fields, calls, overlapped>>
    BY <1>8 DEF SaveMatrix, SetMember
  <2> QED
    BY <2>1 DEF Serial, AsRead, RecordsFit, Live
<1>9. CASE UNCHANGED siteVars
  BY <1>9 DEF siteVars, Serial, AsRead, RecordsFit, Live
<1> QED
  BY <1>2, <1>4, <1>5, <1>6, <1>7, <1>8, <1>9 DEF SiteNext

-----------------------------------------------------------------------------
(* The theorems *)

\* For any requests, keys, users and fields: the action runs account for every record, one
\* change is made to each version of it, and while requests come one after the other each
\* record has values for the fields of its collection.
THEOREM SiteIsSafe == SiteSpec => []SiteSafe
<1> DEFINE IInv == Counts /\ Spent /\ OneChangePerVersion /\ Serial /\ RecordsFit
<1>1. SiteInit => IInv
  <2> SUFFICES ASSUME SiteInit PROVE IInv
    OBVIOUS
  <2>1. \A r \in RecordIds : records[r] = Absent
    BY DEF SiteInit
  <2>2. \A k \in Keys : actions[k] = Absent
    BY DEF SiteInit
  <2>3. \A kinds, r : CountIs(actions, kinds, r, 0)
    <3>1. \A kinds, r : RunsAt(actions, kinds, r) = {}
      BY <2>2 DEF RunsAt
    <3> QED
      BY <3>1, FS_EmptySet DEF CountIs
  <2>4. Counts
    BY <2>1, <2>3 DEF Counts, CountsAt
  <2>5. Serial
    BY DEF SiteInit, Serial
  <2> QED
    BY <2>1, <2>2, <2>4, <2>5 DEF Spent, OneChangePerVersion, RecordsFit, Live
<1>2. Typed /\ IInv /\ [SiteNext]_siteVars => IInv'
  BY CountsStep, SpentStep, SerialStep
<1>3. Counts => RunsAccount
  <2> SUFFICES ASSUME Counts, NEW r \in RecordIds
               PROVE  /\ Cardinality(RunsOf(Creating, r)) = (IF records[r] = Absent THEN 0 ELSE 1)
                      /\ Cardinality(RunsOf({"delete"}, r)) = (IF records[r] = Gone THEN 1 ELSE 0)
                      /\ Live(r) => Cardinality(RunsOf({"update"}, r)) = records[r].version - 1
    BY DEF RunsAccount
  <2>1. \A kinds : RunsOf(kinds, r) = RunsAt(actions, kinds, r)
    BY DEF RunsOf, RunsAt
  <2>2. CountsAt(actions, r, records[r])
    BY DEF Counts
  <2> QED
    BY <2>1, <2>2 DEF CountsAt, CountIs, Live
<1>4. Typed /\ IInv => SiteSafe
  BY <1>3 DEF Typed, SiteSafe
<1> HIDE DEF IInv
<1> QED
  BY <1>1, <1>2, <1>4, AlwaysTyped, PTL DEF SiteSpec

\* No request of a user, however old what it read, changes how a member stands, and none
\* makes a record of one who is suspended by then.
THEOREM StandingIsKept == SiteSpec => StandingKept
<1> DEFINE Stay == calls' # calls => \A u \in Users : members[u] # Absent => members'[u] = members[u]
<1>1. Typed /\ [SiteNext]_siteVars => [Stay]_siteVars
  <2> SUFFICES ASSUME Typed, SiteNext
               PROVE  Stay
    OBVIOUS
  <2>1. CASE UNCHANGED members
    BY <2>1
  <2>2. CASE UNCHANGED calls
    BY <2>2
  <2>3. ASSUME NEW c \in Calls, InsertMember(c)
        PROVE  Stay
    BY <2>3 DEF InsertMember, Typed, SiteTypeOK
  <2>4. ASSUME NEW c \in Calls, BeginAny(c)
        PROVE  UNCHANGED members
    <3>1. PICK kind, k, about, u : SiteBegin(c, kind, k, about, u)
      BY <2>4, Zenon DEF BeginAny
    <3> QED
      BY <3>1 DEF SiteBegin, tables
  <2>5. ASSUME NEW c \in Calls,
               ReadFields(c) \/ ReadRecords(c) \/ ReadForm(c) \/ ReadStanding(c) \/ ReadOwn(c) \/ ReadRegistration(c)
        PROVE  UNCHANGED members
    BY <2>5, Zenon
    DEF ReadFields, ReadRecords, ReadForm, ReadStanding, ReadOwn, ReadRegistration, Learns, tables
  <2>6. ASSUME NEW c \in Calls, Execute(c)
        PROVE  UNCHANGED members
    BY <2>6, ExecuteWrites DEF Writes, tables
  <2>7. ASSUME NEW c \in Calls, SiteRefuse(c) \/ SaveCollection(c) \/ SaveForm(c) \/ RefreshMember(c)
        PROVE  UNCHANGED members
    BY <2>7 DEF SiteRefuse, SaveCollection, SaveForm, RefreshMember, Refreshed, tables
  <2>8. ASSUME NEW u \in Users, (\E open \in BOOLEAN : SaveMatrix(u, open)) \/ \E m \in Member : SetMember(u, m)
        PROVE  UNCHANGED calls
    BY <2>8 DEF SaveMatrix, SetMember
  <2> HIDE DEF Stay
  <2> QED
    BY <2>1, <2>2, <2>3, <2>4, <2>5, <2>6, <2>7, <2>8 DEF SiteNext
<1> DEFINE Makes == \A r \in RecordIds :
             records[r] = Absent /\ records'[r] # Absent /\ records'[r].owner # Absent
             => Holds(records'[r].owner, 1)
<1>2. Typed /\ [SiteNext]_siteVars => [Makes]_siteVars
  <2> SUFFICES ASSUME Typed, SiteNext
               PROVE  Makes
    OBVIOUS
  <2>1. CASE UNCHANGED records
    BY <2>1
  <2>2. ASSUME NEW c \in Calls, NEW s \in RecordIds, Execute(c), Writes(c, s)
        PROVE  Makes
    <3>1. ASSUME NEW r \in RecordIds, records[r] = Absent, records'[r] # Absent, records'[r].owner # Absent
          PROVE  Holds(records'[r].owner, 1)
      <4>1. r = s /\ Creates(c, s) /\ records'[r].owner = calls[c].user
        BY <2>2, <3>1 DEF Writes, Creates, Updates, Deletes, Live, Typed, SiteTypeOK
      <4>2. calls[c].kind = "submit" /\ ActorMay(c)
        BY <2>2, <3>1, <4>1 DEF Creates, Execute, Under, Typed, Made, MadeAs
      <4> QED
        BY <3>1, <4>1, <4>2 DEF ActorMay
    <3> QED
      BY <3>1
  <2> HIDE DEF Makes
  <2> QED
    BY <2>1, <2>2, DataSteps
<1> HIDE DEF Stay, Makes
<1>3. SiteSpec => [][Stay]_siteVars /\ [][Makes]_siteVars
  BY <1>1, <1>2, AlwaysTyped, PTL DEF SiteSpec
<1> QED
  BY <1>3 DEF StandingKept, StandingIsManaged, SuspendedMakeNothing, Stay, Makes

=============================================================================
