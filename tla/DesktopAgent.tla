---------------------------- MODULE DesktopAgent ----------------------------
(***************************************************************************)
(* The Desktop Agent's client, apps/desktop/src/main/agent-client.ts, over *)
(* a network that loses, delays and reorders requests and answers.  The    *)
(* store it talks to is what JobLease promises, which AgentJobs implements. *)
(*                                                                         *)
(* runCycle() polls and works off the jobs it was told of; a cycle may     *)
(* still be awaiting an answer or a node when stop() and start() are       *)
(* called, and the next cycle then runs beside it.  The renewals and       *)
(* heartbeats of a running job are the steps that end in leaseFailure.     *)
(***************************************************************************)
EXTENDS Naturals, FiniteSets, Sequences

CONSTANTS
  Jobs,        \* the jobs offered to this device
  MaxCycles,   \* bound on the cycles that are under way together
  MaxClaims,   \* bound on the claims of a job (max_attempts)
  MaxReports,  \* bound on the progress reports
  MaxEvents,   \* bound on losses and interventions together
  None         \* "no cycle", "no job"

ASSUME BoundsAssumption ==
  /\ MaxCycles \in Nat \ {0}
  /\ MaxClaims \in Nat \ {0}
  /\ MaxReports \in Nat
  /\ MaxEvents \in Nat

Cycles == 1 .. MaxCycles

ASSUME NoneAssumption == None \notin Jobs \cup Cycles

VARIABLES
  phase, epoch, journal,  \* the store, see JobLease
  revoked,     \* the device was revoked: the server refuses whatever it sends
  session,     \* the pairing session, in the vault and in memory
  running,     \* executorRunning
  timer,       \* a timer is set that will start a cycle
  controller,  \* the cycle whose AbortController the field abortController holds
  cycles,      \* the cycles under way
  late,        \* requests whose cycle gave up waiting while they travelled
  losses,      \* how many messages were lost or late, and leases lapsed under a live job
  stops,       \* how often the user, the control plane or a crash intervened
  reports,     \* how many steps handlers reported
  work,        \* history: what became of the work done under each claim
  overlapped   \* history: the executor was started while an older cycle was under way

store == <<phase, epoch, journal>>
client == <<session, running, timer, controller, cycles>>
vars == <<store, revoked, client, late, losses, stops, reports, work, overlapped>>

Store == INSTANCE JobLease

-----------------------------------------------------------------------------

Epochs == 0 .. MaxClaims

\* at: the request whose answer the cycle awaits, or "work" while the job's handler
\* runs; net: where that request or its answer is; todo: the listed jobs not handled
\* yet; epoch: stands for the claim token; aborted: the cycle's AbortSignal;
\* leaseLost: leaseFailure.
Cycle == [at : {"poll", "claim", "work", "progress", "complete", "fail"},
          net : {"sent", "ok", "conflict", "refused"},
          todo : SUBSET Jobs, job : Jobs \cup {None}, epoch : Epochs,
          aborted : BOOLEAN, leaseLost : BOOLEAN]

ASSUME NoneIsNoCycle == None \notin Cycle

Request == [kind : {"claim", "progress", "complete", "fail"}, job : Jobs, epoch : Epochs]

Active == {c \in Cycles : cycles[c] # None}

InJob == {"work", "progress", "complete", "fail"}

TypeOK ==
  /\ phase \in [Jobs -> {"none", "free", "held", "succeeded", "failed", "cancelled"}]
  /\ epoch \in [Jobs -> Epochs]
  /\ journal \in [Jobs -> Seq({"claimed", "progress", "succeeded", "failed", "cancelled"} \X Epochs)]
  /\ revoked \in BOOLEAN
  /\ session \in {"unpaired", "paired", "clearing", "cleared"}
  /\ running \in BOOLEAN
  /\ timer \in BOOLEAN
  /\ controller \in Cycles \cup {None}
  /\ cycles \in [Cycles -> Cycle \cup {None}]
  /\ late \in SUBSET Request
  /\ losses \in Nat
  /\ stops \in Nat
  /\ reports \in Nat
  /\ work \in [Jobs -> [Epochs -> {"none", "running", "done", "failed"}]]
  /\ overlapped \in BOOLEAN

Init ==
  /\ Store!Init
  /\ revoked = FALSE
  /\ session = "unpaired"
  /\ running = FALSE
  /\ timer = FALSE
  /\ controller = None
  /\ cycles = [c \in Cycles |-> None]
  /\ late = {}
  /\ losses = 0
  /\ stops = 0
  /\ reports = 0
  /\ work = [j \in Jobs |-> [e \in Epochs |-> "none"]]
  /\ overlapped = FALSE

HasSession == session \in {"paired", "clearing"}

Holds(j, e) == phase[j] = "held" /\ epoch[j] = e

-----------------------------------------------------------------------------
(* The user and the operating system *)

\* pair(); this device is paired once.
Pair ==
  /\ session = "unpaired"
  /\ session' = "paired"
  /\ UNCHANGED <<store, revoked, running, timer, controller, cycles, late, losses, stops,
                 reports, work, overlapped>>

Start ==
  /\ HasSession
  /\ ~ running
  /\ running' = TRUE
  /\ timer' = TRUE
  /\ overlapped' = (overlapped \/ Active # {})
  /\ UNCHANGED <<store, revoked, session, controller, cycles, late, losses, stops, reports, work>>

\* stop(): the abort reaches the cycle whose controller the field holds.
Stopped ==
  /\ running' = FALSE
  /\ timer' = FALSE
  /\ controller' = None
  /\ cycles' = [c \in Cycles |->
       IF c = controller /\ cycles[c] # None
       THEN [cycles[c] EXCEPT !.aborted = TRUE] ELSE cycles[c]]

Stop ==
  /\ running
  /\ losses + stops < MaxEvents
  /\ stops' = stops + 1
  /\ Stopped
  /\ UNCHANGED <<store, revoked, session, late, losses, reports, work, overlapped>>

\* clearSession() stops, and goes on once the vault is cleared.
ClearSession ==
  /\ session = "paired"
  /\ losses + stops < MaxEvents
  /\ stops' = stops + 1
  /\ session' = "clearing"
  /\ Stopped
  /\ UNCHANGED <<store, revoked, late, losses, reports, work, overlapped>>

VaultCleared ==
  /\ session = "clearing"
  /\ session' = "cleared"
  /\ UNCHANGED <<store, revoked, running, timer, controller, cycles, late, losses, stops,
                 reports, work, overlapped>>

\* The application dies and is started again: initialize() reads the vault, and the
\* executor stays off until the user starts it.
Crash ==
  /\ losses + stops < MaxEvents
  /\ stops' = stops + 1
  /\ session' \in IF session = "clearing" THEN {"paired", "cleared"} ELSE {session}
  /\ running' = FALSE
  /\ timer' = FALSE
  /\ controller' = None
  /\ cycles' = [c \in Cycles |-> None]
  /\ late' = late \cup
       {[kind |-> cycles[c].at, job |-> cycles[c].job, epoch |-> cycles[c].epoch] :
          c \in {d \in Active : cycles[d].net = "sent" /\ cycles[d].at \notin {"poll", "work"}}}
  /\ work' = [j \in Jobs |-> [e \in Epochs |->
       IF work[j][e] = "running" THEN "failed" ELSE work[j][e]]]
  /\ UNCHANGED <<store, revoked, losses, overlapped, reports>>

-----------------------------------------------------------------------------
(* The steps of a cycle *)

Fresh == [at |-> "poll", net |-> "sent", todo |-> {}, job |-> None, epoch |-> 0,
          aborted |-> FALSE, leaseLost |-> FALSE]

\* The timer's callback: runCycle() up to its first await.
TimerFires(c) ==
  /\ timer
  /\ cycles[c] = None
  /\ \A d \in 1 .. c - 1 : cycles[d] # None
  /\ IF HasSession
     THEN /\ timer' = FALSE
          /\ controller' = c
          /\ cycles' = [cycles EXCEPT ![c] = Fresh]
     ELSE /\ controller' = None     \* requireSession() throws; the cycle is scheduled anew
          /\ UNCHANGED <<timer, cycles>>
  /\ UNCHANGED <<store, revoked, session, running, late, losses, stops, reports, work, overlapped>>

\* Fault: an error ends the loop.
RescheduledAfterJobs(c) == timer' = (timer \/ (running /\ cycles[c].at # "poll"))

\* schedule(), after a cycle and after its error, replaces whatever timer is set.
Rescheduled(c) == timer' = (timer \/ running)

\* The end of runCycle(): its finally clause clears the field, whosever controller
\* that holds.
EndCycle(c) ==
  /\ cycles' = [cycles EXCEPT ![c] = None]
  /\ Rescheduled(c)
  /\ controller' = None

Sent(cycle, kind) == [cycle EXCEPT !.at = kind, !.net = "sent"]

MayGoOn(cycle) == cycle.todo # {} /\ ~ cycle.aborted /\ HasSession

\* The loop of processOnce(): the claim of the next job is sent, or the cycle ends.
Continue(c, cycle) ==
  IF MayGoOn(cycle)
  THEN /\ \E j \in cycle.todo :
            cycles' = [cycles EXCEPT ![c] =
              [Sent(cycle, "claim") EXCEPT !.todo = @ \ {j}, !.job = j, !.epoch = 0,
                                           !.leaseLost = FALSE]]
       /\ UNCHANGED <<timer, controller>>
  ELSE EndCycle(c)

Silent(cycle) == cycle.aborted \/ cycle.leaseLost

\* The catch clause of executePendingJob().
JobFails(c, cycle) ==
  IF Silent(cycle)
  THEN Continue(c, cycle)
  ELSE /\ cycles' = [cycles EXCEPT ![c] = Sent(cycle, "fail")]
       /\ UNCHANGED <<timer, controller>>

\* The job's handler reports a step; under an aborted signal nothing is sent and the
\* report throws, which is an end of the handler.
HandlerReports(c) ==
  /\ c \in Active
  /\ cycles[c].at = "work"
  /\ ~ Silent(cycles[c])
  /\ reports < MaxReports
  /\ reports' = reports + 1
  /\ cycles' = [cycles EXCEPT ![c] = Sent(@, "progress")]
  /\ UNCHANGED <<store, revoked, session, running, timer, controller, late, losses, stops,
                 work, overlapped>>

\* The handler returns or throws, whether or not it was aborted meanwhile.
HandlerEnds(c, outcome) ==
  /\ c \in Active
  /\ cycles[c].at = "work"
  /\ work' = [work EXCEPT ![cycles[c].job][cycles[c].epoch] = outcome]
  /\ IF outcome = "done" /\ ~ Silent(cycles[c])
     THEN /\ cycles' = [cycles EXCEPT ![c] = Sent(@, "complete")]
          /\ UNCHANGED <<timer, controller>>
     ELSE JobFails(c, cycles[c])
  /\ UNCHANGED <<store, revoked, session, running, late, losses, stops, overlapped, reports>>

\* A renewal or a heartbeat of the running job is refused or unanswered.
LeaseFails(c) ==
  /\ c \in Active
  /\ cycles[c].at \in InJob
  /\ ~ Silent(cycles[c])
  /\ \/ /\ revoked \/ ~ Holds(cycles[c].job, cycles[c].epoch)
        /\ UNCHANGED losses
     \/ losses + stops < MaxEvents /\ losses' = losses + 1
  /\ cycles' = [cycles EXCEPT ![c].leaseLost = TRUE]
  /\ UNCHANGED <<store, revoked, session, running, timer, controller, late, stops, reports, work,
                 overlapped>>

\* A request that failed, was refused, aborted or not answered in time. A failed
\* progress report makes the handler throw.
RequestFails(c) ==
  LET cycle == cycles[c] IN
  /\ work' = IF cycle.at = "progress"
             THEN [work EXCEPT ![cycle.job][cycle.epoch] = "failed"] ELSE work
  /\ \/ cycle.at \in {"poll", "claim"} /\ EndCycle(c)
     \/ cycle.at \in {"progress", "complete"} /\ JobFails(c, cycle)
     \/ cycle.at = "fail" /\ Continue(c, cycle)

\* The answer arrives.
Receive(c) ==
  /\ c \in Active
  /\ cycles[c].at # "work"
  /\ \/ /\ cycles[c].net = "ok"
        /\ \/ cycles[c].at \in {"poll", "complete", "fail"} /\ Continue(c, cycles[c]) /\ UNCHANGED work
           \/ /\ cycles[c].at = "claim"
              /\ cycles' = [cycles EXCEPT ![c].at = "work"]
              /\ work' = [work EXCEPT ![cycles[c].job][cycles[c].epoch] = "running"]
              /\ UNCHANGED <<timer, controller>>
           \/ /\ cycles[c].at = "progress"
              /\ cycles' = [cycles EXCEPT ![c].at = "work"]
              /\ UNCHANGED <<timer, controller, work>>
     \/ /\ cycles[c].net = "conflict" /\ cycles[c].at = "claim"
        /\ Continue(c, cycles[c])
        /\ UNCHANGED work
     \/ /\ cycles[c].net = "refused" \/ (cycles[c].net = "conflict" /\ cycles[c].at # "claim")
        /\ RequestFails(c)
  /\ UNCHANGED <<store, revoked, session, running, late, losses, stops, overlapped, reports>>

\* The signal of the request was aborted, or it timed out: a loss. What was sent may
\* still reach the server.
GiveUp(c) ==
  /\ c \in Active
  /\ cycles[c].at # "work"
  /\ \/ cycles[c].aborted /\ UNCHANGED losses
     \/ cycles[c].at \in InJob /\ cycles[c].leaseLost /\ UNCHANGED losses
     \/ losses + stops < MaxEvents /\ losses' = losses + 1
  /\ late' = IF cycles[c].net = "sent" /\ cycles[c].at # "poll"
             THEN late \cup {[kind |-> cycles[c].at, job |-> cycles[c].job,
                              epoch |-> cycles[c].epoch]}
             ELSE late
  /\ RequestFails(c)
  /\ UNCHANGED <<store, revoked, session, running, stops, overlapped, reports>>

-----------------------------------------------------------------------------
(* The server *)

Claimable(j) == phase[j] = "free" /\ epoch[j] < MaxClaims

\* Fault: whoever claimed the job once may end it.
ReportsAnyClaim(kind, j, e) ==
  /\ phase[j] = "held"
  /\ \/ kind = "progress" /\ Store!Report(j)
     \/ kind = "complete" /\ Store!Finish(j, "succeeded")
     \/ kind = "fail" /\ Store!Finish(j, "failed")

\* A report counts under the claim that holds the job.
Reports(kind, j, e) ==
  /\ Holds(j, e)
  /\ \/ kind = "progress" /\ Store!Report(j)
     \/ kind = "complete" /\ Store!Finish(j, "succeeded")
     \/ kind = "fail" /\ Store!Finish(j, "failed")

\* What the store does with a request it does not refuse.
Accepts(kind, j, e) ==
  IF kind = "claim" THEN Claimable(j) /\ Store!Grant(j) ELSE Reports(kind, j, e)

Acceptable(kind, j, e) == IF kind = "claim" THEN Claimable(j) ELSE Holds(j, e)

Serve(c) ==
  /\ c \in Active
  /\ cycles[c].at # "work"
  /\ cycles[c].net = "sent"
  /\ LET cycle == cycles[c] IN
     \/ /\ revoked
        /\ cycles' = [cycles EXCEPT ![c].net = "refused"]
        /\ UNCHANGED store
     \/ /\ ~ revoked
        /\ cycle.at = "poll"
        /\ cycles' = [cycles EXCEPT
             ![c] = [@ EXCEPT !.net = "ok", !.todo = {j \in Jobs : Claimable(j)}]]
        /\ UNCHANGED store
     \/ /\ ~ revoked
        /\ cycle.at # "poll"
        /\ Accepts(cycle.at, cycle.job, cycle.epoch)
        /\ cycles' = [cycles EXCEPT ![c] = [@ EXCEPT !.net = "ok", !.epoch = epoch'[cycle.job]]]
     \/ /\ ~ revoked
        /\ cycle.at # "poll"
        /\ ~ Acceptable(cycle.at, cycle.job, cycle.epoch)
        /\ cycles' = [cycles EXCEPT ![c].net = "conflict"]
        /\ UNCHANGED store
  /\ UNCHANGED <<revoked, session, running, timer, controller, late, losses, stops, reports, work,
                 overlapped>>

\* A request nobody waits for reaches the server after all.
ServeLate(m) ==
  /\ m \in late
  /\ late' = late \ {m}
  /\ ~ revoked
  /\ Accepts(m.kind, m.job, m.epoch)
  /\ UNCHANGED <<revoked, client, losses, stops, reports, work, overlapped>>

Offer(j) ==
  /\ Store!Offer(j)
  /\ UNCHANGED <<revoked, client, late, losses, stops, reports, work, overlapped>>

\* A cycle that still works on j under the claim that holds it, and renews the lease.
Renewed(j) ==
  \E c \in Active : cycles[c].at \in InJob /\ cycles[c].job = j /\ cycles[c].epoch = epoch[j]
                    /\ ~ Silent(cycles[c]) /\ ~ revoked

\* A lease lapses that nobody renews.
LeaseLapses(j) ==
  /\ ~ Renewed(j)
  /\ Store!Lapse({j})
  /\ phase[j] = "held"
  /\ UNCHANGED <<revoked, client, late, losses, stops, reports, work, overlapped>>

\* A lease lapses between two renewals: the computer slept.
LeaseSlept(j) ==
  /\ Renewed(j)
  /\ losses + stops < MaxEvents
  /\ losses' = losses + 1
  /\ Store!Lapse({j})
  /\ UNCHANGED <<revoked, client, late, stops, reports, work, overlapped>>

\* The control plane cancels a job.
CancelJob(j) ==
  /\ losses + stops < MaxEvents
  /\ stops' = stops + 1
  /\ Store!Cancel({j})
  /\ UNCHANGED <<revoked, client, late, losses, reports, work, overlapped>>

\* The control plane revokes the device and cancels its jobs.
Revoke ==
  /\ ~ revoked
  /\ losses + stops < MaxEvents
  /\ stops' = stops + 1
  /\ revoked' = TRUE
  /\ Store!Cancel({j \in Jobs : phase[j] \in {"free", "held"}})
  /\ UNCHANGED <<client, late, losses, reports, work, overlapped>>

-----------------------------------------------------------------------------

UserNext == Pair \/ Start \/ Stop \/ ClearSession \/ VaultCleared \/ Crash

CycleNext(c) ==
  \/ TimerFires(c) \/ HandlerReports(c) \/ LeaseFails(c) \/ Receive(c) \/ GiveUp(c) \/ Serve(c)
  \/ \E outcome \in {"done", "failed"} : HandlerEnds(c, outcome)

ServerNext ==
  \/ Revoke
  \/ \E m \in late : ServeLate(m)
  \/ \E j \in Jobs : Offer(j) \/ LeaseLapses(j) \/ LeaseSlept(j) \/ CancelJob(j)

Next == UserNext \/ ServerNext \/ \E c \in Cycles : CycleNext(c)

Spec == Init /\ [][Next]_vars

\* Timers fire, requests are served and answered, handlers end, and leases that are
\* not renewed run out.
Fairness ==
  /\ \A c \in Cycles :
       /\ WF_vars(Receive(c) \/ Serve(c) \/ \E outcome \in {"done", "failed"} : HandlerEnds(c, outcome))
  /\ WF_vars(\E c \in Cycles : TimerFires(c))
  /\ \A j \in Jobs : WF_vars(LeaseLapses(j))

FairSpec == Spec /\ Fairness

-----------------------------------------------------------------------------
(* Properties *)

\* A job is recorded as succeeded only when the handler that ran under the claim in
\* force had returned: no late or repeated report of another claim ends it.
SuccessIsWork ==
  \A j \in Jobs : phase[j] = "succeeded" => work[j][epoch[j]] = "done"

\* Work that was done is recorded as failed only if a message was lost or a lease
\* lapsed while it was being reported.
DoneIsNotFailed ==
  \A j \in Jobs :
    phase[j] = "failed" /\ work[j][epoch[j]] = "done" => losses > 0

\* The loop never dies: while the executor is running, a cycle is under way or a timer
\* will start one, however often it was stopped, started and failed.
LoopAlive == running => timer \/ Active # {}

\* Stopping the executor aborts the workflow under way and claims no further job, as
\* long as it was not started while an older cycle was still under way.
StopIsHeard ==
  ~ overlapped /\ ~ running => \A c \in Active : cycles[c].aborted

\* An offered job ends, unless the executor is off, the device is gone, or every claim
\* of the job was used up.
OfferedJobsEnd ==
  \A j \in Jobs :
    []<>(\/ phase[j] \notin {"free", "held"}
         \/ ~ running \/ ~ HasSession \/ revoked
         \/ epoch[j] = MaxClaims)

\* What holds of the executor, its cycles and the jobs at any instant.
DesktopSafe ==
  /\ TypeOK
  /\ SuccessIsWork
  /\ DoneIsNotFailed
  /\ LoopAlive
  /\ StopIsHeard

=============================================================================
