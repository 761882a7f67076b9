--------------------------- MODULE RunOrchestrator --------------------------
(***************************************************************************)
(* The control plane of Runs: RunOrchestrator with InMemoryRunStore, from  *)
(* packages/run-orchestrator/src/orchestrator.ts and store.ts.             *)
(*                                                                         *)
(* A handler runs without interruption between two awaits, and the only    *)
(* awaits are those of the dispatcher port, enqueue and cancel.  The store *)
(* hands out copies and save() overwrites, so what a handler saves after   *)
(* an await is built from the copy it read before it.  Overlap says        *)
(* whether other handlers run while one of them awaits the dispatcher:     *)
(* the port's Promise allows it.  FALSE is the reference behaviour, where  *)
(* the dispatcher has answered before anything else is served.             *)
(***************************************************************************)
EXTENDS Naturals, FiniteSets

CONSTANTS
  Runs,         \* runs, each named by its idempotency key
  RunNodes,     \* workflow nodes
  Slots,        \* handlers that may await the dispatcher together
  Overlap,      \* may other handlers run while one awaits the dispatcher
  Timeouts,     \* timeoutSeconds a caller may ask for
  ApprovalTTL,  \* life of an approval request (15 minutes)
  RunAttempts,  \* maxAttempts of a run
  MaxJobs,      \* bound on the jobs minted
  MaxReports,   \* bound on the agent reports accepted
  MaxTime,      \* bound on the clock
  NoValue       \* "no value"

OrchestratorBounds ==
  /\ Timeouts \subseteq Nat
  /\ ApprovalTTL \in Nat
  /\ RunAttempts \in Nat \ {0}
  /\ MaxJobs \in Nat
  /\ MaxReports \in Nat
  /\ MaxTime \in Nat
  /\ Overlap \in BOOLEAN

VARIABLES
  now,        \* the orchestrator's clock
  runs,       \* the run records in the store
  agentJobs,  \* desktop jobs: the run each was minted for and what became of it
  minted,     \* how many job ids were minted; job ids are 1, 2, ...
  suspended,  \* handlers that await the dispatcher
  reports,    \* agent reports the job store accepted; each may be synced again
  applied     \* history: how often each report changed its run

runVars == <<now, runs, agentJobs, minted, suspended, reports, applied>>

-----------------------------------------------------------------------------

ActiveStatuses == {"awaiting_approval", "queued", "running"}
FinalStatuses == {"succeeded", "cancelled"}
RunStatuses == {"none", "failed", "timed_out"} \cup ActiveStatuses \cup FinalStatuses

StepStatuses == {"pending", "running", "succeeded", "cancelled"}
JobIds == 1 .. MaxJobs

\* approval is "none" for a workflow without risky nodes; job is 0 when unset.
\* seen stands for eventIds: a report is identified with its event id.
Report == [job : JobIds, kind : {"running", "succeeded"}, node : RunNodes]
     \cup [job : JobIds, kind : {"complete", "fail", "failRetryable"}, node : {NoValue}]

RunRecord == [status : RunStatuses,
              approval : {"none", "pending", "approved", "rejected", "expired"},
              approvalExpiresAt : Nat,
              timeoutAt : Nat,
              attempts : 0 .. RunAttempts,
              job : {0} \cup JobIds,
              steps : [RunNodes -> StepStatuses],
              seen : SUBSET Report]

\* "asked": enqueue was called; "live": the job store has it; "closed": finished,
\* stopped or never filed.
Job == [run : Runs \cup {NoValue}, state : {"none", "asked", "live", "closed"}]

\* Awaiting enqueue for run; awaiting cancel on behalf of cancel(); awaiting cancel
\* on behalf of the sweep, which holds a snapshot of the whole store.
EnqueueCall == [kind : {"enqueue"}, run : Runs, record : RunRecord]
CancelCall == [kind : {"cancel"}, run : Runs, record : RunRecord, asked : BOOLEAN]
SweepCall == [kind : {"sweep"}, run : Runs, record : RunRecord, asked : BOOLEAN,
              snapshot : [Runs -> RunRecord], todo : SUBSET Runs, at : Nat]

NoValueAssumption ==
  /\ NoValue \notin Runs \cup RunNodes
  /\ NoValue \notin EnqueueCall \cup CancelCall \cup SweepCall

ASSUME OrchestratorAssumption == OrchestratorBounds /\ NoValueAssumption

RunTypeOK ==
  /\ now \in 0 .. MaxTime
  /\ runs \in [Runs -> RunRecord]
  /\ agentJobs \in [JobIds -> Job]
  /\ minted \in 0 .. MaxJobs
  /\ suspended \in [Slots -> EnqueueCall \cup CancelCall \cup SweepCall \cup {NoValue}]
  /\ reports \subseteq Report
  /\ applied \in [Report -> Nat]

EveryStep(status) == [n \in RunNodes |-> status]

NoRun == [status |-> "none", approval |-> "none", approvalExpiresAt |-> 0, timeoutAt |-> 0,
           attempts |-> 0, job |-> 0, steps |-> EveryStep("pending"), seen |-> {}]

OrchestratorInit ==
  /\ now = 0
  /\ runs = [r \in Runs |-> NoRun]
  /\ agentJobs = [j \in JobIds |-> [run |-> NoValue, state |-> "none"]]
  /\ minted = 0
  /\ suspended = [c \in Slots |-> NoValue]
  /\ reports = {}
  /\ applied = [x \in Report |-> 0]

-----------------------------------------------------------------------------
(* Handlers and the dispatcher port *)

\* A handler may start.
CanRun == Overlap \/ \A c \in Slots : suspended[c] = NoValue

\* A handler that will await the dispatcher may start in slot c.
CanAwait(c) == CanRun /\ suspended[c] = NoValue

Save(r, record) == runs' = [runs EXCEPT ![r] = record]

Dispatched(record, j) ==
  [record EXCEPT !.attempts = @ + 1, !.job = j, !.status = "queued"]

\* dispatch() up to the await of enqueue: a fresh job id, one more attempt, saved.
Dispatch(c, r, record) ==
  LET j == minted + 1
      queued == Dispatched(record, j)
  IN /\ minted < MaxJobs
     /\ minted' = j
     /\ Save(r, queued)
     /\ agentJobs' = [agentJobs EXCEPT ![j] = [run |-> r, state |-> "asked"]]
     /\ suspended' = [suspended EXCEPT ![c] = [kind |-> "enqueue", run |-> r, record |-> queued]]

\* The dispatcher files the job; the handler returns what it saved before.
Enqueued(c) ==
  /\ suspended[c] # NoValue
  /\ suspended[c].kind = "enqueue"
  /\ agentJobs' = [agentJobs EXCEPT ![suspended[c].record.job].state = "live"]
  /\ suspended' = [suspended EXCEPT ![c] = NoValue]
  /\ UNCHANGED <<now, runs, minted, reports, applied>>

\* The dispatcher fails; the handler saves its copy as failed.
EnqueueFailed(c) ==
  /\ suspended[c] # NoValue
  /\ suspended[c].kind = "enqueue"
  /\ agentJobs' = [agentJobs EXCEPT ![suspended[c].record.job].state = "closed"]
  /\ Save(suspended[c].run, [suspended[c].record EXCEPT !.status = "failed"])
  /\ suspended' = [suspended EXCEPT ![c] = NoValue]
  /\ UNCHANGED <<now, minted, reports, applied>>

\* The dispatcher stops the job if the job store has it; the answer, false when
\* there was nothing to stop, is not looked at.
DispatcherCancels(c) ==
  /\ suspended[c] # NoValue
  /\ suspended[c].kind \in {"cancel", "sweep"}
  /\ suspended[c].asked
  /\ suspended' = [suspended EXCEPT ![c].asked = FALSE]
  /\ LET j == suspended[c].record.job
     IN agentJobs' = IF agentJobs[j].state = "live"
                     THEN [agentJobs EXCEPT ![j].state = "closed"] ELSE agentJobs
  /\ UNCHANGED <<now, runs, minted, reports, applied>>

-----------------------------------------------------------------------------
(* Requests of the workspace *)

\* start(): an exact replay returns the existing run and changes nothing.
Start(c, r, risky, timeout) ==
  LET record == [NoRun EXCEPT !.status = IF risky THEN "awaiting_approval" ELSE "queued",
                               !.approval = IF risky THEN "pending" ELSE "none",
                               !.approvalExpiresAt = IF risky THEN now + ApprovalTTL ELSE 0,
                               !.timeoutAt = now + timeout]
  IN /\ CanAwait(c)
     /\ runs[r].status = "none"
     /\ now + timeout <= MaxTime   \* the bounded clock can reach every timeout
     /\ IF risky
        THEN Save(r, record) /\ UNCHANGED <<agentJobs, minted, suspended>>
        ELSE Dispatch(c, r, record)
     /\ UNCHANGED <<now, reports, applied>>

Approvable(r) == runs[r].status = "awaiting_approval" /\ runs[r].approval = "pending"

Expired(record) == [record EXCEPT !.approval = "expired", !.status = "cancelled"]

Approve(c, r) ==
  /\ CanAwait(c)
  /\ Approvable(r)
  /\ runs[r].approvalExpiresAt > now
  /\ Dispatch(c, r, [runs[r] EXCEPT !.approval = "approved"])
  /\ UNCHANGED <<now, reports, applied>>

\* approve() of an expired request cancels the run.
ApproveTooLate(r) ==
  /\ CanRun
  /\ Approvable(r)
  /\ runs[r].approvalExpiresAt <= now
  /\ Save(r, Expired(runs[r]))
  /\ UNCHANGED <<now, agentJobs, minted, suspended, reports, applied>>

RejectRun(r) ==
  /\ CanRun
  /\ Approvable(r)
  /\ Save(r, [runs[r] EXCEPT !.approval = "rejected", !.status = "cancelled"])
  /\ UNCHANGED <<now, agentJobs, minted, suspended, reports, applied>>

\* Unfinished steps are closed with their run.
StepsClosed(steps) ==
  [n \in RunNodes |-> IF steps[n] \in {"pending", "running"} THEN "cancelled" ELSE steps[n]]

Cancelled(record) == [record EXCEPT !.status = "cancelled", !.steps = StepsClosed(@)]

\* Fault: every run that exists can be cancelled.
CancellableAlways(r) == runs[r].status # "none"

Cancellable(r) == runs[r].status \in ActiveStatuses

\* cancel() of a run without a job.
CancelHeld(r) ==
  /\ CanRun
  /\ Cancellable(r)
  /\ runs[r].job = 0
  /\ Save(r, Cancelled(runs[r]))
  /\ UNCHANGED <<now, agentJobs, minted, suspended, reports, applied>>

\* cancel() up to the await of dispatcher.cancel.
CancelRun(c, r) ==
  /\ CanAwait(c)
  /\ Cancellable(r)
  /\ runs[r].job # 0
  /\ suspended' = [suspended EXCEPT
       ![c] = [kind |-> "cancel", run |-> r, record |-> runs[r], asked |-> TRUE]]
  /\ UNCHANGED <<now, runs, agentJobs, minted, reports, applied>>

\* cancel() after it: the copy read before is saved.
FinishCancel(c) ==
  /\ suspended[c] # NoValue
  /\ suspended[c].kind = "cancel"
  /\ ~ suspended[c].asked
  /\ Save(suspended[c].run, Cancelled(suspended[c].record))
  /\ suspended' = [suspended EXCEPT ![c] = NoValue]
  /\ UNCHANGED <<now, agentJobs, minted, reports, applied>>

\* prepareRetry: steps start over; timeoutAt and approval stay as they were.
Prepared(record) == [record EXCEPT !.status = "queued", !.job = 0, !.steps = EveryStep("pending")]

Retryable(r) == runs[r].status \in {"failed", "timed_out"} /\ runs[r].attempts < RunAttempts

Retry(c, r) ==
  /\ CanAwait(c)
  /\ Retryable(r)
  /\ Dispatch(c, r, Prepared(runs[r]))
  /\ UNCHANGED <<now, reports, applied>>

-----------------------------------------------------------------------------
(* Agent reports *)

\* The job store accepts a report for a live job; a terminal one ends the job. What
\* was accepted is delivered to the orchestrator later, and again when the Agent
\* repeats its call.
AgentReports(x) ==
  /\ x \notin reports
  /\ Cardinality(reports) < MaxReports
  /\ agentJobs[x.job].state = "live"
  /\ reports' = reports \cup {x}
  /\ agentJobs' = IF x.kind \in {"running", "succeeded"}
                  THEN agentJobs ELSE [agentJobs EXCEPT ![x.job].state = "closed"]
  /\ UNCHANGED <<now, runs, minted, suspended, applied>>

Fresh(r, x) == x \notin runs[r].seen

\* requireForJob, the duplicate check and the status check of all three handlers.
Accepts(r, x) ==
  /\ CanRun
  /\ x \in reports
  /\ runs[r].job = x.job
  /\ Fresh(r, x)
  /\ runs[r].status \in {"queued", "running"}

Apply(x) == applied' = [applied EXCEPT ![x] = @ + 1]

RecordAgentProgress(r, x) ==
  /\ Accepts(r, x)
  /\ x.kind \in {"running", "succeeded"}
  /\ Save(r, [runs[r] EXCEPT !.status = "running", !.steps[x.node] = x.kind,
                             !.seen = @ \cup {x}])
  /\ Apply(x)
  /\ UNCHANGED <<now, agentJobs, minted, suspended, reports>>

StepsDone(r) == \A n \in RunNodes : runs[r].steps[n] = "succeeded"

CompleteAgentJob(r, x) ==
  /\ Accepts(r, x)
  /\ x.kind = "complete"
  /\ StepsDone(r)
  /\ Save(r, [runs[r] EXCEPT !.status = "succeeded", !.seen = @ \cup {x}])
  /\ Apply(x)
  /\ UNCHANGED <<now, agentJobs, minted, suspended, reports>>

FailedBy(record, x) == [record EXCEPT !.status = "failed", !.seen = @ \cup {x}]

\* failAgentJob: the run fails and, while attempts remain, is dispatched again.
FailAgentJob(r, x) ==
  /\ Accepts(r, x)
  /\ x.kind \in {"fail", "failRetryable"}
  /\ x.kind = "fail" \/ runs[r].attempts >= RunAttempts
  /\ Save(r, FailedBy(runs[r], x))
  /\ Apply(x)
  /\ UNCHANGED <<now, agentJobs, minted, suspended, reports>>

FailAndRetry(c, r, x) ==
  /\ CanAwait(c)
  /\ Accepts(r, x)
  /\ x.kind = "failRetryable"
  /\ runs[r].attempts < RunAttempts
  /\ Dispatch(c, r, Prepared(FailedBy(runs[r], x)))
  /\ Apply(x)
  /\ UNCHANGED <<now, reports>>

-----------------------------------------------------------------------------
(* The timeout sweep *)

TimedOut(record) == [record EXCEPT !.status = "timed_out", !.steps = StepsClosed(@)]

ApprovalOverdue(record, at) ==
  /\ record.status = "awaiting_approval"
  /\ record.approval # "none"
  /\ record.approvalExpiresAt <= at

\* Fault: only a run that an Agent works on is timed out.
OverdueAtWork(record, at) == record.status = "running" /\ record.timeoutAt <= at

Overdue(record, at) == record.status \in ActiveStatuses /\ record.timeoutAt <= at

\* Fault: the job of an overdue run is left to the Agent.
MustStopNever(record, at) == FALSE

\* The sweep awaits dispatcher.cancel for this snapshot.
MustStop(record, at) ==
  ~ ApprovalOverdue(record, at) /\ Overdue(record, at) /\ record.job # 0

\* Snapshots the sweep changes on the spot.
Swept(record, at) ==
  IF ApprovalOverdue(record, at) THEN Expired(record) ELSE TimedOut(record)

\* What the sweep does between two awaits: it handles the snapshots of batch, then
\* awaits the dispatcher for one more or is through. stored is the store it finds.
Segment(c, snapshot, todo, at, stored) ==
  \E batch \in SUBSET todo :
    /\ \A r \in batch : ~ MustStop(snapshot[r], at)
    /\ runs' = [r \in Runs |->
         IF r \in batch /\ (ApprovalOverdue(snapshot[r], at) \/ Overdue(snapshot[r], at))
         THEN Swept(snapshot[r], at) ELSE stored[r]]
    /\ \/ /\ batch = todo
          /\ suspended' = [suspended EXCEPT ![c] = NoValue]
       \/ \E r \in todo \ batch :
            /\ MustStop(snapshot[r], at)
            /\ suspended' = [suspended EXCEPT
                 ![c] = [kind |-> "sweep", run |-> r, record |-> snapshot[r], asked |-> TRUE,
                         snapshot |-> snapshot, todo |-> todo \ (batch \cup {r}), at |-> at]]

SweepExpired(c) ==
  /\ CanAwait(c)
  /\ Segment(c, runs, {r \in Runs : runs[r].status # "none"}, now, runs)
  /\ UNCHANGED <<now, agentJobs, minted, reports, applied>>

ResumeSweep(c) ==
  /\ suspended[c] # NoValue
  /\ suspended[c].kind = "sweep"
  /\ ~ suspended[c].asked
  /\ Segment(c, suspended[c].snapshot, suspended[c].todo, suspended[c].at,
             [runs EXCEPT ![suspended[c].run] = TimedOut(suspended[c].record)])
  /\ UNCHANGED <<now, agentJobs, minted, reports, applied>>

Tick ==
  /\ now < MaxTime
  /\ now' = now + 1
  /\ UNCHANGED <<runs, agentJobs, minted, suspended, reports, applied>>

-----------------------------------------------------------------------------

PortNext ==
  \E c \in Slots : Enqueued(c) \/ EnqueueFailed(c) \/ DispatcherCancels(c)

ResumeNext ==
  \E c \in Slots : FinishCancel(c) \/ ResumeSweep(c)

UserNext ==
  \E r \in Runs :
    \/ ApproveTooLate(r)
    \/ RejectRun(r)
    \/ CancelHeld(r)
    \/ \E c \in Slots :
         \/ \E risky \in BOOLEAN, timeout \in Timeouts : Start(c, r, risky, timeout)
         \/ Approve(c, r)
         \/ CancelRun(c, r)
         \/ Retry(c, r)

AgentReportNext ==
  \E x \in Report :
    \/ AgentReports(x)
    \/ \E r \in Runs :
         \/ RecordAgentProgress(r, x)
         \/ CompleteAgentJob(r, x)
         \/ FailAgentJob(r, x)
         \/ \E c \in Slots : FailAndRetry(c, r, x)

OrchestratorNext ==
  \/ PortNext \/ ResumeNext \/ UserNext \/ AgentReportNext \/ Tick
  \/ \E c \in Slots : SweepExpired(c)

OrchestratorSpec == OrchestratorInit /\ [][OrchestratorNext]_runVars

\* The dispatcher answers, suspended handlers resume, time passes, and the sweep,
\* which every listing and every run page triggers, keeps being called.
OrchestratorFairness ==
  /\ WF_runVars(PortNext)
  /\ WF_runVars(ResumeNext)
  /\ WF_runVars(Tick)
  /\ SF_runVars(\E c \in Slots : SweepExpired(c))

OrchestratorFairSpec == OrchestratorSpec /\ OrchestratorFairness

-----------------------------------------------------------------------------
(* Properties *)

\* A run is only marked succeeded once every one of its nodes has succeeded.
SuccessesAreComplete ==
  \A r \in Runs : runs[r].status = "succeeded" => \A n \in RunNodes : runs[r].steps[n] = "succeeded"

\* A job that can still be executed is the current job of a run that is queued or
\* running: no retry, cancellation or timeout leaves a second job behind. The job a
\* suspended cancel or sweep is about to stop is included until it is stopped.
OpenJobsAreCurrent ==
  \A j \in JobIds :
    agentJobs[j].state \in {"asked", "live"} =>
      /\ runs[agentJobs[j].run].job = j
      /\ runs[agentJobs[j].run].status \in {"queued", "running"}

\* A run whose approval was rejected or has expired never gets a job.
NeverAfterRefusal ==
  \A j \in JobIds :
    agentJobs[j].run # NoValue => runs[agentJobs[j].run].approval \notin {"rejected", "expired"}

\* Every job accounts for one attempt of its run, so a run never has more jobs than
\* maxAttempts.
AttemptPerJob ==
  \A r \in Runs : runs[r].attempts = Cardinality({j \in JobIds : agentJobs[j].run = r})

\* However often an Agent repeats a report, it changes the run at most once.
AppliedOnce == \A x \in Report : applied[x] <= 1

\* Success and cancellation are final.
FinalRunsStay ==
  [][\A r \in Runs : runs[r].status \in FinalStatuses => runs'[r].status = runs[r].status]_runVars

\* No run stays active: timeouts end whatever users and Agents leave open.  (A run that was
\* never started is not.)
RunsSettle ==
  \A r \in Runs : []<>(runs[r].status \notin ActiveStatuses)

\* What holds of runs, jobs and reports at any instant.
RunSafe ==
  /\ RunTypeOK
  /\ SuccessesAreComplete
  /\ OpenJobsAreCurrent
  /\ NeverAfterRefusal
  /\ AttemptPerJob
  /\ AppliedOnce

=============================================================================
