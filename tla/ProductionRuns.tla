--------------------------- MODULE ProductionRuns ---------------------------
(***************************************************************************)
(* A desktop Run in production: the handlers of                            *)
(* apps/web/src/lib/production-run-server.ts over the tables and the       *)
(* transition_workflow_run, finish_agent_job and revoke_agent_device_v2    *)
(* functions of supabase/migrations.                                       *)
(*                                                                         *)
(* A handler is a sequence of database calls; other handlers, the Agent    *)
(* and the clock act between any two of them, and the serverless function  *)
(* that runs it may die there.  Every SQL function is one step.  runView,  *)
(* which reads a run with its steps, approval and job, is one step too.    *)
(* The model follows one run; its jobs and steps are keyed by the attempt, *)
(* as their unique keys are.                                               *)
(***************************************************************************)
EXTENDS Naturals, FiniteSets

CONSTANTS
  Nodes,        \* workflow nodes
  Handlers,     \* handlers that may be under way together
  MaxAttempts,  \* max_attempts of the run
  MaxCrashes,   \* bound on the handlers that die
  None          \* "no handler", "no node"

\* A workflow has at least one node.
ASSUME BoundsAssumption ==
  MaxAttempts \in Nat \ {0} /\ MaxCrashes \in Nat /\ Nodes # {}

VARIABLES
  risky,     \* does the workflow version require an approval
  run,       \* the row of workflow_runs
  approval,  \* the row of workflow_approvals
  steps,     \* the rows of workflow_run_steps, by attempt and node
  jobs,      \* the rows of agent_jobs, by the attempt in their idempotency key
  revoked,   \* is the run's device revoked
  handlers,  \* what each handler is about to do and what it has read
  crashes    \* how many handlers died

vars == <<risky, run, approval, steps, jobs, revoked, handlers, crashes>>

-----------------------------------------------------------------------------

Active == {"awaiting_approval", "queued", "running"}
Statuses == {"none", "deleted", "pending", "succeeded", "failed", "cancelled", "timed_out"} \cup Active

Attempts == 1 .. MaxAttempts
OpenJob == {"pending", "claimed"}
OpenStep == {"pending", "running"}

Labels == {"start.steps", "start.approval", "start.hold", "start.queue",
           "job.insert", "job.audit", "job.undo", "undo",
           "approve.record", "approve.queue", "approve.attempt",
           "reject.record", "reject.run", "expire.record", "expire.run",
           "cancel.run", "sweep.run", "retry.queue", "retry.timeout", "retry.steps",
           "progress.read", "progress.start", "progress.step",
           "finish.read", "finish.start", "finish.review", "finish.run"}

\* at: the next call; seen: the run status or the report it is about; attempt and
\* node: those of the rows it is about.
Handler == [at : Labels, seen : Statuses, attempt : 0 .. MaxAttempts, node : Nodes \cup {None}]

TypeOK ==
  /\ risky \in BOOLEAN
  /\ run \in [status : Statuses, attempt : 0 .. MaxAttempts, overdue : BOOLEAN]
  /\ approval \in [status : {"none", "pending", "approved", "rejected", "expired"}, late : BOOLEAN]
  /\ steps \in [Attempts -> [Nodes -> {"none", "succeeded", "cancelled"} \cup OpenStep]]
  /\ jobs \in [Attempts -> {"none", "succeeded", "failed", "cancelled"} \cup OpenJob]
  /\ revoked \in BOOLEAN
  /\ handlers \in [Handlers -> Handler \cup {None}]
  /\ crashes \in 0 .. MaxCrashes

AllSteps(status) == [n \in Nodes |-> status]

Init ==
  /\ risky \in BOOLEAN
  /\ run = [status |-> "none", attempt |-> 0, overdue |-> FALSE]
  /\ approval = [status |-> "none", late |-> FALSE]
  /\ steps = [a \in Attempts |-> AllSteps("none")]
  /\ jobs = [a \in Attempts |-> "none"]
  /\ revoked = FALSE
  /\ handlers = [h \in Handlers |-> None]
  /\ crashes = 0

-----------------------------------------------------------------------------
(* Handlers *)

Begin(h, label, seen, attempt, node) ==
  /\ handlers[h] = None
  /\ handlers' = [handlers EXCEPT
       ![h] = [at |-> label, seen |-> seen, attempt |-> attempt, node |-> node]]

At(h, label) == handlers[h] # None /\ handlers[h].at = label

Goto(h, label) == handlers' = [handlers EXCEPT ![h].at = label]

\* It returned or threw.
End(h) == handlers' = [handlers EXCEPT ![h] = None]

\* The function instance dies, or a database call fails where the code does not
\* clean up.
Crash(h) ==
  /\ handlers[h] # None
  /\ crashes < MaxCrashes
  /\ crashes' = crashes + 1
  /\ End(h)
  /\ UNCHANGED <<risky, run, approval, steps, jobs, revoked>>

-----------------------------------------------------------------------------
(* transition_workflow_run *)

Legal ==
       {"pending"} \X {"awaiting_approval", "queued", "cancelled"}
  \cup {"awaiting_approval"} \X {"queued", "cancelled", "timed_out"}
  \cup {"queued"} \X {"running", "cancelled", "timed_out"}
  \cup {"running"} \X {"succeeded", "failed", "cancelled", "timed_out"}
  \cup {"failed", "timed_out"} \X {"queued"}

\* Fault: the expected status is not compared.
PossibleBlindly(from, to) == <<from, to>> \in Legal

Possible(from, to) ==
  /\ <<from, to>> \in Legal
  /\ run.status = from
  /\ from \in {"failed", "timed_out"} => run.attempt < MaxAttempts

NextAttempt(from, to) ==
  IF to = "queued" /\ from \in {"pending", "failed", "timed_out"}
  THEN run.attempt + 1 ELSE run.attempt

Closed(job) == IF job \in OpenJob THEN "cancelled" ELSE job

\* Fault: a run that timed out leaves its jobs to the Agent.
ClosesJobsOfCancelled(to) == to = "cancelled"

ClosesJobs(to) == to \in {"cancelled", "timed_out"}

Transition(from, to) ==
  /\ Possible(from, to)
  /\ run' = [run EXCEPT !.status = to, !.attempt = NextAttempt(from, to)]
  /\ jobs' = IF ClosesJobs(to) THEN [a \in Attempts |-> Closed(jobs[a])] ELSE jobs

\* The compare-and-set fails and the handler throws.
Conflict(h, from, to) ==
  /\ ~ Possible(from, to)
  /\ End(h)
  /\ UNCHANGED <<run, jobs>>

\* The handler's last call.
LastTransition(h, from, to) ==
  \/ Transition(from, to) /\ End(h)
  \/ Conflict(h, from, to)

\* A call the handler goes on from, at label.
MidTransition(h, from, to, label) ==
  \/ Transition(from, to) /\ Goto(h, label)
  \/ Conflict(h, from, to)

\* A call the handler goes on from, remembering the attempt of the row it got back.
QueueTransition(h, from, label) ==
  \/ /\ Transition(from, "queued")
     /\ handlers' = [handlers EXCEPT ![h].at = label, ![h].attempt = NextAttempt(from, "queued")]
  \/ Conflict(h, from, "queued")

-----------------------------------------------------------------------------
(* startProductionRun *)

\* The target device is active and no run has the idempotency key.
StartInsert(h) ==
  /\ run.status = "none"
  /\ ~ revoked
  /\ run' = [run EXCEPT !.status = "pending"]
  /\ Begin(h, "start.steps", "pending", 1, None)
  /\ UNCHANGED <<risky, approval, steps, jobs, revoked, crashes>>

StartSteps(h) ==
  /\ At(h, "start.steps")
  /\ steps' = [steps EXCEPT ![1] = AllSteps("pending")]
  /\ Goto(h, IF risky THEN "start.approval" ELSE "start.queue")
  /\ UNCHANGED <<risky, run, approval, jobs, revoked, crashes>>

StartApproval(h) ==
  /\ At(h, "start.approval")
  /\ approval' = [approval EXCEPT !.status = "pending"]
  /\ Goto(h, "start.hold")
  /\ UNCHANGED <<risky, run, steps, jobs, revoked, crashes>>

\* One of these inserts fails: the run is deleted, its rows go with it.
StartUndo(h) ==
  /\ At(h, "start.steps") \/ At(h, "start.approval")
  /\ run' = [run EXCEPT !.status = "deleted"]
  /\ steps' = [a \in Attempts |-> AllSteps("none")]
  /\ End(h)
  /\ UNCHANGED <<risky, approval, jobs, revoked, crashes>>

StartHold(h) ==
  /\ At(h, "start.hold")
  /\ LastTransition(h, "pending", "awaiting_approval")
  /\ UNCHANGED <<risky, approval, steps, revoked, crashes>>

StartQueue(h) ==
  /\ At(h, "start.queue")
  /\ QueueTransition(h, "pending", "job.insert")
  /\ UNCHANGED <<risky, approval, steps, revoked, crashes>>

-----------------------------------------------------------------------------
(* enqueueProductionJob *)

\* The attempt a job or a step row is keyed by.
Key(attempt) == IF attempt = 0 THEN 1 ELSE attempt

\* Fault: no trigger looks at the device.
InsertableAnywhere(a) == jobs[a] = "none"

\* The trigger require_active_device_for_agent_job and the unique idempotency key.
Insertable(a) == jobs[a] = "none" /\ ~ revoked

JobInsert(h) ==
  LET a == Key(handlers[h].attempt)
  IN /\ At(h, "job.insert")
     /\ Insertable(a)
     /\ jobs' = [jobs EXCEPT ![a] = "pending"]
     /\ Goto(h, "job.audit")
     /\ UNCHANGED <<risky, run, approval, steps, revoked, crashes>>

\* Refused or failed; enqueue then cancels the run.
JobInsertFails(h) ==
  /\ At(h, "job.insert")
  /\ Goto(h, "undo")
  /\ UNCHANGED <<risky, run, approval, steps, jobs, revoked, crashes>>

JobAudit(h) ==
  /\ At(h, "job.audit")
  /\ End(h) \/ Goto(h, "job.undo")
  /\ UNCHANGED <<risky, run, approval, steps, jobs, revoked, crashes>>

JobUndo(h) ==
  /\ At(h, "job.undo")
  /\ jobs' = [jobs EXCEPT ![Key(handlers[h].attempt)] = "cancelled"]
  /\ Goto(h, "undo")
  /\ UNCHANGED <<risky, run, approval, steps, revoked, crashes>>

\* The way out of several failures: the run is cancelled if it is still queued.
Undo(h) ==
  /\ At(h, "undo")
  /\ LastTransition(h, "queued", "cancelled")
  /\ UNCHANGED <<risky, approval, steps, revoked, crashes>>

-----------------------------------------------------------------------------
(* resolveProductionRunApproval *)

\* The view shows the pending approval; decision is the first call that follows.
Resolve(h) ==
  /\ run.status = "awaiting_approval"
  /\ approval.status = "pending"
  /\ \E label \in IF approval.late THEN {"expire.record"} ELSE {"approve.record", "reject.record"} :
       Begin(h, label, "awaiting_approval", 0, None)
  /\ UNCHANGED <<risky, run, approval, steps, jobs, revoked, crashes>>

\* The update is filtered by status 'pending'; an approval or a rejection that
\* finds nothing to update throws, an expiry goes on.
Record(h) ==
  /\ \E answer \in {<<"approve.record", "approved", "approve.queue">>,
                    <<"reject.record", "rejected", "reject.run">>} :
       /\ At(h, answer[1])
       /\ IF approval.status = "pending"
          THEN approval' = [approval EXCEPT !.status = answer[2]] /\ Goto(h, answer[3])
          ELSE UNCHANGED approval /\ End(h)
  /\ UNCHANGED <<risky, run, steps, jobs, revoked, crashes>>

RecordExpiry(h) ==
  /\ At(h, "expire.record")
  /\ approval' = [approval EXCEPT !.status = IF @ = "pending" THEN "expired" ELSE @]
  /\ Goto(h, "expire.run")
  /\ UNCHANGED <<risky, run, steps, jobs, revoked, crashes>>

Expire(h) ==
  /\ At(h, "expire.run")
  /\ LastTransition(h, "awaiting_approval", "timed_out")
  /\ UNCHANGED <<risky, approval, steps, revoked, crashes>>

Reject(h) ==
  /\ At(h, "reject.run")
  /\ LastTransition(h, "awaiting_approval", "cancelled")
  /\ UNCHANGED <<risky, approval, steps, revoked, crashes>>

\* The target device and its folders are checked again after the transition: when
\* that fails the handler throws and the run stays queued.
ApproveQueue(h) ==
  /\ At(h, "approve.queue")
  /\ \/ ~ revoked /\ QueueTransition(h, "awaiting_approval", "approve.attempt")
     \/ revoked /\ Conflict(h, "awaiting_approval", "queued")
     \/ Transition("awaiting_approval", "queued") /\ End(h)
  /\ UNCHANGED <<risky, approval, steps, revoked, crashes>>

\* The attempt written is computed from the row the transition returned.
ApproveAttempt(h) ==
  /\ At(h, "approve.attempt")
  /\ \/ run' = [run EXCEPT !.attempt = Key(handlers[h].attempt)] /\ Goto(h, "job.insert")
     \/ UNCHANGED run /\ Goto(h, "undo")
  /\ UNCHANGED <<risky, approval, steps, jobs, revoked, crashes>>

-----------------------------------------------------------------------------
(* cancelProductionRun, sweepProductionRuns *)

\* runView shows a pending run as queued.
Shown == IF run.status = "pending" THEN "queued" ELSE run.status

CancelRead(h) ==
  /\ Shown \in Active
  /\ Begin(h, "cancel.run", Shown, 0, None)
  /\ UNCHANGED <<risky, run, approval, steps, jobs, revoked, crashes>>

Cancel(h) ==
  /\ At(h, "cancel.run")
  /\ LastTransition(h, handlers[h].seen, "cancelled")
  /\ UNCHANGED <<risky, approval, steps, revoked, crashes>>

\* Fault: a running run is left to its Agent.
SweepableUnlessRunning == run.status \in {"awaiting_approval", "queued"} /\ run.overdue

Sweepable == run.status \in Active /\ run.overdue

SweepRead(h) ==
  /\ Sweepable
  /\ Begin(h, "sweep.run", run.status, 0, None)
  /\ UNCHANGED <<risky, run, approval, steps, jobs, revoked, crashes>>

Sweep(h) ==
  /\ At(h, "sweep.run")
  /\ LastTransition(h, handlers[h].seen, "timed_out")
  /\ UNCHANGED <<risky, approval, steps, revoked, crashes>>

-----------------------------------------------------------------------------
(* retryProductionRun *)

RetryRead(h) ==
  /\ run.status \in {"failed", "timed_out"}
  /\ run.attempt < MaxAttempts
  /\ Begin(h, "retry.queue", run.status, 0, None)
  /\ UNCHANGED <<risky, run, approval, steps, jobs, revoked, crashes>>

RetryQueue(h) ==
  /\ At(h, "retry.queue")
  /\ QueueTransition(h, handlers[h].seen, "retry.timeout")
  /\ UNCHANGED <<risky, approval, steps, revoked, crashes>>

\* A fresh timeout_at, if the run is still queued; the attempt must be the one the
\* transition returned.
RetryTimeout(h) ==
  /\ At(h, "retry.timeout")
  /\ \/ /\ run.status = "queued"
        /\ run' = [run EXCEPT !.overdue = FALSE]
        /\ Goto(h, IF run.attempt = handlers[h].attempt THEN "retry.steps" ELSE "undo")
     \/ UNCHANGED run /\ Goto(h, "undo")
  /\ UNCHANGED <<risky, approval, steps, jobs, revoked, crashes>>

\* Fault: step rows that exist are taken over.
StepsInsertableAlways(a) == TRUE

\* Step rows are unique per run, node and attempt.
StepsInsertable(a) == steps[a] = AllSteps("none")

\* The target is checked next, with the same outcome as in ApproveQueue.
RetrySteps(h) ==
  LET a == handlers[h].attempt
  IN /\ At(h, "retry.steps")
     /\ StepsInsertable(a)
     /\ steps' = [steps EXCEPT ![a] = AllSteps("pending")]
     /\ (~ revoked /\ Goto(h, "job.insert")) \/ End(h)
     /\ UNCHANGED <<risky, run, approval, jobs, revoked, crashes>>

RetryStepsFails(h) ==
  /\ At(h, "retry.steps")
  /\ Goto(h, "undo")
  /\ UNCHANGED <<risky, run, approval, steps, jobs, revoked, crashes>>

-----------------------------------------------------------------------------
(* The Agent and the handlers of its reports *)

\* claim_agent_job; that a lapsed lease is claimed again does not show here.
Claim(a) ==
  /\ ~ revoked
  /\ jobs[a] = "pending"
  /\ jobs' = [jobs EXCEPT ![a] = "claimed"]
  /\ UNCHANGED <<risky, run, approval, steps, revoked, handlers, crashes>>

\* record_agent_job_progress; an Agent repeats itself freely.
AgentProgress(h, a, n, status) ==
  /\ ~ revoked
  /\ jobs[a] = "claimed"
  /\ Begin(h, "progress.read", status, a, n)
  /\ UNCHANGED <<risky, run, approval, steps, jobs, revoked, crashes>>

\* finish_agent_job; a repeated report finds the job as it left it.
AgentFinish(h, a, outcome) ==
  /\ ~ revoked
  /\ jobs[a] \in {"claimed", outcome}
  /\ jobs' = [jobs EXCEPT ![a] = outcome]
  /\ Begin(h, "finish.read", outcome, a, None)
  /\ UNCHANGED <<risky, run, approval, steps, revoked, crashes>>

\* isCurrentProductionAgentJobAttempt.
Current(h) == handlers[h].attempt = Key(run.attempt)

\* The job row and the run view; a report of no interest is dropped.
ProgressRead(h) ==
  LET a == handlers[h].attempt
  IN /\ At(h, "progress.read")
     /\ IF jobs[a] = "claimed" /\ run.status # "cancelled" /\ Current(h)
           /\ steps[a][handlers[h].node] # "none"
        THEN Goto(h, IF Shown = "queued" THEN "progress.start" ELSE "progress.step")
        ELSE End(h)
     /\ UNCHANGED <<risky, run, approval, steps, jobs, revoked, crashes>>

ProgressStart(h) ==
  /\ At(h, "progress.start")
  /\ MidTransition(h, "queued", "running", "progress.step")
  /\ UNCHANGED <<risky, approval, steps, revoked, crashes>>

\* Only a pending or running step is updated.
ProgressStep(h) ==
  LET a == handlers[h].attempt
      n == handlers[h].node
  IN /\ At(h, "progress.step")
     /\ steps' = [steps EXCEPT ![a][n] = IF @ \in OpenStep THEN handlers[h].seen ELSE @]
     /\ End(h)
     /\ UNCHANGED <<risky, run, approval, jobs, revoked, crashes>>

\* What the view must show before the run is given its outcome.
MayFinish(outcome) ==
  /\ run.status = "running"
  /\ outcome = "succeeded" => steps[Key(run.attempt)] = AllSteps("succeeded")

FinishRead(h) ==
  /\ At(h, "finish.read")
  /\ IF run.status # "cancelled" /\ Current(h) /\ (Shown = "queued" \/ MayFinish(handlers[h].seen))
     THEN Goto(h, IF Shown = "queued" THEN "finish.start" ELSE "finish.run")
     ELSE End(h)
  /\ UNCHANGED <<risky, run, approval, steps, jobs, revoked, crashes>>

FinishStart(h) ==
  /\ At(h, "finish.start")
  /\ MidTransition(h, "queued", "running", "finish.review")
  /\ UNCHANGED <<risky, approval, steps, revoked, crashes>>

\* The view read again after the run was started.
FinishReview(h) ==
  /\ At(h, "finish.review")
  /\ IF MayFinish(handlers[h].seen) THEN Goto(h, "finish.run") ELSE End(h)
  /\ UNCHANGED <<risky, run, approval, steps, jobs, revoked, crashes>>

Finish(h) ==
  /\ At(h, "finish.run")
  /\ LastTransition(h, "running", handlers[h].seen)
  /\ UNCHANGED <<risky, approval, steps, revoked, crashes>>

-----------------------------------------------------------------------------
(* revoke_agent_device_v2 and the clock *)

RevokeDevice ==
  /\ ~ revoked
  /\ revoked' = TRUE
  /\ jobs' = [a \in Attempts |-> Closed(jobs[a])]
  /\ IF run.status \in {"queued", "running"} /\ \E a \in Attempts : jobs[a] # "none"
     THEN /\ run' = [run EXCEPT !.status = "cancelled"]
          /\ steps' = [a \in Attempts |-> [n \in Nodes |->
                         IF steps[a][n] \in OpenStep THEN "cancelled" ELSE steps[a][n]]]
     ELSE UNCHANGED <<run, steps>>
  /\ UNCHANGED <<risky, approval, handlers, crashes>>

\* timeout_at passes; the approval's expires_at passes, in any order.
RunLate ==
  /\ run.status \notin {"none", "deleted"}
  /\ ~ run.overdue
  /\ run' = [run EXCEPT !.overdue = TRUE]
  /\ UNCHANGED <<risky, approval, steps, jobs, revoked, handlers, crashes>>

ApprovalLate ==
  /\ approval.status = "pending"
  /\ ~ approval.late
  /\ approval' = [approval EXCEPT !.late = TRUE]
  /\ UNCHANGED <<risky, run, steps, jobs, revoked, handlers, crashes>>

-----------------------------------------------------------------------------

StartNext(h) ==
  \/ StartInsert(h) \/ StartSteps(h) \/ StartApproval(h) \/ StartUndo(h)
  \/ StartHold(h) \/ StartQueue(h)

EnqueueNext(h) ==
  JobInsert(h) \/ JobInsertFails(h) \/ JobAudit(h) \/ JobUndo(h) \/ Undo(h)

ResolveNext(h) ==
  \/ Resolve(h) \/ Record(h) \/ RecordExpiry(h) \/ Expire(h) \/ Reject(h)
  \/ ApproveQueue(h) \/ ApproveAttempt(h)

StopNext(h) == CancelRead(h) \/ Cancel(h) \/ SweepRead(h) \/ Sweep(h)

RetryNext(h) ==
  RetryRead(h) \/ RetryQueue(h) \/ RetryTimeout(h) \/ RetrySteps(h) \/ RetryStepsFails(h)

ReportNext(h) ==
  \/ ProgressRead(h) \/ ProgressStart(h) \/ ProgressStep(h)
  \/ FinishRead(h) \/ FinishStart(h) \/ FinishReview(h) \/ Finish(h)

HandlerNext(h) ==
  \/ StartNext(h) \/ EnqueueNext(h) \/ ResolveNext(h) \/ StopNext(h)
  \/ RetryNext(h) \/ ReportNext(h)

AgentNext ==
  \E a \in Attempts :
    \/ Claim(a)
    \/ \E h \in Handlers :
         \/ \E n \in Nodes, status \in {"running", "succeeded"} : AgentProgress(h, a, n, status)
         \/ \E outcome \in {"succeeded", "failed"} : AgentFinish(h, a, outcome)

Next ==
  \/ \E h \in Handlers : HandlerNext(h) \/ Crash(h)
  \/ AgentNext \/ RevokeDevice \/ RunLate \/ ApprovalLate

Spec == Init /\ [][Next]_vars

\* A handler that was begun goes on, time passes, and the sweep, which every listing
\* and every run page triggers, is begun again and again.
Fairness ==
  /\ \A h \in Handlers : WF_vars(handlers[h] # None /\ HandlerNext(h))
  /\ WF_vars(RunLate)
  /\ SF_vars(\E h \in Handlers : SweepRead(h))

FairSpec == Spec /\ Fairness

-----------------------------------------------------------------------------
(* Properties *)

\* Work that needs an approval has no job before the approval was given, whatever
\* times out, is retried or dies on the way.
NoJobWithoutApproval ==
  risky => \A a \in Attempts : jobs[a] # "none" => approval.status = "approved"

\* A job an Agent may still execute belongs to the current attempt of a run that is
\* queued or running: cancelling or timing out a run stops its work.
OpenJobIsCurrent ==
  \A a \in Attempts :
    jobs[a] \in OpenJob => run.status \in {"queued", "running"} /\ run.attempt = a

\* A succeeded run has finished every step of the attempt that is shown with it.
SuccessIsComplete ==
  run.status = "succeeded" => steps[run.attempt] = AllSteps("succeeded")

\* A revoked device has nothing left to do, and nothing is queued for it afterwards,
\* also when the revocation falls between the calls of a handler.
RevokedDeviceIdle == revoked => \A a \in Attempts : jobs[a] \notin OpenJob

\* No handler, however stale what it has read, revives a run that succeeded or was
\* cancelled.
FinalIsFinal ==
  [][run.status \in {"succeeded", "cancelled"} => run'.status = run.status]_vars

\* A run does not stay active: whatever dies, the sweep ends it.
EventuallySettled == []<>(run.status \notin Active)

\* What holds at any instant however handlers overlap and die.
ProductionSafe == TypeOK /\ RevokedDeviceIdle

\* However handlers overlap and die in a run of one attempt: no job without an approval,
\* and success means finished steps.
SoundOnce == MaxAttempts = 1 => NoJobWithoutApproval /\ SuccessIsComplete

\* However they die one after the other, through any number of retries: no job outlives
\* its attempt, and success means finished steps.
SoundAlone == (\A g, h \in Handlers : g = h) => OpenJobIsCurrent /\ SuccessIsComplete

\* What the handlers keep of a run's jobs and steps, and under which conditions.
RunSound == SoundOnce /\ SoundAlone

=============================================================================
