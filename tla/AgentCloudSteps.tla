--------------------------- MODULE AgentCloudSteps ---------------------------
(***************************************************************************)
(* A run with a Desktop Agent as its target whose last node is carried out *)
(* in the cloud: the Agent, having executed the node before it, sends that *)
(* node's output to executeProductionAgentCloudStep, which claims the step *)
(* (claim_agent_cloud_step), carries the node out and answers.  An Agent   *)
(* whose request is cut off, or whose Job is taken over, asks again, maybe *)
(* with other input, while the first request is still at work.             *)
(*                                                                         *)
(* The run row is the one of CloudRuns; target says which kind of run it   *)
(* is, and the two kinds share the users, the sweep and the clock.         *)
(***************************************************************************)
EXTENDS CloudRuns

CONSTANTS
  Requests,  \* requests that may be under way together
  Values     \* outputs of the node before, inputs of the cloud node

ASSUME ValuesAreOutputs == None \notin Values /\ "none" \notin Values /\ "pending" \notin Values

VARIABLES
  target,    \* the target of the workflow: "cloud" or "desktop"
  local,     \* what the step row of the node before says, by attempt
  remote,    \* the step row of the cloud node, by attempt
  done,      \* how often the cloud node was carried out, by attempt (2: or more)
  requests   \* what each request is about to do and what it has read

agentVars == <<local, remote, done, requests>>
vars == <<cloudVars, target, agentVars>>

-----------------------------------------------------------------------------

\* input: the hash in the input_summary; output: what the output was made from.
RemoteRow == [status : StepStatuses, input : Values \cup {None}, output : Values \cup {None}]

Request == [at : {"step", "predecessor", "claim", "work", "store", "abandon", "answer"},
            input : Values, attempt : Attempts, output : Values \cup {None}]

TypeOK ==
  /\ CloudTypeOK
  /\ target \in {"cloud", "desktop"}
  /\ local \in [Attempts -> Values \cup {"none", "pending"}]
  /\ remote \in [Attempts -> RemoteRow]
  /\ done \in [Attempts -> 0 .. 2]
  /\ requests \in [Requests -> Request \cup {None}]

NewRemote(status) == [status |-> status, input |-> None, output |-> None]

\* A desktop run is followed from the moment it is queued with its Job.
DesktopInit ==
  /\ run = [status |-> "queued", attempt |-> 1, overdue |-> FALSE]
  /\ source = [a \in Attempts |-> NewSource("none")]
  /\ sent = [a \in Attempts |-> 0]
  /\ NothingRuns

Init ==
  /\ \/ target = "cloud" /\ CloudInit
     \/ target = "desktop" /\ DesktopInit
  /\ LET first(status) == IF target = "desktop" THEN status ELSE "none"
     IN /\ local = [a \in Attempts |-> IF a = 1 THEN first("pending") ELSE "none"]
        /\ remote = [a \in Attempts |-> NewRemote(IF a = 1 THEN first("pending") ELSE "none")]
  /\ done = [a \in Attempts |-> 0]
  /\ requests = [q \in Requests |-> None]

-----------------------------------------------------------------------------
(* The desktop run around it; ProductionRuns has its handlers call by call. *)

\* The Agent reports that it is at work, or what the node before produced; only an
\* open step is written.
Report(v) ==
  /\ run.status \in {"queued", "running"}
  /\ run' = [run EXCEPT !.status = "running"]
  /\ local' = [local EXCEPT ![run.attempt] = IF @ = "pending" THEN v ELSE @]
  /\ UNCHANGED <<source, sent, instances, crashes, target, remote, done, requests>>

JobEnds(outcome) ==
  /\ outcome = "succeeded" =>
       local[run.attempt] \in Values /\ remote[run.attempt].status = "succeeded"
  /\ Transition("running", outcome)
  /\ UNCHANGED <<source, sent, instances, crashes, target, agentVars>>

DesktopRetry ==
  /\ run.status \in {"failed", "timed_out"}
  /\ run.attempt < MaxAttempts
  /\ run' = [Moved("queued") EXCEPT !.overdue = FALSE]
  /\ local' = [local EXCEPT ![run.attempt + 1] = "pending"]
  /\ remote' = [remote EXCEPT ![run.attempt + 1] = NewRemote("pending")]
  /\ UNCHANGED <<source, sent, instances, crashes, target, done, requests>>

-----------------------------------------------------------------------------
(* executeProductionAgentCloudStep *)

AtRequest(q, label) == requests[q] # None /\ requests[q].at = label

GotoRequest(q, label) == requests' = [requests EXCEPT ![q].at = label]

\* It threw, or its answer is with the Agent (or lost).
EndRequest(q) == requests' = [requests EXCEPT ![q] = None]

Answer(q, v) == requests' = [requests EXCEPT ![q].at = "answer", ![q].output = v]

\* The step row of the attempt a request works for.
Asked(q) == remote[requests[q].attempt]

\* authorizeAgentCloudStep renews the Job's lease; then the run is read.
Ask(q, v) ==
  /\ requests[q] = None
  /\ q = CHOOSE r \in Requests : requests[r] = None
  /\ run.status \in {"queued", "running"}
  /\ requests' = [requests EXCEPT
       ![q] = [at |-> "step", input |-> v, attempt |-> run.attempt, output |-> None]]
  /\ UNCHANGED <<cloudVars, target, local, remote, done>>

\* agentCloudClaimDisposition; the three refusals are one.
Disposition(row, input) ==
  CASE row.input \notin {None, input} -> "conflict"
    [] row.input \in {None, input} /\ row.status = "pending" -> "claim"
    [] row.input = input /\ row.status = "succeeded" -> "duplicate"
    [] OTHER -> "conflict"

ReadStep(q) ==
  LET disposition == Disposition(Asked(q), requests[q].input)
  IN /\ AtRequest(q, "step")
     /\ \/ disposition = "duplicate" /\ Answer(q, Asked(q).output)
        \/ disposition = "claim" /\ GotoRequest(q, "predecessor")
        \/ disposition = "conflict" /\ EndRequest(q)
     /\ UNCHANGED <<cloudVars, target, local, remote, done>>

\* The node before has succeeded with this very output.
Preceded(q) == local[requests[q].attempt] = requests[q].input

ReadPredecessor(q) ==
  /\ AtRequest(q, "predecessor")
  /\ IF Preceded(q) THEN GotoRequest(q, "claim") ELSE EndRequest(q)
  /\ UNCHANGED <<cloudVars, target, local, remote, done>>

\* Fault: the claim relies on what the handler read.
ClaimableAsRead(q) == run.status \in {"queued", "running"} /\ run.attempt = requests[q].attempt

\* The conditions of claim_agent_cloud_step.
Claimable(q) ==
  /\ Asked(q).status = "pending"
  /\ Asked(q).input = None
  /\ run.status \in {"queued", "running"}
  /\ run.attempt = requests[q].attempt
  /\ Preceded(q)

ClaimStep(q) ==
  /\ AtRequest(q, "claim")
  /\ IF Claimable(q)
     THEN /\ remote' = [remote EXCEPT
               ![requests[q].attempt].status = "running",
               ![requests[q].attempt].input = requests[q].input]
          /\ GotoRequest(q, "work")
     ELSE UNCHANGED remote /\ EndRequest(q)
  /\ UNCHANGED <<cloudVars, target, local, done>>

\* executeCloudWorkflowNode: carried out or not, it may throw either way.
Work(q) ==
  /\ AtRequest(q, "work")
  /\ \E carried \in BOOLEAN, label \in {"store", "abandon"} :
       /\ label = "store" => carried
       /\ done' = [done EXCEPT ![requests[q].attempt] = IF carried /\ @ < 2 THEN @ + 1 ELSE @]
       /\ GotoRequest(q, label)
  /\ UNCHANGED <<cloudVars, target, local, remote>>

\* The updates of the step compare its status and the hash of the input.
StillMine(q) == Asked(q).status = "running" /\ Asked(q).input = requests[q].input

Store(q) ==
  LET a == requests[q].attempt
  IN /\ AtRequest(q, "store")
     /\ IF StillMine(q)
        THEN /\ remote' = [remote EXCEPT
                  ![a].status = "succeeded", ![a].output = requests[q].input]
             /\ Answer(q, requests[q].input)
        ELSE UNCHANGED remote /\ GotoRequest(q, "abandon")
     /\ UNCHANGED <<cloudVars, target, local, done>>

\* The step has failed; a failure to say so is swallowed.
Abandon(q) ==
  /\ AtRequest(q, "abandon")
  /\ \/ remote' = [remote EXCEPT ![requests[q].attempt].status =
                     IF StillMine(q) THEN "failed" ELSE @]
     \/ UNCHANGED remote
  /\ EndRequest(q)
  /\ UNCHANGED <<cloudVars, target, local, done>>

Answered(q) ==
  /\ AtRequest(q, "answer")
  /\ EndRequest(q)
  /\ UNCHANGED <<cloudVars, target, local, remote, done>>

\* The instance that serves a request dies: a step it claimed stays running.
RequestDies(q) ==
  /\ requests[q] # None
  /\ crashes < MaxCrashes
  /\ crashes' = crashes + 1
  /\ EndRequest(q)
  /\ UNCHANGED <<run, source, sent, instances, target, local, remote, done>>

-----------------------------------------------------------------------------

RequestNext(q) ==
  \/ ReadStep(q) \/ ReadPredecessor(q) \/ ClaimStep(q) \/ Work(q) \/ Store(q)
  \/ Abandon(q) \/ Answered(q)

DesktopNext ==
  \/ \E v \in Values : Report(v) \/ \E q \in Requests : Ask(q, v)
  \/ \E outcome \in {"succeeded", "failed"} : JobEnds(outcome)
  \/ DesktopRetry
  \/ (Cancel \/ Sweep \/ Overdue) /\ UNCHANGED <<target, agentVars>>
  \/ \E q \in Requests : RequestNext(q) \/ RequestDies(q)

Next ==
  \/ target = "cloud" /\ CloudNext /\ UNCHANGED <<target, agentVars>>
  \/ target = "desktop" /\ DesktopNext

Spec == Init /\ [][Next]_vars

\* An instance that was begun goes on, the scheduler ticks again and again, and a
\* lease ends.
Fairness ==
  /\ \A i \in Instances : WF_vars(InstanceNext(i) /\ UNCHANGED <<target, agentVars>>)
  /\ WF_vars((\E i \in Instances : Tick(i)) /\ UNCHANGED <<target, agentVars>>)
  /\ \A a \in Attempts : WF_vars(LeaseLapses(a) /\ UNCHANGED <<target, agentVars>>)

FairSpec == Spec /\ Fairness

-----------------------------------------------------------------------------
(* Properties *)

\* The cloud node of a desktop run is carried out at most once per attempt, whatever
\* requests meet and whichever of them dies.
AgentStepOnce == \A a \in Attempts : done[a] <= 1

\* An answer was made from the input it answers, and that is the output of the node
\* before, as the run's page shows it.
AnswersFollowInput ==
  \A q \in Requests :
    AtRequest(q, "answer") =>
      /\ requests[q].output = requests[q].input
      /\ local[requests[q].attempt] = requests[q].input

\* SuccessIsSent of the runs it is about.
CloudSuccessIsSent == target = "cloud" => SuccessIsSent

\* A succeeded desktop run has carried its cloud node out, in the attempt it is shown
\* with, on what the node before produced in that attempt.
DesktopSuccessIsDone ==
  target = "desktop" /\ run.status = "succeeded" =>
    /\ done[run.attempt] = 1
    /\ remote[run.attempt].output = local[run.attempt]

\* What holds of a run in the cloud at any instant: it sends after its source, and says so.
CloudSafe ==
  /\ TypeOK
  /\ SendsAfterSource
  /\ CloudSuccessIsSent

\* What holds of the cloud node of a desktop run at any instant: once, on the right input.
StepSafe ==
  /\ AgentStepOnce
  /\ AnswersFollowInput
  /\ DesktopSuccessIsDone

=============================================================================
