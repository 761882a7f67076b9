------------------------------ MODULE CloudRuns ------------------------------
(***************************************************************************)
(* A run with the cloud as its target, as the handlers of                  *)
(* apps/web/src/lib/production-run-server.ts carry it: a Drive folder is   *)
(* read batch by batch under a lease kept in the source's step row, each   *)
(* batch by whatever function instance comes by (the handler that started  *)
(* the run, or the scheduler's tick of every minute), and when the last    *)
(* batch is saved the nodes after the source are executed by that instance *)
(* before it writes the steps and the outcome.                             *)
(*                                                                         *)
(* Every database call is a step; instances, the sweep and the users act   *)
(* between any two of them, and an instance may die there.  The model      *)
(* follows one run of a source and one external node (an e-mail that is    *)
(* sent); the rows of workflow_run_steps are keyed by the attempt.         *)
(***************************************************************************)
EXTENDS Naturals, FiniteSets

CONSTANTS
  Instances,    \* function instances that may be under way together
  Batches,      \* batches the folder is read in
  MaxAttempts,  \* max_attempts of the run
  MaxCrashes,   \* bound on the instances that die
  None          \* "no instance", "no lease"

ASSUME CloudBounds == Batches \in Nat \ {0} /\ MaxAttempts \in Nat \ {0} /\ MaxCrashes \in Nat
ASSUME NoneIsNobody == None \notin Instances

VARIABLES
  run,        \* the row of workflow_runs
  source,     \* the step row of the Drive source, by attempt
  sent,       \* how often the external node was carried out, by attempt (2: or more)
  instances,  \* what each instance is about to do and what it has read
  crashes     \* how many instances died

cloudVars == <<run, source, sent, instances, crashes>>

-----------------------------------------------------------------------------

Active == {"awaiting_approval", "queued", "running"}
Ended == {"succeeded", "failed", "cancelled", "timed_out"}
Attempts == 1 .. MaxAttempts
StepStatuses == {"none", "pending", "running", "succeeded", "failed"}

Labels == {"attempt", "init", "start", "read", "claim", "batch", "save", "send", "persist",
           "finish", "catch",
           "retry.timeout", "retry.steps", "undo"}

\* owner: whose claimId the input_summary holds; live: is its leaseUntil ahead;
\* cursor: the nextFileIndex of the checkpoint, in batches.
SourceRow == [status : StepStatuses, owner : Instances \cup {None}, live : BOOLEAN,
              cursor : 0 .. Batches]

\* fresh: is the updated_at it read still the row's; outcome: of the external node.
Instance == [at : Labels, attempt : 0 .. MaxAttempts, cursor : 0 .. Batches,
             fresh : BOOLEAN, outcome : {"succeeded", "failed"}]

CloudTypeOK ==
  /\ run \in [status : {"pending"} \cup Active \cup Ended, attempt : 0 .. MaxAttempts,
              overdue : BOOLEAN]
  /\ source \in [Attempts -> SourceRow]
  /\ sent \in [Attempts -> 0 .. 2]
  /\ instances \in [Instances -> Instance \cup {None}]
  /\ crashes \in 0 .. MaxCrashes

NewSource(status) == [status |-> status, owner |-> None, live |-> FALSE, cursor |-> 0]

NothingRuns ==
  /\ instances = [i \in Instances |-> None]
  /\ crashes = 0

\* The run and its steps are inserted, an approval too if the version needs one.
CloudInit ==
  /\ run \in [status : {"pending", "awaiting_approval"}, attempt : {0}, overdue : {FALSE}]
  /\ source = [a \in Attempts |-> NewSource(IF a = 1 THEN "pending" ELSE "none")]
  /\ sent = [a \in Attempts |-> 0]
  /\ NothingRuns

-----------------------------------------------------------------------------
(* Instances and transition_workflow_run *)

\* Instances are alike: the next one begins.
Begin(i, label, attempt) ==
  /\ instances[i] = None
  /\ i = CHOOSE j \in Instances : instances[j] = None
  /\ instances' = [instances EXCEPT
       ![i] = [at |-> label, attempt |-> attempt, cursor |-> 0, fresh |-> TRUE,
               outcome |-> "failed"]]

At(i, label) == instances[i] # None /\ instances[i].at = label

Goto(i, label) == instances' = [instances EXCEPT ![i].at = label]

\* It returned or threw.
End(i) == instances' = [instances EXCEPT ![i] = None]

\* Into the catch clause of executeQueuedCloudRun, with nothing it read.
Throw(i) ==
  instances' = [instances EXCEPT ![i].at = "catch", ![i].cursor = 0, ![i].outcome = "failed"]

\* The row of the attempt an instance works for.
Mine(i) == source[instances[i].attempt]

\* Two of the compare-and-sets move a run to 'queued' in a new attempt.
Moved(to) ==
  [run EXCEPT !.status = to,
              !.attempt = IF to = "queued" /\ run.status # "awaiting_approval" THEN @ + 1 ELSE @]

Transition(from, to) == run.status = from /\ run' = Moved(to)

InstanceDies(i) ==
  /\ instances[i] # None
  /\ crashes < MaxCrashes
  /\ crashes' = crashes + 1
  /\ End(i)
  /\ UNCHANGED <<run, source, sent>>

-----------------------------------------------------------------------------
(* Ways into executeQueuedCloudRun *)

\* The last call of startProductionCloudRun before it.
Launch(i) ==
  /\ Transition("pending", "queued")
  /\ Begin(i, "init", run.attempt + 1)
  /\ UNCHANGED <<source, sent, crashes>>

\* The approval is given; the attempt of the row that comes back is the one written next.
Approve(i) ==
  /\ Transition("awaiting_approval", "queued")
  /\ Begin(i, "attempt", IF run.attempt = 0 THEN 1 ELSE run.attempt)
  /\ UNCHANGED <<source, sent, crashes>>

\* Whatever the run's status has become.
SetAttempt(i) ==
  /\ At(i, "attempt")
  /\ run' = [run EXCEPT !.attempt = instances[i].attempt]
  /\ Goto(i, "init")
  /\ UNCHANGED <<source, sent, crashes>>

Retry(i) ==
  /\ run.status \in {"failed", "timed_out"}
  /\ run.attempt < MaxAttempts
  /\ Transition(run.status, "queued")
  /\ Begin(i, "retry.timeout", run.attempt + 1)
  /\ UNCHANGED <<source, sent, crashes>>

\* A fresh timeout_at, if the run is still queued, and in the same attempt.
RetryTimeout(i) ==
  /\ At(i, "retry.timeout")
  /\ IF run.status = "queued"
     THEN /\ run' = [run EXCEPT !.overdue = FALSE]
          /\ Goto(i, IF run.attempt = instances[i].attempt THEN "retry.steps" ELSE "undo")
     ELSE UNCHANGED run /\ Goto(i, "undo")
  /\ UNCHANGED <<source, sent, crashes>>

\* The step rows are unique per run, node and attempt.
RetrySteps(i) ==
  LET a == instances[i].attempt
  IN /\ At(i, "retry.steps")
     /\ IF source[a].status = "none"
        THEN source' = [source EXCEPT ![a] = NewSource("pending")] /\ Goto(i, "init")
        ELSE UNCHANGED source /\ Goto(i, "undo")
     /\ UNCHANGED <<run, sent, crashes>>

Undo(i) ==
  /\ At(i, "undo")
  /\ Transition("queued", "cancelled") \/ (run.status # "queued" /\ UNCHANGED run)
  /\ End(i)
  /\ UNCHANGED <<source, sent, crashes>>

\* resumeProductionCloudRuns: some attempt's source is running, the run too, in time.
Tick(i) ==
  /\ \E a \in Attempts : source[a].status = "running"
  /\ run.status = "running"
  /\ ~ run.overdue
  /\ Begin(i, "read", run.attempt)
  /\ UNCHANGED <<run, source, sent, crashes>>

-----------------------------------------------------------------------------
(* executeQueuedCloudRun, continueDriveExcelBatch *)

\* The attempt of the row it was given, if the run is still queued.
InitAttempt(i) ==
  /\ At(i, "init")
  /\ IF run.status = "queued"
     THEN run' = [run EXCEPT !.attempt = instances[i].attempt] /\ Goto(i, "start")
     ELSE UNCHANGED run /\ End(i)
  /\ UNCHANGED <<source, sent, crashes>>

\* It goes on with the row the transition returns.
Start(i) ==
  /\ At(i, "start")
  /\ \/ /\ Transition("queued", "running")
        /\ instances' = [instances EXCEPT ![i].at = "read", ![i].attempt = run.attempt]
     \/ run.status # "queued" /\ UNCHANGED run /\ End(i)
  /\ UNCHANGED <<source, sent, crashes>>

\* Fault: a lease is honoured for ever.
LeasedForGood(row) == row.owner # None

Leased(row) == row.owner # None /\ row.live

Read(i) ==
  LET row == Mine(i)
  IN /\ At(i, "read")
     /\ CASE row.status = "succeeded" -> Goto(i, "send")
          [] row.status \notin {"succeeded", "pending", "running"} -> Throw(i)
          [] row.status \in {"pending", "running"} /\ Leased(row) -> End(i)
          [] OTHER -> instances' = [instances EXCEPT
                        ![i].at = "claim", ![i].cursor = row.cursor, ![i].fresh = TRUE]
     /\ UNCHANGED <<run, source, sent, crashes>>

\* updated_at changes under those who read it and are about to claim.
Stale(a) ==
  [j \in Instances |->
    IF instances[j] # None /\ instances[j].at = "claim" /\ instances[j].attempt = a
    THEN [instances[j] EXCEPT !.fresh = FALSE] ELSE instances[j]]

ClaimWins(i) == instances[i].fresh /\ Mine(i).status \in {"pending", "running"}

\* Whoever loses the compare-and-set reports that another one is busy.
Claim(i) ==
  LET a == instances[i].attempt
  IN /\ At(i, "claim")
     /\ IF ClaimWins(i)
        THEN /\ source' = [source EXCEPT ![a].status = "running", ![a].owner = i, ![a].live = TRUE]
             /\ instances' = [Stale(a) EXCEPT ![i].at = "batch", ![i].fresh = TRUE]
        ELSE UNCHANGED source /\ End(i)
     /\ UNCHANGED <<run, sent, crashes>>

\* advanceDriveExcelBatch: the next batch is read and merged, none if all are; a
\* batch that cannot be read, or does not fit the cursor, throws.
Batch(i) ==
  /\ At(i, "batch")
  /\ \/ instances' = [instances EXCEPT
          ![i].at = "save", ![i].cursor = IF @ < Batches THEN @ + 1 ELSE @]
     \/ Throw(i)
  /\ UNCHANGED <<run, source, sent, crashes>>

\* Fault: the checkpoint is saved by the step's key alone.
MaySaveAnyway(i) == TRUE

MaySave(i) == Mine(i).owner = i

\* Fault: the source counts as read one batch early.
CompleteEarly(cursor) == cursor + 1 >= Batches

\* completedDriveExcelOutput
Complete(cursor) == cursor = Batches

\* The checkpoint is stored and the lease given up.
Save(i) ==
  LET a == instances[i].attempt
  IN /\ At(i, "save")
     /\ IF MaySave(i)
        THEN /\ source' = [source EXCEPT ![a] =
                  [status |-> "running", owner |-> None, live |-> FALSE,
                   cursor |-> instances[i].cursor]]
             /\ instances' = [Stale(a) EXCEPT ![i] =
                  IF Complete(@.cursor) THEN [@ EXCEPT !.at = "send", !.cursor = 0] ELSE None]
        ELSE UNCHANGED source /\ Throw(i)
     /\ UNCHANGED <<run, sent, crashes>>

\* executeCloudWorkflow with the source restored: the external node starts, whatever
\* its row says; it is carried out or not, and may fail or time out either way.
Send(i) ==
  /\ At(i, "send")
  /\ \E done \in BOOLEAN, outcome \in {"succeeded", "failed"} :
       /\ outcome = "succeeded" => done
       /\ sent' = [sent EXCEPT ![instances[i].attempt] = IF done /\ @ < 2 THEN @ + 1 ELSE @]
       /\ instances' = [instances EXCEPT ![i].at = "persist", ![i].outcome = outcome]
  /\ UNCHANGED <<run, source, crashes>>

\* The steps are written one by one, by their key alone; the source is the first.
PersistSource(i) ==
  LET a == instances[i].attempt
  IN /\ At(i, "persist")
     /\ source' = [source EXCEPT ![a].status = "succeeded"]
     /\ instances' = [Stale(a) EXCEPT ![i].at = "finish"]
     /\ UNCHANGED <<run, sent, crashes>>

\* The compare-and-set knows the status, not the attempt; its conflict is caught.
Finish(i) ==
  /\ At(i, "finish")
  /\ \/ Transition("running", instances[i].outcome) /\ End(i)
     \/ run.status # "running" /\ UNCHANGED run /\ Throw(i)
  /\ UNCHANGED <<source, sent, crashes>>

\* Whatever was thrown, a run that is running now has failed.
Catch(i) ==
  /\ At(i, "catch")
  /\ Transition("running", "failed") \/ (run.status # "running" /\ UNCHANGED run)
  /\ End(i)
  /\ UNCHANGED <<source, sent, crashes>>

-----------------------------------------------------------------------------
(* Users, the sweep and the clock: what they read and what they compare agree. *)

Cancel ==
  /\ run.status \in Active
  /\ Transition(run.status, "cancelled")
  /\ UNCHANGED <<source, sent, instances, crashes>>

Sweep ==
  /\ run.status \in Active
  /\ run.overdue
  /\ Transition(run.status, "timed_out")
  /\ UNCHANGED <<source, sent, instances, crashes>>

Overdue ==
  /\ run.status \in Active
  /\ ~ run.overdue
  /\ run' = [run EXCEPT !.overdue = TRUE]
  /\ UNCHANGED <<source, sent, instances, crashes>>

\* Ten minutes pass, with or without the one who claimed.
LeaseLapses(a) ==
  /\ source[a].live
  /\ source' = [source EXCEPT ![a].live = FALSE]
  /\ UNCHANGED <<run, sent, instances, crashes>>

-----------------------------------------------------------------------------

EnterNext(i) ==
  \/ SetAttempt(i) \/ RetryTimeout(i) \/ RetrySteps(i) \/ Undo(i)

ContinueNext(i) ==
  \/ InitAttempt(i) \/ Start(i) \/ Read(i) \/ Claim(i) \/ Batch(i) \/ Save(i)
  \/ Send(i) \/ PersistSource(i) \/ Finish(i)
  \/ Catch(i)

InstanceNext(i) == EnterNext(i) \/ ContinueNext(i)

CloudNext ==
  \/ \E i \in Instances :
       Launch(i) \/ Approve(i) \/ Retry(i) \/ Tick(i) \/ InstanceNext(i) \/ InstanceDies(i)
  \/ Cancel \/ Sweep \/ Overdue
  \/ \E a \in Attempts : LeaseLapses(a)

-----------------------------------------------------------------------------
(* Properties *)

\* While a lease is live nobody else puts a claim in its place, however many ticks
\* and handlers read the row before it was taken.
LeaseRespected ==
  [][\A a \in Attempts :
       source[a].live /\ source'[a].owner # source[a].owner => source'[a].owner = None]_cloudVars

\* A checkpoint moves on by one batch at a time and never back: an instance that lost
\* its lease cannot put the rows it read in place of a later checkpoint.
CursorMonotone ==
  [][\A a \in Attempts : source'[a].cursor \in {source[a].cursor, source[a].cursor + 1}]_cloudVars

\* Nothing is sent before every file of the folder was read, in that attempt.
SendsAfterSource ==
  \A a \in Attempts : sent[a] > 0 => source[a].cursor = Batches

\* A run that succeeded carried its external node out in some attempt: not always the
\* one it is shown with, and not always with step rows that say so, because Finish
\* compares no attempt and Save no status.
SuccessIsSent == run.status = "succeeded" => \E a \in Attempts : sent[a] > 0

\* A source that is being read is read to its end, or the run ends or runs out of
\* time: a lease whose holder died or was too slow holds nobody up for good.
BatchesContinue ==
  LET reading == run.status = "running" /\ source[run.attempt].status = "running"
  IN reading ~> (~ reading \/ run.overdue)

\* docs/EXECUTION_PLAN.md: "Every external write remains approval-gated and
\* idempotent": no attempt sends twice, whoever continues it.
EffectsOnce == \A a \in Attempts : sent[a] <= 1

\* What steps never do to the lease and the checkpoint of a source.
CheckpointsKept == LeaseRespected /\ CursorMonotone

=============================================================================
