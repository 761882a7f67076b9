---------------------------- MODULE JobExecution ----------------------------
(***************************************************************************)
(* How the Desktop Agent executes a Workflow: the engine's loop over the    *)
(* nodes (runner.ts), the local nodes (workflow-job-executor.ts), and the   *)
(* nodes that produce a file once (local-executor.ts) with the processing   *)
(* ledger (ledger.ts) and the atomic writer (write.ts).                     *)
(*                                                                          *)
(* An execution is one call of DesktopWorkflowJobExecutor.execute().  It    *)
(* awaits one node body at a time; a body that exceeds the step timeout     *)
(* goes on by itself.  A job that is claimed again brings the same          *)
(* idempotency key, a retry of the run brings another one, and both produce *)
(* the same output names.  The process may die: the receipts, the files and *)
(* the lock files stay.                                                     *)
(***************************************************************************)
EXTENDS WorkflowGraph

CONSTANTS
  Nodes,       \* the nodes of the Workflow, numbers
  Role,        \* what a node does: "list", "read", "write" or "combine"
  RunGraphs,   \* bound: the graphs that are executed, of those accepted
  Executions,  \* the calls of execute(), numbered in the order they begin
  Keys,        \* the idempotency keys of the jobs
  Versions,    \* the contents the input files can have
  MaxTouches,  \* bound on what the user does to the files, and on crashes
  Nothing      \* "no file", "no lock", "no node"

ASSUME NodesAssumption == Nodes \subseteq Nat /\ IsFiniteSet(Nodes) /\ Nodes # {}
ASSUME RoleAssumption == Role \in [Nodes -> {"list", "read", "write", "combine"}]
ASSUME ExecutionsAssumption == Executions \subseteq Nat
ASSUME NothingAssumption == Nothing \notin Nodes \cup Executions \cup Keys \cup Versions
ASSUME TouchesAssumption == MaxTouches \in Nat

VARIABLES
  edges,     \* the edges of the Workflow
  verdict,   \* "unchecked", "accepted" or "rejected" by validateWorkflow
  plan,      \* orderedNodes
  execs,     \* the executions
  bodies,    \* the node body each execution started last
  active,    \* ProcessingLedger.active, the fingerprints claimed in memory
  receipts,  \* the fingerprints of the receipts on disk
  locks,     \* <output>.aiws.lock: the execution whose body created it
  files,     \* the outputs: the fingerprint of the body that produced it
  inputs,    \* the content of the input files
  touches,   \* counts up to MaxTouches
  crashed    \* the process has died at least once

engine == <<edges, verdict, plan>>
disk == <<receipts, locks, files>>
world == <<inputs, touches, crashed>>
vars == <<engine, execs, bodies, active, disk, world>>

Producers == {n \in Nodes : Role[n] \in {"write", "combine"}}

(* A fingerprint stands for the hash of `idempotencyKey:nodeId` and the     *)
(* hashes of the inputs.                                                    *)
Fingerprints == [key : Keys, node : Producers, hashes : SUBSET Versions]

(* What one node hands to the next: `tables` and `paths` say whether there  *)
(* are any, `produced` how writeOnce answered.                              *)
Envelopes == [hashes : SUBSET Versions, tables : BOOLEAN, paths : BOOLEAN,
              produced : {"no", "written", "receipt", "in_progress"}]

EmptyEnvelope == [hashes |-> {}, tables |-> FALSE, paths |-> FALSE, produced |-> "no"]

Idle == [state |-> "idle", key |-> Nothing, at |-> 0, outputs |-> <<>>,
         aborted |-> FALSE]
NoBody == [pc |-> "none", node |-> Nothing, input |-> EmptyEnvelope,
           answer |-> "no", key |-> Nothing]

Init ==
    /\ edges \in SUBSET {e \in Nodes \X Nodes : e[1] # e[2]}
    /\ verdict = "unchecked" /\ plan = <<>>
    /\ execs = [e \in Executions |-> Idle]
    /\ bodies = [e \in Executions |-> NoBody]
    /\ active = {} /\ receipts = {}
    /\ locks = [n \in Producers |-> Nothing]
    /\ files = [n \in Producers |-> Nothing]
    /\ inputs \in Versions
    /\ touches = 0 /\ crashed = FALSE

-----------------------------------------------------------------------------
(* The engine.                                                              *)

(* The first execution validates the Workflow and orders its nodes; every   *)
(* later one does the same and comes to the same answer.                    *)
Validate ==
    /\ verdict = "unchecked"
    /\ verdict' = IF ValidateWorkflow(Nodes, edges) THEN "accepted" ELSE "rejected"
    /\ plan' = TopologicalOrder(Nodes, edges)
    /\ UNCHANGED <<edges, execs, bodies, active, disk, world>>

Over(e) == execs[e].state \in {"succeeded", "failed", "cancelled"}

(* The Agent claims the next job once the last one ended; a second cycle    *)
(* after stop() and start() finds the old execution aborted but under way.  *)
Begin(e, key) ==
    /\ verdict = "accepted" /\ edges \in RunGraphs
    /\ execs[e].state = "idle"
    /\ \A other \in Executions :
          IF other < e THEN Over(other) \/ (execs[other].state # "idle" /\ execs[other].aborted)
          ELSE execs[other].state = "idle"
    /\ execs' = [execs EXCEPT ![e] = [Idle EXCEPT !.state = "next", !.key = key, !.at = 1]]
    /\ UNCHANGED <<engine, bodies, active, disk, world>>

(* The lease is lost or the executor is stopped: reporter.signal aborts.    *)
Abort(e) ==
    /\ execs[e].state \in {"next", "node"}
    /\ ~execs[e].aborted
    /\ execs' = [execs EXCEPT ![e].aborted = TRUE]
    /\ UNCHANGED <<engine, bodies, active, disk, world>>

Ends(e, outcome) == execs' = [execs EXCEPT ![e].state = outcome]

(* The top of the loop: the abort is looked at before a node and only then. *)
CancelBeforeNode(e) ==
    /\ execs[e].state = "next" /\ execs[e].at <= Len(plan) /\ execs[e].aborted
    /\ Ends(e, "cancelled")
    /\ UNCHANGED <<engine, bodies, active, disk, world>>

Finish(e) ==
    /\ execs[e].state = "next" /\ execs[e].at > Len(plan)
    /\ Ends(e, "succeeded")
    /\ UNCHANGED <<engine, bodies, active, disk, world>>

InputForNode(e, n) ==
    LET given == {execs[e].outputs[m] : m \in Predecessors(n, edges) \cap DOMAIN execs[e].outputs}
    IN  [hashes |-> UNION {g.hashes : g \in given},
         tables |-> \E g \in given : g.tables,
         paths |-> \E g \in given : g.paths,
         produced |-> "no"]

(* onProgress('running') is accepted and the body starts.                   *)
StartNode(e) ==
    /\ execs[e].state = "next" /\ execs[e].at <= Len(plan) /\ ~execs[e].aborted
    /\ LET n == plan[execs[e].at]
       IN  bodies' = [bodies EXCEPT ![e] =
              [pc |-> "start", node |-> n, input |-> InputForNode(e, n),
               answer |-> "no", key |-> execs[e].key]]
    /\ execs' = [execs EXCEPT ![e].state = "node"]
    /\ UNCHANGED <<engine, active, disk, world>>

(* A progress report is refused or lost.  Before the node, the error leaves *)
(* execute(); after it, it is caught as the failure of a node that has done *)
(* its work.  Errors of the reporter are not retryable.                     *)
ReportRejected(e) ==
    /\ \/ execs[e].state = "next" /\ execs[e].at <= Len(plan) /\ ~execs[e].aborted
       \/ execs[e].state = "node" /\ bodies[e].pc = "returned"
    /\ Ends(e, "failed")
    /\ bodies' = [bodies EXCEPT ![e] = NoBody]
    /\ UNCHANGED <<engine, active, disk, world>>

Output(b) == [b.input EXCEPT
    !.tables = @ \/ Role[b.node] = "read",
    !.paths = @ \/ Role[b.node] # "read",
    !.produced = b.answer]

(* outputs with what the node of the body has put out.                      *)
OutputsWith(e) ==
    [m \in DOMAIN execs[e].outputs \cup {bodies[e].node} |->
        IF m = bodies[e].node THEN Output(bodies[e]) ELSE execs[e].outputs[m]]

(* The node returned and its report was accepted.                           *)
NodeReturns(e) ==
    /\ execs[e].state = "node" /\ bodies[e].pc = "returned"
    /\ execs' = [execs EXCEPT ![e].state = "next", ![e].at = @ + 1,
                              ![e].outputs = OutputsWith(e)]
    /\ bodies' = [bodies EXCEPT ![e] = NoBody]
    /\ UNCHANGED <<engine, active, disk, world>>

(* Mutant: what a node throws after an abort is dropped.                    *)
NodeFailsUnlessAborted(e) ==
    /\ execs[e].state = "node" /\ bodies[e].pc = "thrown" /\ ~execs[e].aborted
    /\ Ends(e, "failed")
    /\ bodies' = [bodies EXCEPT ![e] = NoBody]
    /\ UNCHANGED <<engine, active, disk, world>>

NodeFails(e) ==
    /\ execs[e].state = "node" /\ bodies[e].pc = "thrown"
    /\ Ends(e, "failed")
    /\ bodies' = [bodies EXCEPT ![e] = NoBody]
    /\ UNCHANGED <<engine, active, disk, world>>

(* The race against the step timer is lost; nothing stops the body.         *)
NodeTimesOut(e) ==
    /\ execs[e].state = "node" /\ bodies[e].pc \notin {"returned", "thrown"}
    /\ Ends(e, "failed")
    /\ UNCHANGED <<engine, bodies, active, disk, world>>

(* What a body returns after its execution is over, nobody takes.           *)
OrphanEnds(e) ==
    /\ Over(e) /\ bodies[e].pc \in {"returned", "thrown"}
    /\ bodies' = [bodies EXCEPT ![e] = NoBody]
    /\ UNCHANGED <<engine, execs, active, disk, world>>

-----------------------------------------------------------------------------
(* The bodies.                                                              *)

Fingerprint(b) == [key |-> b.key, node |-> b.node, hashes |-> b.input.hashes]

Moves(e, pc) == bodies' = [bodies EXCEPT ![e].pc = pc]

(* What a node needs of its input; a list node needs nothing.               *)
InputSuffices(b) ==
    CASE Role[b.node] = "list" -> TRUE
      [] Role[b.node] = "read" -> b.input.paths
      [] Role[b.node] = "write" -> b.input.tables
      [] Role[b.node] = "combine" -> b.input.paths

(* folder.list_files and excel.read: they only look.  Either may fail.      *)
LookNode(e) ==
    /\ bodies[e].pc = "start" /\ bodies[e].node \notin Producers
    /\ \/ /\ InputSuffices(bodies[e])
          /\ bodies' = [bodies EXCEPT ![e].pc = "returned",
                ![e].input.hashes = IF Role[bodies[e].node] = "read" THEN {inputs} ELSE @]
       \/ Moves(e, "thrown")
    /\ UNCHANGED <<engine, execs, active, disk, world>>

RefuseInput(e) ==
    /\ bodies[e].pc = "start" /\ bodies[e].node \in Producers
    /\ ~InputSuffices(bodies[e])
    /\ Moves(e, "thrown")
    /\ UNCHANGED <<engine, execs, active, disk, world>>

(* Mutant: the receipts are not loaded.                                     *)
ClaimAnswerFromMemory(b) == IF Fingerprint(b) \in active THEN "in_progress" ELSE "written"

(* writeOnce and combineWorkbooksOnce: claim() answers 'in_progress' or     *)
(* 'duplicate', and both are returned as a duplicate.                       *)
ClaimAnswer(b) ==
    IF Fingerprint(b) \in active THEN "in_progress"
    ELSE IF Fingerprint(b) \in receipts THEN "receipt"
    ELSE "written"

Claim(e) ==
    /\ bodies[e].pc = "start" /\ bodies[e].node \in Producers
    /\ InputSuffices(bodies[e])
    /\ LET answer == ClaimAnswer(bodies[e])
       IN  /\ bodies' = [bodies EXCEPT ![e].answer = answer,
                 ![e].pc = IF answer = "written" THEN "check" ELSE "returned"]
           /\ active' = IF answer = "written"
                        THEN active \cup {Fingerprint(bodies[e])} ELSE active
    /\ UNCHANGED <<engine, execs, disk, world>>

(* Mutant: the destination is refused before the try block.                 *)
CheckDestinationOutsideTry(e) ==
    /\ bodies[e].pc = "check"
    /\ Moves(e, IF files[bodies[e].node] # Nothing THEN "thrown"
                ELSE IF Role[bodies[e].node] = "write" THEN "lock" ELSE "combine")
    /\ UNCHANGED <<engine, execs, active, disk, world>>

(* The first look at the destination; overwriting is never asked for.       *)
CheckDestination(e) ==
    /\ bodies[e].pc = "check"
    /\ Moves(e, IF files[bodies[e].node] # Nothing THEN "release"
                ELSE IF Role[bodies[e].node] = "write" THEN "lock" ELSE "combine")
    /\ UNCHANGED <<engine, execs, active, disk, world>>

(* open(lockPath, 'wx')                                                     *)
TakeLock(e) ==
    LET n == bodies[e].node
    IN  /\ bodies[e].pc = "lock"
        /\ IF locks[n] = Nothing
           THEN locks' = [locks EXCEPT ![n] = e] /\ Moves(e, "verify")
           ELSE locks' = locks /\ Moves(e, "release")
        /\ UNCHANGED <<engine, execs, active, receipts, files, world>>

(* The temporary file is written and read back, which may fail, and the     *)
(* destination is looked at again under the lock.                           *)
DestinationFree(n) == files[n] = Nothing

VerifyTemporary(e) ==
    /\ bodies[e].pc = "verify"
    /\ \/ DestinationFree(bodies[e].node) /\ Moves(e, "rename")
       \/ Moves(e, "unlock_failed")
    /\ UNCHANGED <<engine, execs, active, disk, world>>

Produce(e) == files' = [files EXCEPT ![bodies[e].node] = Fingerprint(bodies[e])]

Rename(e) ==
    /\ bodies[e].pc = "rename"
    /\ Produce(e)
    /\ Moves(e, "unlock")
    /\ UNCHANGED <<engine, execs, active, receipts, locks, world>>

Unlocked(e) == [locks EXCEPT ![bodies[e].node] = Nothing]

Unlock(e) ==
    /\ bodies[e].pc \in {"unlock", "unlock_failed"}
    /\ locks' = Unlocked(e)
    /\ Moves(e, IF bodies[e].pc = "unlock" THEN "complete" ELSE "release")
    /\ UNCHANGED <<engine, execs, active, receipts, files, world>>

(* combineWorkbooksAsTabs takes no lock and does not look again; it writes  *)
(* the output in place when the conversion succeeded.                       *)
Combine(e) ==
    /\ bodies[e].pc = "combine"
    /\ \/ Produce(e) /\ Moves(e, "complete")
       \/ files' = files /\ Moves(e, "release")
    /\ UNCHANGED <<engine, execs, active, receipts, locks, world>>

(* complete() and release(): the claim is dropped first.  A receipt needs   *)
(* at least one input hash, and saving it may fail; the error is caught and *)
(* releases a claim that is already gone.                                   *)
Complete(e) ==
    LET print == Fingerprint(bodies[e])
    IN  /\ bodies[e].pc = "complete"
        /\ active' = active \ {print}
        /\ \/ /\ print.hashes # {}
              /\ receipts' = receipts \cup {print}
              /\ Moves(e, "returned")
           \/ receipts' = receipts /\ Moves(e, "thrown")
        /\ UNCHANGED <<engine, execs, locks, files, world>>

Release(e) ==
    /\ bodies[e].pc = "release"
    /\ active' = active \ {Fingerprint(bodies[e])}
    /\ Moves(e, "thrown")
    /\ UNCHANGED <<engine, execs, disk, world>>

-----------------------------------------------------------------------------
(* The user and the machine.                                                *)

Touch == touches < MaxTouches /\ touches' = touches + 1

EditInputs ==
    /\ Touch
    /\ \E v \in Versions \ {inputs} : inputs' = v
    /\ UNCHANGED <<engine, execs, bodies, active, disk, crashed>>

TakeOutputAway(n) ==
    /\ Touch /\ files[n] # Nothing
    /\ files' = [files EXCEPT ![n] = Nothing]
    /\ UNCHANGED <<engine, execs, bodies, active, receipts, locks, inputs, crashed>>

(* The application dies and is started again.                               *)
Crash ==
    /\ Touch
    /\ crashed' = TRUE
    /\ execs' = [e \in Executions |->
          IF execs[e].state \in {"next", "node"} THEN [execs[e] EXCEPT !.state = "failed"]
          ELSE execs[e]]
    /\ bodies' = [e \in Executions |-> NoBody]
    /\ active' = {}
    /\ UNCHANGED <<engine, disk, inputs>>

EngineStep(e) ==
    \/ CancelBeforeNode(e) \/ Finish(e) \/ StartNode(e) \/ NodeReturns(e)
    \/ NodeFails(e) \/ OrphanEnds(e)

BodyStep(e) ==
    \/ LookNode(e) \/ RefuseInput(e) \/ Claim(e) \/ CheckDestination(e) \/ TakeLock(e)
    \/ VerifyTemporary(e) \/ Rename(e) \/ Unlock(e) \/ Combine(e) \/ Complete(e)
    \/ Release(e)

Next ==
    \/ Validate
    \/ \E e \in Executions :
          \/ EngineStep(e) \/ BodyStep(e) \/ Abort(e) \/ ReportRejected(e) \/ NodeTimesOut(e)
          \/ \E key \in Keys : Begin(e, key)
    \/ EditInputs \/ Crash
    \/ \E n \in Producers : TakeOutputAway(n)

Spec == Init /\ [][Next]_vars

(* The event loop runs what is ready: an execution whose node settled, and  *)
(* a body whose file operation is done.                                     *)
FairSpec ==
    /\ Spec
    /\ \A e \in Executions : WF_vars(EngineStep(e)) /\ WF_vars(BodyStep(e))

-----------------------------------------------------------------------------
(* Properties.                                                              *)

States == {"idle", "next", "node", "succeeded", "failed", "cancelled"}
Steps == {"none", "start", "check", "lock", "verify", "rename", "unlock",
          "unlock_failed", "combine", "complete", "release", "returned", "thrown"}

(* Every variable keeps the shape its type gives it, and the outputs of an  *)
(* execution are those of the nodes it is past.                             *)
TypeOK ==
    /\ edges \subseteq Nodes \X Nodes
    /\ verdict \in {"unchecked", "accepted", "rejected"}
    /\ plan \in Seq(Nodes)
    /\ \A e \in Executions :
          /\ execs[e].state \in States
          /\ execs[e].key \in Keys \cup {Nothing}
          /\ execs[e].at \in 0..(Cardinality(Nodes) + 1)
          /\ DOMAIN execs[e].outputs = {plan[i] : i \in 1..(execs[e].at - 1)}
          /\ \A n \in DOMAIN execs[e].outputs : execs[e].outputs[n] \in Envelopes
          /\ execs[e].aborted \in BOOLEAN
    /\ bodies \in [Executions -> [pc : Steps, node : Nodes \cup {Nothing}, input : Envelopes,
                                  answer : {"no", "written", "receipt", "in_progress"},
                                  key : Keys \cup {Nothing}]]
    /\ active \subseteq Fingerprints
    /\ receipts \subseteq Fingerprints
    /\ locks \in [Producers -> Executions \cup {Nothing}]
    /\ files \in [Producers -> Fingerprints \cup {Nothing}]
    /\ inputs \in Versions
    /\ touches \in 0..MaxTouches
    /\ crashed \in BOOLEAN

(* validateWorkflow() accepts exactly the connected graphs without a cycle, *)
(* and topologicalOrder() then lists every node behind its predecessors,    *)
(* always the least id first ("stable topological order", runner.test.ts).  *)
AcceptedIsRunnable ==
    [][verdict' # verdict =>
          /\ (verdict' = "accepted") <=> (Acyclic(Nodes, edges) /\ Connected(Nodes, edges))
          /\ verdict' = "accepted" => IsStableOrder(plan', Nodes, edges)]_vars

Holding(e) == bodies[e].pc \in
    {"check", "lock", "verify", "rename", "unlock", "unlock_failed", "combine",
     "complete", "release"}

(* A fingerprint is claimed in the ledger exactly while one body works on   *)
(* it, whichever way the body, its execution or an earlier one ended: a     *)
(* claim that is left behind would turn every later run into a "duplicate". *)
ClaimHeldOnce ==
    \A print \in Fingerprints :
        Cardinality({e \in Executions : Holding(e) /\ Fingerprint(bodies[e]) = print}) =
            IF print \in active THEN 1 ELSE 0

(* As long as the process has never died, a lock file belongs to a body     *)
(* that is going to remove it: a failure or a timeout leaves none behind.   *)
LockHasOwner ==
    \A n \in Producers :
        \/ locks[n] = Nothing
        \/ crashed
        \/ /\ bodies[locks[n]].node = n
           /\ bodies[locks[n]].pc \in {"verify", "rename", "unlock", "unlock_failed"}

(* excel.write and excel.create_report never replace an output that is      *)
(* there, not even when the body of a timed-out attempt is still at work    *)
(* beside the retry ("create a new file and do not overwrite").             *)
OutputKept ==
    [][\A n \in Producers :
          (Role[n] = "write" /\ files[n] # Nothing) => files'[n] \in {files[n], Nothing}]_vars

(* What has a receipt is never produced again, after a restart, a lost      *)
(* lease or with the earlier body still running ("a reclaimed Job cannot    *)
(* produce the same output twice").                                         *)
ReceiptedNotProduced ==
    [][\A n \in Producers :
          files'[n] \notin {files[n], Nothing} => files'[n] \notin receipts]_vars

(* An execution that succeeded left a receipt for every output, unless a    *)
(* body that was still at work answered for it: claim() says 'in_progress'  *)
(* and writeOnce() passes that on as a duplicate.                           *)
SucceededIsReceipted ==
    \A e \in Executions : execs[e].state = "succeeded" =>
        \A n \in Producers :
            LET output == execs[e].outputs[n]
            IN  \/ output.produced = "in_progress"
                \/ [key |-> execs[e].key, node |-> n, hashes |-> output.hashes] \in receipts

(* Every execution ends, and so does its body: one that nobody waits for    *)
(* any more gives its claim and its lock back as well.                      *)
ExecutionsEnd ==
    \A e \in Executions :
        (execs[e].state \in {"next", "node"} \/ Holding(e)) ~> (Over(e) /\ ~Holding(e))

(* What holds of claims, locks and receipts at any instant.                 *)
JobSafe ==
    /\ TypeOK
    /\ ClaimHeldOnce
    /\ LockHasOwner
    /\ SucceededIsReceipted

(* What steps never do to an output that is there, or has a receipt.        *)
OutputsKept == OutputKept /\ ReceiptedNotProduced

=============================================================================
