----------------------------- MODULE CloudProofs ------------------------------
(***************************************************************************)
(* Theorems about CloudRuns and AgentCloudSteps, for all instances,        *)
(* requests and values and all bounds.                                     *)
(***************************************************************************)
EXTENDS AgentCloudSteps, TLAPS

USE CloudBounds, NoneIsNobody, ValuesAreOutputs

-----------------------------------------------------------------------------
(* The inductive invariant: a run in the cloud *)

\* A run that was started has an attempt; one that succeeded has sent.
RunFits ==
  /\ run.status = "pending" => run.attempt = 0
  /\ run.status = "running" => run.attempt # 0
  /\ run.status = "succeeded" /\ target = "cloud" => SuccessIsSent

\* What the row of an attempt says of its lease, its checkpoint and what was sent.
RowsFit ==
  \A a \in Attempts :
    /\ source[a].live => source[a].owner # None
    /\ source[a].status = "none" =>
         source[a].cursor = 0 /\ source[a].owner = None /\ ~ source[a].live
    /\ source[a].status = "succeeded" \/ sent[a] > 0 => source[a].cursor = Batches

\* What instance i, being x, knows of a row, as long as nobody has claimed it since: the
\* checkpoint before its claim, the checkpoint it works on after it, and the whole folder
\* in the end.
Knows(x, i, row) ==
  /\ x.at = "claim" /\ x.fresh => x.cursor = row.cursor /\ ~ row.live
  /\ x.at = "batch" /\ row.owner = i => x.cursor = row.cursor
  /\ x.at = "save" /\ row.owner = i => x.cursor \in {row.cursor, row.cursor + 1}
  /\ x.at \in {"send", "persist"} => row.cursor = Batches

\* It works for an attempt of a run that has begun, knows that attempt's row, and has carried the external node
\* out if it says that the node succeeded.
Fits(x, i) ==
  /\ x.attempt \in Attempts
  /\ run.status # "pending"
  /\ x.at = "start" => run.attempt # 0
  /\ Knows(x, i, source[x.attempt])
  /\ x.outcome = "succeeded" => x.at \in {"persist", "finish"} /\ sent[x.attempt] > 0

InstancesFit == \A i \in Instances : instances[i] # None => Fits(instances[i], i)

CloudInv == RunFits /\ RowsFit /\ InstancesFit

-----------------------------------------------------------------------------
(* The inductive invariant: the cloud node of a desktop run *)

Carrying == {"work", "store", "abandon"}

\* Attempts to come have left no trace.
FutureIsOpen ==
  target = "desktop" =>
    /\ run.status # "pending"
    /\ run.attempt # 0
    /\ \A a \in Attempts : a > run.attempt =>
         /\ local[a] = "none" /\ remote[a] = NewRemote("none") /\ done[a] = 0
         /\ \A q \in Requests : requests[q] # None => requests[q].attempt # a

\* A step was claimed with what the node before produced, and succeeded with it.
StepFits(a, row, n) ==
  /\ row.status \in {"none", "pending"} => row.input = None
  /\ row.input = None => n = 0
  /\ row.input # None => local[a] = row.input
  /\ row.status = "succeeded" => row.input # None /\ row.output = row.input /\ n = 1
  /\ n <= 1

StepsFit == \A a \in Attempts : StepFits(a, remote[a], done[a])

\* What a request knows, being x: the output of the node before, once it looked; that
\* the step is its own, once it claimed; what its answer was made from.
RequestFits(x) ==
  LET a == x.attempt
  IN /\ x.at \in Carrying \cup {"claim", "answer"} => local[a] = x.input
     /\ x.at \in Carrying => remote[a].input = x.input
     /\ x.at = "work" => done[a] = 0 /\ remote[a].status = "running"
     /\ x.at = "store" => done[a] = 1 /\ remote[a].status = "running"
     /\ x.at = "answer" => x.output = x.input

RequestsFit == \A q \in Requests : requests[q] # None => RequestFits(requests[q])

\* One request carries out the node of an attempt.
Carries(q, a) == requests[q] # None /\ requests[q].at \in Carrying /\ requests[q].attempt = a

CarriedByOne ==
  \A a \in Attempts, p, q \in Requests : Carries(p, a) /\ Carries(q, a) => p = q

\* The step of a run that succeeded has succeeded.
SuccessHasStep ==
  target = "desktop" /\ run.status = "succeeded" => remote[run.attempt].status = "succeeded"

StepInv ==
  /\ FutureIsOpen
  /\ StepsFit
  /\ RequestsFit
  /\ CarriedByOne
  /\ SuccessHasStep

IInv == TypeOK /\ CloudInv /\ StepInv

LEMMA InitIInv == Init => IInv
<1> SUFFICES ASSUME Init PROVE IInv
  OBVIOUS
<1>1. /\ target \in {"cloud", "desktop"}
      /\ target = "desktop" => run.attempt = 1 /\ 1 \in Attempts
      /\ run \in [status : {"pending", "awaiting_approval", "queued"}, attempt : {0, 1},
                  overdue : {FALSE}]
      /\ run.status = "pending" => run.attempt = 0
  <2>1. target \in {"cloud", "desktop"}
    BY DEF Init
  <2>2. CASE target = "cloud"
    <3>1. run \in [status : {"pending", "awaiting_approval"}, attempt : {0}, overdue : {FALSE}]
      BY <2>2 DEF Init, CloudInit
    <3> QED BY <2>2, <3>1
  <2>3. CASE target = "desktop"
    <3>1. run = [status |-> "queued", attempt |-> 1, overdue |-> FALSE]
      BY <2>3 DEF Init, DesktopInit
    <3> QED BY <2>3, <3>1 DEF Attempts
  <2> QED BY <2>1, <2>2, <2>3
<1>2. /\ instances = [i \in Instances |-> None]
      /\ crashes = 0
      /\ sent = [a \in Attempts |-> 0]
  BY DEF Init, CloudInit, DesktopInit, NothingRuns
<1>3. /\ source \in [Attempts -> SourceRow]
      /\ \A a \in Attempts : source[a] \in {NewSource("pending"), NewSource("none")}
  <2>1. CASE target = "cloud"
    <3>1. source = [a \in Attempts |-> NewSource(IF a = 1 THEN "pending" ELSE "none")]
      BY <2>1 DEF Init, CloudInit
    <3>2. \A a \in Attempts : source[a] \in {NewSource("pending"), NewSource("none")}
      BY <3>1
    <3>3. NewSource("pending") \in SourceRow /\ NewSource("none") \in SourceRow
      BY DEF NewSource, SourceRow, StepStatuses
    <3> QED BY <3>1, <3>2, <3>3
  <2>2. CASE target = "desktop"
    <3>1. source = [a \in Attempts |-> NewSource("none")]
      BY <2>2 DEF Init, DesktopInit
    <3> QED BY <3>1 DEF NewSource, SourceRow, StepStatuses
  <2> QED BY <1>1, <2>1, <2>2
<1>4. /\ local \in [Attempts -> {"none", "pending"}]
      /\ remote \in [Attempts -> RemoteRow]
      /\ \A a \in Attempts : remote[a] \in {NewRemote("none"), NewRemote("pending")}
      /\ \A a \in Attempts : a > 1 => local[a] = "none" /\ remote[a] = NewRemote("none")
      /\ done = [a \in Attempts |-> 0]
      /\ requests = [q \in Requests |-> None]
  <2> DEFINE first(status) == IF target = "desktop" THEN status ELSE "none"
  <2>1. /\ local = [a \in Attempts |-> IF a = 1 THEN first("pending") ELSE "none"]
        /\ remote = [a \in Attempts |-> NewRemote(IF a = 1 THEN first("pending") ELSE "none")]
        /\ done = [a \in Attempts |-> 0]
        /\ requests = [q \in Requests |-> None]
    BY DEF Init
  <2>2. first("pending") \in {"none", "pending"}
    OBVIOUS
  <2> HIDE DEF first
  <2> QED BY <2>1, <2>2 DEF NewRemote, RemoteRow, StepStatuses, Attempts
<1>5. TypeOK
  <2>1. run \in [status : {"pending"} \cup Active \cup Ended, attempt : 0 .. MaxAttempts,
               overdue : BOOLEAN]
    <3>1. 0 \in 0 .. MaxAttempts /\ 1 \in 0 .. MaxAttempts
      OBVIOUS
    <3>2. run.attempt \in {0, 1} /\ run.overdue \in BOOLEAN
          /\ run.status \in {"pending", "awaiting_approval", "queued"}
      BY <1>1
    <3>3. run = [status |-> run.status, attempt |-> run.attempt, overdue |-> run.overdue]
      BY <1>1
    <3> QED BY <3>1, <3>2, <3>3 DEF Active
  <2>2. sent \in [Attempts -> 0 .. 2] /\ crashes \in 0 .. MaxCrashes
    BY <1>2
  <2>3. instances \in [Instances -> Instance \cup {None}]
    BY <1>2
  <2>4. CloudTypeOK
    BY <1>3, <2>1, <2>2, <2>3 DEF CloudTypeOK
  <2> QED BY <1>1, <1>4, <2>4 DEF TypeOK
<1>6. CloudInv
  BY <1>1, <1>2, <1>3 DEF CloudInv, RunFits, RowsFit, InstancesFit, NewSource
<1>7. FutureIsOpen
  <2>1. target = "desktop" => run.status = "queued"
    BY DEF Init, DesktopInit
  <2> QED BY <1>1, <1>4, <2>1 DEF FutureIsOpen
<1>8. StepsFit
  BY <1>4 DEF StepsFit, StepFits, NewRemote
<1>9. RequestsFit /\ CarriedByOne
  BY <1>4 DEF RequestsFit, CarriedByOne, Carries
<1>10. SuccessHasStep
  BY <1>1 DEF SuccessHasStep
<1> QED BY <1>5, <1>6, <1>7, <1>8, <1>9, <1>10 DEF IInv, StepInv

-----------------------------------------------------------------------------
(* Steps of a run in the cloud *)

Becomes(i, x) == instances' = [instances EXCEPT ![i] = x]

\* A step of i that leaves the rows alone: what the others know stays true.
LEMMA QuietStep ==
  ASSUME CloudTypeOK, CloudInv, source' = source, sent' = sent,
         run.attempt # 0 => run'.attempt # 0, run'.status # "pending",
         NEW i \in Instances, NEW x \in Instance \cup {None}, Becomes(i, x),
         x # None => Fits(x, i)'
  PROVE  /\ instances' \in [Instances -> Instance \cup {None}]
         /\ RowsFit'
         /\ InstancesFit'
<1>1. instances' \in [Instances -> Instance \cup {None}]
  BY DEF CloudTypeOK, Becomes
<1>2. RowsFit'
  BY DEF CloudInv, RowsFit
<1>3. ASSUME NEW j \in Instances, instances'[j] # None PROVE Fits(instances[j], j)'
  <2>1. CASE j = i
    BY <1>3, <2>1 DEF Becomes, CloudTypeOK
  <2>2. CASE j # i
    <3>1. instances'[j] = instances[j]
      BY <2>2 DEF Becomes, CloudTypeOK
    <3>2. Fits(instances[j], j)
      BY <1>3, <3>1 DEF CloudInv, InstancesFit
    <3> QED BY <3>1, <3>2 DEF Fits
  <2> QED BY <2>1, <2>2
<1> QED BY <1>1, <1>2, <1>3 DEF InstancesFit

\* A run's row, and a step that changes the row of the run at most, as it may.
RunRow == [status : {"pending"} \cup Active \cup Ended, attempt : 0 .. MaxAttempts,
           overdue : BOOLEAN]

RunMoves ==
  /\ UNCHANGED <<source, sent, target>>
  /\ crashes' \in 0 .. MaxCrashes
  /\ run' \in RunRow
  /\ run.attempt # 0 => run'.attempt # 0
  /\ run'.status # "pending"
  /\ RunFits'

\* A step of i that leaves the rows alone is one that gives i a record that fits.
LEMMA QuietStepKeeps ==
  ASSUME CloudTypeOK, CloudInv, RunMoves,
         NEW i \in Instances, NEW x \in Instance \cup {None}, Becomes(i, x),
         x # None => Fits(x, i)'
  PROVE  CloudTypeOK' /\ CloudInv'
<1>1. /\ instances' \in [Instances -> Instance \cup {None}]
      /\ RowsFit'
      /\ InstancesFit'
  BY QuietStep DEF RunMoves
<1>2. source' \in [Attempts -> SourceRow] /\ sent' \in [Attempts -> 0 .. 2]
  BY DEF CloudTypeOK, RunMoves
<1> QED BY <1>1, <1>2 DEF CloudTypeOK, CloudInv, RunMoves, RunRow

\* What a transition of the run does to it.
LEMMA TransitionFacts ==
  ASSUME CloudTypeOK, CloudInv, NEW from, NEW to, Transition(from, to),
         to \in Active \cup Ended,
         to = "queued" /\ from # "awaiting_approval" => run.attempt < MaxAttempts,
         to = "running" => run.attempt # 0,
         to = "succeeded" /\ target = "cloud" => SuccessIsSent',
         UNCHANGED <<source, sent, target, crashes>>
  PROVE  /\ run.status = from /\ run'.status = to
         /\ run'.attempt = IF to = "queued" /\ from # "awaiting_approval"
                           THEN run.attempt + 1 ELSE run.attempt
         /\ RunMoves
<1> DEFINE next == IF to = "queued" /\ from # "awaiting_approval"
                   THEN run.attempt + 1 ELSE run.attempt
<1>1. /\ run.status = from /\ run.attempt \in 0 .. MaxAttempts /\ run.overdue \in BOOLEAN
      /\ crashes \in 0 .. MaxCrashes
  BY DEF CloudTypeOK, Transition
<1>2. run' = [status |-> to, attempt |-> next, overdue |-> run.overdue]
  BY <1>1 DEF CloudTypeOK, Transition, Moved
<1>3. next \in 0 .. MaxAttempts
  BY <1>1
<1>4. run' \in RunRow /\ run'.status = to /\ run'.attempt = next
  BY <1>1, <1>2, <1>3 DEF RunRow
<1>5. run.attempt # 0 => run'.attempt # 0
  BY <1>1, <1>4
<1>6. to # "pending"
  BY DEF Active, Ended
<1>7. RunFits'
  BY <1>1, <1>4, <1>5, <1>6 DEF RunFits
<1> QED BY <1>1, <1>4, <1>5, <1>6, <1>7 DEF RunMoves

\* A step that leaves the row of the run alone.
LEMMA RunStays ==
  ASSUME CloudTypeOK, CloudInv, UNCHANGED <<run, source, sent, target>>, run.status # "pending",
         crashes' \in 0 .. MaxCrashes
  PROVE  RunMoves
<1>1. RunFits'
  BY DEF CloudInv, RunFits, SuccessIsSent
<1> QED BY <1>1 DEF RunMoves, CloudTypeOK, RunRow

\* An instance under way has a typed record that fits, and goes to a label, throws or ends.
LEMMA InstanceFacts ==
  ASSUME CloudTypeOK, CloudInv, NEW i \in Instances
  PROVE  /\ instances[i] # None =>
              /\ instances[i] \in Instance
              /\ Fits(instances[i], i)
              /\ instances[i].attempt \in Attempts
              /\ Mine(i) = source[instances[i].attempt] /\ Mine(i) \in SourceRow
         /\ \A label : Goto(i, label) => Becomes(i, [instances[i] EXCEPT !.at = label])
         /\ Throw(i) => Becomes(i, [instances[i] EXCEPT
                                      !.at = "catch", !.cursor = 0, !.outcome = "failed"])
         /\ End(i) => Becomes(i, None)
<1>1. instances[i] # None => instances[i] \in Instance /\ Fits(instances[i], i)
  BY DEF CloudTypeOK, CloudInv, InstancesFit
<1>2. instances[i] # None =>
        instances[i].attempt \in Attempts
        /\ Mine(i) = source[instances[i].attempt] /\ Mine(i) \in SourceRow
  BY <1>1 DEF CloudTypeOK, Fits, Mine
<1>3. \A label : Goto(i, label) => Becomes(i, [instances[i] EXCEPT !.at = label])
  BY DEF Goto, Becomes
<1>4. Throw(i) => Becomes(i, [instances[i] EXCEPT
                                !.at = "catch", !.cursor = 0, !.outcome = "failed"])
  BY DEF Throw, Becomes
<1>5. End(i) => Becomes(i, None)
  BY DEF End, Becomes
<1> QED BY <1>1, <1>2, <1>3, <1>4, <1>5

\* Where an instance knows nothing and has carried nothing out, any record of its fits.
LEMMA PlainFits ==
  ASSUME CloudTypeOK, CloudInv, NEW i \in Instances, NEW x \in Instance, run'.status # "pending",
         x.attempt \in Attempts, x.outcome = "failed",
         x.at \notin {"start", "claim", "batch", "save", "send", "persist"}
  PROVE  Fits(x, i)'
  BY DEF Fits, Knows

\* It throws, ends or dies.
LEMMA ThrowKeeps ==
  ASSUME CloudTypeOK, CloudInv, RunMoves,
         NEW i \in Instances, instances[i] # None, Throw(i) \/ End(i)
  PROVE  CloudTypeOK' /\ CloudInv'
<1> PICK x : x = [instances[i] EXCEPT !.at = "catch", !.cursor = 0, !.outcome = "failed"]
  OBVIOUS
<1>1. /\ instances[i] \in Instance
      /\ instances[i].attempt \in Attempts
      /\ Throw(i) => Becomes(i, x)
      /\ End(i) => Becomes(i, None)
  BY InstanceFacts
<1>2. x \in Instance /\ x.attempt = instances[i].attempt /\ x.at = "catch" /\ x.outcome = "failed"
  BY <1>1, 0 \in 0 .. Batches DEF Instance, Labels
<1>3. Fits(x, i)'
  BY <1>1, <1>2, PlainFits DEF RunMoves
<1>4. CASE Throw(i)
  BY <1>1, <1>2, <1>3, <1>4, QuietStepKeeps
<1>5. CASE End(i)
  BY <1>1, <1>5, QuietStepKeeps
<1> QED BY <1>4, <1>5

\* It begins.
LEMMA BeginKeeps ==
  ASSUME CloudTypeOK, CloudInv, RunMoves,
         NEW i \in Instances, NEW label \in {"init", "attempt", "retry.timeout", "read"},
         NEW a \in Attempts, Begin(i, label, a)
  PROVE  CloudTypeOK' /\ CloudInv'
<1> PICK x : x = [at |-> label, attempt |-> a, cursor |-> 0, fresh |-> TRUE, outcome |-> "failed"]
  OBVIOUS
<1>1. x \in Instance
  BY 0 \in 0 .. Batches DEF Instance, Labels, Attempts
<1>2. Fits(x, i)'
  BY <1>1, PlainFits DEF RunMoves
<1>3. Becomes(i, x)
  BY DEF Begin, Becomes
<1> QED BY <1>1, <1>2, <1>3, QuietStepKeeps

\* It goes to a call before which it knows nothing.
LEMMA GotoKeeps ==
  ASSUME CloudTypeOK, CloudInv, RunMoves,
         NEW i \in Instances, NEW label \in {"init", "retry.steps", "undo", "finish"},
         instances[i] # None, instances[i].outcome = "failed", Goto(i, label)
  PROVE  CloudTypeOK' /\ CloudInv'
<1> PICK x : x = [instances[i] EXCEPT !.at = label]
  OBVIOUS
<1>1. instances[i] \in Instance /\ instances[i].attempt \in Attempts /\ Becomes(i, x)
  BY InstanceFacts
<1>2. x \in Instance /\ x.attempt = instances[i].attempt /\ x.at = label /\ x.outcome = "failed"
  BY <1>1 DEF Instance, Labels
<1>3. Fits(x, i)'
  BY <1>1, <1>2, PlainFits DEF RunMoves
<1> QED BY <1>1, <1>2, <1>3, QuietStepKeeps

\* The ways in, one by one.
LEMMA LaunchKeeps ==
  ASSUME CloudTypeOK, CloudInv, target' = target, NEW i \in Instances, Launch(i)
  PROVE  CloudTypeOK' /\ CloudInv'
<1>1. run.status = "pending" /\ run.attempt = 0
  BY DEF Launch, Transition, CloudInv, RunFits
<1>2. Begin(i, "init", 1)
  BY <1>1 DEF Launch
<1>3. RunMoves
  BY <1>1, TransitionFacts DEF Launch, Active
<1> QED BY <1>2, <1>3, BeginKeeps DEF Attempts

LEMMA ApproveKeeps ==
  ASSUME CloudTypeOK, CloudInv, target' = target, NEW i \in Instances, Approve(i)
  PROVE  CloudTypeOK' /\ CloudInv'
<1>1. RunMoves
  BY TransitionFacts DEF Approve, Active
<1> PICK a : a = IF run.attempt = 0 THEN 1 ELSE run.attempt
  OBVIOUS
<1>2. a \in Attempts
  BY DEF CloudTypeOK, Attempts
<1>3. Begin(i, "attempt", a)
  BY DEF Approve
<1> QED BY <1>1, <1>2, <1>3, BeginKeeps

LEMMA RetryKeeps ==
  ASSUME CloudTypeOK, CloudInv, target' = target, NEW i \in Instances, Retry(i)
  PROVE  CloudTypeOK' /\ CloudInv'
<1>1. RunMoves
  BY TransitionFacts DEF Retry, Active
<1> PICK a : a = run.attempt + 1
  OBVIOUS
<1>2. a \in Attempts
  BY DEF CloudTypeOK, Attempts, Retry
<1>3. Begin(i, "retry.timeout", a)
  BY DEF Retry
<1> QED BY <1>1, <1>2, <1>3, BeginKeeps

LEMMA TickKeeps ==
  ASSUME CloudTypeOK, CloudInv, target' = target, NEW i \in Instances, Tick(i)
  PROVE  CloudTypeOK' /\ CloudInv'
<1>1. RunMoves
  BY RunStays DEF Tick, CloudTypeOK
<1> PICK a : a = run.attempt
  OBVIOUS
<1>2. a \in Attempts
  BY DEF CloudTypeOK, CloudInv, RunFits, Attempts, Tick
<1>3. Begin(i, "read", a)
  BY DEF Tick
<1> QED BY <1>1, <1>2, <1>3, BeginKeeps

\* An instance that writes the attempt it works for.
LEMMA AttemptWritten ==
  ASSUME CloudTypeOK, CloudInv, UNCHANGED <<source, sent, target, crashes>>,
         NEW i \in Instances, instances[i] # None,
         run' = [run EXCEPT !.attempt = instances[i].attempt]
  PROVE  RunMoves /\ run'.attempt # 0
<1>1. instances[i].attempt \in Attempts /\ run.status # "pending"
  BY InstanceFacts DEF Fits
<1>2. run' \in RunRow /\ run'.attempt = instances[i].attempt /\ run'.status = run.status
      /\ run'.attempt # 0
  BY <1>1 DEF CloudTypeOK, RunRow, Attempts
<1>3. RunFits'
  BY <1>1, <1>2 DEF CloudInv, RunFits, SuccessIsSent
<1> QED BY <1>1, <1>2, <1>3 DEF RunMoves, CloudTypeOK

\* Whoever is at a label where it knows nothing has carried nothing out.
LEMMA NothingSent ==
  ASSUME CloudTypeOK, CloudInv, NEW i \in Instances, instances[i] # None,
         instances[i].at \notin {"persist", "finish"}
  PROVE  instances[i].outcome = "failed"
  BY InstanceFacts DEF Fits, Instance

LEMMA SetAttemptKeeps ==
  ASSUME CloudTypeOK, CloudInv, target' = target, NEW i \in Instances, SetAttempt(i)
  PROVE  CloudTypeOK' /\ CloudInv'
<1>1. instances[i] # None /\ instances[i].at = "attempt" /\ Goto(i, "init")
  BY DEF SetAttempt, At
<1>2. RunMoves
  BY <1>1, AttemptWritten DEF SetAttempt
<1> QED BY <1>1, <1>2, NothingSent, GotoKeeps

LEMMA RetryTimeoutKeeps ==
  ASSUME CloudTypeOK, CloudInv, target' = target, NEW i \in Instances, RetryTimeout(i)
  PROVE  CloudTypeOK' /\ CloudInv'
<1>1. instances[i] # None /\ instances[i].at = "retry.timeout"
      /\ (Goto(i, "retry.steps") \/ Goto(i, "undo"))
  BY DEF RetryTimeout, At
<1>2. RunMoves
  <2>1. run.status # "pending"
    BY <1>1, InstanceFacts DEF Fits
  <2>2. CASE run' = run
    BY <2>1, <2>2, RunStays DEF RetryTimeout, CloudTypeOK
  <2>3. CASE run' = [run EXCEPT !.overdue = FALSE]
    <3>1. run' \in RunRow /\ run'.status = run.status /\ run'.attempt = run.attempt
      BY <2>3 DEF CloudTypeOK, RunRow
    <3>2. RunFits'
      BY <3>1 DEF CloudInv, RunFits, SuccessIsSent, RetryTimeout
    <3> QED BY <2>1, <3>1, <3>2 DEF RunMoves, RetryTimeout, CloudTypeOK
  <2> QED BY <2>2, <2>3 DEF RetryTimeout
<1> QED BY <1>1, <1>2, NothingSent, GotoKeeps

LEMMA UndoKeeps ==
  ASSUME CloudTypeOK, CloudInv, target' = target, NEW i \in Instances, Undo(i)
  PROVE  CloudTypeOK' /\ CloudInv'
<1>1. instances[i] # None /\ End(i)
  BY DEF Undo, At
<1>2. run.status # "pending"
  BY <1>1, InstanceFacts DEF Fits
<1>3. CASE Transition("queued", "cancelled")
  <2>1. RunMoves
    BY <1>3, TransitionFacts DEF Undo, Ended
  <2> QED BY <1>1, <2>1, ThrowKeeps
<1>4. CASE run' = run
  <2>1. RunMoves
    BY <1>2, <1>4, RunStays DEF Undo, CloudTypeOK
  <2> QED BY <1>1, <2>1, ThrowKeeps
<1> QED BY <1>3, <1>4 DEF Undo

LEMMA InstanceDiesKeeps ==
  ASSUME CloudTypeOK, CloudInv, target' = target, NEW i \in Instances, InstanceDies(i)
  PROVE  CloudTypeOK' /\ CloudInv'
<1>1. instances[i] # None /\ End(i)
  BY DEF InstanceDies
<1>2. run.status # "pending"
  BY <1>1, InstanceFacts DEF Fits
<1>3. crashes' \in 0 .. MaxCrashes
  BY DEF CloudTypeOK, InstanceDies
<1>4. RunMoves
  BY <1>2, <1>3, RunStays DEF InstanceDies
<1> QED BY <1>1, <1>4, ThrowKeeps

LEMMA InitAttemptKeeps ==
  ASSUME CloudTypeOK, CloudInv, target' = target, NEW i \in Instances, InitAttempt(i)
  PROVE  CloudTypeOK' /\ CloudInv'
<1>1. instances[i] # None /\ instances[i].at = "init" /\ instances[i].outcome = "failed"
      /\ run.status # "pending" /\ instances[i] \in Instance /\ instances[i].attempt \in Attempts
  BY NothingSent, InstanceFacts DEF InitAttempt, At, Fits
<1>2. CASE run.status # "queued"
  <2>1. RunMoves
    BY <1>1, <1>2, RunStays DEF InitAttempt, CloudTypeOK
  <2> QED BY <1>1, <1>2, <2>1, ThrowKeeps DEF InitAttempt
<1>3. CASE run.status = "queued"
  <2> PICK x : x = [instances[i] EXCEPT !.at = "start"]
    OBVIOUS
  <2>1. RunMoves /\ run'.attempt # 0
    BY <1>1, <1>3, AttemptWritten DEF InitAttempt
  <2>2. x \in Instance /\ x.at = "start" /\ x.attempt = instances[i].attempt /\ x.outcome = "failed"
    BY <1>1 DEF Instance, Labels
  <2>3. Becomes(i, x)
    BY <1>3, InstanceFacts DEF InitAttempt
  <2>4. Fits(x, i)'
    BY <1>1, <2>1, <2>2 DEF Fits, Knows, RunMoves
  <2> QED BY <2>1, <2>2, <2>3, <2>4, QuietStepKeeps
<1> QED BY <1>2, <1>3

LEMMA StartKeeps ==
  ASSUME CloudTypeOK, CloudInv, target' = target, NEW i \in Instances, Start(i)
  PROVE  CloudTypeOK' /\ CloudInv'
<1>1. instances[i] # None /\ instances[i].at = "start" /\ instances[i].outcome = "failed"
      /\ run.status # "pending" /\ run.attempt # 0 /\ instances[i] \in Instance
  BY NothingSent, InstanceFacts DEF Start, At, Fits
<1>2. CASE run' = run /\ End(i)
  <2>1. RunMoves
    BY <1>1, <1>2, RunStays DEF Start, CloudTypeOK
  <2> QED BY <1>1, <1>2, <2>1, ThrowKeeps
<1>3. CASE Transition("queued", "running")
           /\ instances' = [instances EXCEPT ![i].at = "read", ![i].attempt = run.attempt]
  <2> PICK x : x = [instances[i] EXCEPT !.at = "read", !.attempt = run.attempt]
    OBVIOUS
  <2>1. RunMoves
    BY <1>1, <1>3, TransitionFacts DEF Start, Active
  <2>2. run.attempt \in Attempts /\ run.attempt \in 0 .. MaxAttempts
    BY <1>1 DEF CloudTypeOK, Attempts
  <2>3. x \in Instance /\ x.at = "read" /\ x.attempt = run.attempt /\ x.outcome = "failed"
    BY <1>1, <2>2 DEF Instance, Labels
  <2>4. Becomes(i, x)
    BY <1>3 DEF Becomes
  <2>5. Fits(x, i)'
    BY <2>1, <2>2, <2>3, PlainFits DEF RunMoves
  <2> QED BY <2>1, <2>3, <2>4, <2>5, QuietStepKeeps
<1> QED BY <1>2, <1>3 DEF Start

LEMMA ReadKeeps ==
  ASSUME CloudTypeOK, CloudInv, target' = target, NEW i \in Instances, Read(i)
  PROVE  CloudTypeOK' /\ CloudInv'
<1> DEFINE row == Mine(i)
<1>1. instances[i] # None /\ instances[i].outcome = "failed" /\ run.status # "pending"
      /\ instances[i] \in Instance /\ instances[i].attempt \in Attempts
      /\ row = source[instances[i].attempt] /\ row \in SourceRow
  BY NothingSent, InstanceFacts DEF Read, At, Fits
<1>2. RunMoves
  BY <1>1, RunStays DEF Read, CloudTypeOK
<1>3. source' = source /\ sent' = sent /\ run' = run
  BY DEF Read
<1>4. \/ row.status = "succeeded" /\ Goto(i, "send")
      \/ Throw(i) \/ End(i)
      \/ /\ ~ Leased(row)
         /\ instances' = [instances EXCEPT
              ![i].at = "claim", ![i].cursor = row.cursor, ![i].fresh = TRUE]
  BY DEF Read
<1>5. CASE Throw(i) \/ End(i)
  BY <1>1, <1>2, <1>5, ThrowKeeps
<1>6. CASE row.status = "succeeded" /\ Goto(i, "send")
  <2> PICK x : x = [instances[i] EXCEPT !.at = "send"]
    OBVIOUS
  <2>1. x \in Instance /\ x.at = "send" /\ x.attempt = instances[i].attempt /\ x.outcome = "failed"
    BY <1>1 DEF Instance, Labels
  <2>2. Becomes(i, x)
    BY <1>6, InstanceFacts
  <2>3. source[x.attempt].cursor = Batches
    BY <1>1, <1>6, <2>1 DEF CloudInv, RowsFit
  <2>4. Fits(x, i)'
    BY <1>1, <1>3, <2>1, <2>3 DEF Fits, Knows
  <2> QED BY <1>2, <2>1, <2>2, <2>4, QuietStepKeeps
<1>7. CASE /\ ~ Leased(row)
           /\ instances' = [instances EXCEPT
                ![i].at = "claim", ![i].cursor = row.cursor, ![i].fresh = TRUE]
  <2> PICK x : x = [instances[i] EXCEPT !.at = "claim", !.cursor = row.cursor, !.fresh = TRUE]
    OBVIOUS
  <2>1. row.cursor \in 0 .. Batches
    BY <1>1 DEF SourceRow
  <2>2. /\ x \in Instance /\ x.at = "claim" /\ x.attempt = instances[i].attempt
        /\ x.outcome = "failed" /\ x.cursor = row.cursor
    BY <1>1, <2>1 DEF Instance, Labels
  <2>3. Becomes(i, x)
    BY <1>7 DEF Becomes
  <2>4. ~ row.live
    BY <1>1, <1>7 DEF Leased, CloudInv, RowsFit
  <2>5. Fits(x, i)'
    BY <1>1, <1>3, <2>2, <2>4 DEF Fits, Knows
  <2> QED BY <1>2, <2>2, <2>3, <2>5, QuietStepKeeps
<1> QED BY <1>4, <1>5, <1>6, <1>7

LEMMA BatchKeeps ==
  ASSUME CloudTypeOK, CloudInv, target' = target, NEW i \in Instances, Batch(i)
  PROVE  CloudTypeOK' /\ CloudInv'
<1>1. instances[i] # None /\ instances[i].outcome = "failed" /\ run.status # "pending"
      /\ instances[i] \in Instance /\ instances[i].attempt \in Attempts
      /\ instances[i].at = "batch"
  BY NothingSent, InstanceFacts DEF Batch, At, Fits
<1>2. RunMoves
  BY <1>1, RunStays DEF Batch, CloudTypeOK
<1>3. CASE Throw(i)
  BY <1>1, <1>2, <1>3, ThrowKeeps
<1>4. CASE instances' = [instances EXCEPT
             ![i].at = "save", ![i].cursor = IF @ < Batches THEN @ + 1 ELSE @]
  <2> PICK c : c = IF instances[i].cursor < Batches
                   THEN instances[i].cursor + 1 ELSE instances[i].cursor
    OBVIOUS
  <2> PICK x : x = [instances[i] EXCEPT !.at = "save", !.cursor = c]
    OBVIOUS
  <2>1. c \in 0 .. Batches
    BY <1>1 DEF Instance
  <2>2. /\ x \in Instance /\ x.at = "save" /\ x.attempt = instances[i].attempt
        /\ x.outcome = "failed" /\ x.cursor \in {instances[i].cursor, instances[i].cursor + 1}
    BY <1>1, <2>1 DEF Instance, Labels
  <2>3. Becomes(i, x)
    BY <1>4 DEF Becomes
  <2>4. source[x.attempt].owner = i => instances[i].cursor = source[x.attempt].cursor
    BY <1>1, <2>2, InstanceFacts DEF Fits, Knows
  <2>5. Fits(x, i)'
    BY <1>1, <2>2, <2>4 DEF Fits, Knows, Batch
  <2> QED BY <1>2, <2>2, <2>3, <2>5, QuietStepKeeps
<1> QED BY <1>3, <1>4 DEF Batch

LEMMA FinishKeeps ==
  ASSUME CloudTypeOK, CloudInv, target' = target, NEW i \in Instances, Finish(i)
  PROVE  CloudTypeOK' /\ CloudInv'
<1>1. instances[i] # None /\ run.status # "pending"
      /\ instances[i] \in Instance /\ Fits(instances[i], i) /\ (Throw(i) \/ End(i))
  BY InstanceFacts DEF Finish, At, Fits
<1>2. CASE run' = run
  <2>1. RunMoves
    BY <1>1, <1>2, RunStays DEF Finish, CloudTypeOK
  <2> QED BY <1>1, <2>1, ThrowKeeps
<1>3. CASE Transition("running", instances[i].outcome)
  <2> PICK o : o = instances[i].outcome
    OBVIOUS
  <2>1. o \in {"succeeded", "failed"} /\ (o = "succeeded" => SuccessIsSent')
    BY <1>1 DEF Instance, Fits, SuccessIsSent, Finish
  <2>2. RunMoves
    BY <1>3, <2>1, TransitionFacts DEF Finish, Ended
  <2> QED BY <1>1, <2>2, ThrowKeeps
<1> QED BY <1>2, <1>3 DEF Finish

LEMMA CatchKeeps ==
  ASSUME CloudTypeOK, CloudInv, target' = target, NEW i \in Instances, Catch(i)
  PROVE  CloudTypeOK' /\ CloudInv'
<1>1. instances[i] # None /\ run.status # "pending" /\ End(i)
  BY InstanceFacts DEF Catch, At, Fits
<1>2. CASE run' = run
  <2>1. RunMoves
    BY <1>1, <1>2, RunStays DEF Catch, CloudTypeOK
  <2> QED BY <1>1, <2>1, ThrowKeeps
<1>3. CASE Transition("running", "failed")
  <2>1. RunMoves
    BY <1>3, TransitionFacts DEF Catch, Ended
  <2> QED BY <1>1, <2>1, ThrowKeeps
<1> QED BY <1>2, <1>3 DEF Catch

\* A step of i that changes the row of an attempt, and tells those who read it and are
\* about to claim it unless it leaves alone what they read.
LEMMA RowStepKeeps ==
  ASSUME CloudTypeOK, CloudInv, UNCHANGED <<run, sent, crashes, target>>,
         NEW i \in Instances, run.status # "pending",
         NEW a \in Attempts, NEW row \in SourceRow, source' = [source EXCEPT ![a] = row],
         row.live => row.owner # None,
         row.status # "none",
         row.status = "succeeded" \/ sent[a] > 0 => row.cursor = Batches,
         source[a].cursor = Batches => row.cursor = Batches,
         \A j \in Instances \ {i} :
           row.owner = j => source[a].owner = j /\ row.cursor = source[a].cursor,
         NEW x \in Instance \cup {None}, x # None => Fits(x, i)',
         \/ instances' = [Stale(a) EXCEPT ![i] = x]
         \/ Becomes(i, x) /\ row.cursor = source[a].cursor /\ ~ row.live
  PROVE  CloudTypeOK' /\ CloudInv'
<1>1. ASSUME NEW j \in Instances PROVE Stale(a)[j] \in Instance \cup {None}
  <2> PICK y : y = instances[j]
    OBVIOUS
  <2>1. y \in Instance \cup {None}
    BY DEF CloudTypeOK
  <2>2. Stale(a)[j] = y \/ (y # None /\ Stale(a)[j] = [y EXCEPT !.fresh = FALSE])
    BY DEF Stale
  <2>3. y # None => [y EXCEPT !.fresh = FALSE] \in Instance
    BY <2>1 DEF Instance
  <2> QED BY <2>1, <2>2, <2>3
<1>2. /\ Stale(a) = [j \in Instances |-> Stale(a)[j]]
      /\ \A j \in Instances : Stale(a)[j] # instances[j] =>
           /\ instances[j] # None /\ instances[j].at = "claim" /\ instances[j].attempt = a
           /\ Stale(a)[j] = [instances[j] EXCEPT !.fresh = FALSE]
      /\ \A j \in Instances :
           instances[j] # None /\ instances[j].at = "claim" /\ instances[j].attempt = a
             => Stale(a)[j] = [instances[j] EXCEPT !.fresh = FALSE]
  BY DEF Stale
<1>3. /\ instances' \in [Instances -> Instance \cup {None}]
      /\ instances'[i] = x
      /\ \A j \in Instances \ {i} : instances'[j] \in {instances[j], Stale(a)[j]}
      /\ \/ row.cursor = source[a].cursor /\ ~ row.live
         \/ \A j \in Instances \ {i} : instances'[j] = Stale(a)[j]
  <2> HIDE DEF Stale
  <2>1. instances \in [Instances -> Instance \cup {None}]
    BY DEF CloudTypeOK
  <2> QED BY <1>1, <1>2, <2>1 DEF Becomes
<1>4. /\ source' \in [Attempts -> SourceRow]
      /\ source'[a] = row
      /\ \A b \in Attempts \ {a} : source'[b] = source[b]
  BY DEF CloudTypeOK
<1>5. CloudTypeOK'
  BY <1>3, <1>4 DEF CloudTypeOK
<1>6. RunFits' /\ RowsFit'
  <2>1. RunFits'
    BY DEF CloudInv, RunFits, SuccessIsSent
  <2>2. RowsFit'
    BY <1>4 DEF CloudInv, RowsFit
  <2> QED BY <2>1, <2>2
<1>7. ASSUME NEW j \in Instances, j # i, instances'[j] # None
      PROVE  Fits(instances[j], j)'
  <2> PICK y : y = instances[j]
    OBVIOUS
  <2> PICK z : z = instances'[j]
    OBVIOUS
  <2>1. z \in {y, [y EXCEPT !.fresh = FALSE]} /\ y # None
    BY <1>2, <1>3, <1>7
  <2>2. y \in Instance /\ Fits(y, j)
    BY <2>1, InstanceFacts
  <2>3. /\ z.at = y.at /\ z.attempt = y.attempt /\ z.cursor = y.cursor /\ z.outcome = y.outcome
        /\ z.fresh => y.fresh
    BY <2>1, <2>2 DEF Instance
  <2>4. y.at = "claim" /\ y.attempt = a /\ z.fresh => row.cursor = source[a].cursor /\ ~ row.live
    BY <1>2, <1>3, <1>7, <2>1, <2>2 DEF Instance
  <2>5. Knows(z, j, source'[z.attempt])
    <3>1. CASE z.attempt # a
      BY <1>4, <2>2, <2>3, <3>1 DEF Fits, Knows
    <3>2. CASE z.attempt = a
      BY <1>4, <1>7, <2>2, <2>3, <2>4, <3>2 DEF Fits, Knows
    <3> QED BY <3>1, <3>2
  <2> QED BY <2>2, <2>3, <2>5 DEF Fits
<1>8. InstancesFit'
  BY <1>3, <1>7 DEF InstancesFit
<1> QED BY <1>5, <1>6, <1>8 DEF CloudInv

\* What a row keeps however it is changed, and what an instance knows of its own.
LEMMA MyRow ==
  ASSUME CloudTypeOK, CloudInv, NEW i \in Instances, instances[i] # None
  PROVE  LET a == instances[i].attempt
             row == source[a]
         IN /\ a \in Attempts /\ row \in SourceRow /\ Mine(i) = row
            /\ row.cursor \in 0 .. Batches
            /\ row.live => row.owner # None
            /\ row.status = "none" =>
                 row.cursor = 0 /\ row.owner = None /\ ~ row.live /\ sent[a] \in Nat /\ ~ sent[a] > 0
            /\ row.status = "succeeded" \/ sent[a] > 0 => row.cursor = Batches
            /\ Knows(instances[i], i, row)
            /\ instances[i] \in Instance
            /\ run.status # "pending"
<1> DEFINE a == instances[i].attempt
           row == source[a]
<1>1. /\ a \in Attempts /\ row \in SourceRow /\ Mine(i) = row
      /\ Knows(instances[i], i, row) /\ instances[i] \in Instance /\ run.status # "pending"
  BY InstanceFacts DEF Fits
<1>2. /\ row.live => row.owner # None
      /\ row.status = "none" => row.cursor = 0 /\ row.owner = None /\ ~ row.live
      /\ row.status = "succeeded" \/ sent[a] > 0 => row.cursor = Batches
  BY <1>1 DEF CloudInv, RowsFit
<1>3. row.cursor \in 0 .. Batches /\ sent[a] \in Nat
  BY <1>1 DEF SourceRow, CloudTypeOK
<1> QED BY <1>1, <1>2, <1>3

LEMMA RetryStepsKeeps ==
  ASSUME CloudTypeOK, CloudInv, target' = target, NEW i \in Instances, RetrySteps(i)
  PROVE  CloudTypeOK' /\ CloudInv'
<1>1. instances[i] # None /\ instances[i].outcome = "failed"
  BY NothingSent DEF RetrySteps, At
<1> PICK a : a = instances[i].attempt
  OBVIOUS
<1> PICK row : row = source[a]
  OBVIOUS
<1>2. /\ a \in Attempts /\ row \in SourceRow /\ instances[i] \in Instance /\ run.status # "pending"
      /\ row.status = "none" => row.cursor = 0 /\ row.owner = None /\ ~ row.live /\ ~ sent[a] > 0
  BY <1>1, MyRow
<1>3. CASE source' = source
  <2>1. RunMoves
    BY <1>2, <1>3, RunStays DEF RetrySteps, CloudTypeOK
  <2>2. Goto(i, "init") \/ Goto(i, "undo")
    BY DEF RetrySteps
  <2> QED BY <1>1, <2>1, <2>2, GotoKeeps
<1>4. CASE /\ row.status = "none"
           /\ source' = [source EXCEPT ![a] = NewSource("pending")]
           /\ Goto(i, "init")
  <2> PICK x : x = [instances[i] EXCEPT !.at = "init"]
    OBVIOUS
  <2> PICK new : new = NewSource("pending")
    OBVIOUS
  <2>1. x \in Instance /\ x.at = "init" /\ x.attempt = a /\ x.outcome = "failed"
    BY <1>1, <1>2 DEF Instance, Labels
  <2>2. Becomes(i, x)
    BY <1>4, InstanceFacts
  <2>3. Fits(x, i)'
    BY <1>2, <2>1, PlainFits DEF RetrySteps
  <2>4. /\ new \in SourceRow /\ ~ new.live /\ new.status = "pending" /\ new.owner = None
        /\ new.cursor = 0
    BY 0 \in 0 .. Batches DEF NewSource, SourceRow, StepStatuses
  <2>5. source' = [source EXCEPT ![a] = new]
    BY <1>4
  <2> QED BY <1>2, <1>4, <2>1, <2>2, <2>3, <2>4, <2>5, RowStepKeeps DEF RetrySteps
<1> QED BY <1>3, <1>4 DEF RetrySteps

LEMMA ClaimKeeps ==
  ASSUME CloudTypeOK, CloudInv, target' = target, NEW i \in Instances, Claim(i)
  PROVE  CloudTypeOK' /\ CloudInv'
<1>1. instances[i] # None /\ instances[i].outcome = "failed" /\ instances[i].at = "claim"
  BY NothingSent DEF Claim, At
<1> PICK a : a = instances[i].attempt
  OBVIOUS
<1> PICK row : row = source[a]
  OBVIOUS
<1>2. /\ a \in Attempts /\ row \in SourceRow /\ instances[i] \in Instance /\ run.status # "pending"
      /\ row.status = "succeeded" \/ sent[a] > 0 => row.cursor = Batches
      /\ Knows(instances[i], i, row) /\ Mine(i) = row
  BY <1>1, MyRow
<1>3. CASE ~ ClaimWins(i)
  <2>1. RunMoves
    BY <1>2, <1>3, RunStays DEF Claim, CloudTypeOK
  <2> QED BY <1>1, <1>3, <2>1, ThrowKeeps DEF Claim
<1>4. CASE ClaimWins(i)
  <2> PICK x : x = [instances[i] EXCEPT !.at = "batch", !.fresh = TRUE]
    OBVIOUS
  <2> PICK new : new = [row EXCEPT !.status = "running", !.owner = i, !.live = TRUE]
    OBVIOUS
  <2>1. /\ x \in Instance /\ x.at = "batch" /\ x.attempt = a /\ x.outcome = "failed"
        /\ x.cursor = instances[i].cursor
    BY <1>1, <1>2 DEF Instance, Labels
  <2>2. /\ new \in SourceRow /\ new.owner = i /\ new.status = "running" /\ new.cursor = row.cursor
    BY <1>2 DEF SourceRow, StepStatuses
  <2>3. source' = [source EXCEPT ![a] = new]
    BY <1>4 DEF Claim
  <2>4. instances' = [Stale(a) EXCEPT ![i] = x]
    <3>1. Stale(a)[i] = [instances[i] EXCEPT !.fresh = FALSE]
      BY <1>1 DEF Stale
    <3>2. instances' = [Stale(a) EXCEPT ![i].at = "batch", ![i].fresh = TRUE]
      BY <1>4 DEF Claim
    <3> HIDE DEF Stale
    <3>3. [Stale(a)[i] EXCEPT !.at = "batch", !.fresh = TRUE] = x
      BY <1>2, <3>1 DEF Instance
    <3> QED BY <3>2, <3>3
  <2>5. source'[a] = new
    BY <1>2, <2>3 DEF CloudTypeOK
  <2>6. x.cursor = new.cursor
    BY <1>1, <1>2, <1>4, <2>1, <2>2 DEF Knows, ClaimWins
  <2>7. run' = run /\ sent' = sent /\ crashes' = crashes
    BY DEF Claim
  <2>8. Fits(x, i)'
    BY <1>2, <2>1, <2>5, <2>6, <2>7 DEF Fits, Knows
  <2>9. /\ new.live => new.owner # None
        /\ new.status = "succeeded" \/ sent[a] > 0 => new.cursor = Batches
        /\ source[a].cursor = Batches => new.cursor = Batches
        /\ \A j \in Instances \ {i} :
             new.owner = j => source[a].owner = j /\ new.cursor = source[a].cursor
    BY <1>2, <2>2
  <2>10. new.status # "none"
    BY <2>2
  <2> QED BY <1>2, <2>1, <2>2, <2>3, <2>4, <2>7, <2>8, <2>9, <2>10, RowStepKeeps
<1> QED BY <1>3, <1>4

LEMMA SaveKeeps ==
  ASSUME CloudTypeOK, CloudInv, target' = target, NEW i \in Instances, Save(i)
  PROVE  CloudTypeOK' /\ CloudInv'
<1>1. instances[i] # None /\ instances[i].outcome = "failed" /\ instances[i].at = "save"
  BY NothingSent DEF Save, At
<1> PICK a : a = instances[i].attempt
  OBVIOUS
<1> PICK row : row = source[a]
  OBVIOUS
<1>2. /\ a \in Attempts /\ row \in SourceRow /\ instances[i] \in Instance /\ run.status # "pending"
      /\ row.status = "succeeded" \/ sent[a] > 0 => row.cursor = Batches
      /\ row.cursor \in 0 .. Batches
      /\ Knows(instances[i], i, row) /\ Mine(i) = row
  BY <1>1, MyRow
<1>3. CASE ~ MaySave(i)
  <2>1. RunMoves
    BY <1>2, <1>3, RunStays DEF Save, CloudTypeOK
  <2> QED BY <1>1, <1>3, <2>1, ThrowKeeps DEF Save
<1>4. CASE MaySave(i)
  <2> PICK old : old = instances[i]
    OBVIOUS
  <2> PICK y : y = [old EXCEPT !.at = "send", !.cursor = 0]
    OBVIOUS
  <2> PICK x : x = IF Complete(old.cursor) THEN y ELSE None
    OBVIOUS
  <2> PICK new : new = [status |-> "running", owner |-> None, live |-> FALSE, cursor |-> old.cursor]
    OBVIOUS
  <2>1. old \in Instance /\ old.cursor \in 0 .. Batches /\ old.attempt = a /\ old.outcome = "failed"
    BY <1>1, <1>2 DEF Instance
  <2>2. /\ x \in Instance \cup {None}
        /\ x # None => /\ x.at = "send" /\ x.attempt = a /\ x.outcome = "failed"
                       /\ old.cursor = Batches
    <3>1. y \in Instance /\ y.at = "send" /\ y.attempt = a /\ y.outcome = "failed"
      BY <2>1, 0 \in 0 .. Batches DEF Instance, Labels
    <3> QED BY <3>1 DEF Complete
  <2>3. /\ new \in SourceRow /\ new.owner = None /\ new.status = "running" /\ ~ new.live
        /\ new.cursor = old.cursor
    BY <2>1 DEF SourceRow, StepStatuses
  <2>4. old.cursor \in {row.cursor, row.cursor + 1}
    BY <1>1, <1>2, <1>4 DEF Knows, MaySave
  <2>5. row.cursor = Batches => new.cursor = Batches
    BY <1>2, <2>1, <2>3, <2>4
  <2>6. source' = [source EXCEPT ![a] = new]
    BY <1>4 DEF Save
  <2>7. instances' = [Stale(a) EXCEPT ![i] = x]
    <3>1. Stale(a)[i] = old /\ i \in DOMAIN Stale(a)
      BY <1>1 DEF Stale
    <3>2. instances' = [Stale(a) EXCEPT ![i] =
            IF Complete(@.cursor) THEN [@ EXCEPT !.at = "send", !.cursor = 0] ELSE None]
      BY <1>4 DEF Save
    <3> HIDE DEF Stale
    <3> QED BY <3>1, <3>2
  <2>8. source'[a] = new
    BY <1>2, <2>6 DEF CloudTypeOK
  <2>9. run' = run /\ sent' = sent /\ crashes' = crashes
    BY DEF Save
  <2>10. x # None => Fits(x, i)'
    BY <1>2, <2>2, <2>3, <2>8, <2>9 DEF Fits, Knows
  <2>11. new.status = "succeeded" \/ sent[a] > 0 => new.cursor = Batches
    BY <1>2, <2>3, <2>5
  <2>12. source[a].cursor = Batches => new.cursor = Batches
    BY <2>5
  <2>13. \A j \in Instances \ {i} :
           new.owner = j => source[a].owner = j /\ new.cursor = source[a].cursor
    BY <2>3
  <2>14. new.live => new.owner # None
    BY <2>3
  <2>15. new.status # "none"
    BY <2>3
  <2>16. a \in Attempts /\ run.status # "pending"
    BY <1>2
  <2>17. x \in Instance \cup {None} /\ new \in SourceRow
    BY <2>2, <2>3
  <2>18. \/ instances' = [Stale(a) EXCEPT ![i] = x]
         \/ Becomes(i, x) /\ new.cursor = source[a].cursor /\ ~ new.live
    BY <2>7
  <2>19. UNCHANGED <<run, sent, crashes, target>>
    BY <2>9
  <2> QED BY <2>6, <2>10, <2>11, <2>12, <2>13, <2>14, <2>15, <2>16, <2>17, <2>18, <2>19,
             RowStepKeeps, ZenonT(40)
<1> QED BY <1>3, <1>4

LEMMA PersistSourceKeeps ==
  ASSUME CloudTypeOK, CloudInv, target' = target, NEW i \in Instances, PersistSource(i)
  PROVE  CloudTypeOK' /\ CloudInv'
<1>1. instances[i] # None /\ instances[i].at = "persist"
  BY DEF PersistSource, At
<1> PICK a : a = instances[i].attempt
  OBVIOUS
<1> PICK row : row = source[a]
  OBVIOUS
<1>2. /\ a \in Attempts /\ row \in SourceRow /\ instances[i] \in Instance /\ run.status # "pending"
      /\ row.live => row.owner # None
      /\ row.cursor = Batches /\ Fits(instances[i], i)
  BY <1>1, MyRow, InstanceFacts DEF Knows
<1> PICK x : x = [instances[i] EXCEPT !.at = "finish"]
  OBVIOUS
<1> PICK new : new = [row EXCEPT !.status = "succeeded"]
  OBVIOUS
<1>3. /\ x \in Instance /\ x.at = "finish" /\ x.attempt = a
      /\ x.outcome = instances[i].outcome
  BY <1>2 DEF Instance, Labels
<1>4. /\ new \in SourceRow /\ new.owner = row.owner /\ new.status = "succeeded"
      /\ new.cursor = row.cursor /\ new.live = row.live
  BY <1>2 DEF SourceRow, StepStatuses
<1>5. source' = [source EXCEPT ![a] = new]
  BY <1>2 DEF PersistSource, CloudTypeOK
<1>6. instances' = [Stale(a) EXCEPT ![i] = x]
  <2>1. Stale(a)[i] = instances[i] /\ i \in DOMAIN Stale(a)
    BY <1>1 DEF Stale
  <2>2. instances' = [Stale(a) EXCEPT ![i].at = "finish"]
    BY DEF PersistSource
  <2> HIDE DEF Stale
  <2> QED BY <2>1, <2>2
<1>7. run' = run /\ sent' = sent /\ crashes' = crashes
  BY DEF PersistSource
<1>8. Fits(x, i)'
  BY <1>1, <1>2, <1>3, <1>7 DEF Fits, Knows
<1>9. new.status # "none"
  BY <1>4
<1> QED BY <1>2, <1>3, <1>4, <1>5, <1>6, <1>7, <1>8, <1>9, RowStepKeeps

LEMMA SendKeeps ==
  ASSUME CloudTypeOK, CloudInv, target' = target, NEW i \in Instances, Send(i)
  PROVE  CloudTypeOK' /\ CloudInv'
<1>1. instances[i] # None /\ instances[i].at = "send"
  BY DEF Send, At
<1> PICK a : a = instances[i].attempt
  OBVIOUS
<1>2. /\ a \in Attempts /\ instances[i] \in Instance /\ run.status # "pending"
      /\ source[a].cursor = Batches /\ sent[a] \in 0 .. 2
  BY <1>1, MyRow DEF Knows, CloudTypeOK
<1>3. PICK carried \in BOOLEAN, outcome \in {"succeeded", "failed"} :
        /\ outcome = "succeeded" => carried
        /\ sent' = [sent EXCEPT ![a] = IF carried /\ @ < 2 THEN @ + 1 ELSE @]
        /\ instances' = [instances EXCEPT ![i].at = "persist", ![i].outcome = outcome]
  BY DEF Send
<1> PICK x : x = [instances[i] EXCEPT !.at = "persist", !.outcome = outcome]
  OBVIOUS
<1>4. x \in Instance /\ x.at = "persist" /\ x.attempt = a /\ x.outcome = outcome
  BY <1>2, <1>3 DEF Instance, Labels
<1>5. Becomes(i, x) /\ UNCHANGED <<run, source, crashes>>
  <2>1. Becomes(i, x)
    BY <1>3 DEF Becomes
  <2> QED BY <2>1 DEF Send
<1>6. /\ sent' \in [Attempts -> 0 .. 2]
      /\ outcome = "succeeded" => sent'[a] > 0
      /\ \A b \in Attempts : sent[b] > 0 => sent'[b] > 0
      /\ \A b \in Attempts \ {a} : sent'[b] = sent[b]
  BY <1>2, <1>3 DEF CloudTypeOK
<1>7. CloudTypeOK'
  BY <1>4, <1>5, <1>6 DEF CloudTypeOK, Becomes
<1>8. RunFits'
  BY <1>5, <1>6 DEF CloudInv, RunFits, SuccessIsSent
<1>9. RowsFit'
  BY <1>2, <1>5, <1>6 DEF CloudInv, RowsFit
<1>10. Fits(x, i)'
  BY <1>2, <1>4, <1>5, <1>6 DEF Fits, Knows
<1>11. ASSUME NEW j \in Instances, instances'[j] # None PROVE Fits(instances[j], j)'
  <2>1. CASE j = i
    BY <1>5, <1>10, <2>1 DEF Becomes, CloudTypeOK
  <2>2. CASE j # i
    <3>1. instances'[j] = instances[j]
      BY <1>5, <2>2 DEF Becomes, CloudTypeOK
    <3>2. Fits(instances[j], j)
      BY <1>11, <3>1 DEF CloudInv, InstancesFit
    <3> QED BY <1>5, <1>6, <3>1, <3>2 DEF Fits
  <2> QED BY <2>1, <2>2
<1> QED BY <1>7, <1>8, <1>9, <1>11 DEF CloudInv, InstancesFit

LEMMA LeaseLapsesKeeps ==
  ASSUME CloudTypeOK, CloudInv, target' = target, NEW a \in Attempts, LeaseLapses(a)
  PROVE  CloudTypeOK' /\ CloudInv'
<1>1. UNCHANGED <<run, sent, instances, crashes>>
  BY DEF LeaseLapses
<1>2. \A b \in Attempts :
        /\ source[b] \in SourceRow /\ source'[b] \in SourceRow
        /\ source'[b].status = source[b].status /\ source'[b].cursor = source[b].cursor
        /\ source'[b].owner = source[b].owner /\ (source'[b].live => source[b].live)
  <2>1. source' = [source EXCEPT ![a].live = FALSE] /\ source \in [Attempts -> SourceRow]
    BY DEF LeaseLapses, CloudTypeOK
  <2> TAKE b \in Attempts
  <2>2. CASE b = a
    BY <2>1, <2>2 DEF SourceRow
  <2>3. CASE b # a
    BY <2>1, <2>3
  <2> QED BY <2>2, <2>3
<1>3. source' \in [Attempts -> SourceRow]
  BY <1>2 DEF LeaseLapses, CloudTypeOK
<1>4. CloudTypeOK' /\ RunFits' /\ RowsFit'
  BY <1>1, <1>2, <1>3 DEF CloudTypeOK, CloudInv, RunFits, RowsFit, SuccessIsSent
<1>5. InstancesFit'
  BY <1>1, <1>2 DEF CloudInv, InstancesFit, Fits, Knows
<1> QED BY <1>4, <1>5 DEF CloudInv

\* Users, the sweep and the clock change the status of the run.
LEMMA OthersKeep ==
  ASSUME CloudTypeOK, CloudInv, target' = target, Cancel \/ Sweep \/ Overdue
  PROVE  CloudTypeOK' /\ CloudInv'
<1>1. UNCHANGED <<source, sent, instances, crashes>> /\ run.status \in Active
  BY DEF Cancel, Sweep, Overdue
<1>2. RunMoves
  <2>1. CASE Cancel \/ Sweep
    <3> PICK from : from = run.status
      OBVIOUS
    <3>1. Transition(from, "cancelled") \/ Transition(from, "timed_out")
      BY <2>1 DEF Cancel, Sweep
    <3> QED BY <1>1, <3>1, TransitionFacts DEF Ended
  <2>2. CASE Overdue
    <3>1. run' \in RunRow /\ run'.status = run.status /\ run'.attempt = run.attempt
      BY <2>2 DEF Overdue, CloudTypeOK, RunRow
    <3>2. RunFits'
      BY <1>1, <3>1 DEF CloudInv, RunFits, SuccessIsSent
    <3>3. run.status # "pending"
      BY <1>1 DEF Active
    <3> QED BY <1>1, <3>1, <3>2, <3>3 DEF RunMoves, CloudTypeOK
  <2> QED BY <2>1, <2>2
<1>3. CloudTypeOK'
  BY <1>1, <1>2 DEF CloudTypeOK, RunMoves, RunRow
<1>4. RowsFit' /\ InstancesFit'
  BY <1>1, <1>2 DEF CloudInv, RowsFit, InstancesFit, Fits, RunMoves
<1> QED BY <1>2, <1>3, <1>4 DEF CloudInv, RunMoves

LEMMA CloudNextKeeps ==
  ASSUME CloudTypeOK, CloudInv, target' = target, CloudNext
  PROVE  CloudTypeOK' /\ CloudInv'
<1>1. ASSUME NEW i \in Instances,
             Launch(i) \/ Approve(i) \/ Retry(i) \/ Tick(i) \/ InstanceNext(i) \/ InstanceDies(i)
      PROVE  CloudTypeOK' /\ CloudInv'
  BY <1>1, LaunchKeeps, ApproveKeeps, RetryKeeps, TickKeeps, InstanceDiesKeeps, SetAttemptKeeps,
     RetryTimeoutKeeps, RetryStepsKeeps, UndoKeeps, InitAttemptKeeps, StartKeeps, ReadKeeps,
     ClaimKeeps, BatchKeeps, SaveKeeps, SendKeeps, PersistSourceKeeps, FinishKeeps, CatchKeeps
     DEF InstanceNext, EnterNext, ContinueNext
<1> QED BY <1>1, OthersKeep, LeaseLapsesKeeps DEF CloudNext

-----------------------------------------------------------------------------
(* Steps of a desktop run *)

\* A request under way has a typed record.
LEMMA RequestFacts ==
  ASSUME TypeOK, StepInv, target = "desktop", NEW q \in Requests, requests[q] # None
  PROVE  LET a == requests[q].attempt
         IN /\ requests[q] \in Request
            /\ a \in Attempts /\ requests[q].input \in Values
            /\ Asked(q) = remote[a] /\ remote[a] \in RemoteRow
            /\ StepFits(a, remote[a], done[a]) /\ done[a] \in 0 .. 2
            /\ RequestFits(requests[q])
            /\ ~ a > run.attempt
<1>1. requests[q] \in Request /\ requests[q].attempt \in Attempts /\ requests[q].input \in Values
  BY DEF TypeOK, Request
<1>2. RequestFits(requests[q])
  BY DEF StepInv, RequestsFit
<1>3. ~ requests[q].attempt > run.attempt
  BY <1>1 DEF StepInv, FutureIsOpen
<1> QED BY <1>1, <1>2, <1>3 DEF TypeOK, Asked, StepInv, StepsFit

\* A step of the run, of a request or of the Job leaves what is said of the cloud alone.
LEMMA CloudStays ==
  ASSUME TypeOK, CloudInv, target = "desktop", UNCHANGED <<source, sent, instances, target>>,
         crashes' \in 0 .. MaxCrashes, run' \in RunRow, run'.status # "pending",
         run'.attempt # 0
  PROVE  CloudTypeOK' /\ CloudInv'
<1>1. CloudTypeOK'
  BY DEF TypeOK, CloudTypeOK, RunRow
<1>2. RunFits' /\ RowsFit'
  BY DEF CloudInv, RunFits, RowsFit
<1>3. InstancesFit'
  BY DEF CloudInv, InstancesFit, Fits
<1> QED BY <1>1, <1>2, <1>3 DEF CloudInv

LEMMA RunIsKept ==
  ASSUME IInv, target = "desktop", UNCHANGED <<run, source, sent, instances, target>>,
         crashes' \in 0 .. MaxCrashes
  PROVE  CloudTypeOK' /\ CloudInv'
<1>1. run' \in RunRow /\ run'.status # "pending" /\ run'.attempt # 0
  BY DEF IInv, TypeOK, CloudTypeOK, RunRow, StepInv, FutureIsOpen
<1> QED BY <1>1, CloudStays DEF IInv

\* A step of a request that leaves the step alone, and does not begin to carry it out.
LEMMA QuietRequest ==
  ASSUME IInv, target = "desktop",
         UNCHANGED <<run, source, sent, instances, target, local, remote, done>>,
         crashes' \in 0 .. MaxCrashes,
         NEW q \in Requests, NEW x \in Request \cup {None}, requests' = [requests EXCEPT ![q] = x],
         x # None => RequestFits(x) /\ ~ x.attempt > run.attempt,
         x # None /\ x.at \in Carrying => Carries(q, x.attempt)
  PROVE  IInv'
<1>1. CloudTypeOK' /\ CloudInv'
  BY RunIsKept
<1>2. requests' \in [Requests -> Request \cup {None}]
  BY DEF IInv, TypeOK
<1>3. TypeOK'
  BY <1>1, <1>2 DEF IInv, TypeOK
<1>4. \A p \in Requests : requests'[p] = IF p = q THEN x ELSE requests[p]
  BY DEF IInv, TypeOK
<1>5. FutureIsOpen'
  BY <1>4 DEF IInv, StepInv, FutureIsOpen
<1>6. StepsFit' /\ SuccessHasStep'
  BY DEF IInv, StepInv, StepsFit, StepFits, SuccessHasStep
<1>7. RequestsFit'
  BY <1>4 DEF IInv, StepInv, RequestsFit, RequestFits
<1>8. ASSUME NEW p \in Requests, NEW a \in Attempts, Carries(p, a)' PROVE Carries(p, a)
  BY <1>4, <1>8 DEF Carries
<1>9. CarriedByOne'
  BY <1>8 DEF IInv, StepInv, CarriedByOne
<1> QED BY <1>1, <1>3, <1>5, <1>6, <1>7, <1>9 DEF IInv, StepInv

\* A step of the one request that may carry out the node of an attempt.
LEMMA OneRequest ==
  ASSUME IInv, target = "desktop",
         UNCHANGED <<run, source, sent, instances, target, local, crashes>>,
         NEW q \in Requests, NEW a \in Attempts, ~ a > run.attempt,
         \A p \in Requests : Carries(p, a) => p = q,
         NEW row \in RemoteRow, remote' = [remote EXCEPT ![a] = row],
         NEW n \in 0 .. 2, done' = [done EXCEPT ![a] = n],
         StepFits(a, row, n), remote[a].status # "succeeded",
         NEW x \in Request \cup {None}, requests' = [requests EXCEPT ![q] = x],
         x # None => RequestFits(x)' /\ x.attempt = a
  PROVE  IInv'
<1>1. CloudTypeOK' /\ CloudInv'
  BY RunIsKept DEF IInv, TypeOK, CloudTypeOK
<1>2. /\ requests' \in [Requests -> Request \cup {None}]
      /\ remote' \in [Attempts -> RemoteRow]
      /\ done' \in [Attempts -> 0 .. 2]
  BY DEF IInv, TypeOK
<1>3. TypeOK'
  BY <1>1, <1>2 DEF IInv, TypeOK
<1>4. /\ \A p \in Requests : requests'[p] = IF p = q THEN x ELSE requests[p]
      /\ \A b \in Attempts : remote'[b] = IF b = a THEN row ELSE remote[b]
      /\ \A b \in Attempts : done'[b] = IF b = a THEN n ELSE done[b]
  BY DEF IInv, TypeOK
<1>5. FutureIsOpen'
  BY <1>4 DEF IInv, StepInv, FutureIsOpen
<1>6. StepsFit'
  BY <1>4 DEF IInv, StepInv, StepsFit, StepFits
<1>7. SuccessHasStep'
  <2>1. run.attempt \in Attempts
    BY DEF IInv, TypeOK, CloudTypeOK, StepInv, FutureIsOpen, Attempts
  <2> QED BY <1>4, <2>1 DEF IInv, StepInv, SuccessHasStep
<1>8. ASSUME NEW p \in Requests, p # q, requests[p] # None PROVE RequestFits(requests[p])'
  <2> PICK y : y = requests[p]
    OBVIOUS
  <2>1. y \in Request /\ y.attempt \in Attempts /\ RequestFits(y)
    BY <1>8, RequestFacts DEF IInv
  <2>2. y.attempt = a => y.at \notin Carrying
    BY <1>8 DEF Carries
  <2>3. requests'[p] = y
    BY <1>4, <1>8
  <2>4. RequestFits(y)'
    <3>1. CASE y.attempt = a
      BY <2>1, <2>2, <3>1 DEF RequestFits, Carrying
    <3>2. CASE y.attempt # a
      BY <1>4, <2>1, <3>2 DEF RequestFits
    <3> QED BY <3>1, <3>2
  <2> QED BY <2>3, <2>4 DEF RequestFits
<1>9. RequestsFit'
  BY <1>4, <1>8 DEF RequestsFit, RequestFits
<1>10. ASSUME NEW p \in Requests, NEW b \in Attempts, Carries(p, b)'
       PROVE  (p = q /\ b = a) \/ (Carries(p, b) /\ b # a)
  BY <1>4, <1>10 DEF Carries
<1>11. CarriedByOne'
  BY <1>10 DEF IInv, StepInv, CarriedByOne
<1> QED BY <1>1, <1>3, <1>5, <1>6, <1>7, <1>9, <1>11 DEF IInv, StepInv

\* The end of a request, whatever it had done.
LEMMA EndRequestKeeps ==
  ASSUME IInv, target = "desktop",
         UNCHANGED <<run, source, sent, instances, target, local, remote, done>>,
         crashes' \in 0 .. MaxCrashes, NEW q \in Requests, EndRequest(q)
  PROVE  IInv'
  BY QuietRequest DEF EndRequest

\* It goes on with what it has read.
LEMMA GotoRequestKeeps ==
  ASSUME IInv, target = "desktop",
         UNCHANGED <<run, source, sent, instances, target, local, remote, done, crashes>>,
         NEW q \in Requests, requests[q] # None,
         NEW label \in {"predecessor", "claim", "abandon"}, GotoRequest(q, label),
         label = "claim" => Preceded(q),
         label = "abandon" => requests[q].at \in Carrying
  PROVE  IInv'
<1> PICK x : x = [requests[q] EXCEPT !.at = label]
  OBVIOUS
<1>1. requests[q] \in Request /\ RequestFits(requests[q]) /\ ~ requests[q].attempt > run.attempt
  BY RequestFacts DEF IInv
<1>2. x \in Request /\ x.at = label /\ x.attempt = requests[q].attempt /\ x.input = requests[q].input
  BY <1>1 DEF Request
<1>3. RequestFits(x)
  BY <1>1, <1>2 DEF RequestFits, Carrying, Preceded
<1>4. requests' = [requests EXCEPT ![q] = x]
  BY DEF GotoRequest
<1>5. x.at \in Carrying => Carries(q, x.attempt)
  BY <1>2 DEF Carries, Carrying
<1>6. ~ x.attempt > run.attempt /\ crashes' \in 0 .. MaxCrashes
  BY <1>1, <1>2 DEF IInv, TypeOK, CloudTypeOK
<1> QED BY <1>2, <1>3, <1>4, <1>5, <1>6, QuietRequest

LEMMA AskKeeps ==
  ASSUME IInv, target = "desktop", NEW q \in Requests, NEW v \in Values, Ask(q, v)
  PROVE  IInv'
<1> PICK x : x = [at |-> "step", input |-> v, attempt |-> run.attempt, output |-> None]
  OBVIOUS
<1>1. run.attempt \in Attempts
  BY DEF IInv, TypeOK, CloudTypeOK, StepInv, FutureIsOpen, Attempts
<1>2. x \in Request /\ x.at = "step" /\ x.attempt = run.attempt
  BY <1>1 DEF Request
<1>3. RequestFits(x) /\ x.at \notin Carrying
  BY <1>2 DEF RequestFits, Carrying
<1>4. requests' = [requests EXCEPT ![q] = x]
  BY DEF Ask
<1>5. UNCHANGED <<run, source, sent, instances, target, local, remote, done, crashes>>
  BY DEF Ask, cloudVars
<1>6. ~ x.attempt > run.attempt /\ crashes' \in 0 .. MaxCrashes
  BY <1>1, <1>2, <1>5 DEF IInv, TypeOK, CloudTypeOK, Attempts
<1> QED BY <1>2, <1>3, <1>4, <1>5, <1>6, QuietRequest

LEMMA ReadsKeep ==
  ASSUME IInv, target = "desktop", NEW q \in Requests,
         ReadStep(q) \/ ReadPredecessor(q) \/ Answered(q)
  PROVE  IInv'
<1>1. /\ requests[q] # None
      /\ UNCHANGED <<run, source, sent, instances, target, local, remote, done, crashes>>
      /\ crashes' \in 0 .. MaxCrashes
  BY DEF ReadStep, ReadPredecessor, Answered, AtRequest, cloudVars, IInv, TypeOK, CloudTypeOK
<1>2. CASE EndRequest(q)
  BY <1>1, <1>2, EndRequestKeeps
<1>3. CASE GotoRequest(q, "predecessor")
  BY <1>1, <1>3, GotoRequestKeeps
<1>4. CASE Preceded(q) /\ GotoRequest(q, "claim")
  BY <1>1, <1>4, GotoRequestKeeps
<1>5. CASE ReadStep(q) /\ Disposition(Asked(q), requests[q].input) = "duplicate"
           /\ Answer(q, Asked(q).output)
  <2> PICK old : old = requests[q]
    OBVIOUS
  <2> PICK row : row = Asked(q)
    OBVIOUS
  <2> PICK x : x = [old EXCEPT !.at = "answer", !.output = row.output]
    OBVIOUS
  <2>1. /\ old \in Request /\ row \in RemoteRow /\ row = remote[old.attempt]
        /\ StepFits(old.attempt, row, done[old.attempt]) /\ ~ old.attempt > run.attempt
        /\ old.input \in Values
    BY <1>1, RequestFacts DEF IInv
  <2>2. row.input = old.input /\ row.status = "succeeded"
    BY <1>5, <2>1 DEF Disposition
  <2>3. row.output = old.input /\ local[old.attempt] = old.input
    BY <2>1, <2>2 DEF StepFits
  <2>4. x \in Request /\ x.at = "answer" /\ x.attempt = old.attempt /\ x.input = old.input
        /\ x.output = old.input
    BY <2>1, <2>3 DEF Request
  <2>5. RequestFits(x) /\ x.at \notin Carrying
    BY <2>3, <2>4 DEF RequestFits, Carrying
  <2>6. requests' = [requests EXCEPT ![q] = x]
    BY <1>5 DEF Answer
  <2> QED BY <1>1, <2>1, <2>4, <2>5, <2>6, QuietRequest
<1> QED BY <1>2, <1>3, <1>4, <1>5 DEF ReadStep, ReadPredecessor, Answered

LEMMA RequestDiesKeeps ==
  ASSUME IInv, target = "desktop", NEW q \in Requests, RequestDies(q)
  PROVE  IInv'
<1>1. crashes' \in 0 .. MaxCrashes
  BY DEF RequestDies, IInv, TypeOK, CloudTypeOK
<1> QED BY <1>1, EndRequestKeeps DEF RequestDies

LEMMA ClaimStepKeeps ==
  ASSUME IInv, target = "desktop", NEW q \in Requests, ClaimStep(q)
  PROVE  IInv'
<1>1. /\ requests[q] # None /\ requests[q].at = "claim"
      /\ UNCHANGED <<run, source, sent, instances, target, local, done, crashes>>
      /\ crashes' \in 0 .. MaxCrashes
  BY DEF ClaimStep, AtRequest, cloudVars, IInv, TypeOK, CloudTypeOK
<1>2. CASE ~ Claimable(q)
  BY <1>1, <1>2, EndRequestKeeps DEF ClaimStep
<1>3. CASE Claimable(q)
  <2> PICK old : old = requests[q]
    OBVIOUS
  <2> PICK a : a = old.attempt
    OBVIOUS
  <2> PICK row : row = [remote[a] EXCEPT !.status = "running", !.input = old.input]
    OBVIOUS
  <2> PICK n : n = done[a]
    OBVIOUS
  <2> PICK x : x = [old EXCEPT !.at = "work"]
    OBVIOUS
  <2>1. /\ old \in Request /\ a \in Attempts /\ remote[a] \in RemoteRow /\ Asked(q) = remote[a]
        /\ StepFits(a, remote[a], n) /\ ~ a > run.attempt /\ old.input \in Values
        /\ n \in 0 .. 2
    BY <1>1, RequestFacts DEF IInv
  <2>2. /\ remote[a].status = "pending" /\ remote[a].input = None /\ local[a] = old.input
        /\ n = 0
    BY <1>3, <2>1 DEF Claimable, Preceded, StepFits
  <2>3. /\ row \in RemoteRow /\ row.status = "running" /\ row.input = old.input
        /\ x \in Request /\ x.at = "work" /\ x.attempt = a /\ x.input = old.input
    BY <2>1 DEF RemoteRow, StepStatuses, Request
  <2>4. \A p \in Requests : ~ Carries(p, a)
    BY <2>1, <2>2, RequestFacts DEF Carries, RequestFits, IInv
  <2>5. remote' = [remote EXCEPT ![a] = row]
    BY <1>3 DEF ClaimStep
  <2>6. done' = [done EXCEPT ![a] = n]
    BY <1>1 DEF IInv, TypeOK
  <2>7. requests' = [requests EXCEPT ![q] = x]
    BY <1>3 DEF ClaimStep, GotoRequest
  <2>8. remote'[a] = row /\ done'[a] = n /\ local'[a] = local[a]
    BY <1>1, <2>1, <2>5 DEF IInv, TypeOK
  <2>9. StepFits(a, row, n)
    BY <2>1, <2>2, <2>3 DEF StepFits
  <2>10. RequestFits(x)'
    BY <2>2, <2>3, <2>8 DEF RequestFits
  <2> QED BY <1>1, <2>1, <2>2, <2>3, <2>4, <2>5, <2>6, <2>7, <2>9, <2>10, OneRequest, ZenonT(40)
<1> QED BY <1>2, <1>3

\* Who carries out the node of an attempt does it alone, on a step it claimed.
LEMMA CarryingFacts ==
  ASSUME IInv, target = "desktop", NEW q \in Requests, requests[q] # None,
         requests[q].at \in Carrying
  PROVE  LET a == requests[q].attempt
         IN /\ \A p \in Requests : Carries(p, a) => p = q
            /\ remote[a].input = requests[q].input /\ local[a] = requests[q].input
            /\ requests[q].input # None
<1>1. requests[q].attempt \in Attempts /\ requests[q].input \in Values /\ RequestFits(requests[q])
  BY RequestFacts DEF IInv
<1>2. Carries(q, requests[q].attempt)
  BY DEF Carries
<1> QED BY <1>1, <1>2 DEF IInv, StepInv, CarriedByOne, RequestFits

LEMMA WorkKeeps ==
  ASSUME IInv, target = "desktop", NEW q \in Requests, Work(q)
  PROVE  IInv'
<1>1. /\ requests[q] # None /\ requests[q].at = "work" /\ requests[q].at \in Carrying
      /\ UNCHANGED <<run, source, sent, instances, target, local, remote, crashes>>
  BY DEF Work, AtRequest, cloudVars, Carrying
<1> PICK old : old = requests[q]
  OBVIOUS
<1> PICK a : a = old.attempt
  OBVIOUS
<1> PICK row : row = remote[a]
  OBVIOUS
<1>2. /\ old \in Request /\ a \in Attempts /\ row \in RemoteRow /\ StepFits(a, row, done[a])
      /\ ~ a > run.attempt /\ RequestFits(old) /\ done[a] \in 0 .. 2
  BY <1>1, RequestFacts DEF IInv
<1>3. /\ \A p \in Requests : Carries(p, a) => p = q
      /\ row.input = old.input /\ local[a] = old.input /\ old.input # None
  BY <1>1, CarryingFacts
<1>4. done[a] = 0 /\ row.status = "running"
  BY <1>1, <1>2 DEF RequestFits
<1>5. PICK carried \in BOOLEAN, label \in {"store", "abandon"} :
        /\ label = "store" => carried
        /\ done' = [done EXCEPT ![a] = IF carried /\ @ < 2 THEN @ + 1 ELSE @]
        /\ GotoRequest(q, label)
  BY DEF Work
<1> PICK n : n = IF carried THEN 1 ELSE 0
  OBVIOUS
<1> PICK x : x = [old EXCEPT !.at = label]
  OBVIOUS
<1>6. done' = [done EXCEPT ![a] = n] /\ n \in 0 .. 2 /\ n <= 1 /\ (label = "store" => n = 1)
  BY <1>2, <1>4, <1>5 DEF IInv, TypeOK
<1>7. x \in Request /\ x.at = label /\ x.attempt = a /\ x.input = old.input
  BY <1>2, <1>5 DEF Request
<1>8. requests' = [requests EXCEPT ![q] = x]
  BY <1>5 DEF GotoRequest
<1>9. remote' = [remote EXCEPT ![a] = row] /\ remote'[a] = row /\ done'[a] = n
  BY <1>1, <1>2, <1>6 DEF IInv, TypeOK
<1>10. StepFits(a, row, n)
  BY <1>2, <1>3, <1>4, <1>6 DEF StepFits
<1>11. RequestFits(x)'
  BY <1>1, <1>3, <1>4, <1>5, <1>6, <1>7, <1>9 DEF RequestFits
<1> QED BY <1>1, <1>2, <1>3, <1>4, <1>6, <1>7, <1>8, <1>9, <1>10, <1>11, OneRequest

LEMMA StoreKeeps ==
  ASSUME IInv, target = "desktop", NEW q \in Requests, Store(q)
  PROVE  IInv'
<1>1. /\ requests[q] # None /\ requests[q].at = "store" /\ requests[q].at \in Carrying
      /\ UNCHANGED <<run, source, sent, instances, target, local, done, crashes>>
  BY DEF Store, AtRequest, cloudVars, Carrying
<1>2. CASE ~ StillMine(q)
  BY <1>1, <1>2, GotoRequestKeeps DEF Store
<1>3. CASE StillMine(q)
  <2> PICK old : old = requests[q]
    OBVIOUS
  <2> PICK a : a = old.attempt
    OBVIOUS
  <2> PICK row : row = [remote[a] EXCEPT !.status = "succeeded", !.output = old.input]
    OBVIOUS
  <2> PICK n : n = done[a]
    OBVIOUS
  <2> PICK x : x = [old EXCEPT !.at = "answer", !.output = old.input]
    OBVIOUS
  <2>1. /\ old \in Request /\ a \in Attempts /\ remote[a] \in RemoteRow
        /\ ~ a > run.attempt /\ RequestFits(old) /\ n \in 0 .. 2 /\ old.input \in Values
    BY <1>1, RequestFacts DEF IInv
  <2>2. /\ \A p \in Requests : Carries(p, a) => p = q
        /\ remote[a].input = old.input /\ local[a] = old.input /\ old.input # None
    BY <1>1, CarryingFacts
  <2>3. n = 1 /\ remote[a].status = "running"
    BY <1>1, <2>1 DEF RequestFits
  <2>4. /\ row \in RemoteRow /\ row.status = "succeeded" /\ row.input = old.input
        /\ row.output = old.input
        /\ x \in Request /\ x.at = "answer" /\ x.attempt = a /\ x.input = old.input
        /\ x.output = old.input
    BY <2>1, <2>2 DEF RemoteRow, StepStatuses, Request
  <2>5. remote' = [remote EXCEPT ![a] = row]
    BY <1>3 DEF Store
  <2>6. done' = [done EXCEPT ![a] = n]
    BY <1>1 DEF IInv, TypeOK
  <2>7. requests' = [requests EXCEPT ![q] = x]
    BY <1>3 DEF Store, Answer
  <2>8. StepFits(a, row, n)
    BY <2>2, <2>3, <2>4 DEF StepFits
  <2>9. RequestFits(x)'
    BY <1>1, <2>2, <2>4 DEF RequestFits, Carrying
  <2>10. remote[a].status # "succeeded"
    BY <2>3
  <2> QED BY <1>1, <2>1, <2>2, <2>4, <2>5, <2>6, <2>7, <2>8, <2>9, <2>10, OneRequest, ZenonT(40)
<1> QED BY <1>2, <1>3

LEMMA AbandonKeeps ==
  ASSUME IInv, target = "desktop", NEW q \in Requests, Abandon(q)
  PROVE  IInv'
<1>1. /\ requests[q] # None /\ requests[q].at \in Carrying /\ EndRequest(q)
      /\ UNCHANGED <<run, source, sent, instances, target, local, done, crashes>>
      /\ crashes' \in 0 .. MaxCrashes
  BY DEF Abandon, AtRequest, cloudVars, Carrying, IInv, TypeOK, CloudTypeOK
<1>2. CASE remote' = remote
  BY <1>1, <1>2, EndRequestKeeps
<1>3. CASE StillMine(q) /\ remote' # remote
  <2> PICK a : a = requests[q].attempt
    OBVIOUS
  <2> PICK row : row = [remote[a] EXCEPT !.status = "failed"]
    OBVIOUS
  <2> PICK n : n = done[a]
    OBVIOUS
  <2>1. /\ a \in Attempts /\ remote[a] \in RemoteRow /\ Asked(q) = remote[a]
        /\ ~ a > run.attempt /\ n \in 0 .. 2 /\ StepFits(a, remote[a], n)
    BY <1>1, RequestFacts DEF IInv
  <2>2. /\ \A p \in Requests : Carries(p, a) => p = q
        /\ remote[a].input # None /\ remote[a].status = "running"
    BY <1>1, <1>3, <2>1, CarryingFacts DEF StillMine
  <2>3. row \in RemoteRow /\ row.status = "failed" /\ row.input = remote[a].input
    BY <2>1 DEF RemoteRow, StepStatuses
  <2>4. remote' = [remote EXCEPT ![a] = row]
    BY <1>3, <2>1 DEF Abandon
  <2>5. done' = [done EXCEPT ![a] = n]
    BY <1>1 DEF IInv, TypeOK
  <2>6. requests' = [requests EXCEPT ![q] = None]
    BY <1>1 DEF EndRequest
  <2>7. StepFits(a, row, n)
    BY <2>1, <2>2, <2>3 DEF StepFits
  <2>8. remote[a].status # "succeeded"
    BY <2>2
  <2> QED BY <1>1, <2>1, <2>2, <2>3, <2>4, <2>5, <2>6, <2>7, <2>8, OneRequest
<1>4. CASE ~ StillMine(q) /\ remote' # remote
  <2>1. remote' = [remote EXCEPT ![requests[q].attempt].status = remote[requests[q].attempt].status]
    BY <1>4 DEF Abandon
  <2>2. requests[q].attempt \in Attempts /\ remote[requests[q].attempt] \in RemoteRow
    BY <1>1, RequestFacts DEF IInv
  <2>3. remote' = remote
    BY <2>1, <2>2 DEF IInv, TypeOK, RemoteRow
  <2> QED BY <1>4, <2>3
<1> QED BY <1>2, <1>3, <1>4

\* What the run of the Job is.
LEMMA RunFacts ==
  ASSUME IInv, target = "desktop"
  PROVE  /\ run \in RunRow /\ run.attempt \in Attempts /\ run.status # "pending"
         /\ crashes \in 0 .. MaxCrashes
  BY DEF IInv, TypeOK, CloudTypeOK, StepInv, FutureIsOpen, RunRow, Attempts

\* A change of the run's status that leaves its attempt and the steps alone.
LEMMA StatusKeeps ==
  ASSUME IInv, target = "desktop", run' \in RunRow, run'.status # "pending",
         run'.attempt = run.attempt,
         UNCHANGED <<source, sent, instances, crashes, target, local, remote, done, requests>>,
         run'.status = "succeeded" => remote[run.attempt].status = "succeeded"
  PROVE  IInv'
<1>1. run.attempt \in Attempts /\ run.attempt # 0 /\ crashes' \in 0 .. MaxCrashes
  BY RunFacts DEF Attempts
<1>2. CloudTypeOK' /\ CloudInv'
  BY <1>1, CloudStays DEF IInv
<1>3. TypeOK'
  BY <1>2 DEF IInv, TypeOK
<1>4. FutureIsOpen' /\ SuccessHasStep'
  BY <1>1 DEF IInv, StepInv, FutureIsOpen, SuccessHasStep
<1>5. StepsFit' /\ RequestsFit' /\ CarriedByOne'
  BY DEF IInv, StepInv, StepsFit, StepFits, RequestsFit, RequestFits, CarriedByOne, Carries
<1> QED BY <1>2, <1>3, <1>4, <1>5 DEF IInv, StepInv

LEMMA ReportKeeps ==
  ASSUME IInv, target = "desktop", NEW v \in Values, Report(v)
  PROVE  IInv'
<1>1. /\ UNCHANGED <<source, sent, instances, crashes, target, remote, done, requests>>
      /\ run' = [run EXCEPT !.status = "running"]
      /\ local' = [local EXCEPT ![run.attempt] = IF @ = "pending" THEN v ELSE @]
  BY DEF Report
<1>2. run \in RunRow /\ run.attempt \in Attempts /\ run.attempt # 0 /\ crashes' \in 0 .. MaxCrashes
  BY <1>1, RunFacts DEF Attempts
<1>3. run' \in RunRow /\ run'.status = "running" /\ run'.attempt = run.attempt
  BY <1>1, <1>2 DEF RunRow, Active
<1>4. CloudTypeOK' /\ CloudInv'
  BY <1>1, <1>2, <1>3, CloudStays DEF IInv
<1>5. /\ local' \in [Attempts -> Values \cup {"none", "pending"}]
      /\ \A a \in Attempts : local'[a] # local[a] => a = run.attempt /\ local[a] = "pending"
  BY <1>1, <1>2 DEF IInv, TypeOK
<1>6. TypeOK'
  BY <1>1, <1>4, <1>5 DEF IInv, TypeOK
<1>7. FutureIsOpen' /\ SuccessHasStep'
  BY <1>1, <1>2, <1>3, <1>5 DEF IInv, StepInv, FutureIsOpen, SuccessHasStep, Attempts, RunRow
<1>8. StepsFit'
  <2>1. \A a \in Attempts : remote[a].input # None => remote[a].input # "pending"
    BY DEF IInv, TypeOK, RemoteRow
  <2> QED BY <1>1, <1>5, <2>1 DEF IInv, StepInv, StepsFit, StepFits
<1>9. RequestsFit' /\ CarriedByOne'
  <2>1. ASSUME NEW q \in Requests, requests[q] # None PROVE RequestFits(requests[q])'
    <3>1. /\ requests[q].attempt \in Attempts /\ requests[q].input # "pending"
          /\ RequestFits(requests[q])
      BY <2>1, RequestFacts DEF IInv
    <3> QED BY <1>1, <1>5, <3>1 DEF RequestFits
  <2> QED BY <1>1, <2>1 DEF IInv, StepInv, RequestsFit, CarriedByOne, Carries
<1> QED BY <1>4, <1>6, <1>7, <1>8, <1>9 DEF IInv, StepInv

LEMMA JobEndsKeeps ==
  ASSUME IInv, target = "desktop", NEW outcome \in {"succeeded", "failed"}, JobEnds(outcome)
  PROVE  IInv'
<1>1. /\ UNCHANGED <<source, sent, instances, crashes, target, local, remote, done, requests>>
      /\ outcome = "succeeded" => remote[run.attempt].status = "succeeded"
      /\ run' = [run EXCEPT !.status = outcome, !.attempt = run.attempt]
  BY DEF JobEnds, agentVars, Transition, Moved
<1>2. run' \in RunRow /\ run'.status = outcome /\ run'.attempt = run.attempt
  BY <1>1, RunFacts DEF RunRow, Ended
<1> QED BY <1>1, <1>2, StatusKeeps

LEMMA UsersKeep ==
  ASSUME IInv, target = "desktop", (Cancel \/ Sweep \/ Overdue) /\ UNCHANGED <<target, agentVars>>
  PROVE  IInv'
<1>1. /\ UNCHANGED <<source, sent, instances, crashes, target, local, remote, done, requests>>
      /\ run.status \in Active
  BY DEF Cancel, Sweep, Overdue, agentVars
<1>2. run' \in {[run EXCEPT !.status = "cancelled", !.attempt = run.attempt],
                [run EXCEPT !.status = "timed_out", !.attempt = run.attempt],
                [run EXCEPT !.overdue = TRUE]}
  BY DEF Cancel, Sweep, Overdue, Transition, Moved
<1>3. run' \in RunRow /\ run'.attempt = run.attempt
      /\ run'.status \in {"cancelled", "timed_out", run.status}
  BY <1>2, RunFacts DEF RunRow, Ended
<1> QED BY <1>1, <1>3, StatusKeeps DEF Active

LEMMA DesktopRetryKeeps ==
  ASSUME IInv, target = "desktop", DesktopRetry
  PROVE  IInv'
<1> PICK a : a = run.attempt + 1
  OBVIOUS
<1>1. /\ UNCHANGED <<source, sent, instances, crashes, target, done, requests>>
      /\ local' = [local EXCEPT ![a] = "pending"]
      /\ remote' = [remote EXCEPT ![a] = NewRemote("pending")]
      /\ run.attempt < MaxAttempts
  BY DEF DesktopRetry
<1>2. run \in RunRow /\ run.attempt \in Attempts /\ crashes' \in 0 .. MaxCrashes
  BY <1>1, RunFacts
<1>3. run' = [run EXCEPT !.status = "queued", !.attempt = run.attempt + 1, !.overdue = FALSE]
  BY <1>2 DEF DesktopRetry, Moved, RunRow
<1>4. /\ a \in Attempts /\ a > run.attempt /\ run' \in RunRow /\ run'.status = "queued"
      /\ run'.attempt = a /\ a # 0
  <2>1. run.attempt \in 1 .. MaxAttempts /\ run.overdue \in BOOLEAN
    BY <1>2 DEF RunRow, Attempts
  <2>2. a \in 1 .. MaxAttempts /\ a \in 0 .. MaxAttempts /\ a > run.attempt /\ a # 0
    BY <1>1, <2>1
  <2>3. run' = [status |-> "queued", attempt |-> a, overdue |-> FALSE]
    BY <1>2, <1>3 DEF RunRow
  <2> QED BY <2>1, <2>2, <2>3 DEF RunRow, Attempts, Active
<1>5. CloudTypeOK' /\ CloudInv'
  BY <1>1, <1>2, <1>4, CloudStays DEF IInv
<1>6. NewRemote("pending") \in RemoteRow
  BY DEF NewRemote, RemoteRow, StepStatuses
<1>7. /\ local' \in [Attempts -> Values \cup {"none", "pending"}]
      /\ remote' \in [Attempts -> RemoteRow]
      /\ \A b \in Attempts \ {a} : local'[b] = local[b] /\ remote'[b] = remote[b]
      /\ remote'[a] = NewRemote("pending")
  BY <1>1, <1>4, <1>6 DEF IInv, TypeOK
<1>8. TypeOK'
  BY <1>1, <1>5, <1>7 DEF IInv, TypeOK
<1>9. /\ done[a] = 0
      /\ \A q \in Requests : requests[q] # None => requests[q].attempt # a
  BY <1>4 DEF IInv, StepInv, FutureIsOpen
<1>10. FutureIsOpen' /\ SuccessHasStep'
  <2>1. \A b \in Attempts : b > a => b > run.attempt /\ b # a
    BY <1>2, <1>4 DEF Attempts
  <2> QED BY <1>1, <1>4, <1>7, <2>1 DEF IInv, StepInv, FutureIsOpen, SuccessHasStep
<1>11. StepsFit'
  BY <1>1, <1>7, <1>9 DEF IInv, StepInv, StepsFit, StepFits, NewRemote
<1>12. RequestsFit' /\ CarriedByOne'
  <2>1. ASSUME NEW q \in Requests, requests[q] # None PROVE RequestFits(requests[q])'
    <3>1. /\ requests[q].attempt \in Attempts \ {a} /\ RequestFits(requests[q])
      BY <1>9, <2>1, RequestFacts DEF IInv
    <3> QED BY <1>1, <1>7, <3>1 DEF RequestFits
  <2> QED BY <1>1, <2>1 DEF IInv, StepInv, RequestsFit, CarriedByOne, Carries
<1> QED BY <1>5, <1>8, <1>10, <1>11, <1>12 DEF IInv, StepInv

-----------------------------------------------------------------------------
(* The theorems *)

LEMMA NextIInv == IInv /\ [Next]_vars => IInv'
<1> SUFFICES ASSUME IInv, [Next]_vars PROVE IInv'
  OBVIOUS
<1>1. CASE target = "cloud" /\ CloudNext /\ UNCHANGED <<target, agentVars>>
  <2>1. CloudTypeOK' /\ CloudInv'
    BY <1>1, CloudNextKeeps DEF IInv, TypeOK
  <2>2. TypeOK'
    BY <1>1, <2>1 DEF IInv, TypeOK, agentVars
  <2>3. StepInv'
    BY <1>1 DEF IInv, StepInv, FutureIsOpen, StepsFit, StepFits, RequestsFit, RequestFits,
                CarriedByOne, Carries, SuccessHasStep, agentVars
  <2> QED BY <2>1, <2>2, <2>3 DEF IInv
<1>2. CASE target = "desktop" /\ DesktopNext
  <2>1. ASSUME NEW q \in Requests, RequestNext(q) \/ RequestDies(q) PROVE IInv'
    BY <1>2, <2>1, ReadsKeep, ClaimStepKeeps, WorkKeeps, StoreKeeps, AbandonKeeps,
       RequestDiesKeeps DEF RequestNext
  <2> QED BY <1>2, <2>1, ReportKeeps, AskKeeps, JobEndsKeeps, DesktopRetryKeeps, UsersKeep
             DEF DesktopNext
<1>3. CASE UNCHANGED vars
  BY <1>3 DEF vars, cloudVars, agentVars, IInv, TypeOK, CloudTypeOK, CloudInv, RunFits, RowsFit,
              InstancesFit, Fits, SuccessIsSent, StepInv, FutureIsOpen, StepsFit, StepFits,
              RequestsFit, RequestFits, CarriedByOne, Carries, SuccessHasStep
<1> QED BY <1>1, <1>2, <1>3 DEF Next

LEMMA AlwaysIInv == Spec => []IInv
  BY InitIInv, NextIInv, PTL DEF Spec

\* A run in the cloud sends after its whole source was read and says so, however often
\* instances race for its lease, die and come back, for any number of them, of batches and
\* of attempts.
THEOREM CloudIsSafe == Spec => []CloudSafe
<1>1. IInv => CloudSafe
  <2> SUFFICES ASSUME IInv PROVE CloudSafe
    OBVIOUS
  <2>1. SendsAfterSource
    BY DEF IInv, CloudInv, RowsFit, SendsAfterSource
  <2>2. CloudSuccessIsSent
    BY Zenon DEF IInv, CloudInv, RunFits, CloudSuccessIsSent, SuccessIsSent
  <2> QED BY <2>1, <2>2 DEF IInv, CloudSafe
<1> QED BY <1>1, AlwaysIInv, PTL

\* The cloud node of a desktop run is carried out once per attempt, on what the Agent's node
\* before it produced, whatever requests meet and die.
THEOREM StepIsSafe == Spec => []StepSafe
<1>1. IInv => StepSafe
  <2> SUFFICES ASSUME IInv PROVE StepSafe
    OBVIOUS
  <2>1. AgentStepOnce
    BY DEF IInv, StepInv, StepsFit, StepFits, AgentStepOnce
  <2>2. AnswersFollowInput
    BY DEF IInv, StepInv, RequestsFit, RequestFits, AnswersFollowInput, AtRequest
  <2>3. DesktopSuccessIsDone
    BY RunFacts DEF IInv, StepInv, SuccessHasStep, StepsFit, StepFits, DesktopSuccessIsDone
  <2> QED BY <2>1, <2>2, <2>3 DEF StepSafe
<1> QED BY <1>1, AlwaysIInv, PTL

\* What a step may do to a row.
RowKept(a) ==
  /\ source[a].live /\ source'[a].owner # source[a].owner => source'[a].owner = None
  /\ source'[a].cursor \in {source[a].cursor, source[a].cursor + 1}

LEMMA RowsKept ==
  ASSUME IInv, [Next]_vars, NEW a \in Attempts
  PROVE  RowKept(a)
<1>1. source \in [Attempts -> SourceRow] /\ source[a] \in SourceRow
  BY DEF IInv, TypeOK, CloudTypeOK
<1>2. CASE source'[a] = source[a]
  BY <1>1, <1>2 DEF RowKept
<1>3. CASE \E b \in Attempts : LeaseLapses(b)
  BY <1>1, <1>3 DEF LeaseLapses, RowKept, SourceRow
<1>4. ASSUME NEW i \in Instances, instances[i] # None, instances[i].attempt = a,
             RetrySteps(i) \/ Claim(i) \/ Save(i) \/ PersistSource(i)
      PROVE  RowKept(a)
  <2> PICK row : row = source[a]
    OBVIOUS
  <2>1. /\ row \in SourceRow /\ row.cursor \in 0 .. Batches
        /\ row.live => row.owner # None
        /\ row.status = "none" => row.cursor = 0 /\ row.owner = None /\ ~ row.live
        /\ Knows(instances[i], i, row) /\ Mine(i) = row
    BY <1>4, MyRow DEF IInv, TypeOK
  <2>2. CASE source'[a] = row
    BY <1>2, <2>2
  <2>3. CASE RetrySteps(i) /\ source'[a] # row
    <3>1. row.status = "none" /\ source'[a] = NewSource("pending")
      BY <1>1, <1>4, <2>3 DEF RetrySteps
    <3> QED BY <2>1, <3>1 DEF NewSource, RowKept
  <2>4. CASE Claim(i) /\ source'[a] # row
    <3>1. ClaimWins(i) /\ instances[i].at = "claim"
      BY <1>1, <1>4, <2>4 DEF Claim, At
    <3>2. source'[a] = [row EXCEPT !.status = "running", !.owner = i, !.live = TRUE]
      BY <1>1, <1>4, <2>4, <3>1 DEF Claim
    <3>3. ~ row.live
      BY <2>1, <3>1 DEF ClaimWins, Knows
    <3> QED BY <2>1, <3>2, <3>3 DEF SourceRow, RowKept
  <2>5. CASE Save(i) /\ source'[a] # row
    <3>1. MaySave(i) /\ instances[i].at = "save"
      BY <1>1, <1>4, <2>5 DEF Save, At
    <3>2. source'[a] = [status |-> "running", owner |-> None, live |-> FALSE,
                        cursor |-> instances[i].cursor]
      BY <1>1, <1>4, <2>5, <3>1 DEF Save
    <3>3. instances[i].cursor \in {row.cursor, row.cursor + 1}
      BY <2>1, <3>1 DEF MaySave, Knows
    <3> QED BY <3>2, <3>3 DEF RowKept
  <2>6. CASE PersistSource(i) /\ source'[a] # row
    <3>1. source'[a] = [row EXCEPT !.status = "succeeded"]
      BY <1>1, <1>4, <2>6 DEF PersistSource
    <3> QED BY <2>1, <3>1 DEF SourceRow, RowKept
  <2> QED BY <1>4, <2>2, <2>3, <2>4, <2>5, <2>6
<1>5. ASSUME NEW i \in Instances, source'[a] # source[a],
             Launch(i) \/ Approve(i) \/ Retry(i) \/ Tick(i) \/ InstanceNext(i) \/ InstanceDies(i)
      PROVE  RowKept(a)
  <2>1. RetrySteps(i) \/ Claim(i) \/ Save(i) \/ PersistSource(i)
    BY <1>5 DEF Launch, Approve, Retry, Tick, InstanceDies, InstanceNext, EnterNext, ContinueNext,
                SetAttempt, RetryTimeout, Undo, InitAttempt, Start, Read, Batch, Send, Finish, Catch
  <2>2. instances[i] # None
    BY <2>1 DEF RetrySteps, Claim, Save, PersistSource, At
  <2>3. instances[i].attempt = a
    <3>1. ASSUME NEW b, b # a PROVE \A x : [source EXCEPT ![b] = x][a] = source[a]
      BY <1>1, <3>1
    <3> QED BY <1>1, <1>5, <2>1 DEF RetrySteps, Claim, Save, PersistSource
  <2> QED BY <1>4, <2>1, <2>2, <2>3
<1>6. CASE source'[a] # source[a]
  <2>1. CASE CloudNext
    BY <1>3, <1>5, <1>6, <2>1 DEF CloudNext, Cancel, Sweep, Overdue
  <2>2. CASE DesktopNext
    <3>1. source' = source
      BY <2>2 DEF DesktopNext, Report, Ask, JobEnds, DesktopRetry, Cancel, Sweep, Overdue,
         RequestNext, ReadStep, ReadPredecessor, ClaimStep, Work, Store, Abandon, Answered,
         RequestDies, cloudVars
    <3> QED BY <1>6, <3>1
  <2>3. CASE UNCHANGED vars
    BY <1>6, <2>3 DEF vars, cloudVars
  <2> QED BY <2>1, <2>2, <2>3 DEF Next
<1> QED BY <1>2, <1>6

\* A live lease is never taken over, and a checkpoint moves on by one batch at a time and
\* never back, whoever writes it and whenever it read what it writes.
THEOREM CheckpointsAreKept == Spec => CheckpointsKept
<1>1. IInv /\ [Next]_vars =>
        [\A a \in Attempts :
           source[a].live /\ source'[a].owner # source[a].owner => source'[a].owner = None]_cloudVars
  BY RowsKept DEF RowKept
<1>2. IInv /\ [Next]_vars =>
        [\A a \in Attempts : source'[a].cursor \in {source[a].cursor, source[a].cursor + 1}]_cloudVars
  BY RowsKept DEF RowKept
<1> QED BY <1>1, <1>2, AlwaysIInv, PTL DEF Spec, CheckpointsKept, LeaseRespected, CursorMonotone

=============================================================================
