------------------------------ MODULE RunsProofs ------------------------------
(***************************************************************************)
(* Theorems about two components of MCRuns: RunOrchestrator, for all runs, *)
(* nodes, timeouts, bounds and numbers of attempts, and ProductionRuns, for*)
(* all workflows, numbers of handlers, attempts and crashes.               *)
(***************************************************************************)
EXTENDS ProductionRuns, RunOrchestrator, FiniteSetTheorems, TLAPS

-----------------------------------------------------------------------------
(* RunOrchestrator: the inductive invariant *)

\* Other handlers wait while one awaits the dispatcher.
OneAwaits ==
  \A c, d \in Slots : suspended[c] # NoValue /\ suspended[d] # NoValue => c = d

JobsOf(r) == {j \in JobIds : agentJobs[j].run = r}

\* The jobs leave a run's record no choice: its current job was minted for it, one that
\* can still be executed is its current job, each stands for an attempt, a run that was
\* never dispatched has none, one that was refused has none either, and what a report
\* of one of its jobs changed is known to it.
Fits(r, record) ==
  /\ record \in RunRecord
  /\ record.status = "succeeded" => \A n \in RunNodes : record.steps[n] = "succeeded"
  /\ record.approval \in {"rejected", "expired"} =>
       record.status = "cancelled" /\ JobsOf(r) = {}
  /\ record.status = "none" => record.seen = {}
  /\ record.job # 0 => agentJobs[record.job].run = r
  /\ record.status \in {"none", "awaiting_approval"} => JobsOf(r) = {}
  /\ record.attempts = Cardinality(JobsOf(r))
  /\ \A j \in JobsOf(r) :
       agentJobs[j].state \in {"asked", "live"} =>
         record.job = j /\ record.status \in {"queued", "running"}
  /\ \A x \in Report : applied[x] # 0 /\ x.job \in JobsOf(r) => x \in record.seen

RunsFit == \A r \in Runs : Fits(r, runs[r])

\* What a handler read before its await is what the store holds after it.
AwaitsFit ==
  \A c \in Slots :
    suspended[c] # NoValue =>
      /\ suspended[c].record = runs[suspended[c].run]
      /\ suspended[c].record.job # 0
      /\ suspended[c].kind = "enqueue" =>
           /\ suspended[c].record.status = "queued"
           /\ agentJobs[suspended[c].record.job].state = "asked"
      /\ suspended[c].kind # "enqueue" =>
           /\ suspended[c].record.status \in ActiveStatuses
           /\ agentJobs[suspended[c].record.job].state # "asked"
           /\ ~ suspended[c].asked => agentJobs[suspended[c].record.job].state # "live"
      /\ suspended[c].kind = "sweep" =>
           /\ suspended[c].run \notin suspended[c].todo
           /\ \A r \in suspended[c].todo : suspended[c].snapshot[r] = runs[r]

\* Job ids are minted in order, each for a run; a job the dispatcher was asked to file is
\* awaited; a terminal report ended its job; only reports of minted jobs changed a run.
JobsFit ==
  /\ \A j \in JobIds :
       /\ agentJobs[j].run # NoValue <=> j <= minted
       /\ agentJobs[j].state = "none" <=> minted < j
       /\ agentJobs[j].state = "asked" =>
            \E c \in Slots : /\ suspended[c] # NoValue
                             /\ suspended[c].kind = "enqueue"
                             /\ suspended[c].record.job = j
  /\ \A x \in reports :
       x.kind \notin {"running", "succeeded"} => agentJobs[x.job].state = "closed"
  /\ \A x \in Report : applied[x] <= 1 /\ (applied[x] # 0 => agentJobs[x.job].run # NoValue)

OrchestratorInv == RunTypeOK /\ OneAwaits /\ RunsFit /\ AwaitsFit /\ JobsFit

OrchestratorConstants == OrchestratorBounds /\ NoValueAssumption /\ ~ Overlap

-----------------------------------------------------------------------------
(* Jobs and records *)

LEMMA JobsCounted ==
  ASSUME OrchestratorConstants, NEW r
  PROVE  IsFiniteSet(JobsOf(r)) /\ Cardinality(JobsOf(r)) \in Nat
<1>1. IsFiniteSet(JobIds)
  BY FS_Interval DEF JobIds, OrchestratorConstants, OrchestratorBounds
<1>2. JobsOf(r) \in SUBSET JobIds
  BY DEF JobsOf
<1>3. IsFiniteSet(JobsOf(r))
  BY <1>1, <1>2, FS_Subset
<1> QED
  BY <1>3, FS_CardinalityType

LEMMA JobIdsAreNumbers ==
  ASSUME OrchestratorConstants
  PROVE  JobIds \subseteq Nat \ {0} /\ 0 \notin JobIds
BY DEF JobIds, OrchestratorConstants, OrchestratorBounds

\* Nothing is asked of the dispatcher while no handler awaits it.
LEMMA NoneAsked ==
  ASSUME OrchestratorInv, CanRun, OrchestratorConstants
  PROVE  /\ \A c \in Slots : suspended[c] = NoValue
         /\ \A j \in JobIds : agentJobs[j].state # "asked"
BY DEF OrchestratorInv, JobsFit, CanRun, OrchestratorConstants

LEMMA OrchestratorInitInv ==
  ASSUME OrchestratorConstants, OrchestratorInit
  PROVE  OrchestratorInv
<1>1. RunTypeOK
  <2>1. NoRun \in RunRecord
    BY DEF NoRun, RunRecord, RunStatuses, EveryStep, StepStatuses, OrchestratorConstants, OrchestratorBounds
  <2>2. [run |-> NoValue, state |-> "none"] \in Job
    BY DEF Job
  <2> QED
    BY <2>1, <2>2 DEF OrchestratorInit, RunTypeOK, OrchestratorConstants, OrchestratorBounds
<1>2. OneAwaits /\ AwaitsFit
  BY DEF OrchestratorInit, OneAwaits, AwaitsFit
<1>3. RunsFit
  <2> SUFFICES ASSUME NEW r \in Runs PROVE Fits(r, runs[r])
    BY DEF RunsFit
  <2>1. JobsOf(r) = {}
    BY DEF OrchestratorInit, JobsOf, OrchestratorConstants, NoValueAssumption
  <2>2. Cardinality(JobsOf(r)) = 0
    BY <2>1, FS_EmptySet
  <2>3. /\ NoRun.status = "none"
        /\ NoRun.approval = "none"
        /\ NoRun.job = 0
        /\ NoRun.attempts = 0
        /\ NoRun.seen = {}
    BY DEF NoRun
  <2>4. runs[r] = NoRun /\ NoRun \in RunRecord
    BY <1>1 DEF OrchestratorInit, RunTypeOK
  <2> QED
    BY <2>1, <2>2, <2>3, <2>4 DEF Fits
<1>4. JobsFit
  BY JobIdsAreNumbers DEF OrchestratorInit, JobsFit, JobIds, OrchestratorConstants, OrchestratorBounds
<1> QED
  BY <1>1, <1>2, <1>3, <1>4 DEF OrchestratorInv

-----------------------------------------------------------------------------
(* Steps that save a record *)

\* A run's record is saved while no handler awaits the dispatcher.
LEMMA SavedFits ==
  ASSUME OrchestratorInv, OrchestratorConstants, CanRun,
         NEW r \in Runs, NEW record, Fits(r, record), Save(r, record),
         UNCHANGED <<now, agentJobs, minted, suspended, reports, applied>>
  PROVE  OrchestratorInv'
<1> USE NoneAsked
<1>1. runs' \in [Runs -> RunRecord]
  BY DEF OrchestratorInv, RunTypeOK, Save, Fits
<1>2. RunTypeOK'
  BY <1>1 DEF OrchestratorInv, RunTypeOK
<1>3. OneAwaits' /\ AwaitsFit'
  BY DEF OneAwaits, AwaitsFit
<1>4. RunsFit'
  <2> SUFFICES ASSUME NEW q \in Runs PROVE Fits(q, runs[q])'
    BY DEF RunsFit
  <2>1. Fits(q, runs'[q])
    BY DEF OrchestratorInv, RunTypeOK, RunsFit, Save
  <2> QED
    BY <2>1 DEF Fits, JobsOf
<1>5. JobsFit'
  BY DEF OrchestratorInv, JobsFit
<1> QED
  BY <1>2, <1>3, <1>4, <1>5 DEF OrchestratorInv

\* What is counted as applied is known to the record of the run it is about.
AppliedTo(r, record) ==
  /\ applied' \in [Report -> Nat]
  /\ \A y \in Report :
       /\ applied'[y] <= 1
       /\ applied'[y] # 0 => applied[y] # 0 \/ (y \in record.seen /\ y.job \in JobsOf(r))

LEMMA ApplyFits ==
  ASSUME OrchestratorInv, OrchestratorConstants, NEW r \in Runs, NEW x \in Report, NEW record,
         Accepts(r, x), Apply(x), x \in record.seen
  PROVE  AppliedTo(r, record) /\ x.job \in JobsOf(r) /\ x.job \in JobIds
<1>1. x.job \in JobIds /\ x.job # 0
  BY JobIdsAreNumbers DEF Report
<1>2. x.job \in JobsOf(r)
  BY <1>1 DEF OrchestratorInv, RunsFit, Fits, Accepts, JobsOf
<1>3. applied[x] = 0
  BY <1>2 DEF OrchestratorInv, RunsFit, Fits, Accepts, Fresh
<1>4. applied \in [Report -> Nat] /\ \A y \in Report : applied[y] <= 1
  BY DEF OrchestratorInv, RunTypeOK, JobsFit
<1> QED
  BY <1>1, <1>2, <1>3, <1>4 DEF AppliedTo, Apply

\* The record of a report's run is saved with the report.
LEMMA AppliedFits ==
  ASSUME OrchestratorInv, OrchestratorConstants, CanRun,
         NEW r \in Runs, NEW record, Fits(r, record), Save(r, record), AppliedTo(r, record),
         UNCHANGED <<now, agentJobs, minted, suspended, reports>>
  PROVE  OrchestratorInv'
<1> USE NoneAsked
<1>1. runs' \in [Runs -> RunRecord]
  BY DEF OrchestratorInv, RunTypeOK, Save, Fits
<1>2. RunTypeOK'
  BY <1>1 DEF OrchestratorInv, RunTypeOK, AppliedTo
<1>3. OneAwaits' /\ AwaitsFit'
  BY DEF OneAwaits, AwaitsFit
<1>4. RunsFit'
  <2> SUFFICES ASSUME NEW q \in Runs PROVE Fits(q, runs[q])'
    BY DEF RunsFit
  <2>1. Fits(q, runs'[q]) /\ JobsOf(q)' = JobsOf(q)
    BY DEF OrchestratorInv, RunTypeOK, RunsFit, Save, JobsOf
  <2>2. ASSUME NEW y \in Report, applied'[y] # 0, y.job \in JobsOf(q)
        PROVE  y \in runs'[q].seen
    <3>1. CASE applied[y] # 0
      BY <2>1, <2>2, <3>1 DEF Fits
    <3>2. CASE y \in record.seen /\ y.job \in JobsOf(r)
      <4>1. q = r
        BY <2>2, <3>2 DEF JobsOf
      <4> QED
        BY <4>1, <3>2 DEF OrchestratorInv, RunTypeOK, Save
    <3> QED
      BY <2>2, <3>1, <3>2 DEF AppliedTo
  <2> QED
    BY <2>1, <2>2 DEF Fits
<1>5. JobsFit'
  BY DEF OrchestratorInv, JobsFit, AppliedTo, JobsOf, OrchestratorConstants, NoValueAssumption
<1> QED
  BY <1>2, <1>3, <1>4, <1>5 DEF OrchestratorInv

-----------------------------------------------------------------------------
(* Steps that dispatch a run *)

\* A record that may be dispatched again: attempts are left, no job of its run can still
\* be executed, and it forgets no report.
Ready(r, record) ==
  /\ record \in RunRecord
  /\ record.approval \notin {"rejected", "expired"}
  /\ record.attempts < RunAttempts
  /\ record.attempts = Cardinality(JobsOf(r))
  /\ \A j \in JobsOf(r) : agentJobs[j].state \notin {"asked", "live"}
  /\ runs[r].seen \subseteq record.seen

LEMMA DispatchedIsRecord ==
  ASSUME OrchestratorConstants, NEW record \in RunRecord, NEW j \in JobIds,
         record.attempts < RunAttempts
  PROVE  /\ Dispatched(record, j) \in RunRecord
         /\ Dispatched(record, j).attempts = record.attempts + 1
         /\ Dispatched(record, j).job = j
         /\ Dispatched(record, j).status = "queued"
         /\ Dispatched(record, j).approval = record.approval
         /\ Dispatched(record, j).seen = record.seen
<1>1. record.attempts + 1 \in 0 .. RunAttempts
  BY DEF RunRecord, OrchestratorConstants, OrchestratorBounds
<1>2. "queued" \in RunStatuses
  BY DEF RunStatuses, ActiveStatuses
<1> QED
  BY <1>1, <1>2 DEF Dispatched, RunRecord

LEMMA DispatchFits ==
  ASSUME OrchestratorInv, OrchestratorConstants, CanRun,
         NEW c \in Slots, NEW r \in Runs, NEW record, Ready(r, record),
         Dispatch(c, r, record),
         applied' = applied \/ AppliedTo(r, record),
         UNCHANGED <<now, reports>>
  PROVE  OrchestratorInv'
<1> DEFINE j == minted + 1
           queued == Dispatched(record, j)
           call == [kind |-> "enqueue", run |-> r, record |-> queued]
           job == [run |-> r, state |-> "asked"]
<1>1. /\ j \in JobIds
      /\ minted \in Nat
      /\ minted' = j
      /\ runs' = [runs EXCEPT ![r] = queued]
      /\ agentJobs' = [agentJobs EXCEPT ![j] = job]
      /\ suspended' = [suspended EXCEPT ![c] = call]
  BY DEF Dispatch, Save, JobIds, OrchestratorInv, RunTypeOK, OrchestratorConstants, OrchestratorBounds
<1>2. /\ queued \in RunRecord
      /\ queued.attempts = record.attempts + 1
      /\ queued.job = j
      /\ queued.status = "queued"
      /\ queued.approval = record.approval
      /\ queued.seen = record.seen
  BY <1>1, DispatchedIsRecord DEF Ready
<1> HIDE DEF queued
<1>3. /\ runs \in [Runs -> RunRecord]
      /\ agentJobs \in [JobIds -> Job]
      /\ \A d \in Slots : suspended[d] = NoValue
      /\ \A i \in JobIds : agentJobs[i].state # "asked"
  BY NoneAsked DEF OrchestratorInv, RunTypeOK
<1>4. call \in EnqueueCall /\ call.kind = "enqueue" /\ call.run = r /\ call.record = queued
  BY <1>2 DEF EnqueueCall
<1>5. job \in Job /\ job.run = r /\ job.state = "asked"
  BY DEF Job
<1> HIDE DEF call, job
<1>6. RunTypeOK'
  <2>1. runs' \in [Runs -> RunRecord] /\ agentJobs' \in [JobIds -> Job]
    BY <1>1, <1>2, <1>3, <1>5
  <2>2. suspended' \in [Slots -> EnqueueCall \cup CancelCall \cup SweepCall \cup {NoValue}]
    BY <1>1, <1>4 DEF OrchestratorInv, RunTypeOK
  <2>3. minted' \in 0 .. MaxJobs
    BY <1>1 DEF JobIds
  <2>4. applied' \in [Report -> Nat]
    BY DEF OrchestratorInv, RunTypeOK, AppliedTo
  <2> QED
    BY <2>1, <2>2, <2>3, <2>4 DEF OrchestratorInv, RunTypeOK
<1>7. OneAwaits'
  BY <1>1, <1>3 DEF OrchestratorInv, RunTypeOK, OneAwaits
<1>8. /\ j \notin JobsOf(r)
      /\ agentJobs[j].run = NoValue
      /\ agentJobs[j].state = "none"
  BY <1>1 DEF OrchestratorInv, JobsFit, JobsOf, OrchestratorConstants, NoValueAssumption
<1>9. /\ JobsOf(r)' = JobsOf(r) \cup {j}
      /\ \A q \in Runs \ {r} : JobsOf(q)' = JobsOf(q)
  BY <1>1, <1>3, <1>5, <1>8 DEF JobsOf, OrchestratorConstants, NoValueAssumption
<1>10. \A x \in Report : applied[x] # 0 => x.job # j
  BY <1>8 DEF OrchestratorInv, JobsFit
<1>11. \A i \in JobIds : i # j => agentJobs'[i] = agentJobs[i]
  BY <1>1, <1>3
<1>12. agentJobs'[j] = job /\ runs'[r] = queued /\ \A q \in Runs \ {r} : runs'[q] = runs[q]
  BY <1>1, <1>3
<1>13. RunsFit'
  <2>1. Fits(r, runs[r])'
    <3>1. queued.attempts = Cardinality(JobsOf(r)')
      <4>1. Cardinality(JobsOf(r) \cup {j}) = Cardinality(JobsOf(r)) + 1
        BY <1>8, FS_AddElement, JobsCounted
      <4>2. record.attempts = Cardinality(JobsOf(r))
        BY DEF Ready
      <4> QED
        BY <1>2, <1>9, <4>1, <4>2
    <3>2. \A i \in JobsOf(r)' :
            agentJobs'[i].state \in {"asked", "live"} => i = j
      BY <1>9, <1>11 DEF Ready, JobsOf
    <3>3. ASSUME NEW x \in Report, applied'[x] # 0, x.job \in JobsOf(r)'
          PROVE  x \in queued.seen
      <4>1. CASE x.job \in JobsOf(r)
        BY <1>2, <3>3, <4>1 DEF AppliedTo, OrchestratorInv, RunsFit, Fits, Ready
      <4>2. CASE x.job = j
        BY <1>2, <1>10, <3>3, <4>2 DEF AppliedTo
      <4> QED
        BY <3>3, <4>1, <4>2, <1>9
    <3>4. agentJobs'[queued.job].run = r
      BY <1>2, <1>5, <1>12
    <3> QED
      BY <1>2, <1>12, <3>1, <3>2, <3>3, <3>4 DEF Fits, Ready
  <2>2. ASSUME NEW q \in Runs \ {r}
        PROVE  Fits(q, runs[q])'
    <3>1. Fits(q, runs[q]) /\ runs'[q] = runs[q] /\ JobsOf(q)' = JobsOf(q) /\ j \notin JobsOf(q)
      BY <1>8, <1>9, <1>12 DEF OrchestratorInv, RunsFit, JobsOf, OrchestratorConstants, NoValueAssumption
    <3>2. \A i \in JobsOf(q) : agentJobs'[i] = agentJobs[i] /\ i \in JobIds
      BY <3>1, <1>11 DEF JobsOf
    <3>3. runs[q].job # 0 => agentJobs'[runs[q].job].run = q
      <4> SUFFICES ASSUME runs[q].job # 0 PROVE agentJobs'[runs[q].job].run = q
        OBVIOUS
      <4>1. runs[q].job \in JobIds
        BY <1>3 DEF RunRecord
      <4> QED
        BY <3>1, <3>2, <4>1 DEF Fits, JobsOf
    <3>4. \A x \in Report : applied'[x] # 0 /\ x.job \in JobsOf(q) => x \in runs[q].seen
      BY <3>1 DEF Fits, AppliedTo, JobsOf
    <3> QED
      BY <3>1, <3>2, <3>3, <3>4 DEF Fits
  <2> QED
    BY <2>1, <2>2 DEF RunsFit
<1>14. AwaitsFit'
  <2> SUFFICES ASSUME NEW d \in Slots, suspended'[d] # NoValue
               PROVE  /\ d = c
                      /\ suspended'[d] = call
    BY <1>2, <1>4, <1>5, <1>12, JobIdsAreNumbers, <1>1 DEF AwaitsFit
  <2> QED
    BY <1>1, <1>3 DEF OrchestratorInv, RunTypeOK
<1>15. JobsFit'
  <2>1. \A i \in JobIds : (agentJobs'[i].run # NoValue <=> i <= minted') /\ (agentJobs'[i].state = "none" <=> minted' < i)
    BY <1>1, <1>5, <1>8, <1>11, <1>12, JobIdsAreNumbers
       DEF OrchestratorInv, JobsFit, OrchestratorConstants, NoValueAssumption
  <2>2. ASSUME NEW i \in JobIds, agentJobs'[i].state = "asked"
        PROVE  \E d \in Slots : /\ suspended'[d] # NoValue
                                /\ suspended'[d].kind = "enqueue"
                                /\ suspended'[d].record.job = i
    <3>1. i = j
      BY <2>2, <1>3, <1>11
    <3>2. suspended'[c] = call
      BY <1>1 DEF OrchestratorInv, RunTypeOK
    <3> QED
      BY <3>1, <3>2, <1>2, <1>4 DEF OrchestratorConstants, NoValueAssumption
  <2>3. \A x \in reports' :
          x.kind \notin {"running", "succeeded"} => agentJobs'[x.job].state = "closed"
    BY <1>8, <1>11 DEF OrchestratorInv, RunTypeOK, JobsFit, Report
  <2>4. \A x \in Report : applied'[x] <= 1 /\ (applied'[x] # 0 => agentJobs'[x.job].run # NoValue)
    <3> SUFFICES ASSUME NEW x \in Report
                 PROVE  applied'[x] <= 1 /\ (applied'[x] # 0 => agentJobs'[x.job].run # NoValue)
      OBVIOUS
    <3>1. x.job \in JobIds
      BY DEF Report
    <3>2. applied'[x] <= 1 /\ (applied'[x] # 0 => agentJobs[x.job].run # NoValue)
      BY DEF OrchestratorInv, JobsFit, AppliedTo, JobsOf, OrchestratorConstants, NoValueAssumption
    <3> QED
      BY <3>1, <3>2, <1>8, <1>11
  <2> QED
    BY <2>1, <2>2, <2>3, <2>4 DEF JobsFit
<1> QED
  BY <1>6, <1>7, <1>13, <1>14, <1>15 DEF OrchestratorInv

-----------------------------------------------------------------------------
(* Records that end a run *)

LEMMA EndedRecords ==
  ASSUME NEW record \in RunRecord
  PROVE  /\ Cancelled(record) \in RunRecord
         /\ TimedOut(record) \in RunRecord
         /\ Expired(record) \in RunRecord
         /\ [record EXCEPT !.status = "failed"] \in RunRecord
         /\ [record EXCEPT !.approval = "rejected", !.status = "cancelled"] \in RunRecord
<1>1. {"failed", "timed_out", "cancelled"} \subseteq RunStatuses
  BY DEF RunStatuses, ActiveStatuses, FinalStatuses
<1>2. StepsClosed(record.steps) \in [RunNodes -> StepStatuses]
  BY DEF StepsClosed, RunRecord, StepStatuses
<1>3. Cancelled(record) \in RunRecord
  BY <1>1, <1>2 DEF Cancelled, RunRecord
<1>4. TimedOut(record) \in RunRecord
  BY <1>1, <1>2 DEF TimedOut, RunRecord
<1>5. Expired(record) \in RunRecord
  BY <1>1 DEF Expired, RunRecord
<1>6. [record EXCEPT !.status = "failed"] \in RunRecord
  BY <1>1 DEF RunRecord
<1>7. [record EXCEPT !.approval = "rejected", !.status = "cancelled"] \in RunRecord
  BY <1>1 DEF RunRecord
<1> QED
  BY <1>3, <1>4, <1>5, <1>6, <1>7

\* A run whose jobs can no longer be executed may end.
LEMMA EndFits ==
  ASSUME NEW r, NEW record, Fits(r, record), NEW ended \in RunRecord,
         ended.status \in {"failed", "timed_out", "cancelled"},
         ended.job = record.job, ended.attempts = record.attempts, record.seen \subseteq ended.seen,
         ended.approval \in {"rejected", "expired"} => ended.status = "cancelled" /\ JobsOf(r) = {},
         \A j \in JobsOf(r) : agentJobs[j].state \notin {"asked", "live"}
  PROVE  Fits(r, ended)
BY DEF Fits

\* A run that is not refused ends with the approval it has.
LEMMA StopFits ==
  ASSUME OrchestratorConstants,
         NEW r, NEW record, Fits(r, record), record.status \in ActiveStatuses,
         \A j \in JobsOf(r) : agentJobs[j].state \notin {"asked", "live"}
  PROVE  /\ Fits(r, Cancelled(record))
         /\ Fits(r, TimedOut(record))
         /\ Fits(r, [record EXCEPT !.status = "failed"])
<1>1. record.approval \notin {"rejected", "expired"} /\ record \in RunRecord
  BY DEF Fits, ActiveStatuses
<1>2. Fits(r, Cancelled(record))
  <2> DEFINE ended == Cancelled(record)
  <2>1. /\ ended \in RunRecord
        /\ ended.status = "cancelled"
        /\ ended.job = record.job
        /\ ended.attempts = record.attempts
        /\ ended.seen = record.seen
        /\ ended.approval = record.approval
    BY <1>1, EndedRecords DEF Cancelled, RunRecord
  <2> QED
    BY <1>1, <2>1, EndFits
<1>3. Fits(r, TimedOut(record))
  <2> DEFINE ended == TimedOut(record)
  <2>1. /\ ended \in RunRecord
        /\ ended.status = "timed_out"
        /\ ended.job = record.job
        /\ ended.attempts = record.attempts
        /\ ended.seen = record.seen
        /\ ended.approval = record.approval
    BY <1>1, EndedRecords DEF TimedOut, RunRecord
  <2> QED
    BY <1>1, <2>1, EndFits
<1>4. Fits(r, [record EXCEPT !.status = "failed"])
  <2> DEFINE ended == [record EXCEPT !.status = "failed"]
  <2>1. /\ ended \in RunRecord
        /\ ended.status = "failed"
        /\ ended.job = record.job
        /\ ended.attempts = record.attempts
        /\ ended.seen = record.seen
        /\ ended.approval = record.approval
    BY <1>1, EndedRecords DEF RunRecord
  <2> HIDE DEF ended
  <2>2. Fits(r, ended)
    BY <1>1, <2>1, EndFits
  <2> QED
    BY <2>2 DEF ended
<1> QED
  BY <1>2, <1>3, <1>4

\* A run that waits for its approval has no job and may be refused.
LEMMA RefuseFits ==
  ASSUME NEW r, NEW record, Fits(r, record), record.status = "awaiting_approval"
  PROVE  /\ Fits(r, Expired(record))
         /\ Fits(r, [record EXCEPT !.approval = "rejected", !.status = "cancelled"])
<1>1. record \in RunRecord /\ JobsOf(r) = {}
  BY DEF Fits
<1>2. Fits(r, Expired(record))
  <2> DEFINE ended == Expired(record)
  <2>1. /\ ended \in RunRecord
        /\ ended.status = "cancelled"
        /\ ended.job = record.job
        /\ ended.attempts = record.attempts
        /\ ended.seen = record.seen
    BY <1>1, EndedRecords DEF Expired, RunRecord
  <2> QED
    BY <1>1, <2>1, EndFits
<1>3. Fits(r, [record EXCEPT !.approval = "rejected", !.status = "cancelled"])
  <2> DEFINE ended == [record EXCEPT !.approval = "rejected", !.status = "cancelled"]
  <2>1. /\ ended \in RunRecord
        /\ ended.status = "cancelled"
        /\ ended.job = record.job
        /\ ended.attempts = record.attempts
        /\ ended.seen = record.seen
    BY <1>1, EndedRecords DEF RunRecord
  <2> HIDE DEF ended
  <2>2. Fits(r, ended)
    BY <1>1, <2>1, EndFits
  <2> QED
    BY <2>2 DEF ended
<1> QED
  BY <1>2, <1>3

\* No job of a run can be executed that has no current job, or one that cannot.
LEMMA NoOpenJob ==
  ASSUME OrchestratorConstants, NEW r, NEW record, Fits(r, record),
         \/ record.job = 0
         \/ agentJobs[record.job].state \notin {"asked", "live"}
         \/ record.status \notin {"queued", "running"}
  PROVE  \A j \in JobsOf(r) : agentJobs[j].state \notin {"asked", "live"}
BY JobIdsAreNumbers DEF Fits, JobsOf

-----------------------------------------------------------------------------
(* Steps of the dispatcher and of the job store *)

\* A job is filed, or it is over: no record that fitted the jobs stops fitting them.
LEMMA JobMoves ==
  ASSUME OrchestratorInv, OrchestratorConstants,
         NEW i \in JobIds, NEW s \in {"live", "closed"},
         agentJobs[i].state \in {"asked", "live"}, s = "live" => agentJobs[i].state = "asked",
         agentJobs' = [agentJobs EXCEPT ![i].state = s], applied' = applied
  PROVE  /\ agentJobs' \in [JobIds -> Job]
         /\ \A j \in JobIds : /\ agentJobs'[j].run = agentJobs[j].run
                              /\ agentJobs'[j].state = IF j = i THEN s ELSE agentJobs[j].state
         /\ \A r, record : Fits(r, record) => Fits(r, record)'
<1>1. agentJobs \in [JobIds -> Job]
  BY DEF OrchestratorInv, RunTypeOK
<1>2. [agentJobs[i] EXCEPT !.state = s] \in Job
  BY <1>1 DEF Job
<1>3. agentJobs' \in [JobIds -> Job]
  BY <1>1, <1>2
<1>4. \A j \in JobIds : /\ agentJobs'[j].run = agentJobs[j].run
                        /\ agentJobs'[j].state = IF j = i THEN s ELSE agentJobs[j].state
  BY <1>1 DEF Job
<1>5. ASSUME NEW r, NEW record, Fits(r, record)
      PROVE  Fits(r, record)'
  <2>1. JobsOf(r)' = JobsOf(r)
    BY <1>4 DEF JobsOf
  <2>2. record.job # 0 => record.job \in JobIds
    BY <1>5 DEF Fits, RunRecord
  <2>3. \A j \in JobsOf(r) : j \in JobIds
    BY DEF JobsOf
  <2> QED
    BY <1>4, <1>5, <2>1, <2>2, <2>3 DEF Fits
<1> QED
  BY <1>3, <1>4, <1>5

\* What the handlers keep, and what the reports keep, when a job moves.
LEMMA MovedJobsFit ==
  ASSUME OrchestratorInv, OrchestratorConstants, NEW i \in JobIds,
         agentJobs[i].state \in {"asked", "live"},
         \A j \in JobIds : agentJobs'[j].run = agentJobs[j].run /\ (j # i => agentJobs'[j].state = agentJobs[j].state),
         agentJobs'[i].state \in {"live", "closed"},
         \A x \in reports' :
           x \in reports
           \/ (x \in Report /\ (x.kind \notin {"running", "succeeded"} => x.job = i /\ agentJobs'[i].state = "closed")),
         \A j \in JobIds : j # i /\ agentJobs[j].state = "asked" =>
           \E c \in Slots : /\ suspended'[c] # NoValue
                            /\ suspended'[c].kind = "enqueue"
                            /\ suspended'[c].record.job = j,
         UNCHANGED <<minted, applied>>
  PROVE  JobsFit'
<1>1. reports \subseteq Report /\ minted \in Nat /\ \A x \in Report : x.job \in JobIds
  BY DEF OrchestratorInv, RunTypeOK, Report, OrchestratorConstants, OrchestratorBounds
<1>2. \A x \in reports' :
        x.kind \notin {"running", "succeeded"} => agentJobs'[x.job].state = "closed"
  <2>1. \A x \in reports : x.kind \notin {"running", "succeeded"} =>
          x.job # i /\ agentJobs[x.job].state = "closed"
    BY DEF OrchestratorInv, JobsFit
  <2> QED
    BY <1>1, <2>1
<1> QED
  BY <1>1, <1>2 DEF OrchestratorInv, JobsFit

LEMMA SuspendedTypes ==
  ASSUME OrchestratorInv, OrchestratorConstants, NEW c \in Slots, suspended[c] # NoValue
  PROVE  /\ suspended[c] \in EnqueueCall \cup CancelCall \cup SweepCall
         /\ suspended[c].kind \in {"enqueue", "cancel", "sweep"}
         /\ suspended[c].kind = "enqueue" => suspended[c] \in EnqueueCall
         /\ suspended[c].kind = "cancel" => suspended[c] \in CancelCall
         /\ suspended[c].kind = "sweep" => suspended[c] \in SweepCall
         /\ suspended[c].run \in Runs
         /\ suspended[c].record = runs[suspended[c].run]
         /\ suspended[c].record.job \in JobIds
         /\ Fits(suspended[c].run, suspended[c].record)
         /\ suspended[c].record.job \in JobsOf(suspended[c].run)
         /\ \A d \in Slots \ {c} : suspended[d] = NoValue
<1>1. suspended[c] \in EnqueueCall \cup CancelCall \cup SweepCall
  BY DEF OrchestratorInv, RunTypeOK
<1>2. /\ suspended[c].kind \in {"enqueue", "cancel", "sweep"}
      /\ suspended[c].kind = "enqueue" => suspended[c] \in EnqueueCall
      /\ suspended[c].kind = "cancel" => suspended[c] \in CancelCall
      /\ suspended[c].kind = "sweep" => suspended[c] \in SweepCall
      /\ suspended[c].run \in Runs
  BY <1>1 DEF EnqueueCall, CancelCall, SweepCall
<1>3. suspended[c].record = runs[suspended[c].run] /\ suspended[c].record.job # 0
  BY DEF OrchestratorInv, AwaitsFit
<1>4. Fits(suspended[c].run, suspended[c].record)
  BY <1>2, <1>3 DEF OrchestratorInv, RunsFit
<1>5. suspended[c].record.job \in JobIds
  BY <1>3, <1>4 DEF Fits, RunRecord
<1>6. suspended[c].record.job \in JobsOf(suspended[c].run)
  BY <1>3, <1>4, <1>5 DEF Fits, JobsOf
<1>7. \A d \in Slots \ {c} : suspended[d] = NoValue
  BY DEF OrchestratorInv, OneAwaits
<1> QED
  BY <1>1, <1>2, <1>3, <1>4, <1>5, <1>6, <1>7

\* A suspended handler returns: no handler awaits the dispatcher.
LEMMA Returns ==
  ASSUME OrchestratorInv, OrchestratorConstants, NEW c \in Slots, suspended[c] # NoValue,
         suspended' = [suspended EXCEPT ![c] = NoValue]
  PROVE  /\ suspended' \in [Slots -> EnqueueCall \cup CancelCall \cup SweepCall \cup {NoValue}]
         /\ \A d \in Slots : suspended'[d] = NoValue
         /\ OneAwaits'
         /\ AwaitsFit'
<1>1. \A d \in Slots : suspended'[d] = NoValue
  BY SuspendedTypes DEF OrchestratorInv, RunTypeOK
<1> QED
  BY <1>1 DEF OneAwaits, AwaitsFit, OrchestratorInv, RunTypeOK

LEMMA EnqueuedInv ==
  ASSUME OrchestratorInv, OrchestratorConstants, NEW c \in Slots, Enqueued(c)
  PROVE  OrchestratorInv'
<1> DEFINE i == suspended[c].record.job
<1>1. i \in JobIds /\ agentJobs[i].state = "asked"
  BY SuspendedTypes DEF Enqueued, OrchestratorInv, AwaitsFit
<1>2. /\ agentJobs' \in [JobIds -> Job]
      /\ \A j \in JobIds : /\ agentJobs'[j].run = agentJobs[j].run
                           /\ agentJobs'[j].state = IF j = i THEN "live" ELSE agentJobs[j].state
      /\ \A r, record : Fits(r, record) => Fits(r, record)'
  <2>1. agentJobs' = [agentJobs EXCEPT ![i].state = "live"] /\ applied' = applied
    BY DEF Enqueued
  <2> HIDE DEF i
  <2> QED
    BY <1>1, <2>1, JobMoves
<1>3. /\ suspended' \in [Slots -> EnqueueCall \cup CancelCall \cup SweepCall \cup {NoValue}]
      /\ OneAwaits'
      /\ AwaitsFit'
  BY Returns DEF Enqueued
<1>4. RunsFit'
  BY <1>2 DEF Enqueued, OrchestratorInv, RunsFit
<1>5. \A j \in JobIds : agentJobs[j].state = "asked" => j = i
  BY SuspendedTypes DEF Enqueued, OrchestratorInv, JobsFit
<1>6. JobsFit'
  <2> HIDE DEF i
  <2> QED
    BY <1>1, <1>2, <1>5, MovedJobsFit DEF Enqueued
<1> QED
  BY <1>2, <1>3, <1>4, <1>6 DEF OrchestratorInv, RunTypeOK, Enqueued

LEMMA EnqueueFailedInv ==
  ASSUME OrchestratorInv, OrchestratorConstants, NEW c \in Slots, EnqueueFailed(c)
  PROVE  OrchestratorInv'
<1>1. PICK q, record, i : q = suspended[c].run /\ record = suspended[c].record /\ i = record.job
  OBVIOUS
<1> DEFINE failed == [record EXCEPT !.status = "failed"]
<1>2. /\ i \in JobIds
      /\ i \in JobsOf(q)
      /\ agentJobs[i].state = "asked"
      /\ q \in Runs
      /\ record.status = "queued"
      /\ Fits(q, record)
  BY <1>1, SuspendedTypes DEF EnqueueFailed, OrchestratorInv, AwaitsFit
<1>3. /\ agentJobs' \in [JobIds -> Job]
      /\ \A j \in JobIds : /\ agentJobs'[j].run = agentJobs[j].run
                           /\ agentJobs'[j].state = IF j = i THEN "closed" ELSE agentJobs[j].state
      /\ \A r, old : Fits(r, old) => Fits(r, old)'
  <2>1. agentJobs' = [agentJobs EXCEPT ![i].state = "closed"] /\ applied' = applied
    BY <1>1 DEF EnqueueFailed
  <2> QED
    BY <1>2, <2>1, JobMoves
<1>4. /\ suspended' \in [Slots -> EnqueueCall \cup CancelCall \cup SweepCall \cup {NoValue}]
      /\ OneAwaits'
      /\ AwaitsFit'
  BY Returns DEF EnqueueFailed
<1>5. failed \in RunRecord
  BY <1>2, EndedRecords DEF Fits
<1>6. Fits(q, failed)'
  <2>1. Fits(q, record)' /\ JobsOf(q)' = JobsOf(q)
    BY <1>2, <1>3 DEF JobsOf
  <2>2. /\ failed.status = "failed"
        /\ failed.job = record.job
        /\ failed.attempts = record.attempts
        /\ failed.seen = record.seen
        /\ failed.approval = record.approval
    BY <1>2 DEF Fits, RunRecord
  <2>3. failed.approval \notin {"rejected", "expired"}
    BY <1>2, <2>2 DEF Fits
  <2>4. \A j \in JobsOf(q) : agentJobs'[j].state \notin {"asked", "live"}
    BY <1>1, <1>2, <1>3 DEF Fits, JobsOf
  <2> HIDE DEF failed
  <2> QED
    BY <1>5, <2>1, <2>2, <2>3, <2>4 DEF Fits
<1>7. runs' = [runs EXCEPT ![q] = failed]
  BY <1>1 DEF EnqueueFailed, Save
<1> HIDE DEF failed
<1>8. runs' \in [Runs -> RunRecord]
  BY <1>5, <1>7 DEF OrchestratorInv, RunTypeOK
<1>9. RunsFit'
  <2> SUFFICES ASSUME NEW r \in Runs PROVE Fits(r, runs[r])'
    BY DEF RunsFit
  <2>1. CASE r = q
    BY <1>2, <1>6, <1>7, <2>1 DEF OrchestratorInv, RunTypeOK, Fits, JobsOf
  <2>2. CASE r # q
    <3>1. runs'[r] = runs[r] /\ Fits(r, runs[r])
      BY <1>7, <2>2 DEF OrchestratorInv, RunTypeOK, RunsFit
    <3>2. PICK old : old = runs[r]
      OBVIOUS
    <3>3. Fits(r, old)'
      BY <1>3, <3>1, <3>2
    <3> QED
      BY <3>1, <3>2, <3>3 DEF Fits, JobsOf
  <2> QED
    BY <2>1, <2>2
<1>10. \A j \in JobIds : agentJobs[j].state = "asked" => j = i
  BY <1>1, SuspendedTypes DEF EnqueueFailed, OrchestratorInv, JobsFit
<1>11. JobsFit'
  BY <1>2, <1>3, <1>10, MovedJobsFit DEF EnqueueFailed
<1> QED
  BY <1>3, <1>4, <1>8, <1>9, <1>11 DEF OrchestratorInv, RunTypeOK, EnqueueFailed

\* The call of a suspended cancel or sweep, once the dispatcher has answered.
LEMMA Answered ==
  ASSUME OrchestratorInv, OrchestratorConstants, NEW c \in Slots, DispatcherCancels(c)
  PROVE  /\ suspended' \in [Slots -> EnqueueCall \cup CancelCall \cup SweepCall \cup {NoValue}]
         /\ \A d \in Slots \ {c} : suspended'[d] = NoValue
         /\ suspended'[c].kind = suspended[c].kind
         /\ suspended'[c].run = suspended[c].run
         /\ suspended'[c].record = suspended[c].record
         /\ suspended[c].kind = "sweep" =>
              /\ suspended'[c].todo = suspended[c].todo
              /\ suspended'[c].snapshot = suspended[c].snapshot
<1>1. suspended' = [suspended EXCEPT ![c] = [suspended[c] EXCEPT !.asked = FALSE]]
  BY DEF DispatcherCancels
<1>2. suspended \in [Slots -> EnqueueCall \cup CancelCall \cup SweepCall \cup {NoValue}]
  BY DEF OrchestratorInv, RunTypeOK
<1>3. suspended'[c] = [suspended[c] EXCEPT !.asked = FALSE] /\ \A d \in Slots \ {c} : suspended'[d] = NoValue
  BY <1>1, <1>2, SuspendedTypes DEF DispatcherCancels
<1>4. suspended[c] \in CancelCall \/ suspended[c] \in SweepCall
  BY SuspendedTypes DEF DispatcherCancels
<1>5. CASE suspended[c] \in CancelCall
  <2>1. suspended'[c] \in CancelCall /\ suspended[c].kind = "cancel"
    BY <1>3, <1>5 DEF CancelCall
  <2>2. /\ suspended'[c].kind = suspended[c].kind
        /\ suspended'[c].run = suspended[c].run
        /\ suspended'[c].record = suspended[c].record
    BY <1>3, <1>5 DEF CancelCall
  <2> QED
    BY <1>1, <1>2, <1>3, <2>1, <2>2
<1>6. CASE suspended[c] \in SweepCall
  <2>1. suspended'[c] \in SweepCall
    BY <1>3, <1>6 DEF SweepCall
  <2>2. /\ suspended'[c].kind = suspended[c].kind
        /\ suspended'[c].run = suspended[c].run
        /\ suspended'[c].record = suspended[c].record
        /\ suspended'[c].todo = suspended[c].todo
        /\ suspended'[c].snapshot = suspended[c].snapshot
    BY <1>3, <1>6 DEF SweepCall
  <2> QED
    BY <1>1, <1>2, <1>3, <2>1, <2>2
<1> QED
  BY <1>4, <1>5, <1>6

LEMMA DispatcherCancelsInv ==
  ASSUME OrchestratorInv, OrchestratorConstants, NEW c \in Slots, DispatcherCancels(c)
  PROVE  OrchestratorInv'
<1>1. PICK i : i = suspended[c].record.job
  OBVIOUS
<1>2. /\ i \in JobIds
      /\ agentJobs[i].state # "asked"
      /\ suspended[c].kind # "enqueue"
      /\ \A j \in JobIds : agentJobs[j].state # "asked"
  BY <1>1, SuspendedTypes DEF DispatcherCancels, OrchestratorInv, AwaitsFit, JobsFit
<1>3. /\ agentJobs' \in [JobIds -> Job]
      /\ \A j \in JobIds : agentJobs'[j].run = agentJobs[j].run /\ (j # i => agentJobs'[j].state = agentJobs[j].state)
      /\ agentJobs'[i].state \notin {"live", "asked"}
      /\ \A r, record : Fits(r, record) => Fits(r, record)'
      /\ JobsFit'
  <2>1. CASE agentJobs[i].state = "live"
    <3>1. agentJobs' = [agentJobs EXCEPT ![i].state = "closed"] /\ applied' = applied
      BY <1>1, <2>1 DEF DispatcherCancels
    <3>2. /\ agentJobs' \in [JobIds -> Job]
          /\ \A j \in JobIds : /\ agentJobs'[j].run = agentJobs[j].run
                               /\ agentJobs'[j].state = IF j = i THEN "closed" ELSE agentJobs[j].state
          /\ \A r, record : Fits(r, record) => Fits(r, record)'
      BY <1>2, <2>1, <3>1, JobMoves
    <3>3. JobsFit'
      BY <1>2, <2>1, <3>2, MovedJobsFit DEF DispatcherCancels
    <3> QED
      BY <1>2, <3>2, <3>3
  <2>2. CASE agentJobs[i].state # "live"
    <3>1. agentJobs' = agentJobs /\ applied' = applied /\ minted' = minted /\ reports' = reports
      BY <1>1, <2>2 DEF DispatcherCancels
    <3>2. JobsFit'
      BY <1>2, <3>1 DEF OrchestratorInv, JobsFit
    <3>3. \A r, record : Fits(r, record) => Fits(r, record)'
      BY <3>1 DEF Fits, JobsOf
    <3> QED
      BY <1>2, <2>2, <3>1, <3>2, <3>3 DEF OrchestratorInv, RunTypeOK
  <2> QED
    BY <2>1, <2>2
<1>4. RunsFit'
  BY <1>3 DEF DispatcherCancels, OrchestratorInv, RunsFit
<1>5. OneAwaits'
  BY Answered DEF OneAwaits
<1>6. AwaitsFit'
  <2>1. \A d \in Slots : suspended'[d] # NoValue => d = c
    BY Answered
  <2>2. runs' = runs /\ suspended[c] # NoValue
    BY DEF DispatcherCancels
  <2>3. /\ suspended[c].record = runs[suspended[c].run]
        /\ suspended[c].record.job = i /\ i # 0
        /\ suspended[c].kind # "enqueue" /\ suspended[c].record.status \in ActiveStatuses
        /\ suspended[c].kind = "sweep" =>
             /\ suspended[c].run \notin suspended[c].todo
             /\ \A r \in suspended[c].todo : suspended[c].snapshot[r] = runs[r]
    BY <1>1, <1>2, <2>2 DEF OrchestratorInv, AwaitsFit
  <2>4. /\ suspended'[c].record = runs'[suspended'[c].run]
        /\ suspended'[c].record.job = i /\ i # 0
        /\ suspended'[c].kind # "enqueue" /\ suspended'[c].record.status \in ActiveStatuses
    BY <2>2, <2>3, Answered
  <2>5. suspended'[c].kind = "sweep" =>
          /\ suspended'[c].run \notin suspended'[c].todo
          /\ \A r \in suspended'[c].todo : suspended'[c].snapshot[r] = runs'[r]
    BY <2>2, <2>3, Answered
  <2> QED
    BY <1>3, <2>1, <2>4, <2>5 DEF AwaitsFit
<1> QED
  BY <1>3, <1>4, <1>5, <1>6, Answered DEF DispatcherCancels, OrchestratorInv, RunTypeOK

LEMMA AgentReportsInv ==
  ASSUME OrchestratorInv, OrchestratorConstants, NEW x \in Report, AgentReports(x)
  PROVE  OrchestratorInv'
<1>1. PICK i : i = x.job
  OBVIOUS
<1>2. i \in JobIds /\ agentJobs[i].state = "live"
  BY <1>1 DEF AgentReports, Report
<1>3. /\ agentJobs' \in [JobIds -> Job]
      /\ \A j \in JobIds : agentJobs'[j].run = agentJobs[j].run /\ (j # i => agentJobs'[j].state = agentJobs[j].state)
      /\ agentJobs'[i].state \in {"live", "closed"}
      /\ x.kind \notin {"running", "succeeded"} => agentJobs'[i].state = "closed"
      /\ \A r, record : Fits(r, record) => Fits(r, record)'
  <2>1. CASE x.kind \notin {"running", "succeeded"}
    <3>1. agentJobs' = [agentJobs EXCEPT ![i].state = "closed"] /\ applied' = applied
      BY <1>1, <2>1 DEF AgentReports
    <3> QED
      BY <1>2, <3>1, JobMoves
  <2>2. CASE x.kind \in {"running", "succeeded"}
    <3>1. agentJobs' = agentJobs /\ applied' = applied
      BY <2>2 DEF AgentReports
    <3> QED
      BY <1>2, <2>2, <3>1 DEF OrchestratorInv, RunTypeOK, Fits, JobsOf
  <2> QED
    BY <2>1, <2>2
<1>4. JobsFit'
  BY <1>1, <1>2, <1>3, MovedJobsFit DEF AgentReports, OrchestratorInv, JobsFit
<1>5. RunsFit'
  BY <1>3 DEF AgentReports, OrchestratorInv, RunsFit
<1>6. OneAwaits'
  BY DEF AgentReports, OrchestratorInv, OneAwaits
<1>7. AwaitsFit'
  <2> SUFFICES ASSUME NEW c \in Slots, suspended[c] # NoValue,
                      NEW j \in JobIds, j = suspended[c].record.job
               PROVE  /\ agentJobs[j].state = "asked" => agentJobs'[j].state = "asked"
                      /\ agentJobs[j].state # "asked" => agentJobs'[j].state # "asked"
                      /\ agentJobs[j].state # "live" => agentJobs'[j].state # "live"
    <3>1. suspended' = suspended /\ runs' = runs
      BY DEF AgentReports
    <3>2. AwaitsFit
      BY DEF OrchestratorInv
    <3>3. ASSUME NEW c \in Slots, suspended[c] # NoValue
          PROVE  suspended[c].record.job \in JobIds
      BY <3>3, SuspendedTypes
    <3> QED
      BY <3>1, <3>2, <3>3 DEF AwaitsFit
  <2> QED
    BY <1>2, <1>3
<1>8. RunTypeOK'
  <2>1. reports' \subseteq Report
    BY DEF AgentReports, OrchestratorInv, RunTypeOK
  <2> QED
    BY <1>3, <2>1 DEF AgentReports, OrchestratorInv, RunTypeOK
<1> QED
  BY <1>4, <1>5, <1>6, <1>7, <1>8 DEF OrchestratorInv

LEMMA TickInv ==
  ASSUME OrchestratorInv, OrchestratorConstants, Tick
  PROVE  OrchestratorInv'
<1>1. RunTypeOK'
  BY DEF Tick, OrchestratorInv, RunTypeOK, OrchestratorConstants, OrchestratorBounds
<1>2. OneAwaits' /\ AwaitsFit'
  BY DEF Tick, OrchestratorInv, OneAwaits, AwaitsFit
<1>3. RunsFit'
  <2> SUFFICES ASSUME NEW r \in Runs PROVE Fits(r, runs[r])'
    BY DEF RunsFit
  <2>1. UNCHANGED <<runs, agentJobs, applied>>
    BY DEF Tick
  <2>2. Fits(r, runs[r]) /\ JobsOf(r)' = JobsOf(r)
    BY <2>1 DEF OrchestratorInv, RunsFit, JobsOf
  <2> QED
    BY <2>1, <2>2 DEF Fits
<1>4. JobsFit'
  BY DEF Tick, OrchestratorInv, JobsFit
<1> QED
  BY <1>1, <1>2, <1>3, <1>4 DEF OrchestratorInv

-----------------------------------------------------------------------------
(* Requests of the workspace *)

LEMMA FinishCancelInv ==
  ASSUME OrchestratorInv, OrchestratorConstants, NEW c \in Slots, FinishCancel(c)
  PROVE  OrchestratorInv'
<1>1. PICK q, record : q = suspended[c].run /\ record = suspended[c].record
  OBVIOUS
<1>2. /\ q \in Runs
      /\ Fits(q, record)
      /\ record.status \in ActiveStatuses
      /\ agentJobs[record.job].state \notin {"asked", "live"}
      /\ \A j \in JobIds : agentJobs[j].state # "asked"
  BY <1>1, SuspendedTypes DEF FinishCancel, OrchestratorInv, AwaitsFit, JobsFit
<1>3. Fits(q, Cancelled(record))
  BY <1>2, NoOpenJob, StopFits
<1>4. runs' = [runs EXCEPT ![q] = Cancelled(record)]
  BY <1>1 DEF FinishCancel, Save
<1>5. runs' \in [Runs -> RunRecord]
  BY <1>3, <1>4 DEF Fits, OrchestratorInv, RunTypeOK
<1>6. RunsFit'
  <2> SUFFICES ASSUME NEW r \in Runs PROVE Fits(r, runs[r])'
    BY DEF RunsFit
  <2>1. Fits(r, runs'[r])
    BY <1>3, <1>4 DEF OrchestratorInv, RunTypeOK, RunsFit
  <2> QED
    BY <2>1 DEF FinishCancel, Fits, JobsOf
<1>7. /\ suspended' \in [Slots -> EnqueueCall \cup CancelCall \cup SweepCall \cup {NoValue}]
      /\ OneAwaits'
      /\ AwaitsFit'
  BY Returns DEF FinishCancel
<1>8. JobsFit'
  BY <1>2 DEF FinishCancel, OrchestratorInv, JobsFit
<1> QED
  BY <1>5, <1>6, <1>7, <1>8 DEF FinishCancel, OrchestratorInv, RunTypeOK

\* A new run.
NewRun(risks, timeout) ==
  [NoRun EXCEPT !.status = IF risks THEN "awaiting_approval" ELSE "queued",
                !.approval = IF risks THEN "pending" ELSE "none",
                !.approvalExpiresAt = IF risks THEN now + ApprovalTTL ELSE 0,
                !.timeoutAt = now + timeout]

LEMMA NewRunIsRecord ==
  ASSUME OrchestratorInv, OrchestratorConstants,
         NEW risks \in BOOLEAN, NEW timeout \in Timeouts
  PROVE  /\ NewRun(risks, timeout) \in RunRecord
         /\ NewRun(risks, timeout).status = IF risks THEN "awaiting_approval" ELSE "queued"
         /\ NewRun(risks, timeout).approval \in {"pending", "none"}
         /\ NewRun(risks, timeout).job = 0
         /\ NewRun(risks, timeout).attempts = 0
         /\ NewRun(risks, timeout).seen = {}
<1>1. now + timeout \in Nat /\ now + ApprovalTTL \in Nat
  BY DEF OrchestratorInv, RunTypeOK, OrchestratorConstants, OrchestratorBounds
<1>2. {"awaiting_approval", "queued"} \subseteq RunStatuses
  BY DEF RunStatuses, ActiveStatuses
<1>3. EveryStep("pending") \in [RunNodes -> StepStatuses]
  BY DEF EveryStep, StepStatuses
<1>4. 0 \in 0 .. RunAttempts
  BY DEF OrchestratorConstants, OrchestratorBounds
<1> QED
  BY <1>1, <1>2, <1>3, <1>4 DEF NewRun, NoRun, RunRecord

LEMMA StartInv ==
  ASSUME OrchestratorInv, OrchestratorConstants,
         NEW c \in Slots, NEW r \in Runs, NEW risks \in BOOLEAN, NEW timeout \in Timeouts,
         Start(c, r, risks, timeout)
  PROVE  OrchestratorInv'
<1>1. PICK record : record = NewRun(risks, timeout)
  OBVIOUS
<1>2. CanRun /\ runs[r].status = "none" /\ UNCHANGED <<now, reports, applied>>
  BY DEF Start, CanAwait
<1>3. Fits(r, runs[r]) /\ JobsOf(r) = {} /\ Cardinality(JobsOf(r)) = 0
  BY <1>2, FS_EmptySet DEF OrchestratorInv, RunsFit, Fits
<1>4. CASE risks
  <2>1. Fits(r, record)
    BY <1>1, <1>3, <1>4, NewRunIsRecord DEF Fits
  <2>2. Save(r, record) /\ UNCHANGED <<agentJobs, minted, suspended>>
    BY <1>1, <1>4 DEF Start, NewRun
  <2> QED
    BY <1>2, <2>1, <2>2, SavedFits
<1>5. CASE ~ risks
  <2>1. Dispatch(c, r, record)
    BY <1>1, <1>5 DEF Start, NewRun
  <2>2. runs[r].seen = {}
    BY <1>2, <1>3 DEF Fits
  <2>3. Ready(r, record)
    BY <1>1, <1>3, <1>5, <2>2, NewRunIsRecord DEF Ready, OrchestratorConstants, OrchestratorBounds
  <2> QED
    BY <1>2, <2>1, <2>3, DispatchFits
<1> QED
  BY <1>4, <1>5

LEMMA ApproveInv ==
  ASSUME OrchestratorInv, OrchestratorConstants, NEW c \in Slots, NEW r \in Runs, Approve(c, r)
  PROVE  OrchestratorInv'
<1>1. PICK record : record = [runs[r] EXCEPT !.approval = "approved"]
  OBVIOUS
<1>2. /\ CanRun
      /\ runs[r].status = "awaiting_approval"
      /\ Dispatch(c, r, record)
      /\ UNCHANGED <<now, reports, applied>>
  BY <1>1 DEF Approve, CanAwait, Approvable
<1>3. Fits(r, runs[r]) /\ JobsOf(r) = {} /\ Cardinality(JobsOf(r)) = 0 /\ runs[r] \in RunRecord
  BY <1>2, FS_EmptySet DEF OrchestratorInv, RunsFit, Fits
<1>4. /\ record \in RunRecord
      /\ record.approval = "approved"
      /\ record.attempts = runs[r].attempts
      /\ record.seen = runs[r].seen
  BY <1>1, <1>3 DEF RunRecord
<1>5. Ready(r, record)
  BY <1>3, <1>4 DEF Ready, Fits, OrchestratorConstants, OrchestratorBounds
<1> QED
  BY <1>2, <1>5, DispatchFits

LEMMA RefusedInv ==
  ASSUME OrchestratorInv, OrchestratorConstants, NEW r \in Runs, ApproveTooLate(r) \/ RejectRun(r)
  PROVE  OrchestratorInv'
<1>1. CanRun /\ runs[r].status = "awaiting_approval"
  BY DEF ApproveTooLate, RejectRun, Approvable
<1>2. Fits(r, runs[r])
  BY DEF OrchestratorInv, RunsFit
<1>3. CASE ApproveTooLate(r)
  <2>1. PICK record : record = Expired(runs[r])
    OBVIOUS
  <2>2. Fits(r, record)
    BY <1>1, <1>2, <2>1, RefuseFits
  <2> QED
    BY <1>1, <1>3, <2>1, <2>2, SavedFits DEF ApproveTooLate
<1>4. CASE RejectRun(r)
  <2>1. PICK record : record = [runs[r] EXCEPT !.approval = "rejected", !.status = "cancelled"]
    OBVIOUS
  <2>2. Fits(r, record)
    BY <1>1, <1>2, <2>1, RefuseFits
  <2> QED
    BY <1>1, <1>4, <2>1, <2>2, SavedFits DEF RejectRun
<1> QED
  BY <1>3, <1>4

LEMMA CancelHeldInv ==
  ASSUME OrchestratorInv, OrchestratorConstants, NEW r \in Runs, CancelHeld(r)
  PROVE  OrchestratorInv'
<1>1. PICK record : record = Cancelled(runs[r])
  OBVIOUS
<1>2. /\ CanRun
      /\ Fits(r, runs[r])
      /\ runs[r].status \in ActiveStatuses
      /\ runs[r].job = 0
  BY DEF CancelHeld, Cancellable, OrchestratorInv, RunsFit
<1>3. Fits(r, record)
  BY <1>1, <1>2, NoOpenJob, StopFits
<1> QED
  BY <1>1, <1>2, <1>3, SavedFits DEF CancelHeld

\* A handler starts to await the dispatcher's cancel.
LEMMA CancelInv ==
  ASSUME OrchestratorInv, OrchestratorConstants, NEW c \in Slots, NEW r \in Runs, CancelRun(c, r)
  PROVE  OrchestratorInv'
<1>1. PICK call : call = [kind |-> "cancel", run |-> r, record |-> runs[r], asked |-> TRUE]
  OBVIOUS
<1>2. /\ suspended' = [suspended EXCEPT ![c] = call]
      /\ UNCHANGED <<now, runs, agentJobs, minted, reports, applied>>
      /\ CanRun
      /\ runs[r].status \in ActiveStatuses
      /\ runs[r].job # 0
      /\ runs[r] \in RunRecord
  BY <1>1 DEF CancelRun, CanAwait, Cancellable, OrchestratorInv, RunTypeOK
<1>3. /\ call \in CancelCall
      /\ call.kind = "cancel"
      /\ call.run = r
      /\ call.record = runs[r]
      /\ call.asked
  BY <1>1, <1>2 DEF CancelCall
<1>4. suspended'[c] = call /\ \A d \in Slots \ {c} : suspended'[d] = NoValue
  BY <1>2, NoneAsked DEF OrchestratorInv, RunTypeOK
<1>5. RunTypeOK'
  BY <1>2, <1>3 DEF OrchestratorInv, RunTypeOK
<1>6. OneAwaits'
  BY <1>4 DEF OneAwaits
<1>7. AwaitsFit'
  <2>1. runs[r].job \in JobIds
    BY <1>2 DEF RunRecord
  <2> QED
    BY <1>2, <1>3, <1>4, <2>1, NoneAsked DEF AwaitsFit
<1>8. RunsFit'
  <2> SUFFICES ASSUME NEW q \in Runs PROVE Fits(q, runs[q])'
    BY DEF RunsFit
  <2>1. Fits(q, runs[q]) /\ JobsOf(q)' = JobsOf(q)
    BY <1>2 DEF OrchestratorInv, RunsFit, JobsOf
  <2> QED
    BY <1>2, <2>1 DEF Fits
<1>9. JobsFit'
  BY <1>2, NoneAsked DEF OrchestratorInv, JobsFit
<1> QED
  BY <1>5, <1>6, <1>7, <1>8, <1>9 DEF OrchestratorInv

\* A record prepared for another attempt.
LEMMA PreparedReady ==
  ASSUME OrchestratorInv, OrchestratorConstants, NEW r \in Runs,
         NEW record, record \in RunRecord,
         record.attempts = runs[r].attempts, record.approval = runs[r].approval,
         runs[r].seen \subseteq record.seen,
         runs[r].attempts < RunAttempts,
         runs[r].status # "cancelled",
         \A j \in JobsOf(r) : agentJobs[j].state \notin {"asked", "live"}
  PROVE  /\ Ready(r, Prepared(record))
         /\ Prepared(record).seen = record.seen
<1>1. Fits(r, runs[r])
  BY DEF OrchestratorInv, RunsFit
<1>2. /\ Prepared(record) \in RunRecord
      /\ Prepared(record).attempts = record.attempts
      /\ Prepared(record).approval = record.approval
      /\ Prepared(record).seen = record.seen
  <2>1. EveryStep("pending") \in [RunNodes -> StepStatuses]
    BY DEF EveryStep, StepStatuses
  <2>2. "queued" \in RunStatuses
    BY DEF RunStatuses, ActiveStatuses
  <2> QED
    BY <2>1, <2>2 DEF Prepared, RunRecord
<1> QED
  BY <1>1, <1>2 DEF Ready, Fits

LEMMA RetryInv ==
  ASSUME OrchestratorInv, OrchestratorConstants, NEW c \in Slots, NEW r \in Runs, Retry(c, r)
  PROVE  OrchestratorInv'
<1>1. PICK record : record = Prepared(runs[r])
  OBVIOUS
<1>2. /\ CanRun
      /\ runs[r].status \in {"failed", "timed_out"}
      /\ runs[r].attempts < RunAttempts
      /\ Fits(r, runs[r])
      /\ runs[r] \in RunRecord
      /\ Dispatch(c, r, record)
      /\ UNCHANGED <<now, reports, applied>>
  BY <1>1 DEF Retry, CanAwait, Retryable, OrchestratorInv, RunsFit, RunTypeOK
<1>3. \A j \in JobsOf(r) : agentJobs[j].state \notin {"asked", "live"}
  BY <1>2, NoOpenJob
<1>4. Ready(r, record)
  BY <1>1, <1>2, <1>3, PreparedReady
<1> QED
  BY <1>2, <1>4, DispatchFits

-----------------------------------------------------------------------------
(* Reports that reach their run *)

LEMMA AcceptedRun ==
  ASSUME OrchestratorInv, NEW r \in Runs, NEW x \in Report, Accepts(r, x)
  PROVE  /\ CanRun
         /\ Fits(r, runs[r])
         /\ runs[r] \in RunRecord
         /\ runs[r].job = x.job
         /\ runs[r].status \in {"queued", "running"}
         /\ x \in reports
BY DEF Accepts, OrchestratorInv, RunsFit, Fits

\* A run goes on, or it has succeeded, with the report among those it has seen.
LEMMA SeenFits ==
  ASSUME NEW r, NEW old, Fits(r, old), NEW record \in RunRecord,
         old.status \in {"queued", "running"},
         record.status \in {"running", "succeeded"},
         record.status = "succeeded" =>
           /\ \A n \in RunNodes : record.steps[n] = "succeeded"
           /\ \A j \in JobsOf(r) : agentJobs[j].state \notin {"asked", "live"},
         record.job = old.job, record.attempts = old.attempts, record.approval = old.approval,
         old.seen \subseteq record.seen
  PROVE  Fits(r, record)
BY DEF Fits

LEMMA RecordAgentProgressInv ==
  ASSUME OrchestratorInv, OrchestratorConstants, NEW r \in Runs, NEW x \in Report,
         RecordAgentProgress(r, x)
  PROVE  OrchestratorInv'
<1>1. PICK record : record = [runs[r] EXCEPT !.status = "running", !.steps[x.node] = x.kind,
                                             !.seen = @ \cup {x}]
  OBVIOUS
<1>2. /\ Accepts(r, x)
      /\ x.kind \in {"running", "succeeded"}
      /\ Save(r, record)
      /\ Apply(x)
      /\ UNCHANGED <<now, agentJobs, minted, suspended, reports>>
  BY <1>1 DEF RecordAgentProgress
<1>3. x.node \in RunNodes
  BY <1>2 DEF Report
<1>4. [runs[r].steps EXCEPT ![x.node] = x.kind] \in [RunNodes -> StepStatuses]
  BY <1>2, <1>3, AcceptedRun DEF RunRecord, StepStatuses
<1>5. "running" \in RunStatuses
  BY DEF RunStatuses, ActiveStatuses
<1>6. /\ record \in RunRecord
      /\ record.status = "running"
      /\ record.job = runs[r].job
      /\ record.attempts = runs[r].attempts
      /\ record.approval = runs[r].approval
      /\ record.seen = runs[r].seen \cup {x}
  BY <1>1, <1>2, <1>4, <1>5, AcceptedRun DEF RunRecord
<1>7. Fits(r, record)
  BY <1>2, <1>6, AcceptedRun, SeenFits
<1> QED
  BY <1>2, <1>6, <1>7, AcceptedRun, ApplyFits, AppliedFits

LEMMA CompleteAgentJobInv ==
  ASSUME OrchestratorInv, OrchestratorConstants, NEW r \in Runs, NEW x \in Report,
         CompleteAgentJob(r, x)
  PROVE  OrchestratorInv'
<1>1. PICK record : record = [runs[r] EXCEPT !.status = "succeeded", !.seen = @ \cup {x}]
  OBVIOUS
<1>2. /\ Accepts(r, x)
      /\ x.kind = "complete"
      /\ StepsDone(r)
      /\ Save(r, record)
      /\ Apply(x)
      /\ UNCHANGED <<now, agentJobs, minted, suspended, reports>>
  BY <1>1 DEF CompleteAgentJob
<1>3. "succeeded" \in RunStatuses
  BY DEF RunStatuses, FinalStatuses
<1>4. /\ record \in RunRecord
      /\ record.status = "succeeded"
      /\ record.steps = runs[r].steps
      /\ record.job = runs[r].job
      /\ record.attempts = runs[r].attempts
      /\ record.approval = runs[r].approval
      /\ record.seen = runs[r].seen \cup {x}
  BY <1>1, <1>2, <1>3, AcceptedRun DEF RunRecord
<1>5. agentJobs[runs[r].job].state \notin {"asked", "live"}
  BY <1>2, AcceptedRun DEF OrchestratorInv, JobsFit
<1>6. \A j \in JobsOf(r) : agentJobs[j].state \notin {"asked", "live"}
  BY <1>2, <1>5, AcceptedRun, NoOpenJob
<1>7. Fits(r, record)
  BY <1>2, <1>4, <1>6, AcceptedRun, SeenFits DEF StepsDone
<1> QED
  BY <1>2, <1>4, <1>7, AcceptedRun, ApplyFits, AppliedFits

LEMMA FailedRecord ==
  ASSUME OrchestratorInv, OrchestratorConstants, NEW r \in Runs, NEW x \in Report,
         Accepts(r, x), x.kind \in {"fail", "failRetryable"}
  PROVE  /\ FailedBy(runs[r], x) \in RunRecord
         /\ FailedBy(runs[r], x).status = "failed"
         /\ FailedBy(runs[r], x).job = runs[r].job
         /\ FailedBy(runs[r], x).attempts = runs[r].attempts
         /\ FailedBy(runs[r], x).approval = runs[r].approval
         /\ FailedBy(runs[r], x).seen = runs[r].seen \cup {x}
         /\ \A j \in JobsOf(r) : agentJobs[j].state \notin {"asked", "live"}
<1>1. "failed" \in RunStatuses
  BY DEF RunStatuses
<1>2. agentJobs[runs[r].job].state \notin {"asked", "live"}
  BY AcceptedRun DEF OrchestratorInv, JobsFit
<1>3. \A j \in JobsOf(r) : agentJobs[j].state \notin {"asked", "live"}
  BY <1>2, AcceptedRun, NoOpenJob
<1>4. /\ FailedBy(runs[r], x) \in RunRecord
      /\ FailedBy(runs[r], x).status = "failed"
      /\ FailedBy(runs[r], x).job = runs[r].job
      /\ FailedBy(runs[r], x).attempts = runs[r].attempts
      /\ FailedBy(runs[r], x).approval = runs[r].approval
      /\ FailedBy(runs[r], x).seen = runs[r].seen \cup {x}
  BY <1>1, AcceptedRun DEF FailedBy, RunRecord
<1> QED
  BY <1>3, <1>4

LEMMA FailAgentJobInv ==
  ASSUME OrchestratorInv, OrchestratorConstants, NEW r \in Runs, NEW x \in Report,
         FailAgentJob(r, x)
  PROVE  OrchestratorInv'
<1>1. PICK record : record = FailedBy(runs[r], x)
  OBVIOUS
<1>2. /\ Accepts(r, x)
      /\ x.kind \in {"fail", "failRetryable"}
      /\ Save(r, record)
      /\ Apply(x)
      /\ UNCHANGED <<now, agentJobs, minted, suspended, reports>>
  BY <1>1 DEF FailAgentJob
<1>3. record.approval \notin {"rejected", "expired"}
  BY <1>1, <1>2, AcceptedRun, FailedRecord DEF Fits
<1>4. Fits(r, record)
  BY <1>1, <1>2, <1>3, AcceptedRun, FailedRecord, EndFits
<1> QED
  BY <1>1, <1>2, <1>4, AcceptedRun, FailedRecord, ApplyFits, AppliedFits

LEMMA FailAndRetryInv ==
  ASSUME OrchestratorInv, OrchestratorConstants, NEW c \in Slots, NEW r \in Runs, NEW x \in Report,
         FailAndRetry(c, r, x)
  PROVE  OrchestratorInv'
<1>1. PICK record, failed : failed = FailedBy(runs[r], x) /\ record = Prepared(failed)
  OBVIOUS
<1>2. /\ Accepts(r, x)
      /\ x.kind = "failRetryable"
      /\ runs[r].attempts < RunAttempts
      /\ Dispatch(c, r, record)
      /\ Apply(x)
      /\ UNCHANGED <<now, reports>>
  BY <1>1 DEF FailAndRetry
<1>3. /\ failed \in RunRecord
      /\ failed.attempts = runs[r].attempts
      /\ failed.approval = runs[r].approval
      /\ failed.seen = runs[r].seen \cup {x}
      /\ \A j \in JobsOf(r) : agentJobs[j].state \notin {"asked", "live"}
  BY <1>1, <1>2, FailedRecord
<1>4. Ready(r, record) /\ record.seen = failed.seen
  BY <1>1, <1>2, <1>3, AcceptedRun, PreparedReady
<1>5. AppliedTo(r, record)
  BY <1>2, <1>3, <1>4, ApplyFits
<1> QED
  BY <1>2, <1>4, <1>5, AcceptedRun, DispatchFits

-----------------------------------------------------------------------------
(* The sweep *)

\* What the sweep writes for an overdue snapshot without a job to stop fits the run's jobs.
LEMMA SweptFits ==
  ASSUME OrchestratorConstants, NEW r, NEW record, Fits(r, record), NEW at,
         ~ MustStop(record, at), ApprovalOverdue(record, at) \/ Overdue(record, at)
  PROVE  Fits(r, Swept(record, at))
<1>1. CASE ApprovalOverdue(record, at)
  BY <1>1, RefuseFits DEF ApprovalOverdue, Swept
<1>2. CASE ~ ApprovalOverdue(record, at)
  <2>1. record.job = 0 /\ record.status \in ActiveStatuses
    BY <1>2 DEF MustStop, Overdue
  <2>2. Fits(r, TimedOut(record))
    BY <2>1, NoOpenJob, StopFits
  <2> QED
    BY <1>2, <2>2 DEF Swept
<1> QED
  BY <1>1, <1>2

LEMMA SegmentInv ==
  ASSUME OrchestratorInv, OrchestratorConstants, NEW c \in Slots,
         NEW snapshot \in [Runs -> RunRecord], NEW todo \in SUBSET Runs, NEW at \in Nat,
         NEW stored \in [Runs -> RunRecord],
         Segment(c, snapshot, todo, at, stored),
         \A r \in Runs : Fits(r, stored[r]),
         \A r \in todo : snapshot[r] = stored[r],
         \A d \in Slots \ {c} : suspended[d] = NoValue,
         \A j \in JobIds : agentJobs[j].state # "asked",
         UNCHANGED <<now, agentJobs, minted, reports, applied>>
  PROVE  OrchestratorInv'
<1>1. PICK batch \in SUBSET todo :
        /\ \A r \in batch : ~ MustStop(snapshot[r], at)
        /\ runs' = [r \in Runs |->
             IF r \in batch /\ (ApprovalOverdue(snapshot[r], at) \/ Overdue(snapshot[r], at))
             THEN Swept(snapshot[r], at) ELSE stored[r]]
        /\ \/ suspended' = [suspended EXCEPT ![c] = NoValue]
           \/ \E r \in todo \ batch :
                /\ MustStop(snapshot[r], at)
                /\ suspended' = [suspended EXCEPT
                     ![c] = [kind |-> "sweep", run |-> r, record |-> snapshot[r], asked |-> TRUE,
                             snapshot |-> snapshot, todo |-> todo \ (batch \cup {r}), at |-> at]]
  BY DEF Segment
<1>2. \A r \in Runs : Fits(r, runs'[r]) /\ (r \notin batch => runs'[r] = stored[r])
  <2> SUFFICES ASSUME NEW r \in Runs
               PROVE  Fits(r, runs'[r]) /\ (r \notin batch => runs'[r] = stored[r])
    OBVIOUS
  <2>1. CASE r \in batch /\ (ApprovalOverdue(snapshot[r], at) \/ Overdue(snapshot[r], at))
    <3>1. Fits(r, snapshot[r])
      BY <2>1
    <3>2. Fits(r, Swept(snapshot[r], at))
      BY <1>1, <2>1, <3>1, SweptFits
    <3> QED
      BY <1>1, <2>1, <3>2
  <2>2. CASE ~ (r \in batch /\ (ApprovalOverdue(snapshot[r], at) \/ Overdue(snapshot[r], at)))
    BY <1>1, <2>2
  <2> QED
    BY <2>1, <2>2
<1>3. runs' \in [Runs -> RunRecord]
  BY <1>1, <1>2 DEF Fits
<1>4. RunsFit'
  <2> SUFFICES ASSUME NEW r \in Runs PROVE Fits(r, runs[r])'
    BY DEF RunsFit
  <2>1. Fits(r, runs'[r])
    BY <1>2
  <2> QED
    BY <2>1 DEF Fits, JobsOf
<1>5. JobsFit'
  BY DEF OrchestratorInv, JobsFit
<1>6. ASSUME suspended' = [suspended EXCEPT ![c] = NoValue]
      PROVE  /\ suspended' \in [Slots -> EnqueueCall \cup CancelCall \cup SweepCall \cup {NoValue}]
             /\ OneAwaits'
             /\ AwaitsFit'
  <2>1. \A d \in Slots : suspended'[d] = NoValue
    BY <1>6 DEF OrchestratorInv, RunTypeOK
  <2> QED
    BY <1>6, <2>1 DEF OneAwaits, AwaitsFit, OrchestratorInv, RunTypeOK
<1>7. ASSUME NEW q \in todo \ batch, MustStop(snapshot[q], at),
             NEW call,
             call = [kind |-> "sweep", run |-> q, record |-> snapshot[q], asked |-> TRUE,
                     snapshot |-> snapshot, todo |-> todo \ (batch \cup {q}), at |-> at],
             suspended' = [suspended EXCEPT ![c] = call]
      PROVE  /\ suspended' \in [Slots -> EnqueueCall \cup CancelCall \cup SweepCall \cup {NoValue}]
             /\ OneAwaits'
             /\ AwaitsFit'
  <2>1. /\ call \in SweepCall
        /\ call.kind = "sweep"
        /\ call.run = q
        /\ call.record = snapshot[q]
        /\ call.asked
        /\ call.snapshot = snapshot
        /\ call.todo = todo \ (batch \cup {q})
    BY <1>7 DEF SweepCall
  <2>2. suspended'[c] = call /\ \A d \in Slots \ {c} : suspended'[d] = NoValue
    BY <1>7 DEF OrchestratorInv, RunTypeOK
  <2>3. suspended' \in [Slots -> EnqueueCall \cup CancelCall \cup SweepCall \cup {NoValue}]
    BY <1>7, <2>1 DEF OrchestratorInv, RunTypeOK
  <2>4. OneAwaits'
    BY <2>2 DEF OneAwaits
  <2>5. q \in Runs /\ snapshot[q] = runs'[q] /\ snapshot[q].job \in JobIds
    BY <1>2, <1>7 DEF MustStop, RunRecord
  <2>6. snapshot[q].job # 0 /\ snapshot[q].status \in ActiveStatuses
    BY <1>7 DEF MustStop, Overdue
  <2>7. \A r \in todo \ (batch \cup {q}) : snapshot[r] = runs'[r]
    BY <1>2
  <2>8. agentJobs'[snapshot[q].job].state # "asked"
    BY <2>5
  <2>9. AwaitsFit'
    BY <2>1, <2>2, <2>5, <2>6, <2>7, <2>8 DEF AwaitsFit
  <2> QED
    BY <2>3, <2>4, <2>9
<1>8. /\ suspended' \in [Slots -> EnqueueCall \cup CancelCall \cup SweepCall \cup {NoValue}]
      /\ OneAwaits'
      /\ AwaitsFit'
  <2>1. CASE suspended' = [suspended EXCEPT ![c] = NoValue]
    BY <2>1, <1>6
  <2>2. CASE \E r \in todo \ batch :
                /\ MustStop(snapshot[r], at)
                /\ suspended' = [suspended EXCEPT
                     ![c] = [kind |-> "sweep", run |-> r, record |-> snapshot[r], asked |-> TRUE,
                             snapshot |-> snapshot, todo |-> todo \ (batch \cup {r}), at |-> at]]
    BY <2>2, <1>7
  <2> QED
    BY <1>1, <2>1, <2>2
<1> QED
  BY <1>3, <1>4, <1>5, <1>8 DEF OrchestratorInv, RunTypeOK

LEMMA SweepInv ==
  ASSUME OrchestratorInv, OrchestratorConstants, NEW c \in Slots, SweepExpired(c)
  PROVE  OrchestratorInv'
<1>1. PICK stored, todo, at :
        /\ stored = runs
        /\ todo = {r \in Runs : runs[r].status # "none"}
        /\ at = now
  OBVIOUS
<1>2. /\ stored \in [Runs -> RunRecord]
      /\ todo \in SUBSET Runs
      /\ at \in Nat
      /\ \A r \in Runs : Fits(r, stored[r])
  BY <1>1 DEF OrchestratorInv, RunTypeOK, RunsFit
<1>3. CanRun /\ Segment(c, stored, todo, at, stored)
  BY <1>1 DEF SweepExpired, CanAwait
<1>4. UNCHANGED <<now, agentJobs, minted, reports, applied>>
  BY DEF SweepExpired
<1> QED
  BY <1>2, <1>3, <1>4, NoneAsked, SegmentInv

LEMMA ResumeSweepInv ==
  ASSUME OrchestratorInv, OrchestratorConstants, NEW c \in Slots, ResumeSweep(c)
  PROVE  OrchestratorInv'
<1>1. PICK q, record, snapshot, todo, at, stored :
        /\ q = suspended[c].run
        /\ record = suspended[c].record
        /\ snapshot = suspended[c].snapshot
        /\ todo = suspended[c].todo
        /\ at = suspended[c].at
        /\ stored = [runs EXCEPT ![q] = TimedOut(record)]
  OBVIOUS
<1>2. /\ suspended[c] # NoValue
      /\ suspended[c].kind = "sweep"
      /\ ~ suspended[c].asked
      /\ Segment(c, snapshot, todo, at, stored)
      /\ UNCHANGED <<now, agentJobs, minted, reports, applied>>
  BY <1>1 DEF ResumeSweep
<1>3. /\ q \in Runs
      /\ Fits(q, record)
      /\ record.status \in ActiveStatuses
      /\ agentJobs[record.job].state \notin {"asked", "live"}
      /\ q \notin todo
      /\ \A r \in todo : snapshot[r] = runs[r]
  BY <1>1, <1>2, SuspendedTypes DEF OrchestratorInv, AwaitsFit
<1>4. Fits(q, TimedOut(record))
  BY <1>3, NoOpenJob, StopFits
<1>5. snapshot \in [Runs -> RunRecord] /\ todo \in SUBSET Runs /\ at \in Nat
  BY <1>1, <1>2, SuspendedTypes DEF SweepCall
<1>6. /\ stored \in [Runs -> RunRecord]
      /\ \A r \in Runs : Fits(r, stored[r])
      /\ \A r \in todo : snapshot[r] = stored[r]
  <2>1. stored \in [Runs -> RunRecord]
    BY <1>1, <1>4 DEF OrchestratorInv, RunTypeOK, Fits
  <2>2. stored[q] = TimedOut(record) /\ \A r \in Runs \ {q} : stored[r] = runs[r]
    BY <1>1, <1>3 DEF OrchestratorInv, RunTypeOK
  <2>3. \A r \in Runs : Fits(r, runs[r])
    BY DEF OrchestratorInv, RunsFit
  <2>4. \A r \in todo : r \in Runs \ {q}
    BY <1>3, <1>5
  <2> QED
    BY <1>3, <1>4, <2>1, <2>2, <2>3, <2>4
<1>7. \A j \in JobIds : agentJobs[j].state # "asked"
  BY <1>2, SuspendedTypes DEF OrchestratorInv, JobsFit
<1>8. \A d \in Slots \ {c} : suspended[d] = NoValue
  BY <1>2, SuspendedTypes
<1> QED
  BY <1>2, <1>5, <1>6, <1>7, <1>8, SegmentInv

-----------------------------------------------------------------------------
(* Theorems about RunOrchestrator *)

\* Every handler, every answer of the dispatcher, every report and the sweep keep the
\* invariant, as long as nothing else is served while a handler awaits the dispatcher.
LEMMA OrchestratorNextInv ==
  ASSUME OrchestratorInv, OrchestratorConstants, [OrchestratorNext]_runVars
  PROVE  OrchestratorInv'
<1>1. ASSUME NEW c \in Slots, Enqueued(c) \/ EnqueueFailed(c) \/ DispatcherCancels(c)
      PROVE  OrchestratorInv'
  BY <1>1, EnqueuedInv, EnqueueFailedInv, DispatcherCancelsInv
<1>2. ASSUME NEW c \in Slots, FinishCancel(c) \/ ResumeSweep(c) \/ SweepExpired(c)
      PROVE  OrchestratorInv'
  BY <1>2, FinishCancelInv, ResumeSweepInv, SweepInv
<1>3. ASSUME NEW r \in Runs, ApproveTooLate(r) \/ RejectRun(r) \/ CancelHeld(r)
      PROVE  OrchestratorInv'
  BY <1>3, RefusedInv, CancelHeldInv
<1>4. ASSUME NEW r \in Runs, NEW c \in Slots,
             \/ \E risks \in BOOLEAN, timeout \in Timeouts : Start(c, r, risks, timeout)
             \/ Approve(c, r)
             \/ CancelRun(c, r)
             \/ Retry(c, r)
      PROVE  OrchestratorInv'
  BY <1>4, StartInv, ApproveInv, CancelInv, RetryInv
<1>5. ASSUME NEW x \in Report, AgentReports(x)
      PROVE  OrchestratorInv'
  BY <1>5, AgentReportsInv
<1>6. ASSUME NEW x \in Report, NEW r \in Runs,
             \/ RecordAgentProgress(r, x)
             \/ CompleteAgentJob(r, x)
             \/ FailAgentJob(r, x)
             \/ \E c \in Slots : FailAndRetry(c, r, x)
      PROVE  OrchestratorInv'
  BY <1>6, RecordAgentProgressInv, CompleteAgentJobInv, FailAgentJobInv, FailAndRetryInv
<1>7. CASE Tick
  BY <1>7, TickInv
<1>8. CASE UNCHANGED runVars
  <2>1. UNCHANGED <<now, runs, agentJobs, minted, suspended, reports, applied>>
    BY <1>8 DEF runVars
  <2>2. RunsFit'
    <3> SUFFICES ASSUME NEW r \in Runs PROVE Fits(r, runs[r])'
      BY DEF RunsFit
    <3>1. Fits(r, runs[r]) /\ JobsOf(r)' = JobsOf(r)
      BY <2>1 DEF OrchestratorInv, RunsFit, JobsOf
    <3> QED
      BY <2>1, <3>1 DEF Fits
  <2> QED
    BY <2>1, <2>2 DEF OrchestratorInv, RunTypeOK, OneAwaits, AwaitsFit, JobsFit
<1> QED
  BY <1>1, <1>2, <1>3, <1>4, <1>5, <1>6, <1>7, <1>8
     DEF OrchestratorNext, PortNext, ResumeNext, UserNext, AgentReportNext

LEMMA OrchestratorInvIsSafe ==
  ASSUME OrchestratorInv, OrchestratorConstants
  PROVE  RunSafe
<1>1. SuccessesAreComplete
  BY DEF OrchestratorInv, RunsFit, Fits, SuccessesAreComplete
<1>2. OpenJobsAreCurrent
  <2> SUFFICES ASSUME NEW j \in JobIds, agentJobs[j].state \in {"asked", "live"}
               PROVE  /\ runs[agentJobs[j].run].job = j
                      /\ runs[agentJobs[j].run].status \in {"queued", "running"}
    BY DEF OpenJobsAreCurrent
  <2>1. agentJobs[j].run \in Runs
    BY JobIdsAreNumbers DEF OrchestratorInv, RunTypeOK, Job, JobsFit, OrchestratorConstants, OrchestratorBounds
  <2>2. Fits(agentJobs[j].run, runs[agentJobs[j].run]) /\ j \in JobsOf(agentJobs[j].run)
    BY <2>1 DEF OrchestratorInv, RunsFit, JobsOf
  <2> QED
    BY <2>2 DEF Fits
<1>3. NeverAfterRefusal
  <2> SUFFICES ASSUME NEW j \in JobIds, agentJobs[j].run # NoValue
               PROVE  runs[agentJobs[j].run].approval \notin {"rejected", "expired"}
    BY DEF NeverAfterRefusal
  <2>1. agentJobs[j].run \in Runs
    BY DEF OrchestratorInv, RunTypeOK, Job
  <2>2. Fits(agentJobs[j].run, runs[agentJobs[j].run]) /\ j \in JobsOf(agentJobs[j].run)
    BY <2>1 DEF OrchestratorInv, RunsFit, JobsOf
  <2> QED
    BY <2>2 DEF Fits
<1>4. AttemptPerJob
  BY DEF OrchestratorInv, RunsFit, Fits, JobsOf, AttemptPerJob
<1>5. AppliedOnce
  BY DEF OrchestratorInv, JobsFit, AppliedOnce
<1> QED
  BY <1>1, <1>2, <1>3, <1>4, <1>5 DEF RunSafe, OrchestratorInv

\* For all runs, nodes, timeouts, numbers of attempts and bounds: a run that succeeded has
\* finished steps, a job that can be executed is the current one of a run that is queued or
\* running, a refused run never gets a job, attempts count jobs, and a report counts once.
THEOREM RunsAreSafe ==
  ASSUME ~ Overlap
  PROVE  OrchestratorSpec => []RunSafe
<1>0. OrchestratorConstants
  BY OrchestratorAssumption DEF OrchestratorConstants
<1>1. OrchestratorInit => OrchestratorInv
  BY <1>0, OrchestratorInitInv
<1>2. OrchestratorInv /\ [OrchestratorNext]_runVars => OrchestratorInv'
  BY <1>0, OrchestratorNextInv
<1>3. OrchestratorInv => RunSafe
  BY <1>0, OrchestratorInvIsSafe
<1> QED
  BY <1>1, <1>2, <1>3, PTL DEF OrchestratorSpec

LEMMA FinalRunStays ==
  ASSUME OrchestratorInv, OrchestratorConstants, [OrchestratorNext]_runVars,
         NEW r \in Runs, runs[r].status \in FinalStatuses
  PROVE  runs'[r].status = runs[r].status
<1> DEFINE Stays == runs'[r] = runs[r]
<1>1. /\ runs \in [Runs -> RunRecord]
      /\ runs[r].status \notin {"none", "awaiting_approval", "queued", "running", "failed", "timed_out"}
  BY DEF OrchestratorInv, RunTypeOK, FinalStatuses
<1>2. ASSUME NEW c \in Slots, Enqueued(c) \/ EnqueueFailed(c) \/ DispatcherCancels(c)
      PROVE  Stays
  <2>1. CASE Enqueued(c) \/ DispatcherCancels(c)
    BY <2>1 DEF Enqueued, DispatcherCancels
  <2>2. CASE EnqueueFailed(c)
    <3>1. suspended[c] # NoValue /\ suspended[c].kind = "enqueue"
      BY <2>2 DEF EnqueueFailed
    <3>2. runs[suspended[c].run].status = "queued"
      BY <3>1 DEF OrchestratorInv, AwaitsFit
    <3>3. suspended[c].run # r
      BY <1>1, <3>2
    <3> QED
      BY <1>1, <2>2, <3>3 DEF EnqueueFailed, Save
  <2> QED
    BY <1>2, <2>1, <2>2
<1>3. ASSUME NEW c \in Slots, FinishCancel(c)
      PROVE  Stays
  BY <1>1, <1>3, SuspendedTypes
     DEF FinishCancel, Save, OrchestratorInv, AwaitsFit, ActiveStatuses
<1>4. ASSUME NEW c \in Slots, NEW snapshot, NEW todo, NEW at, NEW stored,
             Segment(c, snapshot, todo, at, stored),
             r \in todo => snapshot[r] = runs[r], stored[r] = runs[r]
      PROVE  Stays
  BY <1>1, <1>4 DEF Segment, ApprovalOverdue, Overdue, ActiveStatuses
<1>5. ASSUME NEW c \in Slots, SweepExpired(c)
      PROVE  Stays
  BY <1>4, <1>5 DEF SweepExpired
<1>6. ASSUME NEW c \in Slots, ResumeSweep(c)
      PROVE  Stays
  <2>1. /\ suspended[c] # NoValue
        /\ suspended[c].kind = "sweep"
        /\ Segment(c, suspended[c].snapshot, suspended[c].todo, suspended[c].at,
                   [runs EXCEPT ![suspended[c].run] = TimedOut(suspended[c].record)])
    BY <1>6 DEF ResumeSweep
  <2>2. /\ suspended[c].run # r
        /\ r \in suspended[c].todo => suspended[c].snapshot[r] = runs[r]
    BY <1>1, <2>1 DEF OrchestratorInv, AwaitsFit, ActiveStatuses
  <2>3. [runs EXCEPT ![suspended[c].run] = TimedOut(suspended[c].record)][r] = runs[r]
    BY <1>1, <2>2
  <2> QED
    BY <1>4, <2>1, <2>2, <2>3
<1>7. ASSUME NEW q \in Runs, ApproveTooLate(q) \/ RejectRun(q) \/ CancelHeld(q)
      PROVE  Stays
  BY <1>1, <1>7 DEF ApproveTooLate, RejectRun, CancelHeld, Approvable, Cancellable, ActiveStatuses, Save
<1>8. ASSUME NEW q \in Runs, NEW c \in Slots,
             \/ \E risks \in BOOLEAN, timeout \in Timeouts : Start(c, q, risks, timeout)
             \/ Approve(c, q)
             \/ CancelRun(c, q)
             \/ Retry(c, q)
      PROVE  Stays
  BY <1>1, <1>8 DEF Start, Approve, CancelRun, Retry, Approvable, Retryable, Dispatch, Save
<1>9. ASSUME NEW x \in Report, AgentReports(x)
      PROVE  Stays
  BY <1>9 DEF AgentReports
<1>10. ASSUME NEW x \in Report, NEW q \in Runs,
              \/ RecordAgentProgress(q, x)
              \/ CompleteAgentJob(q, x)
              \/ FailAgentJob(q, x)
              \/ \E c \in Slots : FailAndRetry(c, q, x)
       PROVE  Stays
  <2>1. Accepts(q, x) /\ \E record : Save(q, record)
    BY <1>10 DEF RecordAgentProgress, CompleteAgentJob, FailAgentJob, FailAndRetry, Dispatch
  <2> QED
    BY <1>1, <2>1 DEF Accepts, Save
<1>11. CASE Tick \/ UNCHANGED runVars
  BY <1>11 DEF Tick, runVars
<1> QED
  BY <1>2, <1>3, <1>5, <1>6, <1>7, <1>8, <1>9, <1>10, <1>11
     DEF OrchestratorNext, PortNext, ResumeNext, UserNext, AgentReportNext

\* A handler that resumes after the dispatcher answered, a sweep with an old snapshot, a
\* repeated report: none of them changes a run that has succeeded or was cancelled.
THEOREM SucceededOrCancelledIsFinal ==
  ASSUME ~ Overlap
  PROVE  OrchestratorSpec => FinalRunsStay
<1>0. OrchestratorConstants
  BY OrchestratorAssumption DEF OrchestratorConstants
<1>1. OrchestratorInit => OrchestratorInv
  BY <1>0, OrchestratorInitInv
<1>2. OrchestratorInv /\ [OrchestratorNext]_runVars => OrchestratorInv'
  BY <1>0, OrchestratorNextInv
<1>3. OrchestratorInv /\ [OrchestratorNext]_runVars =>
        [\A r \in Runs : runs[r].status \in FinalStatuses => runs'[r].status = runs[r].status]_runVars
  BY <1>0, FinalRunStays
<1> QED
  BY <1>1, <1>2, <1>3, PTL DEF OrchestratorSpec, FinalRunsStay

USE BoundsAssumption

-----------------------------------------------------------------------------
(* The inductive invariant *)

StartLabels == {"start.steps", "start.approval", "start.hold", "start.queue"}
ProgressLabels == {"progress.read", "progress.start", "progress.step"}

Starting(h) == handlers[h] # None /\ handlers[h].at \in StartLabels

\* Nothing is under way about a run that was not inserted, and nothing but its
\* insertion, or a cancellation that took it for queued, about a pending one.
Untouched ==
  /\ run.status \in {"none", "pending"} =>
       run.attempt = 0 /\ \A a \in Attempts : jobs[a] = "none"
  /\ run.status = "none" => \A h \in Handlers : handlers[h] = None
  /\ run.status = "pending" =>
       \A h \in Handlers : handlers[h] # None => handlers[h].at \in StartLabels \cup {"cancel.run"}

\* One handler inserts the run, and nobody else moves the run before it has.
StartIsAlone ==
  /\ \A h \in Handlers : Starting(h) => run.status = "pending"
  /\ \A h, g \in Handlers : Starting(h) /\ Starting(g) => h = g

\* A progress report gives its step one of the two statuses an Agent may name; a
\* cancellation expects a status the user was shown.
Remembered ==
  \A h \in Handlers : handlers[h] # None =>
    /\ handlers[h].at \in ProgressLabels => handlers[h].seen \in {"running", "succeeded"}
    /\ handlers[h].at = "cancel.run" => handlers[h].seen \in Active

Control == Untouched /\ StartIsAlone /\ Remembered

IInv == TypeOK /\ Control

HandlerTable == [Handlers -> Handler \cup {None}]
RunRows == [status : Statuses, attempt : 0 .. MaxAttempts, overdue : BOOLEAN]
StepRows == [Nodes -> {"none", "succeeded", "cancelled"} \cup OpenStep]
JobStatuses == {"none", "succeeded", "failed", "cancelled"} \cup OpenJob
JobRows == [Attempts -> JobStatuses]

LEMMA Bounds == 0 \in 0 .. MaxAttempts /\ 1 \in 0 .. MaxAttempts /\ 0 \in 0 .. MaxCrashes /\ 1 \in Attempts
  BY DEF Attempts

LEMMA AllStepsTyped ==
  AllSteps("none") \in StepRows /\ AllSteps("pending") \in StepRows
  BY DEF AllSteps, StepRows, OpenStep

LEMMA InitIInv == Init => IInv
<1> SUFFICES ASSUME Init PROVE IInv
  OBVIOUS
<1>1. TypeOK
  <2>1. run \in [status : Statuses, attempt : 0 .. MaxAttempts, overdue : BOOLEAN]
    BY Bounds DEF Init, Statuses
  <2>2. steps \in [Attempts -> StepRows]
    BY AllStepsTyped DEF Init
  <2> QED
    BY <2>1, <2>2, Bounds DEF Init, TypeOK, StepRows
<1>2. Control
  BY DEF Init, Control, Untouched, StartIsAlone, Remembered, Starting
<1> QED
  BY <1>1, <1>2 DEF IInv

-----------------------------------------------------------------------------
(* Handlers *)

\* What a handler may be put into outside startProductionRun.
Polite(x) ==
  x # None =>
    /\ x.at \notin StartLabels
    /\ x.at \in ProgressLabels => x.seen \in {"running", "succeeded"}
    /\ x.at = "cancel.run" => x.seen \in Active

\* h is past the insertion of the run, or is the handler that inserts it.
Past(h) == run.status \notin {"none", "pending"} \/ Starting(h)

LEMMA BeginTyped ==
  ASSUME TypeOK, NEW h \in Handlers, NEW label \in Labels, NEW seen \in Statuses,
         NEW attempt \in 0 .. MaxAttempts, NEW node \in Nodes \cup {None},
         Begin(h, label, seen, attempt, node)
  PROVE  handlers' \in HandlerTable
  BY DEF HandlerTable, TypeOK, Begin, Handler

LEMMA GotoTyped ==
  ASSUME TypeOK, NEW h \in Handlers, handlers[h] # None, NEW label \in Labels, Goto(h, label)
  PROVE  handlers' \in HandlerTable
<1>1. handlers[h] \in Handler
  BY DEF TypeOK
<1>2. [handlers[h] EXCEPT !.at = label] \in Handler
  BY <1>1 DEF Handler
<1> QED
  BY <1>2 DEF HandlerTable, TypeOK, Goto

LEMMA EndTyped ==
  ASSUME TypeOK, NEW h \in Handlers, End(h)
  PROVE  handlers' \in HandlerTable
  BY DEF HandlerTable, TypeOK, End

-----------------------------------------------------------------------------
(* transition_workflow_run *)

\* A transition out of a pending run is its first attempt; every other one that
\* raises the attempt is within the bound.
LEMMA NextAttemptTyped ==
  ASSUME TypeOK, Untouched, NEW from, NEW to, Possible(from, to)
  PROVE  NextAttempt(from, to) \in 0 .. MaxAttempts
<1>1. run.attempt \in 0 .. MaxAttempts
  BY DEF TypeOK
<1>2. CASE from = "pending"
  BY <1>1, <1>2 DEF NextAttempt, Untouched, Possible
<1>3. CASE from \in {"failed", "timed_out"}
  BY <1>1, <1>3 DEF NextAttempt, Possible
<1>4. CASE from \notin {"pending", "failed", "timed_out"}
  BY <1>1, <1>4 DEF NextAttempt
<1> QED
  BY <1>2, <1>3, <1>4

LEMMA TransitionTyped ==
  ASSUME TypeOK, Untouched, NEW from, NEW to, Transition(from, to)
  PROVE  /\ run' \in RunRows
         /\ jobs' \in JobRows
         /\ run.status \notin {"none", "deleted", "succeeded", "cancelled"}
         /\ run'.status \notin {"none", "deleted", "pending"}
         /\ run.status = from /\ run'.status = to
<1>1. NextAttempt(from, to) \in 0 .. MaxAttempts
  BY NextAttemptTyped DEF Transition
<1>2. to \in Statuses
  BY DEF Transition, Possible, Legal, Statuses, Active
<1>3. run' \in RunRows
  BY <1>1, <1>2 DEF RunRows, TypeOK, Transition
<1>4. \A a \in Attempts : Closed(jobs[a]) \in JobStatuses /\ jobs[a] \in JobStatuses
  BY DEF TypeOK, Closed, JobStatuses
<1>5. jobs' \in JobRows
  BY <1>4 DEF JobRows, Transition, TypeOK, JobStatuses
<1>6. run.status = from /\ run'.status = to
  BY DEF Transition, Possible, TypeOK
<1>7. from \notin {"none", "deleted", "succeeded", "cancelled"} /\ to \notin {"none", "deleted", "pending"}
  BY DEF Transition, Possible, Legal
<1> QED
  BY <1>3, <1>5, <1>6, <1>7

-----------------------------------------------------------------------------
(* The control part of the invariant *)

LEMMA LaterIsPast ==
  ASSUME IInv, NEW h \in Handlers, handlers[h] # None,
         handlers[h].at \notin StartLabels \cup {"cancel.run"}
  PROVE  run.status \notin {"none", "pending"}
  BY DEF IInv, Control, Untouched

LEMMA PoliteControl ==
  ASSUME IInv, NEW h \in Handlers, NEW x, Polite(x), handlers' = [handlers EXCEPT ![h] = x],
         Past(h), run'.status \notin {"none", "pending"}
  PROVE  Control'
<1>1. \A g \in Handlers : handlers'[g] = IF g = h THEN x ELSE handlers[g]
  BY DEF IInv, TypeOK
<1>2. \A g \in Handlers : Starting(g) => g = h
  BY DEF IInv, Control, StartIsAlone, Past
<1>3. \A g \in Handlers : ~ Starting(g)'
  BY <1>1, <1>2 DEF Starting, Polite
<1>4. Remembered'
  BY <1>1 DEF IInv, Control, Remembered, Polite
<1> QED
  BY <1>3, <1>4 DEF Control, Untouched, StartIsAlone

\* A handler may disappear at any point.
LEMMA EndKeepsControl ==
  ASSUME IInv, NEW h \in Handlers, End(h), UNCHANGED <<run, jobs>>
  PROVE  handlers' \in HandlerTable /\ Control'
<1>1. \A g \in Handlers : handlers'[g] = IF g = h THEN None ELSE handlers[g]
  BY DEF IInv, TypeOK, End
<1>2. Untouched'
  BY <1>1 DEF IInv, Control, Untouched
<1>3. StartIsAlone'
  BY <1>1 DEF IInv, Control, StartIsAlone, Starting
<1>4. Remembered'
  BY <1>1 DEF IInv, Control, Remembered
<1> QED
  BY <1>2, <1>3, <1>4, EndTyped DEF Control, IInv

LEMMA EndControl ==
  ASSUME IInv, NEW h \in Handlers, End(h), Past(h), run'.status \notin {"none", "pending"}
  PROVE  handlers' \in HandlerTable /\ Control'
<1>1. Polite(None)
  BY DEF Polite
<1>2. Control'
  BY <1>1, PoliteControl DEF End
<1> QED
  BY <1>2, EndTyped DEF IInv

LEMMA GotoControl ==
  ASSUME IInv, NEW h \in Handlers, handlers[h] # None,
         NEW label \in Labels \ (StartLabels \cup {"cancel.run"}),
         label \in ProgressLabels => handlers[h].at \in ProgressLabels,
         Goto(h, label), Past(h), run'.status \notin {"none", "pending"}
  PROVE  handlers' \in HandlerTable /\ Control'
<1> DEFINE x == [handlers[h] EXCEPT !.at = label]
<1>1. handlers[h] \in Handler
  BY DEF IInv, TypeOK
<1>2. x.at = label /\ x.seen = handlers[h].seen
  BY <1>1 DEF Handler
<1>3. Polite(x)
  BY <1>2 DEF Polite, IInv, Control, Remembered
<1>4. handlers' = [handlers EXCEPT ![h] = x]
  BY DEF Goto
<1>5. Control'
  BY <1>3, <1>4, PoliteControl
<1> QED
  BY <1>5, GotoTyped DEF IInv

LEMMA BeginControl ==
  ASSUME IInv, NEW h \in Handlers, NEW label \in Labels \ StartLabels, NEW seen \in Statuses,
         NEW attempt \in 0 .. MaxAttempts, NEW node \in Nodes \cup {None},
         label \in ProgressLabels => seen \in {"running", "succeeded"},
         label = "cancel.run" => seen \in Active,
         Begin(h, label, seen, attempt, node),
         run.status \notin {"none", "pending"}, run'.status \notin {"none", "pending"}
  PROVE  handlers' \in HandlerTable /\ Control'
<1> DEFINE x == [at |-> label, seen |-> seen, attempt |-> attempt, node |-> node]
<1>1. Polite(x)
  BY DEF Polite
<1>2. Control'
  BY <1>1, PoliteControl DEF Begin, Past
<1> QED
  BY <1>2, BeginTyped DEF IInv

-----------------------------------------------------------------------------
(* The steps that call transition_workflow_run *)

\* What a step leaves in the three tables the control is about.
Moved == handlers' \in HandlerTable /\ run' \in RunRows /\ jobs' \in JobRows /\ Control'

LEMMA ConflictMoved ==
  ASSUME IInv, NEW h \in Handlers, NEW from, NEW to, Conflict(h, from, to)
  PROVE  Moved
<1>1. handlers' \in HandlerTable /\ Control'
  BY EndKeepsControl DEF Conflict
<1> QED
  BY <1>1 DEF Moved, Conflict, IInv, TypeOK, RunRows, JobRows, JobStatuses

LEMMA LastTransitionMoved ==
  ASSUME IInv, NEW h \in Handlers, NEW from, NEW to, LastTransition(h, from, to),
         Past(h) \/ from # "pending"
  PROVE  Moved
<1>1. CASE Transition(from, to) /\ End(h)
  <2>1. Past(h)
    BY <1>1, TransitionTyped DEF Past, IInv, Control
  <2> QED
    BY <1>1, <2>1, TransitionTyped, EndControl DEF Moved, IInv, Control
<1>2. CASE Conflict(h, from, to)
  BY <1>2, ConflictMoved
<1> QED
  BY <1>1, <1>2 DEF LastTransition

LEMMA MidTransitionMoved ==
  ASSUME IInv, NEW h \in Handlers, handlers[h] # None, NEW from, NEW to,
         NEW label \in Labels \ (StartLabels \cup {"cancel.run"}),
         label \in ProgressLabels => handlers[h].at \in ProgressLabels,
         MidTransition(h, from, to, label), Past(h)
  PROVE  Moved
<1>1. CASE Transition(from, to) /\ Goto(h, label)
  BY <1>1, TransitionTyped, GotoControl DEF Moved, IInv, Control
<1>2. CASE Conflict(h, from, to)
  BY <1>2, ConflictMoved
<1> QED
  BY <1>1, <1>2 DEF MidTransition

LEMMA QueueTransitionMoved ==
  ASSUME IInv, NEW h \in Handlers, handlers[h] # None, NEW from,
         NEW label \in Labels \ (StartLabels \cup ProgressLabels \cup {"cancel.run"}),
         QueueTransition(h, from, label), Past(h)
  PROVE  Moved
<1>1. ASSUME Transition(from, "queued"),
             handlers' = [handlers EXCEPT ![h].at = label, ![h].attempt = NextAttempt(from, "queued")]
      PROVE  Moved
  <2> DEFINE x == [handlers[h] EXCEPT !.at = label, !.attempt = NextAttempt(from, "queued")]
  <2>1. handlers[h] \in Handler
    BY DEF IInv, TypeOK
  <2>2. NextAttempt(from, "queued") \in 0 .. MaxAttempts
    BY <1>1, NextAttemptTyped DEF Transition, IInv, Control
  <2>3. x \in Handler /\ x.at = label
    BY <2>1, <2>2 DEF Handler
  <2>4. handlers' = [handlers EXCEPT ![h] = x]
    BY <1>1
  <2>5. handlers' \in HandlerTable
    BY <2>3, <2>4 DEF IInv, TypeOK, HandlerTable
  <2>6. Polite(x)
    BY <2>3 DEF Polite
  <2>7. Control'
    BY <1>1, <2>4, <2>6, PoliteControl, TransitionTyped DEF IInv, Control
  <2> QED
    BY <1>1, <2>5, <2>7, TransitionTyped DEF Moved, IInv, Control
<1>2. CASE Conflict(h, from, "queued")
  BY <1>2, ConflictMoved
<1> QED
  BY <1>1, <1>2 DEF QueueTransition

-----------------------------------------------------------------------------
(* The other steps *)

ApprovalRows == [status : {"none", "pending", "approved", "rejected", "expired"}, late : BOOLEAN]
StepTable == [Attempts -> StepRows]

LEMMA Assembled ==
  ASSUME IInv, Moved, risky' = risky, approval' \in ApprovalRows, steps' \in StepTable,
         revoked' \in BOOLEAN, crashes' = crashes
  PROVE  IInv'
<1>1. TypeOK'
  BY DEF IInv, TypeOK, Moved, HandlerTable, RunRows, JobRows, JobStatuses, ApprovalRows,
         StepTable, StepRows
<1> QED
  BY <1>1 DEF IInv, Moved

LEMMA MovedAlone ==
  ASSUME IInv, Moved, UNCHANGED <<risky, approval, steps, revoked, crashes>>
  PROVE  IInv'
  BY Assembled DEF IInv, TypeOK, ApprovalRows, StepTable, StepRows

LEMMA EndMoved ==
  ASSUME IInv, NEW h \in Handlers, End(h), UNCHANGED <<run, jobs>>
  PROVE  Moved
  BY EndKeepsControl DEF Moved, IInv, TypeOK, RunRows, JobRows, JobStatuses

LEMMA GotoMoved ==
  ASSUME IInv, NEW h \in Handlers, handlers[h] # None,
         handlers[h].at \notin StartLabels \cup {"cancel.run"},
         NEW label \in Labels \ (StartLabels \cup {"cancel.run"}),
         label \in ProgressLabels => handlers[h].at \in ProgressLabels,
         Goto(h, label), run'.status = run.status, run' \in RunRows, jobs' \in JobRows
  PROVE  Moved
<1>1. run.status \notin {"none", "pending"}
  BY LaterIsPast
<1> QED
  BY <1>1, GotoControl DEF Moved, Past

\* A step that only reads, decides and moves on.
LEMMA ReadMoved ==
  ASSUME IInv, NEW h \in Handlers, handlers[h] # None,
         handlers[h].at \notin StartLabels \cup {"cancel.run"},
         NEW label \in Labels \ (StartLabels \cup {"cancel.run"}),
         label \in ProgressLabels => handlers[h].at \in ProgressLabels,
         Goto(h, label), UNCHANGED <<run, jobs>>
  PROVE  Moved
  BY GotoMoved DEF IInv, TypeOK, RunRows, JobRows, JobStatuses

LEMMA BeginMoved ==
  ASSUME IInv, NEW h \in Handlers, NEW label \in Labels \ StartLabels, NEW seen \in Statuses,
         NEW attempt \in 0 .. MaxAttempts, NEW node \in Nodes \cup {None},
         label \in ProgressLabels => seen \in {"running", "succeeded"},
         label = "cancel.run" => seen \in Active,
         Begin(h, label, seen, attempt, node), UNCHANGED <<run, jobs>>,
         run.status \notin {"none", "pending"}
  PROVE  Moved
  BY BeginControl DEF Moved, IInv, TypeOK, RunRows, JobRows, JobStatuses

-----------------------------------------------------------------------------
(* startProductionRun *)

\* Before the insertion ends, h goes on to another of its calls.
LEMMA StartGoesOn ==
  ASSUME IInv, NEW h \in Handlers, Starting(h), NEW label \in StartLabels, Goto(h, label),
         UNCHANGED <<run, jobs>>
  PROVE  Moved
<1> DEFINE x == [handlers[h] EXCEPT !.at = label]
<1>1. handlers[h] \in Handler
  BY DEF IInv, TypeOK, Starting
<1>2. x.at = label
  BY <1>1 DEF Handler
<1>3. \A g \in Handlers : handlers'[g] = IF g = h THEN x ELSE handlers[g]
  BY DEF IInv, TypeOK, Goto
<1>4. run.status = "pending"
  BY DEF IInv, Control, StartIsAlone
<1>5. Untouched'
  BY <1>2, <1>3, <1>4 DEF IInv, Control, Untouched
<1>6. StartIsAlone'
  BY <1>3, <1>4 DEF IInv, Control, StartIsAlone, Starting
<1>7. Remembered'
  BY <1>2, <1>3 DEF IInv, Control, Remembered, StartLabels, ProgressLabels
<1>8. handlers' \in HandlerTable
  BY GotoTyped DEF IInv, Starting, StartLabels, Labels
<1> QED
  BY <1>5, <1>6, <1>7, <1>8 DEF Moved, Control, IInv, TypeOK, RunRows, JobRows, JobStatuses

LEMMA StartInsertKeeps ==
  ASSUME IInv, NEW h \in Handlers, StartInsert(h)
  PROVE  IInv'
<1> DEFINE x == [at |-> "start.steps", seen |-> "pending", attempt |-> 1, node |-> None]
<1>1. \A g \in Handlers : handlers'[g] = IF g = h THEN x ELSE None
  BY DEF IInv, TypeOK, Control, Untouched, StartInsert, Begin
<1>2. run' \in RunRows /\ run'.status = "pending" /\ run'.attempt = 0
  BY DEF IInv, TypeOK, Control, Untouched, StartInsert, RunRows, Statuses
<1>3. Untouched'
  BY <1>1, <1>2 DEF IInv, Control, Untouched, StartInsert, StartLabels
<1>4. StartIsAlone' /\ Remembered'
  BY <1>1, <1>2 DEF StartIsAlone, Remembered, Starting, ProgressLabels
<1>5. handlers' \in HandlerTable
  BY BeginTyped, Bounds DEF IInv, StartInsert, Labels, Statuses
<1>6. Moved
  BY <1>2, <1>3, <1>4, <1>5 DEF Moved, Control, StartInsert, IInv, TypeOK, JobRows, JobStatuses
<1> QED
  BY <1>6, MovedAlone DEF StartInsert

LEMMA StartKeeps ==
  ASSUME IInv, NEW h \in Handlers, StartNext(h)
  PROVE  IInv'
<1>1. CASE StartInsert(h)
  BY <1>1, StartInsertKeeps
<1>2. CASE StartSteps(h)
  <2>1. Moved
    BY <1>2, StartGoesOn DEF StartSteps, At, Starting, StartLabels
  <2>2. steps' \in StepTable
    BY <1>2, AllStepsTyped DEF StartSteps, IInv, TypeOK, StepTable, StepRows
  <2> QED
    BY <1>2, <2>1, <2>2, Assembled DEF StartSteps, IInv, TypeOK, ApprovalRows
<1>3. CASE StartApproval(h)
  <2>1. Moved
    BY <1>3, StartGoesOn DEF StartApproval, At, Starting, StartLabels
  <2>2. approval' \in ApprovalRows
    BY <1>3 DEF StartApproval, IInv, TypeOK, ApprovalRows
  <2> QED
    BY <1>3, <2>1, <2>2, Assembled DEF StartApproval, IInv, TypeOK, StepTable, StepRows
<1>4. CASE StartUndo(h)
  <2>1. Starting(h)
    BY <1>4 DEF StartUndo, At, Starting, StartLabels
  <2>2. run' \in RunRows /\ run'.status = "deleted"
    BY <1>4 DEF StartUndo, IInv, TypeOK, RunRows, Statuses
  <2>3. handlers' \in HandlerTable /\ Control'
    BY <1>4, <2>1, <2>2, EndControl DEF StartUndo, Past
  <2>4. steps' \in StepTable
    BY <1>4, AllStepsTyped DEF StartUndo, StepTable
  <2>5. Moved
    BY <1>4, <2>2, <2>3 DEF Moved, StartUndo, IInv, TypeOK, JobRows, JobStatuses
  <2> QED
    BY <1>4, <2>4, <2>5, Assembled DEF StartUndo, IInv, TypeOK, ApprovalRows
<1>5. CASE StartHold(h)
  BY <1>5, LastTransitionMoved, MovedAlone DEF StartHold, At, Past, Starting, StartLabels
<1>6. CASE StartQueue(h)
  <2>1. Moved
    BY <1>6, QueueTransitionMoved
       DEF StartQueue, At, Past, Starting, StartLabels, Labels, ProgressLabels
  <2> QED
    BY <1>6, <2>1, MovedAlone DEF StartQueue
<1> QED
  BY <1>1, <1>2, <1>3, <1>4, <1>5, <1>6 DEF StartNext

-----------------------------------------------------------------------------
(* enqueueProductionJob *)

\* Facts every later label has.
LEMMA LaterLabels ==
  /\ StartLabels \subseteq Labels /\ ProgressLabels \subseteq Labels
  /\ (Labels \ (StartLabels \cup {"cancel.run"})) \cap StartLabels = {}
  BY DEF StartLabels, ProgressLabels, Labels

LEMMA KeyTyped == \A n \in 0 .. MaxAttempts : Key(n) \in Attempts
  BY DEF Key, Attempts

LEMMA EnqueueKeeps ==
  ASSUME IInv, NEW h \in Handlers, EnqueueNext(h)
  PROVE  IInv'
<1> USE DEF StartLabels, ProgressLabels, Labels
<1>1. CASE JobInsert(h)
  <2>1. jobs' \in JobRows
    BY <1>1 DEF JobInsert, IInv, TypeOK, JobRows, JobStatuses, OpenJob
  <2>2. Moved
    BY <1>1, <2>1, GotoMoved DEF JobInsert, At, IInv, TypeOK, RunRows
  <2> QED
    BY <1>1, <2>2, MovedAlone DEF JobInsert
<1>2. CASE JobInsertFails(h)
  BY <1>2, ReadMoved, MovedAlone DEF JobInsertFails, At
<1>3. CASE JobAudit(h)
  BY <1>3, ReadMoved, EndMoved, MovedAlone DEF JobAudit, At
<1>4. CASE JobUndo(h)
  <2>1. jobs' \in JobRows
    BY <1>4 DEF JobUndo, IInv, TypeOK, JobRows, JobStatuses, OpenJob
  <2>2. Moved
    BY <1>4, <2>1, GotoMoved DEF JobUndo, At, IInv, TypeOK, RunRows
  <2> QED
    BY <1>4, <2>2, MovedAlone DEF JobUndo
<1>5. CASE Undo(h)
  BY <1>5, LastTransitionMoved, MovedAlone DEF Undo
<1> QED
  BY <1>1, <1>2, <1>3, <1>4, <1>5 DEF EnqueueNext

-----------------------------------------------------------------------------
(* resolveProductionRunApproval *)

LEMMA ResolveKeeps ==
  ASSUME IInv, NEW h \in Handlers, ResolveNext(h)
  PROVE  IInv'
<1> USE DEF StartLabels, ProgressLabels, Labels
<1>1. CASE Resolve(h)
  <2>1. PICK label \in {"expire.record", "approve.record", "reject.record"} :
          Begin(h, label, "awaiting_approval", 0, None)
    BY <1>1 DEF Resolve
  <2>2. Moved
    BY <1>1, <2>1, Bounds, BeginMoved DEF Resolve, Statuses, Active
  <2> QED
    BY <1>1, <2>2, MovedAlone DEF Resolve
<1>2. CASE Record(h)
  <2>1. PICK answer \in {<<"approve.record", "approved", "approve.queue">>,
                         <<"reject.record", "rejected", "reject.run">>} :
          /\ At(h, answer[1])
          /\ IF approval.status = "pending"
             THEN approval' = [approval EXCEPT !.status = answer[2]] /\ Goto(h, answer[3])
             ELSE UNCHANGED approval /\ End(h)
    BY <1>2 DEF Record
  <2>2. approval' \in ApprovalRows
    BY <2>1 DEF IInv, TypeOK, ApprovalRows
  <2>3. Moved
    <3>1. CASE approval.status = "pending" /\ answer[3] = "approve.queue"
      BY <1>2, <2>1, <3>1, ReadMoved DEF Record, At
    <3>2. CASE approval.status = "pending" /\ answer[3] = "reject.run"
      BY <1>2, <2>1, <3>2, ReadMoved DEF Record, At
    <3>3. CASE approval.status # "pending"
      BY <1>2, <2>1, <3>3, EndMoved DEF Record
    <3> QED
      BY <2>1, <3>1, <3>2, <3>3
  <2> QED
    BY <1>2, <2>2, <2>3, Assembled DEF Record, IInv, TypeOK, StepTable, StepRows
<1>3. CASE RecordExpiry(h)
  <2>1. approval' \in ApprovalRows
    BY <1>3 DEF RecordExpiry, IInv, TypeOK, ApprovalRows
  <2>2. Moved
    BY <1>3, ReadMoved DEF RecordExpiry, At
  <2> QED
    BY <1>3, <2>1, <2>2, Assembled DEF RecordExpiry, IInv, TypeOK, StepTable, StepRows
<1>4. CASE Expire(h)
  BY <1>4, LastTransitionMoved, MovedAlone DEF Expire
<1>5. CASE Reject(h)
  BY <1>5, LastTransitionMoved, MovedAlone DEF Reject
<1>6. CASE ApproveQueue(h)
  <2> SUFFICES Moved
    BY <1>6, MovedAlone DEF ApproveQueue
  <2>1. Past(h)
    BY <1>6, LaterIsPast DEF ApproveQueue, At, Past
  <2>2. CASE QueueTransition(h, "awaiting_approval", "approve.attempt")
    BY <1>6, <2>1, <2>2, QueueTransitionMoved DEF ApproveQueue, At
  <2>3. CASE Conflict(h, "awaiting_approval", "queued")
    BY <2>3, ConflictMoved
  <2>4. CASE Transition("awaiting_approval", "queued") /\ End(h)
    BY <2>4, LastTransitionMoved DEF LastTransition
  <2> QED
    BY <1>6, <2>2, <2>3, <2>4 DEF ApproveQueue
<1>7. CASE ApproveAttempt(h)
  <2> SUFFICES Moved
    BY <1>7, MovedAlone DEF ApproveAttempt
  <2>1. handlers[h] \in Handler
    BY <1>7 DEF ApproveAttempt, At, IInv, TypeOK
  <2>2. CASE run' = [run EXCEPT !.attempt = Key(handlers[h].attempt)] /\ Goto(h, "job.insert")
    <3>1. Key(handlers[h].attempt) \in 0 .. MaxAttempts
      BY <2>1, KeyTyped DEF Handler, Attempts
    <3>2. run' \in RunRows /\ run'.status = run.status
      BY <2>2, <3>1 DEF IInv, TypeOK, RunRows
    <3> QED
      BY <1>7, <2>2, <3>2, GotoMoved DEF ApproveAttempt, At, IInv, TypeOK, JobRows, JobStatuses
  <2>3. CASE UNCHANGED run /\ Goto(h, "undo")
    BY <1>7, <2>3, ReadMoved DEF ApproveAttempt, At
  <2> QED
    BY <1>7, <2>2, <2>3 DEF ApproveAttempt
<1> QED
  BY <1>1, <1>2, <1>3, <1>4, <1>5, <1>6, <1>7 DEF ResolveNext

-----------------------------------------------------------------------------
(* cancelProductionRun, sweepProductionRuns, retryProductionRun *)

\* A cancellation may be begun while the run is still pending: it is shown as queued.
LEMMA CancelReadKeeps ==
  ASSUME IInv, NEW h \in Handlers, CancelRead(h)
  PROVE  IInv'
<1> DEFINE x == [at |-> "cancel.run", seen |-> Shown, attempt |-> 0, node |-> None]
<1>1. Shown \in Active
  BY DEF CancelRead
<1>2. \A g \in Handlers : handlers'[g] = IF g = h THEN x ELSE handlers[g]
  BY DEF IInv, TypeOK, CancelRead, Begin
<1>3. Untouched'
  <2>1. run.status # "none"
    BY <1>1 DEF Shown, Active
  <2> QED
    BY <1>2, <2>1 DEF IInv, Control, Untouched, CancelRead
<1>4. StartIsAlone'
  BY <1>2 DEF IInv, Control, StartIsAlone, Starting, StartLabels, CancelRead
<1>5. Remembered'
  BY <1>1, <1>2 DEF IInv, Control, Remembered, ProgressLabels
<1>6. handlers' \in HandlerTable
  BY <1>1, Bounds, BeginTyped DEF IInv, CancelRead, Labels, Statuses
<1>7. Moved
  BY <1>3, <1>4, <1>5, <1>6
     DEF Moved, Control, CancelRead, IInv, TypeOK, RunRows, JobRows, JobStatuses
<1> QED
  BY <1>7, MovedAlone DEF CancelRead

LEMMA StopKeeps ==
  ASSUME IInv, NEW h \in Handlers, StopNext(h)
  PROVE  IInv'
<1> USE DEF StartLabels, ProgressLabels, Labels
<1>1. CASE CancelRead(h)
  BY <1>1, CancelReadKeeps
<1>2. CASE Cancel(h)
  <2>1. handlers[h].seen # "pending"
    BY <1>2 DEF Cancel, At, IInv, Control, Remembered, Active
  <2> QED
    BY <1>2, <2>1, LastTransitionMoved, MovedAlone DEF Cancel
<1>3. CASE SweepRead(h)
  <2>1. run.status \in Active /\ Active \subseteq Statuses
    BY <1>3 DEF SweepRead, Sweepable, Statuses
  <2>2. Moved
    BY <1>3, <2>1, Bounds, BeginMoved DEF SweepRead, Active
  <2> QED
    BY <1>3, <2>2, MovedAlone DEF SweepRead
<1>4. CASE Sweep(h)
  <2>1. Past(h)
    BY <1>4, LaterIsPast DEF Sweep, At, Past
  <2> QED
    BY <1>4, <2>1, LastTransitionMoved, MovedAlone DEF Sweep
<1> QED
  BY <1>1, <1>2, <1>3, <1>4 DEF StopNext

LEMMA RetryKeeps ==
  ASSUME IInv, NEW h \in Handlers, RetryNext(h)
  PROVE  IInv'
<1> USE DEF StartLabels, ProgressLabels, Labels
<1>1. CASE RetryRead(h)
  <2>1. Moved
    BY <1>1, Bounds, BeginMoved DEF RetryRead, Statuses
  <2> QED
    BY <1>1, <2>1, MovedAlone DEF RetryRead
<1>2. CASE RetryQueue(h)
  <2>1. Past(h)
    BY <1>2, LaterIsPast DEF RetryQueue, At, Past
  <2>2. Moved
    BY <1>2, <2>1, QueueTransitionMoved DEF RetryQueue, At
  <2> QED
    BY <1>2, <2>2, MovedAlone DEF RetryQueue
<1>3. CASE RetryTimeout(h)
  <2> SUFFICES Moved
    BY <1>3, MovedAlone DEF RetryTimeout
  <2>1. ASSUME run' = [run EXCEPT !.overdue = FALSE],
               NEW label \in {"retry.steps", "undo"}, Goto(h, label)
        PROVE  Moved
    <3>1. run' \in RunRows /\ run'.status = run.status
      BY <2>1 DEF IInv, TypeOK, RunRows
    <3> QED
      BY <1>3, <2>1, <3>1, GotoMoved DEF RetryTimeout, At, IInv, TypeOK, JobRows, JobStatuses
  <2>2. CASE UNCHANGED run /\ Goto(h, "undo")
    BY <1>3, <2>2, ReadMoved DEF RetryTimeout, At
  <2> QED
    BY <1>3, <2>1, <2>2 DEF RetryTimeout
<1>4. CASE RetrySteps(h)
  <2>1. Moved
    <3>1. CASE Goto(h, "job.insert")
      BY <1>4, <3>1, ReadMoved DEF RetrySteps, At
    <3>2. CASE End(h)
      BY <1>4, <3>2, EndMoved DEF RetrySteps
    <3> QED
      BY <1>4, <3>1, <3>2 DEF RetrySteps
  <2>2. steps' \in StepTable
    BY <1>4, AllStepsTyped DEF RetrySteps, IInv, TypeOK, StepTable, StepRows
  <2> QED
    BY <1>4, <2>1, <2>2, Assembled DEF RetrySteps, IInv, TypeOK, ApprovalRows
<1>5. CASE RetryStepsFails(h)
  BY <1>5, ReadMoved, MovedAlone DEF RetryStepsFails, At
<1> QED
  BY <1>1, <1>2, <1>3, <1>4, <1>5 DEF RetryNext

-----------------------------------------------------------------------------
(* The handlers of the Agent's reports *)

LEMMA ReportKeeps ==
  ASSUME IInv, NEW h \in Handlers, ReportNext(h)
  PROVE  IInv'
<1> USE DEF StartLabels, ProgressLabels, Labels
<1>1. CASE ProgressRead(h)
  <2> SUFFICES Moved
    BY <1>1, MovedAlone DEF ProgressRead
  <2>1. ASSUME NEW label \in {"progress.start", "progress.step"}, Goto(h, label)
        PROVE  Moved
    BY <1>1, <2>1, ReadMoved DEF ProgressRead, At
  <2>2. CASE End(h)
    BY <1>1, <2>2, EndMoved DEF ProgressRead
  <2> QED
    BY <1>1, <2>1, <2>2 DEF ProgressRead
<1>2. CASE ProgressStart(h)
  <2>1. Past(h)
    BY <1>2, LaterIsPast DEF ProgressStart, At, Past
  <2>2. Moved
    BY <1>2, <2>1, MidTransitionMoved DEF ProgressStart, At
  <2> QED
    BY <1>2, <2>2, MovedAlone DEF ProgressStart
<1>3. CASE ProgressStep(h)
  <2>1. Moved
    BY <1>3, EndMoved DEF ProgressStep
  <2>2. handlers[h].seen \in {"running", "succeeded"}
    BY <1>3 DEF ProgressStep, At, IInv, Control, Remembered
  <2>3. \A row \in StepRows : \A n : [row EXCEPT ![n] = IF @ \in OpenStep THEN handlers[h].seen ELSE @] \in StepRows
    BY <2>2 DEF StepRows, OpenStep
  <2>4. steps \in StepTable
    BY DEF IInv, TypeOK, StepTable, StepRows
  <2>5. steps' \in StepTable
    BY <1>3, <2>3, <2>4 DEF ProgressStep, StepTable
  <2> QED
    BY <1>3, <2>1, <2>5, Assembled DEF ProgressStep, IInv, TypeOK, ApprovalRows
<1>4. CASE FinishRead(h)
  <2> SUFFICES Moved
    BY <1>4, MovedAlone DEF FinishRead
  <2>1. ASSUME NEW label \in {"finish.start", "finish.run"}, Goto(h, label)
        PROVE  Moved
    BY <1>4, <2>1, ReadMoved DEF FinishRead, At
  <2>2. CASE End(h)
    BY <1>4, <2>2, EndMoved DEF FinishRead
  <2> QED
    BY <1>4, <2>1, <2>2 DEF FinishRead
<1>5. CASE FinishStart(h)
  <2>1. Past(h)
    BY <1>5, LaterIsPast DEF FinishStart, At, Past
  <2>2. Moved
    BY <1>5, <2>1, MidTransitionMoved DEF FinishStart, At
  <2> QED
    BY <1>5, <2>2, MovedAlone DEF FinishStart
<1>6. CASE FinishReview(h)
  <2> SUFFICES Moved
    BY <1>6, MovedAlone DEF FinishReview
  <2>1. CASE Goto(h, "finish.run")
    BY <1>6, <2>1, ReadMoved DEF FinishReview, At
  <2>2. CASE End(h)
    BY <1>6, <2>2, EndMoved DEF FinishReview
  <2> QED
    BY <1>6, <2>1, <2>2 DEF FinishReview
<1>7. CASE Finish(h)
  BY <1>7, LastTransitionMoved, MovedAlone DEF Finish
<1> QED
  BY <1>1, <1>2, <1>3, <1>4, <1>5, <1>6, <1>7 DEF ReportNext

-----------------------------------------------------------------------------
(* The Agent, the device and the clock *)

\* A run that has a job is past its insertion.
LEMMA JobMeansPast ==
  ASSUME IInv, NEW a \in Attempts, jobs[a] # "none"
  PROVE  run.status \notin {"none", "pending"}
  BY DEF IInv, Control, Untouched

LEMMA AgentKeeps ==
  ASSUME IInv, AgentNext
  PROVE  IInv'
<1> USE DEF StartLabels, ProgressLabels, Labels
<1>1. ASSUME NEW a \in Attempts, Claim(a)
      PROVE  IInv'
  <2>1. jobs' \in JobRows
    BY <1>1 DEF Claim, IInv, TypeOK, JobRows, JobStatuses, OpenJob
  <2>2. Control'
    BY <1>1, JobMeansPast
       DEF Claim, IInv, Control, Untouched, StartIsAlone, Starting, Remembered
  <2> QED
    BY <1>1, <2>1, <2>2, MovedAlone DEF Claim, Moved, IInv, TypeOK, HandlerTable, RunRows
<1>2. ASSUME NEW a \in Attempts, NEW h \in Handlers, NEW n \in Nodes,
             NEW status \in {"running", "succeeded"}, AgentProgress(h, a, n, status)
      PROVE  IInv'
  <2>1. run.status \notin {"none", "pending"}
    BY <1>2, JobMeansPast DEF AgentProgress
  <2>2. Moved
    BY <1>2, <2>1, BeginMoved DEF AgentProgress, Statuses, Active, Attempts
  <2> QED
    BY <1>2, <2>2, MovedAlone DEF AgentProgress
<1>3. ASSUME NEW a \in Attempts, NEW h \in Handlers,
             NEW outcome \in {"succeeded", "failed"}, AgentFinish(h, a, outcome)
      PROVE  IInv'
  <2>1. run.status \notin {"none", "pending"}
    BY <1>3, JobMeansPast DEF AgentFinish
  <2>2. handlers' \in HandlerTable /\ Control'
    BY <1>3, <2>1, BeginControl DEF AgentFinish, Statuses, Active, Attempts
  <2>3. jobs' \in JobRows
    BY <1>3 DEF AgentFinish, IInv, TypeOK, JobRows, JobStatuses, OpenJob
  <2>4. Moved
    BY <1>3, <2>2, <2>3 DEF Moved, AgentFinish, IInv, TypeOK, RunRows
  <2> QED
    BY <1>3, <2>4, MovedAlone DEF AgentFinish
<1> QED
  BY <1>1, <1>2, <1>3 DEF AgentNext

LEMMA RevokeKeeps ==
  ASSUME IInv, RevokeDevice
  PROVE  IInv'
<1>1. jobs' \in JobRows
  <2>1. \A a \in Attempts : Closed(jobs[a]) \in JobStatuses
    BY DEF IInv, TypeOK, Closed, JobStatuses
  <2> QED
    BY <2>1 DEF RevokeDevice, JobRows
<1>2. run' \in RunRows
  BY DEF RevokeDevice, IInv, TypeOK, RunRows, Statuses
<1>3. steps' \in StepTable
  BY DEF RevokeDevice, IInv, TypeOK, StepTable, StepRows
<1>4. run'.status = run.status \/ (run.status \in {"queued", "running"} /\ run'.status = "cancelled")
  BY DEF RevokeDevice, IInv, TypeOK
<1>5. Untouched'
  BY <1>4 DEF RevokeDevice, IInv, Control, Untouched, Closed, OpenJob
<1>6. StartIsAlone' /\ Remembered'
  BY <1>4 DEF RevokeDevice, IInv, Control, StartIsAlone, Starting, Remembered
<1>7. Moved
  BY <1>1, <1>2, <1>5, <1>6 DEF Moved, Control, RevokeDevice, IInv, TypeOK, HandlerTable
<1> QED
  BY <1>3, <1>7, Assembled DEF RevokeDevice, IInv, TypeOK, ApprovalRows

LEMMA ClockKeeps ==
  ASSUME IInv, RunLate \/ ApprovalLate
  PROVE  IInv'
<1>1. CASE RunLate
  <2>1. run' \in RunRows /\ run'.status = run.status /\ run'.attempt = run.attempt
    BY <1>1 DEF RunLate, IInv, TypeOK, RunRows
  <2>2. Control'
    BY <1>1, <2>1 DEF RunLate, IInv, Control, Untouched, StartIsAlone, Starting, Remembered
  <2> QED
    BY <1>1, <2>1, <2>2, MovedAlone
       DEF RunLate, Moved, IInv, TypeOK, HandlerTable, JobRows, JobStatuses
<1>2. CASE ApprovalLate
  <2>1. approval' \in ApprovalRows
    BY <1>2 DEF ApprovalLate, IInv, TypeOK, ApprovalRows
  <2>2. Control'
    BY <1>2 DEF ApprovalLate, IInv, Control, Untouched, StartIsAlone, Starting, Remembered
  <2>3. Moved
    BY <1>2, <2>2 DEF ApprovalLate, Moved, IInv, TypeOK, HandlerTable, RunRows, JobRows, JobStatuses
  <2> QED
    BY <1>2, <2>1, <2>3, Assembled DEF ApprovalLate, IInv, TypeOK, StepTable, StepRows
<1> QED
  BY <1>1, <1>2

-----------------------------------------------------------------------------
(* The theorems *)

LEMMA CrashKeeps ==
  ASSUME IInv, NEW h \in Handlers, Crash(h)
  PROVE  IInv'
<1>1. Moved
  BY EndMoved DEF Crash
<1>2. crashes' \in 0 .. MaxCrashes
  BY DEF Crash, IInv, TypeOK
<1> QED
  BY <1>1, <1>2 DEF Crash, IInv, TypeOK, Moved, HandlerTable, RunRows, JobRows, JobStatuses

LEMMA NextKeeps ==
  ASSUME IInv, [Next]_vars
  PROVE  IInv'
<1>1. CASE UNCHANGED vars
  BY <1>1 DEF vars, IInv, TypeOK, Control, Untouched, StartIsAlone, Starting, Remembered
<1>2. ASSUME NEW h \in Handlers, HandlerNext(h) \/ Crash(h)
      PROVE  IInv'
  BY <1>2, StartKeeps, EnqueueKeeps, ResolveKeeps, StopKeeps, RetryKeeps, ReportKeeps, CrashKeeps
     DEF HandlerNext
<1> QED
  BY <1>1, <1>2, AgentKeeps, RevokeKeeps, ClockKeeps DEF Next

LEMMA Inductive == Spec => []IInv
<1>1. Init => IInv
  BY InitIInv
<1>2. IInv /\ [Next]_vars => IInv'
  BY NextKeeps
<1> QED
  BY <1>1, <1>2, PTL DEF Spec

\* Every row and every handler of production-run-server.ts keeps its type: in
\* particular an attempt never passes max_attempts, whatever handlers overlap.
THEOREM TypeCorrect == Spec => []TypeOK
<1>1. IInv => TypeOK
  BY DEF IInv
<1> QED
  BY <1>1, Inductive, PTL

-----------------------------------------------------------------------------
(* A final status *)

LEMMA TransitionIsNotFinal ==
  ASSUME IInv, NEW h \in Handlers, NEW from, NEW to, NEW label,
         LastTransition(h, from, to) \/ MidTransition(h, from, to, label)
           \/ (QueueTransition(h, from, label) /\ to = "queued") \/ Transition(from, to)
  PROVE  run.status \in {"succeeded", "cancelled"} => run'.status = run.status
<1>1. CASE Transition(from, to)
  BY <1>1, TransitionTyped DEF IInv, Control
<1>2. CASE Conflict(h, from, to)
  BY <1>2 DEF Conflict
<1> QED
  BY <1>1, <1>2 DEF LastTransition, MidTransition, QueueTransition

LEMMA FinalKept ==
  ASSUME IInv, [Next]_vars, run.status \in {"succeeded", "cancelled"}
  PROVE  run'.status = run.status
<1>1. ASSUME NEW h \in Handlers, StartNext(h)
      PROVE  run'.status = run.status
  <2>1. ~ Starting(h)
    BY DEF IInv, Control, StartIsAlone
  <2> QED
    BY <1>1, <2>1 DEF StartNext, StartInsert, StartSteps, StartApproval, StartUndo, StartHold,
                      StartQueue, At, Starting, StartLabels
<1>2. ASSUME NEW h \in Handlers, EnqueueNext(h)
      PROVE  run'.status = run.status
  BY <1>2, TransitionIsNotFinal DEF EnqueueNext, JobInsert, JobInsertFails, JobAudit, JobUndo, Undo
<1>3. ASSUME NEW h \in Handlers, ResolveNext(h)
      PROVE  run'.status = run.status
  <2>1. CASE ApproveQueue(h)
    BY <2>1, TransitionIsNotFinal DEF ApproveQueue, Conflict
  <2>2. CASE ApproveAttempt(h)
    BY <2>2 DEF ApproveAttempt, IInv, TypeOK
  <2> QED
    BY <1>3, <2>1, <2>2, TransitionIsNotFinal
       DEF ResolveNext, Resolve, Record, RecordExpiry, Expire, Reject
<1>4. ASSUME NEW h \in Handlers, StopNext(h)
      PROVE  run'.status = run.status
  BY <1>4, TransitionIsNotFinal DEF StopNext, CancelRead, Cancel, SweepRead, Sweep
<1>5. ASSUME NEW h \in Handlers, RetryNext(h)
      PROVE  run'.status = run.status
  <2>1. CASE RetryTimeout(h)
    BY <2>1 DEF RetryTimeout, IInv, TypeOK
  <2>2. CASE RetryQueue(h)
    BY <2>2, TransitionIsNotFinal DEF RetryQueue
  <2> QED
    BY <1>5, <2>1, <2>2 DEF RetryNext, RetryRead, RetrySteps, RetryStepsFails
<1>6. ASSUME NEW h \in Handlers, ReportNext(h)
      PROVE  run'.status = run.status
  BY <1>6, TransitionIsNotFinal
     DEF ReportNext, ProgressRead, ProgressStart, ProgressStep, FinishRead, FinishStart,
         FinishReview, Finish
<1>7. CASE AgentNext
  BY <1>7 DEF AgentNext, Claim, AgentProgress, AgentFinish
<1>8. CASE RevokeDevice \/ RunLate \/ ApprovalLate
  BY <1>8 DEF RevokeDevice, RunLate, ApprovalLate, IInv, TypeOK
<1>9. ASSUME NEW h \in Handlers, Crash(h)
      PROVE  run'.status = run.status
  BY <1>9 DEF Crash
<1>10. CASE UNCHANGED vars
  BY <1>10 DEF vars
<1> QED
  BY <1>1, <1>2, <1>3, <1>4, <1>5, <1>6, <1>7, <1>8, <1>9, <1>10 DEF Next, HandlerNext

\* No handler, however stale what it has read and however many others overlap with
\* it, revives a run that succeeded or was cancelled.
THEOREM FinalStays == Spec => FinalIsFinal
<1>1. IInv /\ [Next]_vars => [run.status \in {"succeeded", "cancelled"} => run'.status = run.status]_vars
  BY FinalKept
<1> QED
  BY <1>1, Inductive, PTL DEF Spec, FinalIsFinal

-----------------------------------------------------------------------------
(* A revoked device *)

\* No job is opened that was not open.
NoneOpened == \A a \in Attempts : jobs'[a] \in OpenJob => jobs[a] \in OpenJob

LEMMA TransitionOpensNone ==
  ASSUME IInv, NEW h \in Handlers, NEW from, NEW to, NEW label,
         LastTransition(h, from, to) \/ MidTransition(h, from, to, label)
           \/ (QueueTransition(h, from, label) /\ to = "queued") \/ Transition(from, to)
  PROVE  NoneOpened
<1>1. CASE Transition(from, to)
  BY <1>1 DEF Transition, Closed, NoneOpened
<1>2. CASE Conflict(h, from, to)
  BY <1>2 DEF Conflict, NoneOpened
<1> QED
  BY <1>1, <1>2 DEF LastTransition, MidTransition, QueueTransition

LEMMA RevokedOpensNone ==
  ASSUME IInv, Next, revoked
  PROVE  NoneOpened
<1>1. ASSUME NEW h \in Handlers, StartNext(h)
      PROVE  NoneOpened
  <2>1. CASE StartHold(h) \/ StartQueue(h)
    BY <2>1, TransitionOpensNone DEF StartHold, StartQueue
  <2> QED
    BY <1>1, <2>1 DEF StartNext, StartInsert, StartSteps, StartApproval, StartUndo, NoneOpened
<1>2. ASSUME NEW h \in Handlers, EnqueueNext(h)
      PROVE  NoneOpened
  <2>1. CASE JobUndo(h)
    BY <2>1 DEF JobUndo, NoneOpened, OpenJob, IInv, TypeOK
  <2>2. CASE Undo(h)
    BY <2>2, TransitionOpensNone DEF Undo
  <2> QED
    BY <1>2, <2>1, <2>2
       DEF EnqueueNext, JobInsert, Insertable, JobInsertFails, JobAudit, NoneOpened
<1>3. ASSUME NEW h \in Handlers, ResolveNext(h)
      PROVE  NoneOpened
  <2>1. CASE ApproveQueue(h) \/ Expire(h) \/ Reject(h)
    BY <2>1, TransitionOpensNone DEF ApproveQueue, Expire, Reject, Conflict, NoneOpened
  <2> QED
    BY <1>3, <2>1 DEF ResolveNext, Resolve, Record, RecordExpiry, ApproveAttempt, NoneOpened
<1>4. ASSUME NEW h \in Handlers, StopNext(h)
      PROVE  NoneOpened
  <2>1. CASE Cancel(h) \/ Sweep(h)
    BY <2>1, TransitionOpensNone DEF Cancel, Sweep
  <2> QED
    BY <1>4, <2>1 DEF StopNext, CancelRead, SweepRead, NoneOpened
<1>5. ASSUME NEW h \in Handlers, RetryNext(h)
      PROVE  NoneOpened
  <2>1. CASE RetryQueue(h)
    BY <2>1, TransitionOpensNone DEF RetryQueue
  <2> QED
    BY <1>5, <2>1 DEF RetryNext, RetryRead, RetryTimeout, RetrySteps, RetryStepsFails, NoneOpened
<1>6. ASSUME NEW h \in Handlers, ReportNext(h)
      PROVE  NoneOpened
  <2>1. CASE ProgressStart(h) \/ FinishStart(h) \/ Finish(h)
    BY <2>1, TransitionOpensNone DEF ProgressStart, FinishStart, Finish
  <2> QED
    BY <1>6, <2>1 DEF ReportNext, ProgressRead, ProgressStep, FinishRead, FinishReview, NoneOpened
<1>7. CASE AgentNext
  BY <1>7 DEF AgentNext, Claim, AgentProgress, AgentFinish, NoneOpened
<1>8. CASE RevokeDevice \/ RunLate \/ ApprovalLate
  BY <1>8 DEF RevokeDevice, RunLate, ApprovalLate, NoneOpened
<1>9. ASSUME NEW h \in Handlers, Crash(h)
      PROVE  NoneOpened
  BY <1>9 DEF Crash, NoneOpened
<1> QED
  BY <1>1, <1>2, <1>3, <1>4, <1>5, <1>6, <1>7, <1>8, <1>9 DEF Next, HandlerNext

LEMMA RevocationCloses ==
  ASSUME IInv, RevokeDevice
  PROVE  RevokedDeviceIdle'
  BY DEF RevokeDevice, RevokedDeviceIdle, Closed, OpenJob, IInv, TypeOK

\* Only the revocation itself sets the flag.
LEMMA RevokedBefore ==
  ASSUME Next, revoked', ~ RevokeDevice
  PROVE  revoked
<1>1. ASSUME NEW h \in Handlers, StartNext(h) \/ EnqueueNext(h) \/ ResolveNext(h)
      PROVE  revoked
  BY <1>1 DEF StartNext, StartInsert, StartSteps, StartApproval, StartUndo, StartHold, StartQueue,
              EnqueueNext, JobInsert, JobInsertFails, JobAudit, JobUndo, Undo,
              ResolveNext, Resolve, Record, RecordExpiry, Expire, Reject, ApproveQueue, ApproveAttempt
<1>2. ASSUME NEW h \in Handlers, StopNext(h) \/ RetryNext(h) \/ ReportNext(h) \/ Crash(h)
      PROVE  revoked
  BY <1>2 DEF StopNext, CancelRead, Cancel, SweepRead, Sweep,
              RetryNext, RetryRead, RetryQueue, RetryTimeout, RetrySteps, RetryStepsFails,
              ReportNext, ProgressRead, ProgressStart, ProgressStep, FinishRead, FinishStart,
              FinishReview, Finish, Crash
<1>3. CASE AgentNext \/ RunLate \/ ApprovalLate
  BY <1>3 DEF AgentNext, Claim, AgentProgress, AgentFinish, RunLate, ApprovalLate
<1> QED
  BY <1>1, <1>2, <1>3 DEF Next, HandlerNext

\* A revoked device has nothing to do, and no handler that was under way when it was
\* revoked queues anything for it afterwards.
THEOREM RevokedIdle == Spec => []RevokedDeviceIdle
<1>1. Init => RevokedDeviceIdle
  BY DEF Init, RevokedDeviceIdle
<1>2. IInv /\ RevokedDeviceIdle /\ [Next]_vars => RevokedDeviceIdle'
  <2> SUFFICES ASSUME IInv, RevokedDeviceIdle, [Next]_vars
               PROVE  RevokedDeviceIdle'
    OBVIOUS
  <2>1. CASE UNCHANGED vars
    BY <2>1 DEF vars, RevokedDeviceIdle
  <2>2. CASE RevokeDevice
    BY <2>2, RevocationCloses
  <2>3. CASE Next /\ ~ RevokeDevice
    BY <2>3, RevokedBefore, RevokedOpensNone DEF RevokedDeviceIdle, NoneOpened
  <2> QED
    BY <2>1, <2>2, <2>3
<1> QED
  BY <1>1, <1>2, Inductive, PTL DEF Spec

\* Both of ProductionSafe at once.
THEOREM ProductionIsSafe == Spec => []ProductionSafe
BY TypeCorrect, RevokedIdle, PTL DEF ProductionSafe

-----------------------------------------------------------------------------
(* What every handler finds, however they overlap *)

FinishLabels == {"finish.read", "finish.start", "finish.review", "finish.run"}
Renewing == {"retry.timeout", "retry.steps"}

\* A handler at one of these labels has seen an attempt.
Counted == {"job.insert", "job.audit", "job.undo"} \cup Renewing \cup ProgressLabels \cup FinishLabels

\* The rows of the first attempt's steps were inserted.
Filled == \A n \in Nodes : steps[1][n] # "none"

\* What a handler that is in x knows of the row of the run, and of the steps.
Sits(x, row, filled) ==
  x # None =>
    /\ x.at \in Counted => row.attempt # 0
    /\ x.at \in Renewing \cup ProgressLabels \cup FinishLabels => x.attempt # 0
    /\ x.at = "retry.queue" => x.seen \in {"failed", "timed_out"}
    /\ x.at \in {"start.approval", "start.hold", "start.queue"} => filled
    /\ row.status = "deleted" => x.at = "cancel.run"

\* Jobs and results belong to an attempt, and a run that was inserted has steps.
RowsGrounded ==
  /\ run.attempt = 0 => \A a \in Attempts : jobs[a] = "none"
  /\ run.status = "deleted" => run.attempt = 0
  /\ run.status \in {"running", "succeeded"} => run.attempt # 0
  /\ run.status \notin {"none", "deleted", "pending"} => Filled

Grounded == RowsGrounded /\ \A h \in Handlers : Sits(handlers[h], run, Filled)

GInv == IInv /\ Grounded

LEMMA InitGrounded == Init => Grounded
  BY DEF Init, Grounded, RowsGrounded, Sits

\* A step that takes nothing back.
Onward ==
  /\ RowsGrounded'
  /\ run.attempt # 0 => run'.attempt # 0
  /\ Filled => Filled'
  /\ run'.status = "deleted" => run.status = "deleted"

LEMMA SitsOn ==
  ASSUME NEW x, Sits(x, run, Filled), Onward
  PROVE  Sits(x, run', Filled')
  BY DEF Sits, Onward

\* One handler moves.
LEMMA GroundedBy ==
  ASSUME GInv, NEW h \in Handlers, NEW x, handlers' = [handlers EXCEPT ![h] = x], Onward,
         Sits(x, run', Filled')
  PROVE  Grounded'
<1>1. ASSUME NEW g \in Handlers PROVE Sits(handlers'[g], run', Filled')
  <2>1. CASE g = h
    BY <2>1 DEF GInv, IInv, TypeOK
  <2>2. CASE g # h
    <3>1. handlers'[g] = handlers[g]
      BY <2>2 DEF GInv, IInv, TypeOK
    <3>2. Sits(handlers[g], run, Filled)
      BY DEF GInv, Grounded
    <3> QED
      BY <3>1, <3>2, SitsOn
  <2> QED
    BY <2>1, <2>2
<1> QED
  BY <1>1 DEF Grounded, Onward

LEMMA GroundedStill ==
  ASSUME GInv, handlers' = handlers, Onward
  PROVE  Grounded'
<1>1. ASSUME NEW g \in Handlers PROVE Sits(handlers'[g], run', Filled')
  BY SitsOn DEF GInv, Grounded
<1> QED
  BY <1>1 DEF Grounded, Onward

LEMMA EndGrounded ==
  ASSUME GInv, NEW h \in Handlers, End(h), Onward
  PROVE  Grounded'
<1>1. Sits(None, run', Filled')
  BY DEF Sits
<1> QED
  BY <1>1, GroundedBy DEF End

\* h goes on to label, which asks no more of it than it knows.
LEMMA GotoGrounded ==
  ASSUME GInv, NEW h \in Handlers, handlers[h] # None, NEW label, Goto(h, label), Onward,
         label \in Counted => run'.attempt # 0,
         label \in Renewing \cup ProgressLabels \cup FinishLabels => handlers[h].attempt # 0,
         label # "retry.queue",
         label \in {"start.approval", "start.hold", "start.queue"} => Filled',
         run'.status # "deleted"
  PROVE  Grounded'
<1> DEFINE x == [handlers[h] EXCEPT !.at = label]
<1>1. x.at = label /\ x.attempt = handlers[h].attempt
  BY DEF GInv, IInv, TypeOK, Handler
<1>2. Sits(x, run', Filled')
  BY <1>1 DEF Sits
<1>3. handlers' = [handlers EXCEPT ![h] = x]
  BY DEF Goto
<1> HIDE DEF x
<1> QED
  BY <1>2, <1>3, GroundedBy

LEMMA BeginGrounded ==
  ASSUME GInv, NEW h \in Handlers, NEW label, NEW seen, NEW attempt, NEW node,
         Begin(h, label, seen, attempt, node), Onward,
         label \in Counted => run'.attempt # 0,
         label \in Renewing \cup ProgressLabels \cup FinishLabels => attempt # 0,
         label = "retry.queue" => seen \in {"failed", "timed_out"},
         label \notin {"start.approval", "start.hold", "start.queue"},
         run'.status # "deleted"
  PROVE  Grounded'
<1> DEFINE x == [at |-> label, seen |-> seen, attempt |-> attempt, node |-> node]
<1>1. Sits(x, run', Filled')
  BY DEF Sits
<1>2. handlers' = [handlers EXCEPT ![h] = x]
  BY DEF Begin
<1> HIDE DEF x
<1> QED
  BY <1>1, <1>2, GroundedBy

\* What a handler knows of the rows before its step.
LEMMA Standing ==
  ASSUME GInv, NEW h \in Handlers, handlers[h] # None
  PROVE  /\ handlers[h].at \in Counted => run.attempt # 0
         /\ handlers[h].at \in Renewing \cup ProgressLabels \cup FinishLabels => handlers[h].attempt # 0
         /\ handlers[h].at = "retry.queue" => handlers[h].seen \in {"failed", "timed_out"}
         /\ handlers[h].at \in {"start.approval", "start.hold", "start.queue"} => Filled
         /\ handlers[h].at # "cancel.run" => run.status # "deleted"
         /\ handlers[h].at \notin StartLabels \cup {"cancel.run"} => run.status \notin {"none", "pending"}
         /\ handlers[h].at \notin StartLabels \cup {"cancel.run"} => Filled
<1>1. Sits(handlers[h], run, Filled)
  BY DEF GInv, Grounded
<1>2. handlers[h].at \notin StartLabels \cup {"cancel.run"} => run.status \notin {"none", "pending"}
  BY LaterIsPast DEF GInv
<1> QED
  BY <1>1, <1>2 DEF Sits, GInv, Grounded, RowsGrounded, StartLabels

LEMMA UnmovedOnward ==
  ASSUME GInv, run'.attempt = run.attempt, run'.status = run.status, UNCHANGED <<jobs, steps>>
  PROVE  Onward
  BY DEF GInv, Grounded, RowsGrounded, Filled, Onward

LEMMA TransitionOnward ==
  ASSUME GInv, NEW from, NEW to, Transition(from, to), steps' = steps,
         from = "pending" => Filled, to = "running" => run.attempt # 0
  PROVE  /\ Onward
         /\ run'.status # "deleted"
         /\ run.attempt # 0 => run'.attempt # 0
         /\ to = "queued" /\ from # "awaiting_approval" => run'.attempt # 0
<1>1. run.attempt \in 0 .. MaxAttempts /\ run.status \in Statuses
  BY DEF GInv, IInv, TypeOK
<1>2. /\ run'.status = to /\ run.status = from
      /\ run.status \notin {"none", "deleted", "succeeded", "cancelled"}
      /\ run'.status \notin {"none", "deleted", "pending"}
  BY TransitionTyped DEF GInv, IInv, Control
<1>3. run'.attempt = NextAttempt(from, to)
  BY DEF Transition, GInv, IInv, TypeOK
<1>4. run'.attempt = run.attempt \/ run'.attempt = run.attempt + 1
  BY <1>3 DEF NextAttempt
<1>5. run.attempt # 0 => run'.attempt # 0
  BY <1>1, <1>4
<1>6. to = "queued" /\ from # "awaiting_approval" => run'.attempt # 0
  <2>1. to = "queued" => from \in {"pending", "awaiting_approval", "failed", "timed_out"}
    BY DEF Transition, Possible, Legal
  <2> QED
    BY <1>1, <1>3, <2>1 DEF NextAttempt
<1>7. Filled /\ Filled'
  <2>1. Filled
    BY <1>2 DEF GInv, Grounded, RowsGrounded
  <2> QED
    BY <2>1 DEF Filled
<1>8. to = "succeeded" => run.attempt # 0
  <2>1. to = "succeeded" => from = "running"
    BY DEF Transition, Possible, Legal
  <2> QED
    BY <1>2, <2>1 DEF GInv, Grounded, RowsGrounded
<1>9. run'.attempt = 0 => \A a \in Attempts : jobs'[a] = "none"
  <2>1. run'.attempt = 0 => \A a \in Attempts : jobs[a] = "none"
    BY <1>5 DEF GInv, Grounded, RowsGrounded
  <2>2. \A a \in Attempts : jobs[a] = "none" => jobs'[a] = "none"
    BY DEF Transition, Closed, OpenJob, GInv, IInv, TypeOK
  <2> QED
    BY <2>1, <2>2
<1>10. Onward
  BY <1>2, <1>5, <1>7, <1>8, <1>9 DEF Onward, RowsGrounded
<1> QED
  BY <1>2, <1>5, <1>6, <1>10

LEMMA LastTransitionGrounded ==
  ASSUME GInv, NEW h \in Handlers, NEW from, NEW to, LastTransition(h, from, to), steps' = steps,
         from = "pending" => Filled, to = "running" => run.attempt # 0
  PROVE  Grounded'
<1>1. CASE Transition(from, to) /\ End(h)
  BY <1>1, TransitionOnward, EndGrounded
<1>2. CASE Conflict(h, from, to)
  BY <1>2, UnmovedOnward, EndGrounded DEF Conflict
<1> QED
  BY <1>1, <1>2 DEF LastTransition

\* A report starts the run of an attempt.
LEMMA MidTransitionGrounded ==
  ASSUME GInv, NEW h \in Handlers, handlers[h] # None, NEW from,
         NEW label \in {"progress.step", "finish.review"},
         MidTransition(h, from, "running", label), steps' = steps,
         from # "pending", run.attempt # 0, handlers[h].attempt # 0
  PROVE  Grounded'
<1>1. CASE Transition(from, "running") /\ Goto(h, label)
  <2>1. Onward /\ run'.status # "deleted" /\ run'.attempt # 0
    BY <1>1, TransitionOnward
  <2> QED
    BY <1>1, <2>1, GotoGrounded
<1>2. CASE Conflict(h, from, "running")
  BY <1>2, UnmovedOnward, EndGrounded DEF Conflict
<1> QED
  BY <1>1, <1>2 DEF MidTransition

LEMMA QueueTransitionGrounded ==
  ASSUME GInv, NEW h \in Handlers, handlers[h] # None, NEW from,
         NEW label \in {"job.insert", "approve.attempt", "retry.timeout"},
         QueueTransition(h, from, label), steps' = steps,
         from = "pending" => Filled, from = "awaiting_approval" => label = "approve.attempt"
  PROVE  Grounded'
<1>1. ASSUME Transition(from, "queued"),
             handlers' = [handlers EXCEPT ![h].at = label, ![h].attempt = NextAttempt(from, "queued")]
      PROVE  Grounded'
  <2> DEFINE x == [handlers[h] EXCEPT !.at = label, !.attempt = NextAttempt(from, "queued")]
  <2>1. x.at = label /\ x.attempt = NextAttempt(from, "queued")
    BY DEF GInv, IInv, TypeOK, Handler
  <2>2. Onward /\ run'.status # "deleted" /\ (from # "awaiting_approval" => run'.attempt # 0)
    BY <1>1, TransitionOnward
  <2>3. run'.attempt = x.attempt
    BY <1>1, <2>1 DEF Transition, GInv, IInv, TypeOK
  <2>4. handlers' = [handlers EXCEPT ![h] = x]
    BY <1>1
  <2> HIDE DEF x
  <2>5. Sits(x, run', Filled')
    BY <2>1, <2>2, <2>3 DEF Sits, Counted, Renewing, ProgressLabels, FinishLabels
  <2> QED
    BY <2>2, <2>4, <2>5, GroundedBy
<1>2. CASE Conflict(h, from, "queued")
  BY <1>2, UnmovedOnward, EndGrounded DEF Conflict
<1> QED
  BY <1>1, <1>2 DEF QueueTransition

-----------------------------------------------------------------------------
(* ... through every step *)

LEMMA StartGrounded ==
  ASSUME GInv, NEW h \in Handlers, StartNext(h)
  PROVE  Grounded'
<1> USE DEF Counted, Renewing, ProgressLabels, FinishLabels
<1>1. CASE StartInsert(h)
  <2>1. run'.status = "pending" /\ run'.attempt = run.attempt
    BY <1>1 DEF StartInsert, GInv, IInv, TypeOK
  <2>2. Onward
    BY <1>1, <2>1 DEF StartInsert, GInv, Grounded, RowsGrounded, Onward, Filled
  <2> QED
    BY <1>1, <2>1, <2>2, BeginGrounded DEF StartInsert
<1>2. CASE StartSteps(h)
  <2>1. Starting(h) /\ run.status = "pending"
    BY <1>2 DEF StartSteps, At, Starting, StartLabels, GInv, IInv, Control, StartIsAlone
  <2>2. Filled'
    BY <1>2, Bounds DEF StartSteps, Filled, AllSteps, GInv, IInv, TypeOK
  <2>3. Onward
    BY <1>2, <2>1, <2>2 DEF StartSteps, GInv, Grounded, RowsGrounded, Onward
  <2>4. ASSUME NEW label \in {"start.approval", "start.queue"}, Goto(h, label)
        PROVE  Grounded'
    BY <1>2, <2>1, <2>2, <2>3, <2>4, GotoGrounded DEF StartSteps, At
  <2> QED
    BY <1>2, <2>4 DEF StartSteps
<1>3. CASE StartApproval(h)
  <2>1. Starting(h) /\ run.status = "pending"
    BY <1>3 DEF StartApproval, At, Starting, StartLabels, GInv, IInv, Control, StartIsAlone
  <2>2. Onward /\ Filled'
    BY <1>3, UnmovedOnward, Standing DEF StartApproval, At, Onward
  <2> QED
    BY <1>3, <2>1, <2>2, GotoGrounded DEF StartApproval, At
<1>4. CASE StartUndo(h)
  <2>1. Starting(h) /\ run.status = "pending" /\ run.attempt = 0 /\ \A a \in Attempts : jobs[a] = "none"
    BY <1>4 DEF StartUndo, At, Starting, StartLabels, GInv, IInv, Control, StartIsAlone, Untouched
  <2>2. run'.status = "deleted" /\ run'.attempt = 0 /\ jobs' = jobs
    BY <1>4, <2>1 DEF StartUndo, GInv, IInv, TypeOK
  <2>3. ASSUME NEW g \in Handlers, handlers'[g] # None
        PROVE  handlers'[g].at = "cancel.run"
    <3>1. g # h /\ handlers'[g] = handlers[g]
      BY <1>4, <2>3 DEF StartUndo, End, GInv, IInv, TypeOK
    <3>2. ~ Starting(g)
      BY <2>1, <3>1 DEF GInv, IInv, Control, StartIsAlone
    <3> QED
      BY <2>1, <2>3, <3>1, <3>2 DEF GInv, IInv, Control, Untouched, Starting
  <2>4. \A g \in Handlers : Sits(handlers'[g], run', Filled')
    BY <2>3 DEF Sits
  <2> QED
    BY <2>1, <2>2, <2>4 DEF Grounded, RowsGrounded
<1>5. CASE StartHold(h)
  BY <1>5, Standing, LastTransitionGrounded DEF StartHold, At
<1>6. CASE StartQueue(h)
  BY <1>6, Standing, QueueTransitionGrounded DEF StartQueue, At
<1> QED
  BY <1>1, <1>2, <1>3, <1>4, <1>5, <1>6 DEF StartNext

LEMMA EnqueueGrounded ==
  ASSUME GInv, NEW h \in Handlers, EnqueueNext(h)
  PROVE  Grounded'
<1> USE DEF Counted, Renewing, ProgressLabels, FinishLabels, StartLabels
<1>1. CASE JobInsert(h)
  <2>1. run.attempt # 0 /\ run.status # "deleted"
    BY <1>1, Standing DEF JobInsert, At
  <2>2. Onward
    BY <1>1, <2>1 DEF JobInsert, GInv, Grounded, RowsGrounded, Onward, Filled
  <2> QED
    BY <1>1, <2>1, <2>2, GotoGrounded DEF JobInsert, At
<1>2. CASE JobInsertFails(h)
  BY <1>2, Standing, UnmovedOnward, GotoGrounded DEF JobInsertFails, At
<1>3. CASE JobAudit(h)
  <2>1. CASE End(h)
    BY <1>3, <2>1, UnmovedOnward, EndGrounded DEF JobAudit
  <2>2. CASE Goto(h, "job.undo")
    BY <1>3, <2>2, Standing, UnmovedOnward, GotoGrounded DEF JobAudit, At
  <2> QED
    BY <1>3, <2>1, <2>2 DEF JobAudit
<1>4. CASE JobUndo(h)
  <2>1. run.attempt # 0 /\ run.status # "deleted"
    BY <1>4, Standing DEF JobUndo, At
  <2>2. Onward
    BY <1>4, <2>1 DEF JobUndo, GInv, Grounded, RowsGrounded, Onward, Filled
  <2> QED
    BY <1>4, <2>1, <2>2, GotoGrounded DEF JobUndo, At
<1>5. CASE Undo(h)
  BY <1>5, LastTransitionGrounded DEF Undo
<1> QED
  BY <1>1, <1>2, <1>3, <1>4, <1>5 DEF EnqueueNext

LEMMA ResolveGrounded ==
  ASSUME GInv, NEW h \in Handlers, ResolveNext(h)
  PROVE  Grounded'
<1> USE DEF Counted, Renewing, ProgressLabels, FinishLabels, StartLabels
<1>1. CASE Resolve(h)
  <2>1. PICK label \in {"expire.record", "approve.record", "reject.record"} :
          Begin(h, label, "awaiting_approval", 0, None)
    BY <1>1 DEF Resolve
  <2>2. Onward /\ run'.status # "deleted"
    BY <1>1, UnmovedOnward DEF Resolve
  <2> QED
    BY <2>1, <2>2, BeginGrounded
<1>2. CASE Record(h)
  <2>1. PICK answer \in {<<"approve.record", "approved", "approve.queue">>,
                         <<"reject.record", "rejected", "reject.run">>} :
          At(h, answer[1]) /\ (Goto(h, answer[3]) \/ End(h))
    BY <1>2 DEF Record
  <2>2. Onward /\ handlers[h] # None /\ run'.status # "deleted"
    BY <1>2, <2>1, Standing, UnmovedOnward DEF Record, At
  <2>3. answer[3] \in {"approve.queue", "reject.run"}
    BY <2>1
  <2>4. CASE Goto(h, answer[3])
    BY <2>2, <2>3, <2>4, GotoGrounded
  <2>5. CASE End(h)
    BY <2>2, <2>5, EndGrounded
  <2> QED
    BY <2>1, <2>4, <2>5
<1>3. CASE RecordExpiry(h)
  BY <1>3, Standing, UnmovedOnward, GotoGrounded DEF RecordExpiry, At
<1>4. CASE Expire(h)
  BY <1>4, LastTransitionGrounded DEF Expire
<1>5. CASE Reject(h)
  BY <1>5, LastTransitionGrounded DEF Reject
<1>6. CASE ApproveQueue(h)
  <2>1. CASE QueueTransition(h, "awaiting_approval", "approve.attempt")
    BY <1>6, <2>1, QueueTransitionGrounded DEF ApproveQueue, At
  <2>2. CASE Conflict(h, "awaiting_approval", "queued")
    BY <1>6, <2>2, UnmovedOnward, EndGrounded DEF ApproveQueue, Conflict
  <2>3. CASE Transition("awaiting_approval", "queued") /\ End(h)
    BY <1>6, <2>3, TransitionOnward, EndGrounded DEF ApproveQueue
  <2> QED
    BY <1>6, <2>1, <2>2, <2>3 DEF ApproveQueue
<1>7. CASE ApproveAttempt(h)
  <2>1. handlers[h] \in Handler /\ Key(handlers[h].attempt) # 0 /\ run.status # "deleted"
    BY <1>7, Standing DEF ApproveAttempt, At, GInv, IInv, TypeOK, Key
  <2>2. CASE run' = [run EXCEPT !.attempt = Key(handlers[h].attempt)] /\ Goto(h, "job.insert")
    <3>1. run'.attempt # 0 /\ run'.status = run.status
      BY <2>1, <2>2 DEF GInv, IInv, TypeOK
    <3>2. Onward
      BY <1>7, <2>1, <3>1 DEF ApproveAttempt, GInv, Grounded, RowsGrounded, Onward, Filled
    <3> QED
      BY <1>7, <2>1, <2>2, <3>1, <3>2, GotoGrounded DEF ApproveAttempt, At
  <2>3. CASE UNCHANGED run /\ Goto(h, "undo")
    BY <1>7, <2>1, <2>3, UnmovedOnward, GotoGrounded DEF ApproveAttempt, At
  <2> QED
    BY <1>7, <2>2, <2>3 DEF ApproveAttempt
<1> QED
  BY <1>1, <1>2, <1>3, <1>4, <1>5, <1>6, <1>7 DEF ResolveNext

LEMMA StopGrounded ==
  ASSUME GInv, NEW h \in Handlers, StopNext(h)
  PROVE  Grounded'
<1> USE DEF Counted, Renewing, ProgressLabels, FinishLabels, StartLabels
<1>1. CASE CancelRead(h)
  <2>1. run.status # "deleted"
    BY <1>1 DEF CancelRead, Shown, Active
  <2> QED
    BY <1>1, <2>1, UnmovedOnward, BeginGrounded DEF CancelRead
<1>2. CASE Cancel(h)
  <2>1. handlers[h].seen # "pending"
    BY <1>2 DEF Cancel, At, GInv, IInv, Control, Remembered, Active
  <2> QED
    BY <1>2, <2>1, LastTransitionGrounded DEF Cancel
<1>3. CASE SweepRead(h)
  <2>1. run.status # "deleted"
    BY <1>3 DEF SweepRead, Sweepable, Active
  <2> QED
    BY <1>3, <2>1, UnmovedOnward, BeginGrounded DEF SweepRead
<1>4. CASE Sweep(h)
  <2>1. Filled
    BY <1>4, Standing DEF Sweep, At
  <2> QED
    BY <1>4, <2>1, LastTransitionGrounded DEF Sweep
<1> QED
  BY <1>1, <1>2, <1>3, <1>4 DEF StopNext

LEMMA RetryGrounded ==
  ASSUME GInv, NEW h \in Handlers, RetryNext(h)
  PROVE  Grounded'
<1> USE DEF Counted, Renewing, ProgressLabels, FinishLabels, StartLabels
<1>1. CASE RetryRead(h)
  BY <1>1, UnmovedOnward, BeginGrounded DEF RetryRead
<1>2. CASE RetryQueue(h)
  BY <1>2, Standing, QueueTransitionGrounded DEF RetryQueue, At
<1>3. CASE RetryTimeout(h)
  <2>1. handlers[h] # None /\ run.attempt # 0 /\ handlers[h].attempt # 0 /\ run.status # "deleted"
    BY <1>3, Standing DEF RetryTimeout, At
  <2>2. Onward /\ run'.status # "deleted" /\ run'.attempt # 0
    <3>1. run'.attempt = run.attempt /\ run'.status = run.status
      BY <1>3 DEF RetryTimeout, GInv, IInv, TypeOK
    <3> QED
      BY <1>3, <2>1, <3>1, UnmovedOnward DEF RetryTimeout
  <2>3. ASSUME NEW label \in {"retry.steps", "undo"}, Goto(h, label)
        PROVE  Grounded'
    BY <2>1, <2>2, <2>3, GotoGrounded
  <2> QED
    BY <1>3, <2>3 DEF RetryTimeout
<1>4. CASE RetrySteps(h)
  <2>1. handlers[h] # None /\ run.attempt # 0 /\ run.status # "deleted" /\ Filled
    BY <1>4, Standing DEF RetrySteps, At
  <2>2. Filled'
    BY <1>4, <2>1, Bounds DEF RetrySteps, Filled, AllSteps, GInv, IInv, TypeOK
  <2>3. Onward
    BY <1>4, <2>1, <2>2 DEF RetrySteps, GInv, Grounded, RowsGrounded, Onward
  <2>4. CASE Goto(h, "job.insert")
    BY <1>4, <2>1, <2>3, <2>4, GotoGrounded DEF RetrySteps
  <2>5. CASE End(h)
    BY <2>3, <2>5, EndGrounded
  <2> QED
    BY <1>4, <2>4, <2>5 DEF RetrySteps
<1>5. CASE RetryStepsFails(h)
  BY <1>5, Standing, UnmovedOnward, GotoGrounded DEF RetryStepsFails, At
<1> QED
  BY <1>1, <1>2, <1>3, <1>4, <1>5 DEF RetryNext

LEMMA ReportGrounded ==
  ASSUME GInv, NEW h \in Handlers, ReportNext(h)
  PROVE  Grounded'
<1> USE DEF Counted, Renewing, ProgressLabels, FinishLabels, StartLabels
<1>1. CASE ProgressRead(h) \/ FinishRead(h) \/ FinishReview(h)
  <2>1. /\ handlers[h] # None /\ run.attempt # 0 /\ handlers[h].attempt # 0
        /\ run.status # "deleted" /\ UNCHANGED <<run, jobs, steps>>
    BY <1>1, Standing DEF ProgressRead, FinishRead, FinishReview, At
  <2>2. Onward
    BY <2>1, UnmovedOnward
  <2>3. CASE End(h)
    BY <2>2, <2>3, EndGrounded
  <2>4. ASSUME NEW label \in {"progress.start", "progress.step", "finish.start", "finish.run"},
               Goto(h, label)
        PROVE  Grounded'
    BY <2>1, <2>2, <2>4, GotoGrounded
  <2> QED
    BY <1>1, <2>3, <2>4 DEF ProgressRead, FinishRead, FinishReview
<1>2. CASE ProgressStart(h)
  BY <1>2, Standing, MidTransitionGrounded DEF ProgressStart, At
<1>3. CASE FinishStart(h)
  BY <1>3, Standing, MidTransitionGrounded DEF FinishStart, At
<1>4. CASE ProgressStep(h)
  <2>1. handlers[h].seen \in {"running", "succeeded"}
    BY <1>4 DEF ProgressStep, At, GInv, IInv, Control, Remembered
  <2>2. \A n \in Nodes : steps[1][n] # "none" => steps'[1][n] # "none"
    BY <1>4, <2>1, Bounds DEF ProgressStep, GInv, IInv, TypeOK
  <2>3. Onward
    BY <1>4, <2>2 DEF ProgressStep, GInv, Grounded, RowsGrounded, Onward, Filled
  <2> QED
    BY <1>4, <2>3, EndGrounded DEF ProgressStep
<1>5. CASE Finish(h)
  BY <1>5, Standing, LastTransitionGrounded DEF Finish, At
<1> QED
  BY <1>1, <1>2, <1>3, <1>4, <1>5 DEF ReportNext

LEMMA AgentGrounded ==
  ASSUME GInv, AgentNext
  PROVE  Grounded'
<1> USE DEF Counted, Renewing, ProgressLabels, FinishLabels, StartLabels
<1>1. ASSUME NEW a \in Attempts, jobs[a] # "none"
      PROVE  run.attempt # 0 /\ a # 0 /\ run.status # "deleted"
  BY <1>1 DEF GInv, Grounded, RowsGrounded, Attempts
<1>2. ASSUME NEW a \in Attempts, Claim(a)
      PROVE  Grounded'
  <2>1. run.attempt # 0
    BY <1>1, <1>2 DEF Claim
  <2>2. Onward
    BY <1>2, <2>1 DEF Claim, GInv, Grounded, RowsGrounded, Onward, Filled
  <2> QED
    BY <1>2, <2>2, GroundedStill DEF Claim
<1>3. ASSUME NEW a \in Attempts, NEW h \in Handlers, NEW n \in Nodes,
             NEW status \in {"running", "succeeded"}, AgentProgress(h, a, n, status)
      PROVE  Grounded'
  <2>1. run.attempt # 0 /\ a # 0 /\ run.status # "deleted"
    BY <1>1, <1>3 DEF AgentProgress
  <2> QED
    BY <1>3, <2>1, UnmovedOnward, BeginGrounded DEF AgentProgress
<1>4. ASSUME NEW a \in Attempts, NEW h \in Handlers, NEW outcome \in {"succeeded", "failed"},
             AgentFinish(h, a, outcome)
      PROVE  Grounded'
  <2>1. run.attempt # 0 /\ a # 0 /\ run.status # "deleted"
    BY <1>1, <1>4 DEF AgentFinish
  <2>2. Onward
    BY <1>4, <2>1 DEF AgentFinish, GInv, Grounded, RowsGrounded, Onward, Filled
  <2> QED
    BY <1>4, <2>1, <2>2, BeginGrounded DEF AgentFinish
<1> QED
  BY <1>2, <1>3, <1>4 DEF AgentNext

LEMMA DeviceAndClockGrounded ==
  ASSUME GInv, RevokeDevice \/ RunLate \/ ApprovalLate
  PROVE  Grounded'
<1>1. CASE RevokeDevice
  <2>1. \A a \in Attempts : jobs[a] = "none" => jobs'[a] = "none"
    BY <1>1 DEF RevokeDevice, Closed, OpenJob, GInv, IInv, TypeOK
  <2>2. /\ run'.attempt = run.attempt
        /\ \/ run'.status = run.status
           \/ run'.status = "cancelled" /\ run.status \in {"queued", "running"}
    BY <1>1 DEF RevokeDevice, GInv, IInv, TypeOK
  <2>3. \A n \in Nodes : steps[1][n] # "none" => steps'[1][n] # "none"
    BY <1>1, Bounds DEF RevokeDevice, GInv, IInv, TypeOK
  <2>4. Filled => Filled'
    BY <2>3 DEF Filled
  <2>5. Onward
    BY <2>1, <2>2, <2>4 DEF GInv, Grounded, RowsGrounded, Onward
  <2> QED
    BY <1>1, <2>5, GroundedStill DEF RevokeDevice
<1>2. CASE RunLate \/ ApprovalLate
  <2>1. run'.attempt = run.attempt /\ run'.status = run.status
    BY <1>2 DEF RunLate, ApprovalLate, GInv, IInv, TypeOK
  <2> QED
    BY <1>2, <2>1, UnmovedOnward, GroundedStill DEF RunLate, ApprovalLate
<1> QED
  BY <1>1, <1>2

LEMMA NextGrounded ==
  ASSUME GInv, [Next]_vars
  PROVE  GInv'
<1>1. IInv'
  BY NextKeeps DEF GInv
<1>2. CASE UNCHANGED vars
  BY <1>1, <1>2 DEF vars, GInv, Grounded, RowsGrounded, Filled
<1>3. ASSUME NEW h \in Handlers, HandlerNext(h)
      PROVE  Grounded'
  BY <1>3, StartGrounded, EnqueueGrounded, ResolveGrounded, StopGrounded, RetryGrounded,
     ReportGrounded DEF HandlerNext
<1>4. ASSUME NEW h \in Handlers, Crash(h)
      PROVE  Grounded'
  BY <1>4, UnmovedOnward, EndGrounded DEF Crash
<1> QED
  BY <1>1, <1>2, <1>3, <1>4, AgentGrounded, DeviceAndClockGrounded DEF Next, GInv

-----------------------------------------------------------------------------
(* A run of one attempt, however its handlers overlap *)

\* The labels that are reached with an approval only, if the workflow needs one.
Granted == {"approve.queue", "approve.attempt", "job.insert", "job.audit", "job.undo"}

Approved == approval.status = "approved"
Complete == steps[1] = AllSteps("succeeded")

\* What a handler that is in x was permitted to do.
Permitted(x, asks, approved, complete) ==
  x # None =>
    /\ x.at = "start.queue" => ~ asks
    /\ x.at \in Granted => (asks => approved)
    /\ x.at = "finish.run" /\ x.seen = "succeeded" => complete

RowsOnce == NoJobWithoutApproval /\ SuccessIsComplete

Once == RowsOnce /\ \A h \in Handlers : Permitted(handlers[h], risky, Approved, Complete)

OInv == GInv /\ MaxAttempts = 1 /\ Once

\* A step that withdraws nothing a handler of an inserted run was permitted by.
KeepsOnce ==
  /\ risky' = risky
  /\ run.status \notin {"none", "pending"} => (Approved => Approved') /\ (Complete => Complete')
  /\ RowsOnce'

LEMMA OneAttempt ==
  ASSUME OInv
  PROVE  /\ Attempts = {1} /\ 0 .. MaxAttempts = {0, 1}
         /\ run.attempt \in {0, 1}
         /\ run.status \in {"running", "succeeded"} => run.attempt = 1
         /\ \A n \in {0, 1} : Key(n) = 1
<1>1. Attempts = {1} /\ 0 .. MaxAttempts = {0, 1}
  BY DEF OInv, Attempts
<1>2. run.attempt \in {0, 1}
  BY <1>1 DEF OInv, GInv, IInv, TypeOK
<1>3. run.status \in {"running", "succeeded"} => run.attempt = 1
  BY <1>2 DEF OInv, GInv, Grounded, RowsGrounded
<1> QED
  BY <1>1, <1>2, <1>3 DEF Key

LEMMA PermittedOn ==
  ASSUME OInv, KeepsOnce, NEW h \in Handlers
  PROVE  Permitted(handlers[h], risky', Approved', Complete')
<1>1. Permitted(handlers[h], risky, Approved, Complete)
  BY DEF OInv, Once
<1>2. handlers[h] # None /\ handlers[h].at \in Granted \cup {"finish.run"}
      => run.status \notin {"none", "pending"}
  BY LaterIsPast DEF OInv, GInv, Granted, StartLabels
<1> QED
  BY <1>1, <1>2 DEF Permitted, KeepsOnce

LEMMA OnceBy ==
  ASSUME OInv, KeepsOnce, NEW h \in Handlers, NEW x, handlers' = [handlers EXCEPT ![h] = x],
         Permitted(x, risky', Approved', Complete')
  PROVE  Once'
<1>1. ASSUME NEW g \in Handlers
      PROVE  Permitted(handlers'[g], risky', Approved', Complete')
  <2>1. CASE g = h
    BY <2>1 DEF OInv, GInv, IInv, TypeOK
  <2>2. CASE g # h
    <3>1. handlers'[g] = handlers[g]
      BY <2>2 DEF OInv, GInv, IInv, TypeOK
    <3> QED
      BY <3>1, PermittedOn
  <2> QED
    BY <2>1, <2>2
<1> QED
  BY <1>1 DEF Once, KeepsOnce

LEMMA OnceStill ==
  ASSUME OInv, KeepsOnce, handlers' = handlers
  PROVE  Once'
<1>1. \A g \in Handlers : Permitted(handlers'[g], risky', Approved', Complete')
  BY PermittedOn
<1> QED
  BY <1>1 DEF Once, KeepsOnce

LEMMA OnceEnd ==
  ASSUME OInv, KeepsOnce, NEW h \in Handlers, End(h)
  PROVE  Once'
<1>1. Permitted(None, risky', Approved', Complete')
  BY DEF Permitted
<1> QED
  BY <1>1, OnceBy DEF End

LEMMA OnceGoto ==
  ASSUME OInv, KeepsOnce, NEW h \in Handlers, handlers[h] # None, NEW label, Goto(h, label),
         label = "start.queue" => ~ risky,
         label \in Granted => (risky => Approved'),
         label = "finish.run" /\ handlers[h].seen = "succeeded" => Complete'
  PROVE  Once'
<1> DEFINE x == [handlers[h] EXCEPT !.at = label]
<1>1. x.at = label /\ x.seen = handlers[h].seen
  BY DEF OInv, GInv, IInv, TypeOK, Handler
<1>2. Permitted(x, risky', Approved', Complete')
  BY <1>1 DEF Permitted, KeepsOnce
<1>3. handlers' = [handlers EXCEPT ![h] = x]
  BY DEF Goto
<1> HIDE DEF x
<1> QED
  BY <1>2, <1>3, OnceBy

\* h goes on to a call that asks for nothing.
LEMMA OncePlainGoto ==
  ASSUME OInv, KeepsOnce, NEW h \in Handlers, handlers[h] # None,
         NEW label \in Labels \ (Granted \cup {"start.queue", "finish.run"}), Goto(h, label)
  PROVE  Once'
  BY OnceGoto

LEMMA OnceBegin ==
  ASSUME OInv, KeepsOnce, NEW h \in Handlers,
         NEW label \in Labels \ (Granted \cup {"start.queue", "finish.run"}),
         NEW seen, NEW attempt, NEW node, Begin(h, label, seen, attempt, node)
  PROVE  Once'
<1> DEFINE x == [at |-> label, seen |-> seen, attempt |-> attempt, node |-> node]
<1>1. Permitted(x, risky', Approved', Complete')
  BY DEF Permitted
<1>2. handlers' = [handlers EXCEPT ![h] = x]
  BY DEF Begin
<1> HIDE DEF x
<1> QED
  BY <1>1, <1>2, OnceBy

\* What a handler that is not through with its calls was permitted.
LEMMA Permission ==
  ASSUME OInv, NEW h \in Handlers, handlers[h] # None
  PROVE  /\ handlers[h].at = "start.queue" => ~ risky
         /\ handlers[h].at \in Granted => (risky => Approved)
         /\ handlers[h].at = "finish.run" /\ handlers[h].seen = "succeeded" => Complete
<1>1. Permitted(handlers[h], risky, Approved, Complete)
  BY DEF OInv, Once
<1> QED
  BY <1>1 DEF Permitted

\* Neither the run nor an approval nor a step changes, and no job appears.
LEMMA QuietOnce ==
  ASSUME OInv, UNCHANGED <<risky, approval, steps>>, run'.status = run.status,
         run'.attempt = run.attempt, \A a \in Attempts : jobs'[a] # "none" => jobs[a] # "none"
  PROVE  KeepsOnce
<1>1. NoJobWithoutApproval'
  BY DEF OInv, Once, RowsOnce, NoJobWithoutApproval
<1>2. SuccessIsComplete'
  BY DEF OInv, Once, RowsOnce, SuccessIsComplete
<1> QED
  BY <1>1, <1>2 DEF KeepsOnce, RowsOnce, Approved, Complete

LEMMA TransitionOnce ==
  ASSUME OInv, NEW from, NEW to, Transition(from, to), UNCHANGED <<risky, approval, steps>>,
         to = "succeeded" => Complete
  PROVE  KeepsOnce
<1>1. \A a \in Attempts : jobs'[a] # "none" => jobs[a] # "none"
  BY DEF Transition, Closed, OpenJob, OInv, GInv, IInv, TypeOK
<1>2. NoJobWithoutApproval'
  BY <1>1 DEF OInv, Once, RowsOnce, NoJobWithoutApproval
<1>3. run'.status = to /\ run.status = from
  BY TransitionTyped DEF OInv, GInv, IInv, Control
<1>4. to = "succeeded" => from = "running"
  BY DEF Transition, Possible, Legal
<1>5. to = "succeeded" => run'.attempt = 1
  BY <1>3, <1>4, OneAttempt DEF Transition, NextAttempt, OInv, GInv, IInv, TypeOK
<1>6. SuccessIsComplete'
  BY <1>3, <1>5 DEF SuccessIsComplete, Complete
<1> QED
  BY <1>2, <1>6 DEF KeepsOnce, RowsOnce, Approved, Complete

LEMMA ConflictOnce ==
  ASSUME OInv, NEW h \in Handlers, NEW from, NEW to, Conflict(h, from, to),
         UNCHANGED <<risky, approval, steps>>
  PROVE  Once'
  BY QuietOnce, OnceEnd DEF Conflict

LEMMA LastTransitionOnce ==
  ASSUME OInv, NEW h \in Handlers, NEW from, NEW to, LastTransition(h, from, to),
         UNCHANGED <<risky, approval, steps>>, to = "succeeded" => Complete
  PROVE  Once'
<1>1. CASE Transition(from, to) /\ End(h)
  BY <1>1, TransitionOnce, OnceEnd
<1>2. CASE Conflict(h, from, to)
  BY <1>2, ConflictOnce
<1> QED
  BY <1>1, <1>2 DEF LastTransition

LEMMA MidTransitionOnce ==
  ASSUME OInv, NEW h \in Handlers, handlers[h] # None, NEW from,
         NEW label \in {"progress.step", "finish.review"},
         MidTransition(h, from, "running", label), UNCHANGED <<risky, approval, steps>>
  PROVE  Once'
<1>1. label \in Labels \ (Granted \cup {"start.queue", "finish.run"})
  BY DEF Labels, Granted
<1>2. CASE Transition(from, "running") /\ Goto(h, label)
  BY <1>1, <1>2, TransitionOnce, OncePlainGoto
<1>3. CASE Conflict(h, from, "running")
  BY <1>3, ConflictOnce
<1> QED
  BY <1>2, <1>3 DEF MidTransition

LEMMA QueueTransitionOnce ==
  ASSUME OInv, NEW h \in Handlers, handlers[h] # None, NEW from,
         NEW label \in {"job.insert", "approve.attempt", "retry.timeout"},
         QueueTransition(h, from, label), UNCHANGED <<risky, approval, steps>>,
         label \in Granted => (risky => Approved)
  PROVE  Once'
<1>1. ASSUME Transition(from, "queued"),
             handlers' = [handlers EXCEPT ![h].at = label, ![h].attempt = NextAttempt(from, "queued")]
      PROVE  Once'
  <2> DEFINE x == [handlers[h] EXCEPT !.at = label, !.attempt = NextAttempt(from, "queued")]
  <2>1. x.at = label
    BY DEF OInv, GInv, IInv, TypeOK, Handler
  <2>2. KeepsOnce
    BY <1>1, TransitionOnce
  <2>3. handlers' = [handlers EXCEPT ![h] = x]
    BY <1>1
  <2> HIDE DEF x
  <2>4. Permitted(x, risky', Approved', Complete')
    BY <2>1 DEF Permitted, Approved
  <2> QED
    BY <2>2, <2>3, <2>4, OnceBy
<1>2. CASE Conflict(h, from, "queued")
  BY <1>2, ConflictOnce
<1> QED
  BY <1>1, <1>2 DEF QueueTransition

LEMMA StartOnce ==
  ASSUME OInv, NEW h \in Handlers, StartNext(h)
  PROVE  Once'
<1> USE DEF Granted, Labels
<1>1. CASE StartInsert(h)
  <2>1. KeepsOnce
    <3>1. RowsOnce'
      BY <1>1 DEF StartInsert, OInv, GInv, IInv, TypeOK, Once, RowsOnce, NoJobWithoutApproval,
                  SuccessIsComplete
    <3> QED
      BY <1>1, <3>1 DEF StartInsert, KeepsOnce
  <2> QED
    BY <1>1, <2>1, OnceBegin DEF StartInsert
<1>2. CASE StartSteps(h) \/ StartApproval(h) \/ StartUndo(h)
  <2>1. run.status = "pending" /\ handlers[h] # None /\ \A a \in Attempts : jobs[a] = "none"
    BY <1>2 DEF StartSteps, StartApproval, StartUndo, At, Starting, StartLabels, OInv, GInv, IInv,
                Control, StartIsAlone, Untouched
  <2>2. run'.status # "succeeded" /\ UNCHANGED <<risky, jobs>>
    BY <1>2, <2>1 DEF StartSteps, StartApproval, StartUndo, OInv, GInv, IInv, TypeOK
  <2>3. KeepsOnce
    BY <2>1, <2>2 DEF KeepsOnce, RowsOnce, NoJobWithoutApproval, SuccessIsComplete
  <2>4. CASE Goto(h, "start.approval") \/ Goto(h, "start.hold")
    BY <2>1, <2>3, <2>4, OncePlainGoto
  <2>5. CASE Goto(h, "start.queue") /\ ~ risky
    BY <2>1, <2>3, <2>5, OnceGoto
  <2>6. CASE End(h)
    BY <2>3, <2>6, OnceEnd
  <2> QED
    BY <1>2, <2>4, <2>5, <2>6 DEF StartSteps, StartApproval, StartUndo
<1>3. CASE StartHold(h)
  BY <1>3, LastTransitionOnce DEF StartHold
<1>4. CASE StartQueue(h)
  <2>1. handlers[h] # None /\ ~ risky
    BY <1>4, Permission DEF StartQueue, At
  <2> QED
    BY <1>4, <2>1, QueueTransitionOnce DEF StartQueue
<1> QED
  BY <1>1, <1>2, <1>3, <1>4 DEF StartNext

LEMMA EnqueueOnce ==
  ASSUME OInv, NEW h \in Handlers, EnqueueNext(h)
  PROVE  Once'
<1> USE DEF Granted, Labels
<1>1. CASE JobInsert(h) \/ JobUndo(h)
  <2>1. handlers[h] # None /\ (risky => Approved)
    BY <1>1, Permission DEF JobInsert, JobUndo, At
  <2>2. UNCHANGED <<risky, run, approval, steps>>
    BY <1>1 DEF JobInsert, JobUndo
  <2>3. KeepsOnce
    <3>1. NoJobWithoutApproval' /\ SuccessIsComplete'
      BY <2>1, <2>2 DEF NoJobWithoutApproval, SuccessIsComplete, Approved, OInv, Once, RowsOnce
    <3> QED
      BY <2>2, <3>1 DEF KeepsOnce, RowsOnce, Approved, Complete
  <2>4. CASE Goto(h, "job.audit")
    BY <2>1, <2>2, <2>3, <2>4, OnceGoto DEF Approved
  <2>5. CASE Goto(h, "undo")
    BY <2>1, <2>3, <2>5, OncePlainGoto
  <2> QED
    BY <1>1, <2>4, <2>5 DEF JobInsert, JobUndo
<1>2. CASE JobInsertFails(h) \/ JobAudit(h)
  <2>1. handlers[h] # None /\ (risky => Approved)
    BY <1>2, Permission DEF JobInsertFails, JobAudit, At
  <2>2. KeepsOnce /\ Approved' = Approved
    BY <1>2, QuietOnce DEF JobInsertFails, JobAudit, Approved
  <2>3. CASE Goto(h, "undo")
    BY <2>1, <2>2, <2>3, OncePlainGoto
  <2>4. CASE Goto(h, "job.undo")
    BY <2>1, <2>2, <2>4, OnceGoto
  <2>5. CASE End(h)
    BY <2>2, <2>5, OnceEnd
  <2> QED
    BY <1>2, <2>3, <2>4, <2>5 DEF JobInsertFails, JobAudit
<1>3. CASE Undo(h)
  BY <1>3, LastTransitionOnce DEF Undo
<1> QED
  BY <1>1, <1>2, <1>3 DEF EnqueueNext

LEMMA ResolveOnce ==
  ASSUME OInv, NEW h \in Handlers, ResolveNext(h)
  PROVE  Once'
<1> USE DEF Granted, Labels
<1>1. CASE Resolve(h)
  <2>1. PICK label \in {"expire.record", "approve.record", "reject.record"} :
          Begin(h, label, "awaiting_approval", 0, None)
    BY <1>1 DEF Resolve
  <2>2. KeepsOnce
    BY <1>1, QuietOnce DEF Resolve
  <2> QED
    BY <2>1, <2>2, OnceBegin
<1>2. CASE Record(h) \/ RecordExpiry(h)
  <2>1. Approved => Approved'
    BY <1>2 DEF Record, RecordExpiry, Approved, OInv, GInv, IInv, TypeOK
  <2>2. UNCHANGED <<risky, run, steps, jobs>> /\ handlers[h] # None
    BY <1>2 DEF Record, RecordExpiry, At
  <2>3. KeepsOnce
    <3>1. NoJobWithoutApproval' /\ SuccessIsComplete'
      BY <2>1, <2>2 DEF NoJobWithoutApproval, SuccessIsComplete, Approved, OInv, Once, RowsOnce
    <3> QED
      BY <2>1, <2>2, <3>1 DEF KeepsOnce, RowsOnce, Complete
  <2>4. CASE Goto(h, "approve.queue") /\ Approved'
    BY <2>2, <2>3, <2>4, OnceGoto
  <2>5. CASE Goto(h, "reject.run") \/ Goto(h, "expire.run")
    BY <2>2, <2>3, <2>5, OncePlainGoto
  <2>6. CASE End(h)
    BY <2>3, <2>6, OnceEnd
  <2>7. CASE Record(h)
    <3>1. PICK answer \in {<<"approve.record", "approved", "approve.queue">>,
                           <<"reject.record", "rejected", "reject.run">>} :
            \/ approval' = [approval EXCEPT !.status = answer[2]] /\ Goto(h, answer[3])
            \/ End(h)
      BY <2>7 DEF Record
    <3>2. CASE answer = <<"approve.record", "approved", "approve.queue">>
      BY <2>4, <2>6, <3>1, <3>2 DEF Approved, OInv, GInv, IInv, TypeOK
    <3>3. CASE answer = <<"reject.record", "rejected", "reject.run">>
      BY <2>5, <2>6, <3>1, <3>3
    <3> QED
      BY <3>1, <3>2, <3>3
  <2> QED
    BY <1>2, <2>5, <2>7 DEF RecordExpiry
<1>3. CASE Expire(h) \/ Reject(h)
  BY <1>3, LastTransitionOnce DEF Expire, Reject
<1>4. CASE ApproveQueue(h)
  <2>1. handlers[h] # None /\ (risky => Approved) /\ UNCHANGED <<risky, approval, steps>>
    BY <1>4, Permission DEF ApproveQueue, At
  <2>2. CASE QueueTransition(h, "awaiting_approval", "approve.attempt")
    BY <2>1, <2>2, QueueTransitionOnce
  <2>3. CASE Conflict(h, "awaiting_approval", "queued")
    BY <2>1, <2>3, ConflictOnce
  <2>4. CASE Transition("awaiting_approval", "queued") /\ End(h)
    BY <2>1, <2>4, TransitionOnce, OnceEnd
  <2> QED
    BY <1>4, <2>2, <2>3, <2>4 DEF ApproveQueue
<1>5. CASE ApproveAttempt(h)
  <2>1. handlers[h] # None /\ (risky => Approved) /\ UNCHANGED <<risky, approval, steps, jobs>>
    BY <1>5, Permission DEF ApproveAttempt, At
  <2>2. run'.status = run.status /\ (run.status = "succeeded" => run'.attempt = run.attempt)
    <3>1. handlers[h].attempt \in {0, 1}
      BY <2>1, OneAttempt DEF OInv, GInv, IInv, TypeOK, Handler
    <3> QED
      BY <1>5, <3>1, OneAttempt DEF ApproveAttempt, OInv, GInv, IInv, TypeOK
  <2>3. KeepsOnce
    <3>1. NoJobWithoutApproval' /\ SuccessIsComplete'
      BY <2>1, <2>2 DEF NoJobWithoutApproval, SuccessIsComplete, OInv, Once, RowsOnce
    <3> QED
      BY <2>1, <3>1 DEF KeepsOnce, RowsOnce, Complete, Approved
  <2>4. CASE Goto(h, "job.insert")
    BY <2>1, <2>3, <2>4, OnceGoto DEF Approved
  <2>5. CASE Goto(h, "undo")
    BY <2>1, <2>3, <2>5, OncePlainGoto
  <2> QED
    BY <1>5, <2>4, <2>5 DEF ApproveAttempt
<1> QED
  BY <1>1, <1>2, <1>3, <1>4, <1>5 DEF ResolveNext

LEMMA StopOnce ==
  ASSUME OInv, NEW h \in Handlers, StopNext(h)
  PROVE  Once'
<1> USE DEF Granted, Labels
<1>1. CASE CancelRead(h)
  BY <1>1, QuietOnce, OnceBegin DEF CancelRead
<1>2. CASE SweepRead(h)
  BY <1>2, QuietOnce, OnceBegin DEF SweepRead
<1>3. CASE Cancel(h) \/ Sweep(h)
  BY <1>3, LastTransitionOnce DEF Cancel, Sweep
<1> QED
  BY <1>1, <1>2, <1>3 DEF StopNext

\* The steps of the only attempt exist when the run is retried.
LEMMA NoRetryOnce ==
  ASSUME OInv, NEW h \in Handlers
  PROVE  ~ RetrySteps(h)
<1> SUFFICES ASSUME RetrySteps(h) PROVE FALSE
  OBVIOUS
<1>1. handlers[h] # None /\ handlers[h].at = "retry.steps" /\ StepsInsertable(handlers[h].attempt)
  BY DEF RetrySteps, At
<1>2. handlers[h].attempt # 0 /\ Filled
  BY <1>1, Standing DEF OInv, Renewing, StartLabels
<1>3. handlers[h].attempt = 1
  BY <1>1, <1>2, OneAttempt DEF OInv, GInv, IInv, TypeOK, Handler
<1>4. PICK n \in Nodes : TRUE
  OBVIOUS
<1> QED
  BY <1>1, <1>2, <1>3, <1>4 DEF StepsInsertable, AllSteps, Filled

LEMMA RetryOnce ==
  ASSUME OInv, NEW h \in Handlers, RetryNext(h)
  PROVE  Once'
<1> USE DEF Granted, Labels
<1>1. CASE RetryRead(h)
  BY <1>1, QuietOnce, OnceBegin DEF RetryRead
<1>2. CASE RetryQueue(h)
  BY <1>2, QueueTransitionOnce DEF RetryQueue, At
<1>3. CASE RetryTimeout(h)
  <2>1. run'.attempt = run.attempt /\ run'.status = run.status /\ handlers[h] # None
    BY <1>3 DEF RetryTimeout, At, OInv, GInv, IInv, TypeOK
  <2>2. KeepsOnce
    BY <1>3, <2>1, QuietOnce DEF RetryTimeout
  <2>3. ASSUME NEW label \in {"retry.steps", "undo"}, Goto(h, label)
        PROVE  Once'
    BY <2>1, <2>2, <2>3, OncePlainGoto
  <2> QED
    BY <1>3, <2>3 DEF RetryTimeout
<1>4. CASE RetryStepsFails(h)
  BY <1>4, QuietOnce, OncePlainGoto DEF RetryStepsFails, At
<1> QED
  BY <1>1, <1>2, <1>3, <1>4, NoRetryOnce DEF RetryNext

LEMMA ReportOnce ==
  ASSUME OInv, NEW h \in Handlers, ReportNext(h)
  PROVE  Once'
<1> USE DEF Granted, Labels
<1>1. CASE ProgressRead(h) \/ FinishRead(h) \/ FinishReview(h)
  <2>1. UNCHANGED <<risky, run, approval, steps, jobs>> /\ handlers[h] # None
    BY <1>1 DEF ProgressRead, FinishRead, FinishReview, At
  <2>2. KeepsOnce /\ Complete' = Complete
    BY <2>1, QuietOnce DEF Complete
  <2>3. CASE End(h)
    BY <2>2, <2>3, OnceEnd
  <2>4. ASSUME NEW label \in {"progress.start", "progress.step", "finish.start"}, Goto(h, label)
        PROVE  Once'
    BY <2>1, <2>2, <2>4, OncePlainGoto
  <2>5. CASE Goto(h, "finish.run") /\ (handlers[h].seen = "succeeded" => Complete)
    BY <2>1, <2>2, <2>5, OnceGoto
  <2>6. MayFinish("succeeded") => Complete
    BY OneAttempt DEF MayFinish, Complete
  <2>7. Shown = "queued" => ~ MayFinish(handlers[h].seen)
    BY DEF Shown, MayFinish
  <2> QED
    BY <1>1, <2>3, <2>4, <2>5, <2>6 DEF ProgressRead, FinishRead, FinishReview
<1>2. CASE ProgressStart(h)
  BY <1>2, MidTransitionOnce DEF ProgressStart, At
<1>3. CASE FinishStart(h)
  BY <1>3, MidTransitionOnce DEF FinishStart, At
<1>4. CASE ProgressStep(h)
  <2>1. UNCHANGED <<risky, run, approval, jobs>>
    BY <1>4 DEF ProgressStep
  <2>2. Complete => Complete'
    <3>1. handlers[h].attempt \in {0, 1}
      BY <1>4, OneAttempt DEF ProgressStep, At, OInv, GInv, IInv, TypeOK, Handler
    <3>2. Complete => steps' = steps
      BY <1>4, <3>1, OneAttempt DEF ProgressStep, Complete, AllSteps, OpenStep, OInv, GInv, IInv, TypeOK
    <3> QED
      BY <3>2 DEF Complete
  <2>3. KeepsOnce
    <3>1. NoJobWithoutApproval'
      BY <2>1 DEF NoJobWithoutApproval, OInv, Once, RowsOnce
    <3>2. SuccessIsComplete'
      BY <2>1, <2>2, OneAttempt DEF SuccessIsComplete, Complete, OInv, Once, RowsOnce
    <3> QED
      BY <2>1, <2>2, <3>1, <3>2 DEF KeepsOnce, RowsOnce, Approved
  <2> QED
    BY <1>4, <2>3, OnceEnd DEF ProgressStep
<1>5. CASE Finish(h)
  BY <1>5, Permission, LastTransitionOnce DEF Finish, At
<1> QED
  BY <1>1, <1>2, <1>3, <1>4, <1>5 DEF ReportNext

LEMMA AgentOnce ==
  ASSUME OInv, AgentNext
  PROVE  Once'
<1> USE DEF Granted, Labels
<1>1. ASSUME NEW a \in Attempts, Claim(a)
      PROVE  Once'
  <2>1. \A b \in Attempts : jobs'[b] # "none" => jobs[b] # "none"
    BY <1>1 DEF Claim, OInv, GInv, IInv, TypeOK
  <2> QED
    BY <1>1, <2>1, QuietOnce, OnceStill DEF Claim
<1>2. ASSUME NEW a \in Attempts, NEW h \in Handlers, NEW n \in Nodes,
             NEW status \in {"running", "succeeded"}, AgentProgress(h, a, n, status)
      PROVE  Once'
  BY <1>2, QuietOnce, OnceBegin DEF AgentProgress
<1>3. ASSUME NEW a \in Attempts, NEW h \in Handlers, NEW outcome \in {"succeeded", "failed"},
             AgentFinish(h, a, outcome)
      PROVE  Once'
  <2>1. \A b \in Attempts : jobs'[b] # "none" => jobs[b] # "none"
    BY <1>3 DEF AgentFinish, OInv, GInv, IInv, TypeOK
  <2> QED
    BY <1>3, <2>1, QuietOnce, OnceBegin DEF AgentFinish
<1> QED
  BY <1>1, <1>2, <1>3 DEF AgentNext

LEMMA DeviceAndClockOnce ==
  ASSUME OInv, RevokeDevice \/ RunLate \/ ApprovalLate
  PROVE  Once'
<1>1. CASE RevokeDevice
  <2>1. \A a \in Attempts : jobs'[a] # "none" => jobs[a] # "none"
    BY <1>1 DEF RevokeDevice, Closed, OpenJob, OInv, GInv, IInv, TypeOK
  <2>2. /\ run'.attempt = run.attempt
        /\ run'.status = "succeeded" => run.status = "succeeded"
    BY <1>1 DEF RevokeDevice, OInv, GInv, IInv, TypeOK
  <2>3. Complete => Complete'
    <3>1. ASSUME Complete PROVE steps'[1] = steps[1]
      BY <1>1, <3>1, OneAttempt DEF RevokeDevice, Complete, AllSteps, OpenStep, OInv, GInv, IInv, TypeOK
    <3> QED
      BY <3>1 DEF Complete
  <2>4. NoJobWithoutApproval'
    BY <1>1, <2>1 DEF RevokeDevice, NoJobWithoutApproval, OInv, Once, RowsOnce
  <2>5. SuccessIsComplete'
    BY <2>2, <2>3, OneAttempt DEF SuccessIsComplete, Complete, OInv, Once, RowsOnce
  <2>6. KeepsOnce
    BY <1>1, <2>3, <2>4, <2>5 DEF RevokeDevice, KeepsOnce, RowsOnce, Approved
  <2> QED
    BY <1>1, <2>6, OnceStill DEF RevokeDevice
<1>2. CASE RunLate
  <2>1. run'.attempt = run.attempt /\ run'.status = run.status
    BY <1>2 DEF RunLate, OInv, GInv, IInv, TypeOK
  <2> QED
    BY <1>2, <2>1, QuietOnce, OnceStill DEF RunLate
<1>3. CASE ApprovalLate
  <2>1. ~ Approved
    BY <1>3 DEF ApprovalLate, Approved
  <2>2. KeepsOnce
    <3>1. NoJobWithoutApproval' /\ SuccessIsComplete'
      BY <1>3, <2>1 DEF ApprovalLate, NoJobWithoutApproval, SuccessIsComplete, Approved, OInv, Once,
                        RowsOnce
    <3> QED
      BY <1>3, <2>1, <3>1 DEF ApprovalLate, KeepsOnce, RowsOnce, Complete
  <2> QED
    BY <1>3, <2>2, OnceStill DEF ApprovalLate
<1> QED
  BY <1>1, <1>2, <1>3

LEMMA NextOnce ==
  ASSUME OInv, [Next]_vars
  PROVE  Once'
<1>1. CASE UNCHANGED vars
  BY <1>1 DEF vars, OInv, Once, RowsOnce, NoJobWithoutApproval, SuccessIsComplete, Permitted,
              Approved, Complete
<1>2. ASSUME NEW h \in Handlers, HandlerNext(h)
      PROVE  Once'
  BY <1>2, StartOnce, EnqueueOnce, ResolveOnce, StopOnce, RetryOnce, ReportOnce DEF HandlerNext
<1>3. ASSUME NEW h \in Handlers, Crash(h)
      PROVE  Once'
  BY <1>3, QuietOnce, OnceEnd DEF Crash
<1> QED
  BY <1>1, <1>2, <1>3, AgentOnce, DeviceAndClockOnce DEF Next

-----------------------------------------------------------------------------
(* Handlers that run one after the other, through any number of attempts *)

FinishGoesOn == {"finish.start", "finish.review", "finish.run"}

\* The labels whose handlers rely on the rows they have read or written.
Relying == {"approve.attempt", "job.insert", "finish.read"} \cup Renewing \cup FinishGoesOn

\* What the rows still are for a handler that is in x, if the device is not revoked: the
\* run waits for the job of the attempt it was queued for, and the job that was finished
\* is closed.
Steady(x, gone, row, table, done) ==
  x # None =>
    /\ x.at = "job.insert" => gone \/ (row.status = "queued" /\ row.attempt = Key(x.attempt))
    /\ x.at = "approve.attempt" => x.attempt = row.attempt /\ (gone \/ row.status = "queued")
    /\ x.at \in Renewing => gone \/ (row.status = "queued" /\ row.attempt = x.attempt)
    /\ x.at = "finish.read" => table[x.attempt] \notin OpenJob
    /\ x.at \in FinishGoesOn => table[row.attempt] \notin OpenJob
    /\ x.at = "finish.run" /\ x.seen = "succeeded" /\ row.status = "running"
       => done[row.attempt] = AllSteps("succeeded")

RowsAlone == OpenJobIsCurrent /\ SuccessIsComplete

Alone == RowsAlone /\ \A h \in Handlers : Steady(handlers[h], revoked, run, jobs, steps)

AInv == GInv /\ (\A g, h \in Handlers : g = h) /\ Alone

\* What a handler relies on.
LEMMA Reliance ==
  ASSUME AInv, NEW h \in Handlers, handlers[h] # None
  PROVE  /\ handlers[h] \in Handler
         /\ Steady(handlers[h], revoked, run, jobs, steps)
  BY DEF AInv, Alone, GInv, IInv, TypeOK

LEMMA AloneBy ==
  ASSUME AInv, RowsAlone', NEW h \in Handlers, NEW x, handlers' = [handlers EXCEPT ![h] = x],
         Steady(x, revoked', run', jobs', steps')
  PROVE  Alone'
<1>1. ASSUME NEW g \in Handlers
      PROVE  Steady(handlers'[g], revoked', run', jobs', steps')
  <2>1. g = h /\ handlers'[g] = x
    BY DEF AInv, GInv, IInv, TypeOK
  <2> QED
    BY <2>1
<1> QED
  BY <1>1 DEF Alone

LEMMA AloneEnd ==
  ASSUME AInv, RowsAlone', NEW h \in Handlers, End(h)
  PROVE  Alone'
<1>1. Steady(None, revoked', run', jobs', steps')
  BY DEF Steady
<1> QED
  BY <1>1, AloneBy DEF End

LEMMA AloneGoto ==
  ASSUME AInv, RowsAlone', NEW h \in Handlers, handlers[h] # None, NEW label \in Labels, Goto(h, label),
         Steady([at |-> label, seen |-> handlers[h].seen, attempt |-> handlers[h].attempt,
                 node |-> handlers[h].node], revoked', run', jobs', steps')
  PROVE  Alone'
<1> DEFINE x == [at |-> label, seen |-> handlers[h].seen, attempt |-> handlers[h].attempt,
                 node |-> handlers[h].node]
<1>1. handlers[h] \in Handler
  BY Reliance
<1>2. [handlers[h] EXCEPT !.at = label] = x
  BY <1>1 DEF Handler
<1>3. handlers' = [handlers EXCEPT ![h] = x]
  BY <1>2 DEF Goto
<1>4. Steady(x, revoked', run', jobs', steps')
  OBVIOUS
<1> HIDE DEF x
<1> QED
  BY <1>3, <1>4, AloneBy

\* h goes on to a call that relies on nothing.
LEMMA AlonePlainGoto ==
  ASSUME AInv, RowsAlone', NEW h \in Handlers, handlers[h] # None,
         NEW label \in Labels \ Relying, Goto(h, label)
  PROVE  Alone'
<1>1. Steady([at |-> label, seen |-> handlers[h].seen, attempt |-> handlers[h].attempt,
              node |-> handlers[h].node], revoked', run', jobs', steps')
  BY DEF Steady, Relying, Renewing, FinishGoesOn
<1> QED
  BY <1>1, AloneGoto

LEMMA AloneBegin ==
  ASSUME AInv, RowsAlone', NEW h \in Handlers, NEW label, NEW seen, NEW attempt, NEW node,
         Begin(h, label, seen, attempt, node),
         label \in Relying => (label = "finish.read" /\ jobs'[attempt] \notin OpenJob)
  PROVE  Alone'
<1> DEFINE x == [at |-> label, seen |-> seen, attempt |-> attempt, node |-> node]
<1>1. Steady(x, revoked', run', jobs', steps')
  BY DEF Steady, Relying, Renewing, FinishGoesOn
<1>2. handlers' = [handlers EXCEPT ![h] = x]
  BY DEF Begin
<1> HIDE DEF x
<1> QED
  BY <1>1, <1>2, AloneBy

\* Neither the run nor a step changes, and no job is opened.
LEMMA QuietAlone ==
  ASSUME AInv, UNCHANGED steps, run'.status = run.status, run'.attempt = run.attempt,
         \A a \in Attempts : jobs'[a] \in OpenJob => jobs[a] \in OpenJob
  PROVE  RowsAlone'
<1>1. OpenJobIsCurrent'
  BY DEF OpenJobIsCurrent, AInv, Alone, RowsAlone
<1>2. SuccessIsComplete'
  BY DEF SuccessIsComplete, AInv, Alone, RowsAlone
<1> QED
  BY <1>1, <1>2 DEF RowsAlone

LEMMA TransitionAlone ==
  ASSUME AInv, NEW from, NEW to, Transition(from, to), UNCHANGED steps,
         to \in {"succeeded", "failed"} => jobs[run.attempt] \notin OpenJob,
         to = "succeeded" => steps[run.attempt] = AllSteps("succeeded")
  PROVE  RowsAlone'
<1>1. run.status = from /\ run'.status = to /\ run'.attempt = NextAttempt(from, to)
  BY TransitionTyped DEF Transition, AInv, GInv, IInv, Control, TypeOK
<1>2. \A a \in Attempts : jobs'[a] \in OpenJob => jobs[a] \in OpenJob /\ to \notin {"cancelled", "timed_out"}
  BY DEF Transition, ClosesJobs, Closed, OpenJob, AInv, GInv, IInv, TypeOK
<1>3. \A a \in Attempts : jobs[a] \in OpenJob => from \in {"queued", "running"} /\ run.attempt = a
  BY <1>1 DEF AInv, Alone, RowsAlone, OpenJobIsCurrent
<1>4. from \in {"queued", "running"} =>
        /\ to \in {"running", "succeeded", "failed", "cancelled", "timed_out"}
        /\ run'.attempt = run.attempt
  BY <1>1 DEF Transition, Possible, Legal, NextAttempt
<1>5. OpenJobIsCurrent'
  <2>1. ASSUME NEW a \in Attempts, jobs'[a] \in OpenJob
        PROVE  to = "running" /\ run'.attempt = a
    BY <1>2, <1>3, <1>4, <2>1
  <2> QED
    BY <1>1, <2>1 DEF OpenJobIsCurrent
<1>6. SuccessIsComplete'
  <2>1. to = "succeeded" => from = "running"
    BY DEF Transition, Possible, Legal
  <2> QED
    BY <1>1, <1>4, <2>1 DEF SuccessIsComplete
<1> QED
  BY <1>5, <1>6 DEF RowsAlone

LEMMA ConflictAlone ==
  ASSUME AInv, NEW h \in Handlers, NEW from, NEW to, Conflict(h, from, to), UNCHANGED steps
  PROVE  Alone'
  BY QuietAlone, AloneEnd DEF Conflict

LEMMA LastTransitionAlone ==
  ASSUME AInv, NEW h \in Handlers, NEW from, NEW to, LastTransition(h, from, to), UNCHANGED steps,
         to \in {"succeeded", "failed"} => jobs[run.attempt] \notin OpenJob,
         to = "succeeded" /\ run.status = from => steps[run.attempt] = AllSteps("succeeded")
  PROVE  Alone'
<1>1. CASE Transition(from, to) /\ End(h)
  <2>1. run.status = from
    BY <1>1 DEF Transition, Possible
  <2> QED
    BY <1>1, <2>1, TransitionAlone, AloneEnd
<1>2. CASE Conflict(h, from, to)
  BY <1>2, ConflictAlone
<1> QED
  BY <1>1, <1>2 DEF LastTransition

LEMMA MidTransitionAlone ==
  ASSUME AInv, NEW h \in Handlers, handlers[h] # None,
         NEW label \in {"progress.step", "finish.review"},
         MidTransition(h, "queued", "running", label), UNCHANGED steps, run.attempt \in Attempts,
         label = "finish.review" => jobs[run.attempt] \notin OpenJob
  PROVE  Alone'
<1>1. CASE Transition("queued", "running") /\ Goto(h, label)
  <2>1. RowsAlone'
    BY <1>1, TransitionAlone
  <2>2. run'.attempt = run.attempt
    BY <1>1 DEF Transition, NextAttempt, AInv, GInv, IInv, TypeOK
  <2>3. jobs[run.attempt] \notin OpenJob => jobs'[run'.attempt] \notin OpenJob
    BY <1>1, <2>2 DEF Transition, ClosesJobs
  <2>4. Steady([at |-> label, seen |-> handlers[h].seen, attempt |-> handlers[h].attempt,
                node |-> handlers[h].node], revoked', run', jobs', steps')
    BY <2>3 DEF Steady, Renewing, FinishGoesOn
  <2>5. label \in Labels
    BY DEF Labels
  <2> QED
    BY <1>1, <2>1, <2>4, <2>5, AloneGoto
<1>2. CASE Conflict(h, "queued", "running")
  BY <1>2, ConflictAlone
<1> QED
  BY <1>1, <1>2 DEF MidTransition

LEMMA QueueTransitionAlone ==
  ASSUME AInv, NEW h \in Handlers, handlers[h] # None, NEW from,
         NEW label \in {"job.insert", "approve.attempt", "retry.timeout"},
         QueueTransition(h, from, label), UNCHANGED steps,
         label = "job.insert" => from = "pending"
  PROVE  Alone'
<1>1. ASSUME Transition(from, "queued"),
             handlers' = [handlers EXCEPT ![h].at = label, ![h].attempt = NextAttempt(from, "queued")]
      PROVE  Alone'
  <2> DEFINE x == [handlers[h] EXCEPT !.at = label, !.attempt = NextAttempt(from, "queued")]
  <2>1. x.at = label /\ x.attempt = NextAttempt(from, "queued")
    BY Reliance DEF Handler
  <2>2. RowsAlone'
    BY <1>1, TransitionAlone
  <2>3. run'.status = "queued" /\ run'.attempt = x.attempt
    BY <1>1, <2>1, TransitionTyped DEF Transition, AInv, GInv, IInv, Control, TypeOK
  <2>4. label = "job.insert" => Key(x.attempt) = x.attempt
    BY <1>1, <2>1 DEF NextAttempt, Key, AInv, GInv, IInv, TypeOK
  <2>5. handlers' = [handlers EXCEPT ![h] = x]
    BY <1>1
  <2> HIDE DEF x
  <2>6. Steady(x, revoked', run', jobs', steps')
    BY <2>1, <2>3, <2>4 DEF Steady, Renewing, FinishGoesOn
  <2> QED
    BY <2>2, <2>5, <2>6, AloneBy
<1>2. CASE Conflict(h, from, "queued")
  BY <1>2, ConflictAlone
<1> QED
  BY <1>1, <1>2 DEF QueueTransition

LEMMA StartAlone ==
  ASSUME AInv, NEW h \in Handlers, StartNext(h)
  PROVE  Alone'
<1> USE DEF Relying, Renewing, FinishGoesOn, Labels
<1>1. CASE StartInsert(h)
  <2>1. \A a \in Attempts : jobs'[a] = "none"
    BY <1>1 DEF StartInsert, AInv, GInv, IInv, Control, Untouched
  <2>2. run'.status = "pending"
    BY <1>1 DEF StartInsert, AInv, GInv, IInv, TypeOK
  <2>3. RowsAlone'
    BY <2>1, <2>2 DEF RowsAlone, OpenJobIsCurrent, SuccessIsComplete, OpenJob
  <2> QED
    BY <1>1, <2>3, AloneBegin DEF StartInsert
<1>2. CASE StartSteps(h) \/ StartApproval(h) \/ StartUndo(h)
  <2>1. run.status = "pending" /\ handlers[h] # None /\ \A a \in Attempts : jobs[a] = "none"
    BY <1>2 DEF StartSteps, StartApproval, StartUndo, At, Starting, StartLabels, AInv, GInv, IInv,
                Control, StartIsAlone, Untouched
  <2>2. run'.status # "succeeded" /\ UNCHANGED jobs
    BY <1>2, <2>1 DEF StartSteps, StartApproval, StartUndo, AInv, GInv, IInv, TypeOK
  <2>3. RowsAlone'
    BY <2>1, <2>2 DEF RowsAlone, OpenJobIsCurrent, SuccessIsComplete, OpenJob
  <2>4. ASSUME NEW label \in {"start.approval", "start.hold", "start.queue"}, Goto(h, label)
        PROVE  Alone'
    BY <2>1, <2>3, <2>4, AlonePlainGoto
  <2>5. CASE End(h)
    BY <2>3, <2>5, AloneEnd
  <2> QED
    BY <1>2, <2>4, <2>5 DEF StartSteps, StartApproval, StartUndo
<1>3. CASE StartHold(h)
  BY <1>3, LastTransitionAlone DEF StartHold
<1>4. CASE StartQueue(h)
  BY <1>4, QueueTransitionAlone DEF StartQueue, At
<1> QED
  BY <1>1, <1>2, <1>3, <1>4 DEF StartNext

LEMMA EnqueueAlone ==
  ASSUME AInv, NEW h \in Handlers, EnqueueNext(h)
  PROVE  Alone'
<1> USE DEF Relying, Renewing, FinishGoesOn, Labels
<1>1. CASE JobInsert(h)
  <2> DEFINE a == Key(handlers[h].attempt)
  <2>1. handlers[h] # None /\ run.status = "queued" /\ run.attempt = a /\ a \in Attempts
    BY <1>1, Reliance, KeyTyped DEF JobInsert, At, Insertable, Steady, Handler
  <2>2. jobs' = [jobs EXCEPT ![a] = "pending"]
    BY <1>1 DEF JobInsert
  <2>3. UNCHANGED <<run, steps>> /\ Goto(h, "job.audit")
    BY <1>1 DEF JobInsert
  <2> HIDE DEF a
  <2>4. OpenJobIsCurrent'
    <3>1. \A b \in Attempts : b # a => jobs'[b] = jobs[b]
      BY <2>2 DEF AInv, GInv, IInv, TypeOK
    <3> QED
      BY <2>1, <2>3, <3>1 DEF OpenJobIsCurrent, AInv, Alone, RowsAlone
  <2>5. RowsAlone'
    BY <2>3, <2>4 DEF RowsAlone, SuccessIsComplete, AInv, Alone
  <2> QED
    BY <2>1, <2>3, <2>5, AlonePlainGoto
<1>2. CASE JobInsertFails(h) \/ JobAudit(h) \/ JobUndo(h)
  <2>1. handlers[h] # None /\ UNCHANGED <<run, steps>>
    BY <1>2 DEF JobInsertFails, JobAudit, JobUndo, At
  <2>2. \A a \in Attempts : jobs'[a] \in OpenJob => jobs[a] \in OpenJob
    BY <1>2 DEF JobInsertFails, JobAudit, JobUndo, OpenJob, AInv, GInv, IInv, TypeOK
  <2>3. RowsAlone'
    BY <2>1, <2>2, QuietAlone
  <2>4. ASSUME NEW label \in {"undo", "job.undo"}, Goto(h, label)
        PROVE  Alone'
    BY <2>1, <2>3, <2>4, AlonePlainGoto
  <2>5. CASE End(h)
    BY <2>3, <2>5, AloneEnd
  <2> QED
    BY <1>2, <2>4, <2>5 DEF JobInsertFails, JobAudit, JobUndo
<1>3. CASE Undo(h)
  BY <1>3, LastTransitionAlone DEF Undo
<1> QED
  BY <1>1, <1>2, <1>3 DEF EnqueueNext

LEMMA ResolveAlone ==
  ASSUME AInv, NEW h \in Handlers, ResolveNext(h)
  PROVE  Alone'
<1> USE DEF Relying, Renewing, FinishGoesOn, Labels
<1>1. CASE Resolve(h)
  <2>1. PICK label \in {"expire.record", "approve.record", "reject.record"} :
          Begin(h, label, "awaiting_approval", 0, None)
    BY <1>1 DEF Resolve
  <2>2. RowsAlone'
    BY <1>1, QuietAlone DEF Resolve
  <2> QED
    BY <2>1, <2>2, AloneBegin
<1>2. CASE Record(h) \/ RecordExpiry(h)
  <2>1. RowsAlone' /\ handlers[h] # None
    BY <1>2, QuietAlone DEF Record, RecordExpiry, At
  <2>2. ASSUME NEW label \in {"approve.queue", "reject.run", "expire.run"}, Goto(h, label)
        PROVE  Alone'
    BY <2>1, <2>2, AlonePlainGoto
  <2>3. CASE End(h)
    BY <2>1, <2>3, AloneEnd
  <2>4. CASE Record(h)
    <3>1. PICK answer \in {<<"approve.record", "approved", "approve.queue">>,
                           <<"reject.record", "rejected", "reject.run">>} :
            Goto(h, answer[3]) \/ End(h)
      BY <2>4 DEF Record
    <3> QED
      BY <2>2, <2>3, <3>1
  <2> QED
    BY <1>2, <2>2, <2>4 DEF RecordExpiry
<1>3. CASE Expire(h) \/ Reject(h)
  BY <1>3, LastTransitionAlone DEF Expire, Reject
<1>4. CASE ApproveQueue(h)
  <2>1. handlers[h] # None /\ UNCHANGED steps
    BY <1>4 DEF ApproveQueue, At
  <2>2. CASE QueueTransition(h, "awaiting_approval", "approve.attempt")
    BY <2>1, <2>2, QueueTransitionAlone
  <2>3. CASE Conflict(h, "awaiting_approval", "queued")
    BY <2>1, <2>3, ConflictAlone
  <2>4. CASE Transition("awaiting_approval", "queued") /\ End(h)
    BY <2>1, <2>4, TransitionAlone, AloneEnd
  <2> QED
    BY <1>4, <2>2, <2>3, <2>4 DEF ApproveQueue
<1>5. CASE ApproveAttempt(h)
  <2> DEFINE a == handlers[h].attempt
  <2>1. /\ handlers[h] # None /\ handlers[h].at = "approve.attempt"
        /\ a = run.attempt /\ (revoked \/ run.status = "queued")
    BY <1>5, Reliance DEF ApproveAttempt, At, Steady
  <2>2. UNCHANGED <<steps, jobs, revoked>>
    BY <1>5 DEF ApproveAttempt
  <2>3. CASE run' = [run EXCEPT !.attempt = Key(a)] /\ Goto(h, "job.insert")
    <3>1. run'.attempt = Key(a) /\ run'.status = run.status
      BY <2>3 DEF AInv, GInv, IInv, TypeOK
    <3>2. run.attempt # 0 => Key(a) = run.attempt
      BY <2>1 DEF Key
    <3>3. Key(a) = IF run.attempt = 0 THEN 1 ELSE run.attempt
      BY <2>1 DEF Key
    <3>4. OpenJobIsCurrent'
      <4>1. \A b \in Attempts : jobs[b] \in OpenJob => run.attempt = b /\ b # 0
        BY DEF OpenJobIsCurrent, AInv, Alone, RowsAlone, Attempts
      <4> QED
        BY <2>2, <3>1, <3>2, <4>1 DEF OpenJobIsCurrent, AInv, Alone, RowsAlone
    <3>5. SuccessIsComplete'
      BY <2>2, <3>1, <3>2 DEF SuccessIsComplete, AInv, Alone, RowsAlone, GInv, Grounded, RowsGrounded
    <3>6. Steady([at |-> "job.insert", seen |-> handlers[h].seen, attempt |-> handlers[h].attempt,
                  node |-> handlers[h].node], revoked', run', jobs', steps')
      BY <2>1, <2>2, <3>1 DEF Steady
    <3> QED
      BY <2>1, <2>3, <3>4, <3>5, <3>6, AloneGoto DEF RowsAlone
  <2>4. CASE UNCHANGED run /\ Goto(h, "undo")
    BY <2>1, <2>2, <2>4, QuietAlone, AlonePlainGoto
  <2> QED
    BY <1>5, <2>3, <2>4 DEF ApproveAttempt
<1> QED
  BY <1>1, <1>2, <1>3, <1>4, <1>5 DEF ResolveNext

LEMMA StopAlone ==
  ASSUME AInv, NEW h \in Handlers, StopNext(h)
  PROVE  Alone'
<1> USE DEF Relying, Renewing, FinishGoesOn, Labels
<1>1. CASE CancelRead(h)
  BY <1>1, QuietAlone, AloneBegin DEF CancelRead
<1>2. CASE SweepRead(h)
  BY <1>2, QuietAlone, AloneBegin DEF SweepRead
<1>3. CASE Cancel(h) \/ Sweep(h)
  BY <1>3, LastTransitionAlone DEF Cancel, Sweep
<1> QED
  BY <1>1, <1>2, <1>3 DEF StopNext

LEMMA RetryAlone ==
  ASSUME AInv, NEW h \in Handlers, RetryNext(h)
  PROVE  Alone'
<1> USE DEF Relying, Renewing, FinishGoesOn, Labels
<1>1. CASE RetryRead(h)
  BY <1>1, QuietAlone, AloneBegin DEF RetryRead
<1>2. CASE RetryQueue(h)
  BY <1>2, QueueTransitionAlone DEF RetryQueue, At
<1>3. CASE RetryTimeout(h)
  <2>1. run'.attempt = run.attempt /\ run'.status = run.status /\ handlers[h] # None
    BY <1>3 DEF RetryTimeout, At, AInv, GInv, IInv, TypeOK
  <2>2. RowsAlone'
    BY <1>3, <2>1, QuietAlone DEF RetryTimeout
  <2>3. CASE Goto(h, "retry.steps") /\ run.status = "queued" /\ run.attempt = handlers[h].attempt
    <3>1. Steady([at |-> "retry.steps", seen |-> handlers[h].seen, attempt |-> handlers[h].attempt,
                  node |-> handlers[h].node], revoked', run', jobs', steps')
      BY <2>1, <2>3 DEF Steady
    <3> QED
      BY <2>1, <2>2, <2>3, <3>1, AloneGoto
  <2>4. CASE Goto(h, "undo")
    BY <2>1, <2>2, <2>4, AlonePlainGoto
  <2> QED
    BY <1>3, <2>3, <2>4 DEF RetryTimeout
<1>4. CASE RetrySteps(h)
  <2> DEFINE a == handlers[h].attempt
  <2>1. /\ handlers[h] # None /\ handlers[h] \in Handler /\ a # 0
        /\ revoked \/ (run.status = "queued" /\ run.attempt = a)
    BY <1>4, Reliance, Standing DEF RetrySteps, At, Steady, AInv
  <2>2. /\ steps[a] = AllSteps("none") /\ steps' = [steps EXCEPT ![a] = AllSteps("pending")]
        /\ UNCHANGED <<run, jobs, revoked>>
    BY <1>4 DEF RetrySteps, StepsInsertable
  <2>3. RowsAlone'
    <3>1. OpenJobIsCurrent'
      BY <2>2 DEF OpenJobIsCurrent, AInv, Alone, RowsAlone
    <3>2. ASSUME run.status = "succeeded" PROVE steps'[run.attempt] = steps[run.attempt]
      <4>1. steps[run.attempt] = AllSteps("succeeded") /\ run.attempt \in Attempts
        BY <3>2 DEF SuccessIsComplete, AInv, Alone, RowsAlone, GInv, Grounded, RowsGrounded, IInv,
                    TypeOK, Attempts
      <4>2. PICK n \in Nodes : TRUE
        OBVIOUS
      <4>3. a # run.attempt
        BY <2>2, <4>1, <4>2 DEF AllSteps
      <4> QED
        BY <2>2, <4>1, <4>3 DEF AInv, GInv, IInv, TypeOK
    <3> QED
      BY <2>2, <3>1, <3>2 DEF RowsAlone, SuccessIsComplete, AInv, Alone
  <2>4. CASE ~ revoked /\ Goto(h, "job.insert")
    <3>1. Steady([at |-> "job.insert", seen |-> handlers[h].seen, attempt |-> handlers[h].attempt,
                  node |-> handlers[h].node], revoked', run', jobs', steps')
      BY <2>1, <2>2, <2>4 DEF Steady, Key
    <3> QED
      BY <2>1, <2>3, <2>4, <3>1, AloneGoto
  <2>5. CASE End(h)
    BY <2>3, <2>5, AloneEnd
  <2> QED
    BY <1>4, <2>4, <2>5 DEF RetrySteps
<1>5. CASE RetryStepsFails(h)
  BY <1>5, QuietAlone, AlonePlainGoto DEF RetryStepsFails, At
<1> QED
  BY <1>1, <1>2, <1>3, <1>4, <1>5 DEF RetryNext

LEMMA ReportAlone ==
  ASSUME AInv, NEW h \in Handlers, ReportNext(h)
  PROVE  Alone'
<1> USE DEF Relying, Renewing, FinishGoesOn, Labels
<1> DEFINE a == handlers[h].attempt
<1>1. handlers[h] # None /\ handlers[h].at \in ProgressLabels \cup FinishLabels
  BY DEF ReportNext, ProgressRead, ProgressStart, ProgressStep, FinishRead, FinishStart, FinishReview,
         Finish, At, ProgressLabels, FinishLabels
<1>2. /\ run.attempt \in Attempts /\ Key(run.attempt) = run.attempt
      /\ a \in Attempts
  BY <1>1, Standing, Reliance DEF Counted, AInv, GInv, IInv, TypeOK, Attempts, Key, Handler
<1>3. Steady(handlers[h], revoked, run, jobs, steps)
  BY <1>1, Reliance
<1>4. CASE ProgressRead(h)
  <2>1. RowsAlone'
    BY <1>4, QuietAlone DEF ProgressRead
  <2> QED
    BY <1>1, <1>4, <2>1, AlonePlainGoto, AloneEnd DEF ProgressRead
<1>5. CASE ProgressStart(h)
  BY <1>1, <1>2, <1>5, MidTransitionAlone DEF ProgressStart
<1>6. CASE ProgressStep(h)
  <2>1. UNCHANGED <<run, jobs>> /\ End(h)
    BY <1>6 DEF ProgressStep
  <2>2. steps[run.attempt] = AllSteps("succeeded") => steps'[run.attempt] = steps[run.attempt]
    BY <1>2, <1>6 DEF ProgressStep, AllSteps, OpenStep, AInv, GInv, IInv, TypeOK
  <2>3. RowsAlone'
    BY <2>1, <2>2 DEF RowsAlone, OpenJobIsCurrent, SuccessIsComplete, AInv, Alone
  <2> QED
    BY <2>1, <2>3, AloneEnd
<1>7. CASE FinishRead(h) \/ FinishReview(h)
  <2>1. UNCHANGED <<run, jobs, steps, revoked>> /\ RowsAlone'
    BY <1>7, QuietAlone DEF FinishRead, FinishReview
  <2>2. CASE End(h)
    BY <2>1, <2>2, AloneEnd
  <2>3. ASSUME NEW label \in {"finish.start", "finish.run"}, Goto(h, label),
               jobs[run.attempt] \notin OpenJob, label = "finish.run" => MayFinish(handlers[h].seen)
        PROVE  Alone'
    <3>1. Steady([at |-> label, seen |-> handlers[h].seen, attempt |-> handlers[h].attempt,
                  node |-> handlers[h].node], revoked', run', jobs', steps')
      BY <1>2, <2>1, <2>3 DEF Steady, MayFinish
    <3> QED
      BY <1>1, <2>1, <2>3, <3>1, AloneGoto
  <2>4. CASE FinishRead(h)
    <3>1. Current(h) => jobs[run.attempt] \notin OpenJob
      BY <1>2, <1>3, <2>4, <1>1 DEF FinishRead, At, Current, Steady
    <3> QED
      BY <2>2, <2>3, <2>4, <3>1 DEF FinishRead
  <2>5. CASE FinishReview(h)
    <3>1. jobs[run.attempt] \notin OpenJob
      BY <1>1, <1>3, <2>5 DEF FinishReview, At, Steady
    <3> QED
      BY <2>2, <2>3, <2>5, <3>1 DEF FinishReview
  <2> QED
    BY <1>7, <2>4, <2>5
<1>8. CASE FinishStart(h)
  <2>1. jobs[run.attempt] \notin OpenJob
    BY <1>1, <1>3, <1>8 DEF FinishStart, At, Steady
  <2> QED
    BY <1>1, <1>2, <1>8, <2>1, MidTransitionAlone DEF FinishStart
<1>9. CASE Finish(h)
  <2>1. /\ jobs[run.attempt] \notin OpenJob
        /\ handlers[h].seen = "succeeded" /\ run.status = "running"
           => steps[run.attempt] = AllSteps("succeeded")
    BY <1>1, <1>3, <1>9 DEF Finish, At, Steady
  <2> QED
    BY <1>9, <2>1, LastTransitionAlone DEF Finish
<1> QED
  BY <1>4, <1>5, <1>6, <1>7, <1>8, <1>9 DEF ReportNext

LEMMA AgentAlone ==
  ASSUME AInv, AgentNext
  PROVE  Alone'
<1> USE DEF Relying, Renewing, FinishGoesOn, Labels
<1>1. ASSUME NEW a \in Attempts, Claim(a)
      PROVE  Alone'
  <2>1. UNCHANGED <<run, steps, handlers, revoked>>
    BY <1>1 DEF Claim
  <2>2. \A b : jobs'[b] \in OpenJob => jobs[b] \in OpenJob
    BY <1>1 DEF Claim, OpenJob, AInv, GInv, IInv, TypeOK
  <2>3. RowsAlone'
    BY <2>1, <2>2, QuietAlone
  <2>4. ASSUME NEW h \in Handlers PROVE Steady(handlers'[h], revoked', run', jobs', steps')
    <3>1. Steady(handlers[h], revoked, run, jobs, steps)
      BY DEF AInv, Alone
    <3> QED
      BY <2>1, <2>2, <3>1 DEF Steady
  <2> QED
    BY <2>3, <2>4 DEF Alone
<1>2. ASSUME NEW a \in Attempts, NEW h \in Handlers, NEW n \in Nodes,
             NEW status \in {"running", "succeeded"}, AgentProgress(h, a, n, status)
      PROVE  Alone'
  BY <1>2, QuietAlone, AloneBegin DEF AgentProgress
<1>3. ASSUME NEW a \in Attempts, NEW h \in Handlers, NEW outcome \in {"succeeded", "failed"},
             AgentFinish(h, a, outcome)
      PROVE  Alone'
  <2>1. (\A b \in Attempts : jobs'[b] \in OpenJob => jobs[b] \in OpenJob) /\ jobs'[a] \notin OpenJob
    BY <1>3 DEF AgentFinish, OpenJob, AInv, GInv, IInv, TypeOK
  <2>2. RowsAlone'
    BY <1>3, <2>1, QuietAlone DEF AgentFinish
  <2> QED
    BY <1>3, <2>1, <2>2, AloneBegin DEF AgentFinish
<1> QED
  BY <1>1, <1>2, <1>3 DEF AgentNext

LEMMA DeviceAndClockAlone ==
  ASSUME AInv, RevokeDevice \/ RunLate \/ ApprovalLate
  PROVE  Alone'
<1> USE DEF Renewing, FinishGoesOn
<1>1. CASE RevokeDevice
  <2>1. \A a : jobs'[a] \in OpenJob => a \notin Attempts
    BY <1>1 DEF RevokeDevice, Closed, OpenJob
  <2>2. /\ run'.attempt = run.attempt /\ revoked' /\ handlers' = handlers
        /\ (run'.status = run.status /\ steps' = steps) \/ run'.status = "cancelled"
    BY <1>1 DEF RevokeDevice, AInv, GInv, IInv, TypeOK
  <2>3. RowsAlone'
    BY <2>1, <2>2 DEF RowsAlone, OpenJobIsCurrent, SuccessIsComplete, AInv, Alone
  <2>4. ASSUME NEW h \in Handlers PROVE Steady(handlers'[h], revoked', run', jobs', steps')
    <3>1. Steady(handlers[h], revoked, run, jobs, steps)
      BY DEF AInv, Alone
    <3>2. handlers[h] # None /\ handlers[h].at \in FinishLabels =>
            run.attempt \in Attempts /\ handlers[h].attempt \in Attempts
      BY Standing, Reliance DEF Counted, AInv, GInv, IInv, TypeOK, Attempts, Handler
    <3> QED
      BY <2>1, <2>2, <3>1, <3>2 DEF Steady, FinishLabels
  <2> QED
    BY <2>3, <2>4 DEF Alone
<1>2. CASE RunLate \/ ApprovalLate
  <2>1. run'.attempt = run.attempt /\ run'.status = run.status /\ UNCHANGED <<steps, jobs, revoked, handlers>>
    BY <1>2 DEF RunLate, ApprovalLate, AInv, GInv, IInv, TypeOK
  <2>2. RowsAlone'
    BY <2>1, QuietAlone
  <2> QED
    BY <2>1, <2>2 DEF Alone, Steady, AInv
<1> QED
  BY <1>1, <1>2

LEMMA NextAlone ==
  ASSUME AInv, [Next]_vars
  PROVE  Alone'
<1>1. CASE UNCHANGED vars
  BY <1>1 DEF vars, AInv, Alone, RowsAlone, OpenJobIsCurrent, SuccessIsComplete, Steady
<1>2. ASSUME NEW h \in Handlers, HandlerNext(h)
      PROVE  Alone'
  BY <1>2, StartAlone, EnqueueAlone, ResolveAlone, StopAlone, RetryAlone, ReportAlone DEF HandlerNext
<1>3. ASSUME NEW h \in Handlers, Crash(h)
      PROVE  Alone'
  BY <1>3, QuietAlone, AloneEnd DEF Crash
<1> QED
  BY <1>1, <1>2, <1>3, AgentAlone, DeviceAndClockAlone DEF Next

-----------------------------------------------------------------------------

\* The inductive invariant of RunSound: what the handlers know, and what each of the two
\* conditions adds to it.
Sound ==
  /\ GInv
  /\ MaxAttempts = 1 => Once
  /\ (\A g, h \in Handlers : g = h) => Alone

LEMMA InitSound == Init => Sound
<1> SUFFICES ASSUME Init PROVE Sound
  OBVIOUS
<1>1. GInv
  BY InitIInv, InitGrounded DEF GInv
<1>2. /\ run.status = "none" /\ \A a \in Attempts : jobs[a] = "none"
      /\ \A h \in Handlers : handlers[h] = None
  BY DEF Init
<1>3. Once
  BY <1>2 DEF Once, RowsOnce, NoJobWithoutApproval, SuccessIsComplete, Permitted
<1>4. Alone
  BY <1>2 DEF Alone, RowsAlone, OpenJobIsCurrent, SuccessIsComplete, OpenJob, Steady
<1> QED
  BY <1>1, <1>3, <1>4 DEF Sound

LEMMA NextSound ==
  ASSUME Sound, [Next]_vars
  PROVE  Sound'
<1>1. GInv'
  BY NextGrounded DEF Sound
<1>2. MaxAttempts = 1 => Once'
  BY NextOnce DEF Sound, OInv
<1>3. (\A g, h \in Handlers : g = h) => Alone'
  BY NextAlone DEF Sound, AInv
<1> QED
  BY <1>1, <1>2, <1>3 DEF Sound

\* However handlers overlap and die in a run of one attempt, no job exists without the
\* approval its workflow needs and a run that succeeded has finished steps; and when
\* handlers run one after the other, however they die and however often the run is
\* retried, an open job is that of the attempt that is shown.
THEOREM RunIsSound == Spec => []RunSound
<1>1. Sound => RunSound
  BY DEF Sound, RunSound, SoundOnce, SoundAlone, Once, RowsOnce, Alone, RowsAlone
<1>2. Sound /\ [Next]_vars => Sound'
  BY NextSound
<1> QED
  BY <1>1, <1>2, InitSound, PTL DEF Spec

=============================================================================
