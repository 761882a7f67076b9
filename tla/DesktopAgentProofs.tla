------------------------- MODULE DesktopAgentProofs -------------------------
(***************************************************************************)
(* Theorems about DesktopAgent, for all jobs, numbers of overlapping       *)
(* cycles, claims and reports, and any number of losses and interventions. *)
(***************************************************************************)
EXTENDS DesktopAgent, TLAPS

USE BoundsAssumption, NoneAssumption, NoneIsNoCycle

-----------------------------------------------------------------------------
(* The inductive invariant *)

\* Until the executor was started beside an older cycle, there is one cycle or a timer,
\* and a cycle that was not aborted is the one stop() would abort.
LoopInv ==
  /\ timer => running
  /\ LoopAlive
  /\ ~ overlapped =>
       /\ timer => Active = {}
       /\ \A c, d \in Active : c = d
       /\ \A c \in Active : cycles[c].aborted \/ (running /\ controller = c)

\* The cycle was granted its claim.
Carries(cycle) == cycle.at \in InJob \/ (cycle.at = "claim" /\ cycle.net = "ok")

\* Work that is recorded as failed although it was done lost its claim, or a message was lost.
MayFail(j, e) ==
  /\ work[j][e] \in {"done", "failed"}
  /\ work[j][e] = "done" => losses > 0 \/ revoked \/ ~ Holds(j, e)

\* What became of the work of a cycle's claim, by what the cycle does.
CycleFits(cycle) ==
  /\ cycle.at # "poll" => cycle.job \in Jobs
  /\ Carries(cycle) => cycle.epoch <= epoch[cycle.job]
  /\ cycle.at = "claim" /\ cycle.net = "ok" => work[cycle.job][cycle.epoch] = "none"
  /\ cycle.at \in {"work", "progress"} => work[cycle.job][cycle.epoch] = "running"
  /\ cycle.at = "complete" => work[cycle.job][cycle.epoch] = "done"
  /\ cycle.at = "fail" => MayFail(cycle.job, cycle.epoch)
  /\ cycle.net = "refused" => revoked
  /\ cycle.at = "complete" /\ cycle.net = "conflict" => ~ Holds(cycle.job, cycle.epoch)

LateFits(m) ==
  m.kind \in {"complete", "fail"} =>
    /\ m.epoch <= epoch[m.job]
    /\ m.kind = "complete" => work[m.job][m.epoch] = "done"
    /\ m.kind = "fail" => MayFail(m.job, m.epoch)

EndedFits(j) ==
  /\ phase[j] = "succeeded" => work[j][epoch[j]] = "done"
  /\ phase[j] = "failed" =>
       /\ work[j][epoch[j]] \in {"done", "failed"}
       /\ work[j][epoch[j]] = "done" => losses > 0

\* No two cycles carry out one claim, and claims are worked on in the order of their grant.
WorkInv ==
  /\ \A c \in Active : CycleFits(cycles[c])
  /\ \A c, d \in Active :
       Carries(cycles[c]) /\ Carries(cycles[d]) /\ cycles[c].job = cycles[d].job
         /\ cycles[c].epoch = cycles[d].epoch => c = d
  /\ \A m \in late : LateFits(m)
  /\ \A j \in Jobs : EndedFits(j)
  /\ \A j \in Jobs, e \in Epochs : e > epoch[j] => work[j][e] = "none"

IInv == TypeOK /\ LoopInv /\ WorkInv

-----------------------------------------------------------------------------
(* What a step of a cycle does to the client *)

CycleTable == [Cycles -> Cycle \cup {None}]

\* The cycle goes on as y, with the timer and the field as they are, or ends.
Turns(c, y) ==
  /\ cycles' = [cycles EXCEPT ![c] = y]
  /\ \/ /\ y \in Cycle
        /\ y.aborted = cycles[c].aborted
        /\ UNCHANGED <<timer, controller>>
     \/ y = None /\ Rescheduled(c) /\ controller' = None

LEMMA ActiveFacts ==
  ASSUME TypeOK, NEW c \in Active
  PROVE  c \in Cycles /\ cycles[c] \in Cycle
  BY DEF TypeOK, Active

\* The next claim is sent, or the cycle ends.
LEMMA ContinueTurns ==
  ASSUME NEW c \in Cycles, NEW x \in Cycle, x.aborted = cycles[c].aborted, Continue(c, x)
  PROVE  \E y : /\ Turns(c, y)
                /\ \/ y = None
                   \/ /\ y \in Cycle /\ y.at = "claim" /\ y.net = "sent" /\ y.job \in Jobs
                      /\ ~ y.aborted
<1>1. CASE MayGoOn(x)
  <2>1. PICK j \in x.todo :
          cycles' = [cycles EXCEPT ![c] =
            [Sent(x, "claim") EXCEPT !.todo = @ \ {j}, !.job = j, !.epoch = 0, !.leaseLost = FALSE]]
    BY <1>1 DEF Continue
  <2>2. UNCHANGED <<timer, controller>> /\ ~ x.aborted /\ j \in Jobs
    BY <1>1 DEF Continue, MayGoOn, Cycle
  <2> DEFINE y == [Sent(x, "claim") EXCEPT !.todo = @ \ {j}, !.job = j, !.epoch = 0,
                                           !.leaseLost = FALSE]
  <2>3. /\ y \in Cycle /\ y.at = "claim" /\ y.net = "sent" /\ y.job = j
        /\ y.aborted = x.aborted
    <3> PICK z : z = Sent(x, "claim")
      OBVIOUS
    <3>1. z \in Cycle /\ z.at = "claim" /\ z.net = "sent" /\ z.aborted = x.aborted
      BY DEF Sent, Cycle
    <3>2. y = [z EXCEPT !.todo = @ \ {j}, !.job = j, !.epoch = 0, !.leaseLost = FALSE]
      OBVIOUS
    <3>3. 0 \in Epochs
      BY DEF Epochs
    <3> HIDE DEF y
    <3> QED BY <2>2, <3>1, <3>2, <3>3 DEF Cycle
  <2>4. cycles' = [cycles EXCEPT ![c] = y]
    BY <2>1
  <2> HIDE DEF y
  <2>5. Turns(c, y)
    BY <2>2, <2>3, <2>4 DEF Turns
  <2> QED BY <2>2, <2>3, <2>5
<1>2. CASE ~ MayGoOn(x)
  <2>1. Turns(c, None)
    BY <1>2 DEF Continue, EndCycle, Turns
  <2> QED BY <2>1
<1> QED BY <1>1, <1>2

\* What follows a failed job: its failure is reported, or nothing is said of it.
LEMMA JobFailsTurns ==
  ASSUME TypeOK, NEW c \in Active, JobFails(c, cycles[c])
  PROVE  \E y : /\ Turns(c, y)
                /\ \/ y = None
                   \/ /\ y \in Cycle /\ y.at = "claim" /\ y.net = "sent" /\ y.job \in Jobs
                      /\ ~ y.aborted
                   \/ ~ Silent(cycles[c]) /\ y = Sent(cycles[c], "fail")
<1>1. c \in Cycles /\ cycles[c] \in Cycle
  BY ActiveFacts
<1>2. CASE Silent(cycles[c])
  <2>1. Continue(c, cycles[c])
    BY <1>2 DEF JobFails
  <2> PICK x : x = cycles[c]
    OBVIOUS
  <2> QED BY <1>1, <2>1, ContinueTurns
<1>3. CASE ~ Silent(cycles[c])
  <2> PICK y : y = Sent(cycles[c], "fail")
    OBVIOUS
  <2>1. y \in Cycle /\ y.aborted = cycles[c].aborted
    BY <1>1 DEF Sent, Cycle
  <2>2. Turns(c, y)
    BY <1>3, <2>1 DEF JobFails, Turns
  <2> QED BY <1>3, <2>2
<1> QED BY <1>2, <1>3

-----------------------------------------------------------------------------
(* The loop *)

LEMMA TurnsLoops ==
  ASSUME TypeOK, LoopInv, NEW c \in Active, NEW y, Turns(c, y), UNCHANGED <<running, overlapped>>
  PROVE  /\ cycles' \in CycleTable /\ timer' \in BOOLEAN /\ controller' \in Cycles \cup {None}
         /\ LoopInv'
<1>1. /\ c \in Cycles /\ cycles[c] \in Cycle /\ cycles \in CycleTable
      /\ timer \in BOOLEAN /\ running \in BOOLEAN /\ overlapped \in BOOLEAN
      /\ controller \in Cycles \cup {None}
  BY ActiveFacts DEF TypeOK, CycleTable
<1>2. CASE y \in Cycle /\ y.aborted = cycles[c].aborted /\ UNCHANGED <<timer, controller>>
  <2>1. cycles' = [cycles EXCEPT ![c] = y]
    BY DEF Turns
  <2>2. cycles' \in CycleTable /\ Active' = Active
    BY <1>1, <1>2, <2>1 DEF CycleTable, Active
  <2>3. \A d \in Active : cycles'[d].aborted = cycles[d].aborted
    BY <1>1, <1>2, <2>1 DEF CycleTable, Active
  <2>4. timer' = timer /\ controller' = controller /\ running' = running /\ overlapped' = overlapped
    BY <1>2
  <2>5. (timer => running) /\ (running => timer \/ Active # {})
    BY DEF LoopInv, LoopAlive
  <2>6. ~ overlapped =>
          /\ timer => Active = {}
          /\ \A d, e \in Active : d = e
          /\ \A d \in Active : cycles[d].aborted \/ (running /\ controller = d)
    BY DEF LoopInv
  <2> QED BY <1>1, <1>2, <2>2, <2>3, <2>4, <2>5, <2>6 DEF LoopInv, LoopAlive
<1>3. CASE y = None /\ Rescheduled(c) /\ controller' = None
  <2>1. cycles' = [cycles EXCEPT ![c] = None]
    BY <1>3 DEF Turns
  <2>2. cycles' \in CycleTable /\ Active' = Active \ {c}
    BY <1>1, <2>1 DEF CycleTable, Active
  <2>3. timer' = (timer \/ running) /\ running' = running /\ overlapped' = overlapped
    BY <1>3 DEF Rescheduled
  <2>4. timer' = running
    BY <1>1, <2>3 DEF LoopInv
  <2>5. timer' \in BOOLEAN /\ LoopAlive' /\ (timer => running)'
    BY <1>1, <2>3, <2>4 DEF LoopAlive
  <2>6. ~ overlapped => Active' = {}
    BY <2>2 DEF LoopInv
  <2> QED BY <1>3, <2>2, <2>3, <2>5, <2>6 DEF LoopInv
<1> QED BY <1>2, <1>3 DEF Turns

\* Nothing of the loop changes.
LEMMA LoopRests ==
  ASSUME LoopInv, UNCHANGED <<running, timer, controller, cycles, overlapped>>
  PROVE  LoopInv'
  BY DEF LoopInv, LoopAlive, Active

\* stop(), clearSession() and the end of the application.
LEMMA StoppedLoops ==
  ASSUME TypeOK, LoopInv, running' = FALSE, timer' = FALSE, controller' = None,
         overlapped' = overlapped,
         \A c \in Cycles : \/ cycles'[c] = None
                           \/ /\ cycles[c] # None /\ cycles'[c].aborted = cycles[c].aborted
                              /\ c # controller
                           \/ cycles[c] # None /\ cycles'[c].aborted
  PROVE  LoopInv'
<1>1. Active' \subseteq Active
  BY DEF Active
<1>2. ~ overlapped' => (\A c, d \in Active' : c = d) /\ \A c \in Active' : cycles'[c].aborted
  <2> SUFFICES ASSUME ~ overlapped'
               PROVE  (\A c, d \in Active' : c = d) /\ \A c \in Active' : cycles'[c].aborted
    OBVIOUS
  <2>1. \A c, d \in Active : c = d
    BY DEF LoopInv
  <2>2. \A c \in Active : cycles[c].aborted \/ controller = c
    BY DEF LoopInv
  <2>3. ASSUME NEW c \in Active' PROVE cycles'[c].aborted
    <3>1. c \in Active /\ c \in Cycles /\ cycles'[c] # None
      BY <1>1, <2>3 DEF Active
    <3> QED BY <2>2, <3>1
  <2> QED BY <1>1, <2>1, <2>3
<1>3. LoopAlive' /\ (timer => running)'
  BY DEF LoopAlive
<1> QED BY <1>2, <1>3 DEF LoopInv

LEMMA StartLoops ==
  ASSUME TypeOK, LoopInv, Start
  PROVE  LoopInv'
<1>1. /\ running' = TRUE /\ timer' = TRUE /\ overlapped' = (overlapped \/ Active # {})
      /\ UNCHANGED <<controller, cycles>>
  BY DEF Start
<1>2. Active' = Active
  BY <1>1 DEF Active
<1>3. ~ overlapped' => Active' = {}
  BY <1>1, <1>2
<1>4. LoopAlive' /\ (timer => running)'
  BY <1>1 DEF LoopAlive
<1> QED BY <1>3, <1>4 DEF LoopInv

LEMMA TimerLoops ==
  ASSUME TypeOK, LoopInv, NEW c \in Cycles, TimerFires(c)
  PROVE  cycles' \in CycleTable /\ timer' \in BOOLEAN /\ controller' \in Cycles \cup {None} /\ LoopInv'
<1>1. timer /\ running /\ timer \in BOOLEAN /\ running \in BOOLEAN /\ overlapped \in BOOLEAN
      /\ cycles \in CycleTable /\ UNCHANGED <<running, overlapped>>
  BY DEF TimerFires, LoopInv, TypeOK, CycleTable
<1>2. CASE HasSession
  <2>1. timer' = FALSE /\ controller' = c /\ cycles' = [cycles EXCEPT ![c] = Fresh]
    BY <1>2 DEF TimerFires
  <2>2. Fresh \in Cycle
    BY DEF Fresh, Cycle, Epochs
  <2>3. cycles' \in CycleTable /\ Active' = Active \cup {c}
    BY <1>1, <2>1, <2>2 DEF CycleTable, Active
  <2>4. LoopAlive' /\ (timer => running)'
    BY <2>1, <2>3 DEF LoopAlive
  <2>5. ~ overlapped' => Active' = {c}
    BY <1>1, <2>3 DEF LoopInv
  <2> QED BY <1>1, <2>1, <2>3, <2>4, <2>5 DEF LoopInv
<1>3. CASE ~ HasSession
  <2>1. controller' = None /\ UNCHANGED <<timer, cycles>>
    BY <1>3 DEF TimerFires
  <2>2. Active' = Active /\ (~ overlapped => Active = {})
    BY <1>1, <2>1 DEF Active, LoopInv
  <2>3. LoopAlive' /\ (timer => running)'
    BY <1>1, <2>1 DEF LoopAlive
  <2> QED BY <1>1, <2>1, <2>2, <2>3 DEF LoopInv
<1> QED BY <1>2, <1>3

-----------------------------------------------------------------------------
(* What a step does to the store *)

Entries == {"claimed", "progress", "succeeded", "failed", "cancelled"} \X Epochs

StoreTyped ==
  /\ phase \in [Jobs -> {"none", "free", "held", "succeeded", "failed", "cancelled"}]
  /\ epoch \in [Jobs -> Epochs]
  /\ journal \in [Jobs -> Seq(Entries)]

\* Claims are numbered upwards, and a job is only held anew under a new claim.
StoreMoves ==
  \A j \in Jobs :
    /\ epoch[j] <= epoch'[j]
    /\ phase'[j] = "held" => epoch[j] < epoch'[j] \/ (phase[j] = "held" /\ epoch'[j] = epoch[j])

EndsNothing ==
  \A j \in Jobs : phase'[j] \in {"succeeded", "failed"} => phase'[j] = phase[j] /\ epoch'[j] = epoch[j]

LEMMA GrantMoves ==
  ASSUME TypeOK, NEW j \in Jobs, Claimable(j), Store!Grant(j)
  PROVE  /\ StoreTyped' /\ StoreMoves /\ EndsNothing
         /\ epoch' = [epoch EXCEPT ![j] = epoch[j] + 1]
<1>1. StoreTyped /\ epoch[j] + 1 \in Epochs
  BY DEF TypeOK, StoreTyped, Claimable, Epochs, Entries
<1>2. /\ phase' = [phase EXCEPT ![j] = "held"] /\ epoch' = [epoch EXCEPT ![j] = epoch[j] + 1]
      /\ journal' = [journal EXCEPT ![j] = Append(journal[j], <<"claimed", epoch[j] + 1>>)]
  BY DEF Store!Grant
<1>3. <<"claimed", epoch[j] + 1>> \in Entries /\ journal[j] \in Seq(Entries)
  BY <1>1 DEF StoreTyped, Entries
<1>4. Append(journal[j], <<"claimed", epoch[j] + 1>>) \in Seq(Entries)
  BY <1>3
<1>5. StoreTyped'
  BY <1>1, <1>2, <1>4 DEF StoreTyped
<1>6. StoreMoves /\ EndsNothing
  BY <1>1, <1>2 DEF StoreTyped, StoreMoves, EndsNothing, Epochs
<1> QED BY <1>2, <1>5, <1>6

LEMMA NoteTyped ==
  ASSUME TypeOK, NEW S, NEW kind \in {"claimed", "progress", "succeeded", "failed", "cancelled"}
  PROVE  Store!Note(S, kind) \in [Jobs -> Seq(Entries)]
<1>1. ASSUME NEW j \in Jobs
      PROVE  (IF j \in S THEN Append(journal[j], <<kind, epoch[j]>>) ELSE journal[j]) \in Seq(Entries)
  <2>1. journal[j] \in Seq(Entries) /\ <<kind, epoch[j]>> \in Entries
    BY DEF TypeOK, Entries
  <2> QED BY <2>1
<1> QED BY <1>1 DEF Store!Note

\* A report under the claim in force.
LEMMA ReportsMove ==
  ASSUME TypeOK, NEW kind, NEW j \in Jobs, NEW e, Reports(kind, j, e)
  PROVE  /\ StoreTyped' /\ StoreMoves /\ epoch' = epoch /\ Holds(j, e)
         /\ kind \in {"progress", "complete", "fail"}
         /\ \A k \in Jobs :
              \/ phase'[k] = phase[k]
              \/ k = j /\ kind = "complete" /\ phase'[k] = "succeeded"
              \/ k = j /\ kind = "fail" /\ phase'[k] = "failed"
<1>1. StoreTyped
  BY DEF TypeOK, StoreTyped, Entries
<1>2. /\ epoch' = epoch /\ Holds(j, e) /\ kind \in {"progress", "complete", "fail"}
      /\ \/ kind = "progress" /\ phase' = phase
         \/ kind = "complete" /\ phase' = [phase EXCEPT ![j] = "succeeded"]
         \/ kind = "fail" /\ phase' = [phase EXCEPT ![j] = "failed"]
      /\ \E note \in {"progress", "succeeded", "failed"} : journal' = Store!Note({j}, note)
  BY DEF Reports, Store!Report, Store!Finish
<1>3. journal' \in [Jobs -> Seq(Entries)]
  BY <1>2, NoteTyped
<1>4. StoreTyped'
  BY <1>1, <1>2, <1>3 DEF StoreTyped
<1>5. \A k \in Jobs :
        \/ phase'[k] = phase[k]
        \/ k = j /\ kind = "complete" /\ phase'[k] = "succeeded"
        \/ k = j /\ kind = "fail" /\ phase'[k] = "failed"
  BY <1>1, <1>2 DEF StoreTyped
<1>6. StoreMoves
  BY <1>1, <1>2, <1>5 DEF StoreTyped, StoreMoves, Epochs
<1> QED BY <1>2, <1>4, <1>5, <1>6

\* The control plane and the clock.
LEMMA OthersMove ==
  ASSUME TypeOK, NEW j \in Jobs, NEW S \in SUBSET Jobs, Store!Offer(j) \/ Store!Lapse(S) \/ Store!Cancel(S)
  PROVE  StoreTyped' /\ StoreMoves /\ EndsNothing /\ epoch' = epoch
<1>1. StoreTyped
  BY DEF TypeOK, StoreTyped, Entries
<1>2. CASE Store!Offer(j)
  BY <1>1, <1>2 DEF Store!Offer, StoreTyped, StoreMoves, EndsNothing, Epochs
<1>3. CASE Store!Lapse(S)
  BY <1>1, <1>3 DEF Store!Lapse, StoreTyped, StoreMoves, EndsNothing, Epochs
<1>4. CASE Store!Cancel(S)
  <2>1. /\ phase' = [k \in Jobs |-> IF k \in S THEN "cancelled" ELSE phase[k]] /\ epoch' = epoch
        /\ journal' = Store!Note(S, "cancelled")
    BY <1>4 DEF Store!Cancel
  <2>2. journal' \in [Jobs -> Seq(Entries)]
    BY <2>1, NoteTyped
  <2> QED BY <1>1, <2>1, <2>2 DEF StoreTyped, StoreMoves, EndsNothing, Epochs
<1> QED BY <1>2, <1>3, <1>4

\* A claim that is not in force never is again.
LEMMA NeverHeldAgain ==
  ASSUME TypeOK, StoreTyped', StoreMoves, NEW j \in Jobs, NEW e \in Epochs, e <= epoch[j], ~ Holds(j, e)
  PROVE  ~ Holds(j, e)'
<1>1. epoch[j] \in Nat /\ epoch'[j] \in Nat /\ e \in Nat
  BY DEF TypeOK, StoreTyped, Epochs
<1> QED BY <1>1 DEF StoreMoves, Holds

LEMMA MayFailStays ==
  ASSUME TypeOK, StoreTyped', StoreMoves, revoked => revoked', losses' \in Nat, losses <= losses',
         NEW j \in Jobs, NEW e \in Epochs, e <= epoch[j], MayFail(j, e), work'[j][e] = work[j][e]
  PROVE  MayFail(j, e)'
<1>1. ~ Holds(j, e) => ~ Holds(j, e)'
  BY NeverHeldAgain
<1>2. losses > 0 => losses' > 0
  BY DEF TypeOK
<1> QED BY <1>1, <1>2 DEF MayFail

-----------------------------------------------------------------------------
(* What a step does to the work *)

\* The work of other claims, of cycles and of requests, stays what it was.
LEMMA CycleFitsStill ==
  ASSUME TypeOK, StoreTyped', StoreMoves, revoked => revoked', losses' \in Nat, losses <= losses',
         NEW x \in Cycle, CycleFits(x),
         Carries(x) => work'[x.job][x.epoch] = work[x.job][x.epoch]
  PROVE  CycleFits(x)'
<1>1. x.epoch \in Epochs /\ (x.at # "poll" => x.job \in Jobs)
  BY DEF Cycle, CycleFits
<1>2. Carries(x)' = Carries(x)
  BY DEF Carries
<1>3. Carries(x) => x.job \in Jobs /\ x.epoch <= epoch[x.job] /\ x.epoch <= epoch'[x.job]
  <2>1. Carries(x) => x.job \in Jobs /\ x.epoch <= epoch[x.job]
    BY <1>1 DEF CycleFits, Carries, InJob
  <2>2. \A j \in Jobs : epoch[j] \in Nat /\ epoch'[j] \in Nat /\ epoch[j] <= epoch'[j]
    BY DEF TypeOK, StoreTyped, Epochs, StoreMoves
  <2> QED BY <1>1, <2>1, <2>2 DEF Epochs
<1>4. x.at = "fail" => MayFail(x.job, x.epoch)'
  <2> SUFFICES ASSUME x.at = "fail" PROVE MayFail(x.job, x.epoch)'
    OBVIOUS
  <2>1. Carries(x) /\ MayFail(x.job, x.epoch)
    BY DEF Carries, InJob, CycleFits
  <2> QED BY <1>1, <1>3, <2>1, MayFailStays
<1>5. x.at = "complete" /\ x.net = "conflict" => ~ Holds(x.job, x.epoch)'
  <2> SUFFICES ASSUME x.at = "complete", x.net = "conflict" PROVE ~ Holds(x.job, x.epoch)'
    OBVIOUS
  <2>1. Carries(x) /\ ~ Holds(x.job, x.epoch)
    BY DEF Carries, InJob, CycleFits
  <2> QED BY <1>1, <1>3, <2>1, NeverHeldAgain
<1>6. x.at \in {"work", "progress", "complete"} => Carries(x)
  BY DEF Carries, InJob
<1> QED BY <1>1, <1>2, <1>3, <1>4, <1>5, <1>6 DEF CycleFits, Carries

LEMMA LateFitsStill ==
  ASSUME TypeOK, StoreTyped', StoreMoves, revoked => revoked', losses' \in Nat, losses <= losses',
         NEW m \in Request, LateFits(m),
         m.kind \in {"complete", "fail"} => work'[m.job][m.epoch] = work[m.job][m.epoch]
  PROVE  LateFits(m)'
<1> SUFFICES ASSUME m.kind \in {"complete", "fail"}
             PROVE  /\ m.epoch <= epoch'[m.job]
                    /\ m.kind = "complete" => work'[m.job][m.epoch] = "done"
                    /\ m.kind = "fail" => MayFail(m.job, m.epoch)'
  BY DEF LateFits
<1>1. m.job \in Jobs /\ m.epoch \in Epochs /\ m.epoch <= epoch[m.job]
  BY DEF Request, LateFits
<1>2. m.epoch <= epoch'[m.job]
  <2>1. epoch[m.job] \in Nat /\ epoch'[m.job] \in Nat /\ epoch[m.job] <= epoch'[m.job]
    BY <1>1 DEF TypeOK, StoreTyped, Epochs, StoreMoves
  <2> QED BY <1>1, <2>1 DEF Epochs
<1>3. m.kind = "fail" => MayFail(m.job, m.epoch)'
  BY <1>1, MayFailStays DEF LateFits
<1> QED BY <1>2, <1>3 DEF LateFits

LEMMA EndedFitsStill ==
  ASSUME TypeOK, WorkInv, EndsNothing, losses' \in Nat, losses <= losses', NEW j \in Jobs,
         work[j][epoch[j]] \in {"done", "failed"} => work'[j][epoch[j]] = work[j][epoch[j]]
  PROVE  EndedFits(j)'
<1>1. EndedFits(j) /\ losses \in Nat
  BY DEF WorkInv, TypeOK
<1> QED BY <1>1 DEF EndedFits, EndsNothing

WorkTable == [Jobs -> [Epochs -> {"none", "running", "done", "failed"}]]

\* The same claim is carried on.
Continues(y, x) == Carries(x) /\ y.job = x.job /\ y.epoch = x.epoch

\* The work of the claim of cycle c, which had not ended, is all that may change.
WorkBy(c) ==
  \A j \in Jobs, e \in Epochs :
    \/ work'[j][e] = work[j][e]
    \/ /\ c \in Active /\ Carries(cycles[c]) /\ cycles[c].job = j /\ cycles[c].epoch = e
       /\ work[j][e] \in {"none", "running"}

\* One cycle goes on, begins or ends, the store moves, and requests are left behind.
LEMMA WorkMoves ==
  ASSUME TypeOK, WorkInv, StoreTyped', StoreMoves, revoked => revoked', losses' \in Nat, losses <= losses',
         NEW c \in Cycles, NEW y \in Cycle \cup {None}, cycles' = [cycles EXCEPT ![c] = y],
         y # None => CycleFits(y)',
         y # None /\ Carries(y) => y.epoch > epoch[y.job] \/ (c \in Active /\ Continues(y, cycles[c])),
         WorkBy(c),
         \A m \in late' : m \in Request /\ (m \in late \/ LateFits(m)'),
         \A j \in Jobs : EndedFits(j)'
  PROVE  WorkInv'
<1>1. \A d \in Active' : \/ d = c /\ y \in Cycle /\ y # None /\ cycles'[d] = y
                         \/ d # c /\ d \in Active /\ cycles'[d] = cycles[d] /\ cycles[d] \in Cycle
  BY DEF TypeOK, Active
<1>2. \A d \in Active : Carries(cycles[d]) =>
        /\ cycles[d].job \in Jobs /\ cycles[d].epoch \in Epochs
        /\ cycles[d].epoch <= epoch[cycles[d].job]
  <2> TAKE d \in Active
  <2>1. cycles[d] \in Cycle /\ CycleFits(cycles[d])
    BY ActiveFacts DEF WorkInv
  <2>2. Carries(cycles[d]) => cycles[d].at # "poll"
    BY DEF Carries, InJob
  <2> QED BY <2>1, <2>2 DEF CycleFits, Cycle
<1>3. ASSUME NEW d \in Active' PROVE CycleFits(cycles[d])'
  <2>1. CASE d = c
    <3>1. CycleFits(y)' /\ cycles'[d] = y
      BY <1>1, <1>3, <2>1
    <3> QED BY <3>1 DEF CycleFits, MayFail, Holds, Carries, InJob
  <2>2. CASE d # c
    <3> PICK x : x = cycles[d]
      OBVIOUS
    <3>1. d \in Active /\ cycles'[d] = x /\ x \in Cycle /\ CycleFits(x)
      BY <1>1, <1>3, <2>2 DEF WorkInv
    <3>2. Carries(x) => work'[x.job][x.epoch] = work[x.job][x.epoch]
      <4> SUFFICES ASSUME Carries(x), work'[x.job][x.epoch] # work[x.job][x.epoch] PROVE FALSE
        OBVIOUS
      <4>1. x.job \in Jobs /\ x.epoch \in Epochs
        BY <1>2, <3>1
      <4>2. c \in Active /\ Carries(cycles[c]) /\ cycles[c].job = x.job /\ cycles[c].epoch = x.epoch
        BY <4>1 DEF WorkBy
      <4> QED BY <2>2, <3>1, <4>2 DEF WorkInv
    <3>3. CycleFits(x)'
      BY <3>1, <3>2, CycleFitsStill
    <3> QED BY <3>1, <3>3 DEF CycleFits, MayFail, Holds, Carries, InJob
  <2> QED BY <2>1, <2>2
<1>4. ASSUME NEW d \in Active', NEW e \in Active', Carries(cycles'[d]), Carries(cycles'[e]),
             cycles'[d].job = cycles'[e].job, cycles'[d].epoch = cycles'[e].epoch
      PROVE  d = e
  <2>1. \A f, g \in Active : Carries(cycles[f]) /\ Carries(cycles[g]) /\ cycles[f].job = cycles[g].job
          /\ cycles[f].epoch = cycles[g].epoch => f = g
    BY DEF WorkInv
  <2>2. ASSUME NEW f \in Active, f # c, Carries(cycles[f]), y # None, Carries(y), y.job = cycles[f].job,
               y.epoch = cycles[f].epoch
        PROVE  FALSE
    <3>1. cycles[f].epoch <= epoch[cycles[f].job] /\ cycles[f].epoch \in Nat
          /\ epoch[cycles[f].job] \in Nat
      BY <1>2, <2>2 DEF TypeOK, Epochs
    <3>2. c \in Active /\ Continues(y, cycles[c])
      BY <2>2, <3>1
    <3> QED BY <2>1, <2>2, <3>2 DEF Continues
  <2> QED BY <1>1, <1>4, <2>1, <2>2
<1>5. ASSUME NEW m \in late' PROVE LateFits(m)'
  <2>1. CASE m \in late
    <3>1. m \in Request /\ LateFits(m)
      BY <1>5, <2>1 DEF WorkInv
    <3>2. m.kind \in {"complete", "fail"} => work'[m.job][m.epoch] = work[m.job][m.epoch]
      <4>1. m.job \in Jobs /\ m.epoch \in Epochs
        BY <3>1 DEF Request
      <4>2. m.kind \in {"complete", "fail"} => work[m.job][m.epoch] \notin {"none", "running"}
        BY <3>1 DEF LateFits, MayFail
      <4> QED BY <4>1, <4>2 DEF WorkBy
    <3> QED BY <3>1, <3>2, LateFitsStill
  <2> QED BY <1>5, <2>1
<1>6. ASSUME NEW j \in Jobs, NEW e \in Epochs, e > epoch'[j] PROVE work'[j][e] = "none"
  <2>1. epoch[j] \in Nat /\ epoch'[j] \in Nat /\ epoch[j] <= epoch'[j] /\ e \in Nat
    BY DEF TypeOK, StoreTyped, StoreMoves, Epochs
  <2>2. e > epoch[j] /\ work[j][e] = "none"
    BY <1>6, <2>1 DEF WorkInv
  <2>3. ~ (c \in Active /\ Carries(cycles[c]) /\ cycles[c].job = j /\ cycles[c].epoch = e)
    BY <1>2, <2>1, <2>2
  <2> QED BY <2>2, <2>3 DEF WorkBy
<1>7. \A d \in Active' : Carries(cycles'[d]) = Carries(cycles[d])'
  BY DEF Carries
<1>8. (\A d, e \in Active :
         Carries(cycles[d]) /\ Carries(cycles[e]) /\ cycles[d].job = cycles[e].job
           /\ cycles[d].epoch = cycles[e].epoch => d = e)'
  BY <1>4, <1>7
<1> QED BY <1>3, <1>5, <1>6, <1>8 DEF WorkInv

\* The store alone moves, or a request that was left behind arrives.
LEMMA WorkRests ==
  ASSUME TypeOK, WorkInv, StoreTyped', StoreMoves, revoked => revoked', losses' \in Nat, losses <= losses',
         cycles' = cycles, work' = work, late' \subseteq late, \A j \in Jobs : EndedFits(j)'
  PROVE  WorkInv'
<1>1. 1 \in Cycles
  BY DEF Cycles
<1> PICK c, y : c = 1 /\ y = cycles[1]
  OBVIOUS
<1>2. c \in Cycles /\ y \in Cycle \cup {None} /\ cycles' = [cycles EXCEPT ![c] = y]
  BY <1>1 DEF TypeOK
<1>3. y # None => c \in Active /\ y \in Cycle /\ CycleFits(y) /\ y = cycles[c]
  BY <1>1, <1>2 DEF Active, WorkInv
<1>4. y # None => CycleFits(y)'
  BY <1>3, CycleFitsStill
<1>5. y # None /\ Carries(y) => y.epoch > epoch[y.job] \/ (c \in Active /\ Continues(y, cycles[c]))
  BY <1>3 DEF Continues
<1>6. WorkBy(c)
  BY DEF WorkBy
<1>7. \A m \in late' : m \in Request /\ (m \in late \/ LateFits(m)')
  BY DEF TypeOK
<1> QED BY <1>2, <1>4, <1>5, <1>6, <1>7, WorkMoves, ZenonT(40)

-----------------------------------------------------------------------------
(* The steps of a cycle *)

LEMMA TypeFacts ==
  ASSUME TypeOK
  PROVE  /\ StoreTyped /\ cycles \in CycleTable /\ work \in WorkTable /\ revoked \in BOOLEAN
         /\ session \in {"unpaired", "paired", "clearing", "cleared"} /\ running \in BOOLEAN
         /\ timer \in BOOLEAN /\ controller \in Cycles \cup {None} /\ late \in SUBSET Request
         /\ losses \in Nat /\ stops \in Nat /\ reports \in Nat /\ overlapped \in BOOLEAN
  BY DEF TypeOK, StoreTyped, CycleTable, WorkTable, Entries

LEMMA StoreRests ==
  ASSUME TypeOK, UNCHANGED store
  PROVE  StoreTyped' /\ StoreMoves /\ EndsNothing
<1>1. StoreTyped /\ phase' = phase /\ epoch' = epoch /\ journal' = journal
  BY TypeFacts DEF store
<1> QED BY <1>1 DEF StoreTyped, StoreMoves, EndsNothing, Epochs

\* What a cycle's step leaves alone.
Aside == UNCHANGED <<store, revoked, session, running, overlapped>>

\* What is counted.
Counted == losses' \in Nat /\ losses <= losses' /\ stops' \in Nat /\ reports' \in Nat

\* A step of a cycle that goes on as y, or ends.
LEMMA TurnKeeps ==
  ASSUME IInv, NEW c \in Active, NEW y, Turns(c, y), Aside, Counted,
         y # None => CycleFits(y)',
         y # None /\ Carries(y) => Continues(y, cycles[c]),
         work' \in WorkTable, WorkBy(c),
         \A m \in late' : m \in Request /\ (m \in late \/ LateFits(m)')
  PROVE  IInv'
<1>1. TypeOK /\ LoopInv /\ WorkInv /\ c \in Cycles /\ cycles[c] \in Cycle /\ CycleFits(cycles[c])
  BY ActiveFacts DEF IInv, WorkInv
<1>2. UNCHANGED store /\ revoked' = revoked /\ session' = session /\ running' = running
      /\ overlapped' = overlapped
  BY DEF Aside
<1>3. StoreTyped' /\ StoreMoves /\ EndsNothing
  BY <1>1, <1>2, StoreRests
<1>4. /\ cycles' \in CycleTable /\ timer' \in BOOLEAN /\ controller' \in Cycles \cup {None}
      /\ LoopInv'
  <2>1. UNCHANGED <<running, overlapped>>
    BY <1>2
  <2> QED BY <1>1, <2>1, TurnsLoops, ZenonT(20)
<1>5. y \in Cycle \cup {None} /\ cycles' = [cycles EXCEPT ![c] = y]
  BY DEF Turns
<1>6. \A j \in Jobs : EndedFits(j)'
  <2> TAKE j \in Jobs
  <2>1. work[j][epoch[j]] \in {"done", "failed"} => work'[j][epoch[j]] = work[j][epoch[j]]
    BY <1>1, TypeFacts DEF WorkBy, StoreTyped
  <2> QED BY <1>1, <1>3, <2>1, EndedFitsStill DEF Counted
<1>7. WorkInv'
  <2>1. y # None /\ Carries(y) => y.epoch > epoch[y.job] \/ (c \in Active /\ Continues(y, cycles[c]))
    OBVIOUS
  <2>2. losses' \in Nat /\ losses <= losses' /\ (revoked => revoked')
    BY <1>2 DEF Counted
  <2> QED BY <1>1, <1>3, <1>5, <1>6, <2>1, <2>2, WorkMoves, ZenonT(40)
<1>8. TypeOK'
  <2>1. late' \in SUBSET Request
    OBVIOUS
  <2>2. revoked' \in BOOLEAN /\ session' \in {"unpaired", "paired", "clearing", "cleared"}
        /\ running' \in BOOLEAN /\ overlapped' \in BOOLEAN
    BY <1>1, <1>2, TypeFacts
  <2> QED BY <1>3, <1>4, <2>1, <2>2 DEF TypeOK, StoreTyped, CycleTable, WorkTable, Entries, Counted
<1> QED BY <1>4, <1>7, <1>8 DEF IInv

\* A claim that was just sent says nothing of any work.
LEMMA ClaimFits ==
  ASSUME NEW y \in Cycle, y.at = "claim", y.net = "sent", y.job \in Jobs
  PROVE  CycleFits(y)' /\ ~ Carries(y)
<1>1. ~ Carries(y)
  BY DEF Carries, InJob
<1>2. Carries(y)' = Carries(y)
  BY DEF Carries
<1> QED BY <1>1, <1>2 DEF CycleFits

\* A failure that is about to be reported.
LEMMA FailFits ==
  ASSUME TypeOK, WorkInv, NEW c \in Active, NEW x, x = cycles[c], Carries(x), UNCHANGED store,
         MayFail(x.job, x.epoch)', NEW y, y = Sent(x, "fail")
  PROVE  CycleFits(y)' /\ Carries(y) /\ Continues(y, x) /\ y \in Cycle
<1>1. x \in Cycle /\ CycleFits(x) /\ Carries(x)
  BY ActiveFacts DEF WorkInv
<1>2. x.job \in Jobs /\ x.epoch <= epoch[x.job] /\ epoch' = epoch
  BY <1>1 DEF CycleFits, Carries, InJob, store
<1>3. y \in Cycle /\ y.at = "fail" /\ y.net = "sent" /\ y.job = x.job /\ y.epoch = x.epoch
  BY <1>1 DEF Sent, Cycle
<1>4. MayFail(y.job, y.epoch)'
  BY <1>3
<1>5. CycleFits(y)'
  BY <1>2, <1>3, <1>4 DEF CycleFits
<1>6. Carries(y) /\ Continues(y, x)
  BY <1>1, <1>3 DEF Carries, InJob, Continues
<1> QED BY <1>3, <1>5, <1>6

\* The work of a claim takes its next value.
WorkBecomes(j, e, o) == work' = [work EXCEPT ![j][e] = o]

LEMMA WorkSet ==
  ASSUME TypeOK, NEW j \in Jobs, NEW e \in Epochs, NEW o \in {"running", "done", "failed"},
         WorkBecomes(j, e, o)
  PROVE  /\ work' \in WorkTable /\ work'[j][e] = o
         /\ \A k \in Jobs, f \in Epochs : work'[k][f] = work[k][f] \/ (k = j /\ f = e)
<1>1. work \in WorkTable
  BY TypeFacts
<1> QED BY <1>1 DEF WorkTable, WorkBecomes

\* A new claim is sent, or the cycle ends, while the work of the claim it leaves may have ended.
GoesOn(y) == y = None \/ (y \in Cycle /\ y.at = "claim" /\ y.net = "sent" /\ y.job \in Jobs)

LEMMA GoesOnFits ==
  ASSUME NEW y, GoesOn(y)
  PROVE  y # None => CycleFits(y)' /\ ~ Carries(y)
  BY ClaimFits DEF GoesOn

LEMMA ContinueGoesOn ==
  ASSUME TypeOK, NEW c \in Active, Continue(c, cycles[c])
  PROVE  \E y : Turns(c, y) /\ GoesOn(y)
<1>1. c \in Cycles /\ cycles[c] \in Cycle
  BY ActiveFacts
<1> PICK x : x = cycles[c]
  OBVIOUS
<1>2. PICK y : /\ Turns(c, y)
               /\ y = None \/ (y \in Cycle /\ y.at = "claim" /\ y.net = "sent" /\ y.job \in Jobs
                               /\ ~ y.aborted)
  BY <1>1, ContinueTurns
<1> QED BY <1>2 DEF GoesOn

\* A failed job: the cycle goes on, or reports a failure that MayFail allows.
LEMMA JobFailsFits ==
  ASSUME TypeOK, WorkInv, NEW c \in Active, NEW x, x = cycles[c], Carries(x), JobFails(c, cycles[c]),
         UNCHANGED store, ~ Silent(x) => MayFail(x.job, x.epoch)'
  PROVE  \E y : /\ Turns(c, y)
                /\ y # None => CycleFits(y)'
                /\ y # None /\ Carries(y) => Continues(y, cycles[c])
<1>1. PICK y : /\ Turns(c, y)
               /\ \/ y = None
                  \/ y \in Cycle /\ y.at = "claim" /\ y.net = "sent" /\ y.job \in Jobs /\ ~ y.aborted
                  \/ ~ Silent(cycles[c]) /\ y = Sent(cycles[c], "fail")
  BY JobFailsTurns
<1>2. CASE GoesOn(y)
  BY <1>1, <1>2, GoesOnFits
<1>3. CASE ~ Silent(x) /\ y = Sent(x, "fail")
  BY <1>1, <1>3, FailFits
<1> QED BY <1>1, <1>2, <1>3 DEF GoesOn

LEMMA EndTurns ==
  ASSUME NEW c \in Active, EndCycle(c)
  PROVE  Turns(c, None)
  BY DEF EndCycle, Turns

LEMMA HandlerReportsKeeps ==
  ASSUME IInv, NEW c \in Cycles, HandlerReports(c)
  PROVE  IInv'
<1>1. /\ c \in Active /\ cycles[c].at = "work" /\ reports' = reports + 1
      /\ cycles' = [cycles EXCEPT ![c] = Sent(cycles[c], "progress")]
      /\ UNCHANGED <<timer, controller, late, losses, stops, work>> /\ Aside
  BY DEF HandlerReports, Aside, store
<1> PICK x : x = cycles[c]
  OBVIOUS
<1> PICK y : y = Sent(x, "progress")
  OBVIOUS
<1>2. TypeOK /\ WorkInv /\ x \in Cycle /\ CycleFits(x)
  BY <1>1, ActiveFacts DEF IInv, WorkInv
<1>3. y \in Cycle /\ y.at = "progress" /\ y.net = "sent" /\ y.job = x.job /\ y.epoch = x.epoch
      /\ y.aborted = x.aborted
  BY <1>2 DEF Sent, Cycle
<1>4. Turns(c, y)
  BY <1>1, <1>3 DEF Turns
<1>5. epoch' = epoch /\ work' = work
  BY <1>1 DEF Aside, store
<1>6. CycleFits(y)' /\ Continues(y, cycles[c])
  BY <1>1, <1>2, <1>3, <1>5 DEF CycleFits, Carries, InJob, Continues
<1>7. Counted /\ work' \in WorkTable /\ WorkBy(c) /\ Aside
      /\ \A m \in late' : m \in Request /\ (m \in late \/ LateFits(m)')
  BY <1>1, <1>2, <1>5, TypeFacts DEF Counted, WorkBy
<1> QED BY <1>1, <1>4, <1>6, <1>7, TurnKeeps, ZenonT(20)

LEMMA LeaseFailsKeeps ==
  ASSUME IInv, NEW c \in Cycles, LeaseFails(c)
  PROVE  IInv'
<1>1. /\ c \in Active /\ cycles[c].at \in InJob
      /\ cycles' = [cycles EXCEPT ![c] = [cycles[c] EXCEPT !.leaseLost = TRUE]]
      /\ losses' = losses \/ losses' = losses + 1
      /\ UNCHANGED <<timer, controller, late, stops, reports, work>> /\ Aside
  BY DEF LeaseFails, Aside, store
<1> PICK x : x = cycles[c]
  OBVIOUS
<1> PICK y : y = [x EXCEPT !.leaseLost = TRUE]
  OBVIOUS
<1>2. TypeOK /\ WorkInv /\ x \in Cycle /\ CycleFits(x)
  BY <1>1, ActiveFacts DEF IInv, WorkInv
<1>3. y \in Cycle /\ y.at = x.at /\ y.net = x.net /\ y.job = x.job /\ y.epoch = x.epoch
      /\ y.aborted = x.aborted
  BY <1>2 DEF Cycle
<1>4. Turns(c, y)
  BY <1>1, <1>3 DEF Turns
<1>5. Counted /\ work' \in WorkTable /\ WorkBy(c) /\ Aside
      /\ \A m \in late' : m \in Request /\ (m \in late \/ LateFits(m)')
  BY <1>1, <1>2, TypeFacts DEF Counted, WorkBy
<1>6. Carries(y) = Carries(x)
  BY <1>3 DEF Carries
<1>7. Carries(y) => Continues(y, cycles[c])
  BY <1>3, <1>6 DEF Continues
<1>8. CycleFits(y)'
  <2>1. StoreTyped' /\ StoreMoves /\ (revoked => revoked')
    BY <1>1, <1>2, StoreRests DEF Aside
  <2>2. CycleFits(x)'
    BY <1>1, <1>2, <1>5, <2>1, CycleFitsStill DEF Counted
  <2> QED BY <1>3, <2>2 DEF CycleFits, Carries, MayFail, Holds
<1> QED BY <1>1, <1>4, <1>5, <1>7, <1>8, TurnKeeps, ZenonT(20)

LEMMA HandlerEndsKeeps ==
  ASSUME IInv, NEW c \in Cycles, NEW outcome \in {"done", "failed"}, HandlerEnds(c, outcome)
  PROVE  IInv'
<1>1. /\ c \in Active /\ cycles[c].at = "work"
      /\ work' = [work EXCEPT ![cycles[c].job][cycles[c].epoch] = outcome]
      /\ UNCHANGED <<late, losses, stops, reports>> /\ Aside
  BY DEF HandlerEnds, Aside, store
<1> PICK x : x = cycles[c]
  OBVIOUS
<1>2. TypeOK /\ WorkInv /\ x \in Cycle /\ CycleFits(x) /\ Carries(x)
  BY <1>1, ActiveFacts DEF IInv, WorkInv, Carries, InJob
<1>3. x.job \in Jobs /\ x.epoch \in Epochs /\ x.epoch <= epoch[x.job] /\ work[x.job][x.epoch] = "running"
  BY <1>1, <1>2 DEF CycleFits, Cycle
<1>4. /\ work' \in WorkTable /\ work'[x.job][x.epoch] = outcome
      /\ \A k \in Jobs, f \in Epochs : work'[k][f] = work[k][f] \/ (k = x.job /\ f = x.epoch)
  <2>1. WorkBecomes(x.job, x.epoch, outcome)
    BY <1>1 DEF WorkBecomes
  <2>2. outcome \in {"running", "done", "failed"}
    OBVIOUS
  <2>3. TypeOK /\ x.job \in Jobs /\ x.epoch \in Epochs
    BY <1>2, <1>3
  <2> QED BY <2>1, <2>2, <2>3, WorkSet
<1>5. Counted /\ WorkBy(c) /\ \A m \in late' : m \in Request /\ (m \in late \/ LateFits(m)')
  BY <1>1, <1>2, <1>3, <1>4, TypeFacts DEF Counted, WorkBy
<1>6. UNCHANGED store /\ epoch' = epoch
  BY <1>1 DEF Aside, store
<1>7. CASE outcome = "done" /\ ~ Silent(cycles[c])
  <2> PICK y : y = Sent(x, "complete")
    OBVIOUS
  <2>1. cycles' = [cycles EXCEPT ![c] = y] /\ UNCHANGED <<timer, controller>>
    BY <1>7 DEF HandlerEnds
  <2>2. y \in Cycle /\ y.at = "complete" /\ y.net = "sent" /\ y.job = x.job /\ y.epoch = x.epoch
        /\ y.aborted = x.aborted
    BY <1>2 DEF Sent, Cycle
  <2>3. Turns(c, y)
    BY <2>1, <2>2 DEF Turns
  <2>4. CycleFits(y)' /\ Continues(y, cycles[c])
    BY <1>2, <1>3, <1>4, <1>6, <1>7, <2>2 DEF CycleFits, Continues
  <2> QED BY <1>1, <1>4, <1>5, <2>3, <2>4, TurnKeeps, ZenonT(20)
<1>8. CASE ~ (outcome = "done" /\ ~ Silent(cycles[c]))
  <2>1. JobFails(c, cycles[c])
    BY <1>8 DEF HandlerEnds
  <2>2. ~ Silent(x) => MayFail(x.job, x.epoch)'
    BY <1>4, <1>8 DEF MayFail
  <2>3. PICK y : /\ Turns(c, y)
                 /\ y # None => CycleFits(y)'
                 /\ y # None /\ Carries(y) => Continues(y, cycles[c])
    BY <1>1, <1>2, <1>6, <2>1, <2>2, JobFailsFits
  <2> QED BY <1>1, <1>4, <1>5, <2>3, TurnKeeps, ZenonT(20)
<1> QED BY <1>7, <1>8

\* A request that failed: its cycle ends, goes on, or reports a failure.
LEMMA RequestFailsFits ==
  ASSUME TypeOK, WorkInv, NEW c \in Active, NEW x, x = cycles[c], RequestFails(c), UNCHANGED store,
         x.at = "complete" /\ ~ Silent(x) =>
           (losses > 0 \/ revoked \/ ~ Holds(x.job, x.epoch))'
  PROVE  \E y : /\ Turns(c, y) /\ work' \in WorkTable /\ WorkBy(c)
                /\ y # None => CycleFits(y)'
                /\ y # None /\ Carries(y) => Continues(y, cycles[c])
<1>1. x \in Cycle /\ CycleFits(x) /\ epoch' = epoch
  BY ActiveFacts DEF WorkInv, store
<1>2. x.at # "progress" => work' = work /\ work' \in WorkTable /\ WorkBy(c)
  BY TypeFacts DEF RequestFails, WorkBy
<1>3. CASE x.at \in {"poll", "claim"}
  <2>1. Turns(c, None)
    BY <1>3, EndTurns DEF RequestFails
  <2> QED BY <1>2, <1>3, <2>1
<1>4. CASE x.at = "fail"
  <2>1. Continue(c, cycles[c])
    BY <1>4 DEF RequestFails
  <2>2. PICK y : Turns(c, y) /\ GoesOn(y)
    BY <2>1, ContinueGoesOn
  <2>3. y # None => CycleFits(y)' /\ ~ Carries(y)
    BY <2>2, GoesOnFits
  <2> QED BY <1>2, <1>4, <2>2, <2>3
<1>5. CASE x.at = "complete"
  <2>1. JobFails(c, cycles[c]) /\ Carries(x) /\ work' = work /\ work[x.job][x.epoch] = "done"
    BY <1>1, <1>5 DEF RequestFails, Carries, InJob, CycleFits
  <2>2. ~ Silent(x) => MayFail(x.job, x.epoch)'
    BY <1>5, <2>1 DEF MayFail
  <2>3. PICK y : /\ Turns(c, y)
                 /\ y # None => CycleFits(y)'
                 /\ y # None /\ Carries(y) => Continues(y, cycles[c])
    BY <2>1, <2>2, JobFailsFits
  <2> QED BY <1>2, <1>5, <2>3
<1>6. CASE x.at = "progress"
  <2>1. /\ JobFails(c, cycles[c]) /\ Carries(x) /\ work' = [work EXCEPT ![x.job][x.epoch] = "failed"]
        /\ work[x.job][x.epoch] = "running" /\ x.job \in Jobs /\ x.epoch \in Epochs
    BY <1>1, <1>6 DEF RequestFails, Carries, InJob, CycleFits, Cycle
  <2>2. /\ work' \in WorkTable /\ work'[x.job][x.epoch] = "failed"
        /\ \A k \in Jobs, f \in Epochs : work'[k][f] = work[k][f] \/ (k = x.job /\ f = x.epoch)
    <3>1. "failed" \in {"running", "done", "failed"}
      OBVIOUS
    <3>2. WorkBecomes(x.job, x.epoch, "failed")
      BY <2>1 DEF WorkBecomes
    <3>3. x.job \in Jobs /\ x.epoch \in Epochs
      BY <2>1
    <3> QED BY <3>1, <3>2, <3>3, WorkSet
  <2>3. WorkBy(c)
    BY <2>1, <2>2 DEF WorkBy
  <2>4. ~ Silent(x) => MayFail(x.job, x.epoch)'
    BY <2>2 DEF MayFail
  <2>5. PICK y : /\ Turns(c, y)
                 /\ y # None => CycleFits(y)'
                 /\ y # None /\ Carries(y) => Continues(y, cycles[c])
    BY <2>1, <2>4, JobFailsFits
  <2> QED BY <2>2, <2>3, <2>5
<1> QED BY <1>3, <1>4, <1>5, <1>6 DEF RequestFails

LEMMA ReceiveKeeps ==
  ASSUME IInv, NEW c \in Cycles, Receive(c)
  PROVE  IInv'
<1>1. c \in Active /\ UNCHANGED <<late, losses, stops, reports>> /\ Aside
  BY DEF Receive, Aside, store
<1> PICK x : x = cycles[c]
  OBVIOUS
<1>2. TypeOK /\ WorkInv /\ x \in Cycle /\ CycleFits(x) /\ UNCHANGED store /\ epoch' = epoch
  BY <1>1, ActiveFacts DEF IInv, WorkInv, Aside, store
<1>3. Counted /\ \A m \in late' : m \in Request /\ (m \in late \/ LateFits(m)')
  BY <1>1, <1>2, TypeFacts DEF Counted
<1>4. work' = work => work' \in WorkTable /\ WorkBy(c)
  BY <1>2, TypeFacts DEF WorkBy
<1>5. CASE Continue(c, cycles[c]) /\ work' = work
  <2>1. PICK y : Turns(c, y) /\ GoesOn(y)
    BY <1>1, <1>2, <1>5, ContinueGoesOn
  <2>2. y # None => CycleFits(y)' /\ ~ Carries(y)
    BY <2>1, GoesOnFits
  <2>3. (y # None => CycleFits(y)') /\ (y # None /\ Carries(y) => Continues(y, cycles[c]))
    BY <2>2
  <2>4. work' \in WorkTable /\ WorkBy(c)
    BY <1>4, <1>5
  <2> QED BY <1>1, <1>3, <2>1, <2>3, <2>4, TurnKeeps, ZenonT(20)
<1>6. CASE /\ x.net = "ok" /\ x.at \in {"claim", "progress"}
           /\ cycles' = [cycles EXCEPT ![c].at = "work"]
           /\ IF x.at = "claim" THEN work' = [work EXCEPT ![x.job][x.epoch] = "running"] ELSE work' = work
           /\ UNCHANGED <<timer, controller>>
  <2> PICK y : y = [x EXCEPT !.at = "work"]
    OBVIOUS
  <2>1. y \in Cycle /\ y.at = "work" /\ y.net = "ok" /\ y.job = x.job /\ y.epoch = x.epoch
        /\ y.aborted = x.aborted
    BY <1>2, <1>6 DEF Cycle
  <2>2. cycles' = [cycles EXCEPT ![c] = y] /\ Turns(c, y)
    BY <1>6, <2>1 DEF Turns
  <2>3. x.job \in Jobs /\ x.epoch \in Epochs /\ Carries(x) /\ x.epoch <= epoch[x.job]
    BY <1>2, <1>6 DEF CycleFits, Cycle, Carries, InJob
  <2>4. work' \in WorkTable /\ WorkBy(c) /\ work'[x.job][x.epoch] = "running"
    <3>1. CASE x.at = "claim"
      <4>1. /\ work' \in WorkTable /\ work'[x.job][x.epoch] = "running"
            /\ \A k \in Jobs, f \in Epochs : work'[k][f] = work[k][f] \/ (k = x.job /\ f = x.epoch)
        <5>1. "running" \in {"running", "done", "failed"}
          OBVIOUS
        <5>2. WorkBecomes(x.job, x.epoch, "running")
          BY <1>6, <3>1 DEF WorkBecomes
        <5> PICK j, e : j = x.job /\ e = x.epoch
          OBVIOUS
        <5>3. WorkBecomes(j, e, "running") /\ j \in Jobs /\ e \in Epochs
          BY <2>3, <5>2
        <5>4. /\ work' \in WorkTable /\ work'[j][e] = "running"
              /\ \A k \in Jobs, f \in Epochs : work'[k][f] = work[k][f] \/ (k = j /\ f = e)
          BY <1>2, <5>1, <5>3, WorkSet
        <5> QED BY <5>4
      <4>2. work[x.job][x.epoch] = "none"
        BY <1>2, <1>6, <3>1 DEF CycleFits
      <4> QED BY <1>1, <2>3, <4>1, <4>2 DEF WorkBy
    <3>2. CASE x.at = "progress"
      <4>1. work[x.job][x.epoch] = "running" /\ work' = work
        BY <1>2, <1>6, <3>2 DEF CycleFits
      <4> QED BY <1>4, <4>1
    <3> QED BY <1>6, <3>1, <3>2
  <2>5. CycleFits(y)' /\ Continues(y, cycles[c])
    BY <1>2, <2>1, <2>3, <2>4 DEF CycleFits, Continues
  <2> QED BY <1>1, <1>3, <2>2, <2>4, <2>5, TurnKeeps, ZenonT(20)
<1>7. CASE /\ x.net = "refused" \/ (x.net = "conflict" /\ x.at # "claim")
           /\ RequestFails(c)
  <2>1. x.at = "complete" => (losses > 0 \/ revoked \/ ~ Holds(x.job, x.epoch))'
    BY <1>1, <1>2, <1>7 DEF CycleFits, Holds, Aside, store
  <2>2. PICK y : /\ Turns(c, y) /\ work' \in WorkTable /\ WorkBy(c)
                 /\ y # None => CycleFits(y)'
                 /\ y # None /\ Carries(y) => Continues(y, cycles[c])
    BY <1>1, <1>2, <1>7, <2>1, RequestFailsFits
  <2> QED BY <1>1, <1>3, <2>2, TurnKeeps, ZenonT(20)
<1> QED BY <1>5, <1>6, <1>7 DEF Receive

LEMMA GiveUpKeeps ==
  ASSUME IInv, NEW c \in Cycles, GiveUp(c)
  PROVE  IInv'
<1>1. /\ c \in Active /\ RequestFails(c) /\ UNCHANGED <<stops, reports>> /\ Aside
      /\ cycles[c].at # "work"
      /\ \/ Silent(cycles[c]) /\ losses' = losses
         \/ losses' = losses + 1
  BY DEF GiveUp, Aside, store, Silent
<1> PICK x : x = cycles[c]
  OBVIOUS
<1>2. TypeOK /\ WorkInv /\ x \in Cycle /\ CycleFits(x) /\ UNCHANGED store /\ revoked' = revoked
  BY <1>1, ActiveFacts DEF IInv, WorkInv, Aside
<1>3. Counted /\ losses' \in Nat /\ losses <= losses'
  BY <1>1, <1>2, TypeFacts DEF Counted
<1>4. ~ Silent(x) => losses' > 0
  BY <1>1, <1>2, TypeFacts
<1>5. PICK y : /\ Turns(c, y) /\ work' \in WorkTable /\ WorkBy(c)
               /\ y # None => CycleFits(y)'
               /\ y # None /\ Carries(y) => Continues(y, cycles[c])
  <2>1. x.at = "complete" /\ ~ Silent(x) => (losses > 0 \/ revoked \/ ~ Holds(x.job, x.epoch))'
    BY <1>4
  <2> QED BY <1>1, <1>2, <2>1, RequestFailsFits
<1>6. ASSUME NEW m \in late' PROVE m \in Request /\ (m \in late \/ LateFits(m)')
  <2>1. CASE m \in late
    BY <1>2, <2>1, TypeFacts
  <2>2. CASE /\ x.net = "sent" /\ x.at # "poll"
             /\ m = [kind |-> x.at, job |-> x.job, epoch |-> x.epoch]
    <3>1. m.kind = x.at /\ m.job = x.job /\ m.epoch = x.epoch /\ m \in Request
      BY <1>1, <1>2, <2>2 DEF Request, Cycle, CycleFits
    <3>2. LateFits(m)
      BY <1>2, <3>1 DEF LateFits, CycleFits, Carries, InJob
    <3>3. m.kind \in {"complete", "fail"} => work'[m.job][m.epoch] = work[m.job][m.epoch]
      BY <1>1, <3>1 DEF RequestFails
    <3>4. StoreTyped' /\ StoreMoves /\ (revoked => revoked')
      BY <1>2, StoreRests
    <3> QED BY <1>2, <1>3, <3>1, <3>2, <3>3, <3>4, LateFitsStill, ZenonT(20)
  <2> QED BY <1>6, <2>1, <2>2 DEF GiveUp
<1> QED BY <1>1, <1>3, <1>5, <1>6, TurnKeeps, ZenonT(20)

LEMMA TimerFiresKeeps ==
  ASSUME IInv, NEW c \in Cycles, TimerFires(c)
  PROVE  IInv'
<1>1. TypeOK /\ LoopInv /\ WorkInv /\ Aside /\ UNCHANGED <<late, losses, stops, reports, work>>
  BY DEF IInv, TimerFires, Aside, store
<1>2. /\ UNCHANGED store /\ revoked' = revoked /\ session' = session /\ running' = running
      /\ overlapped' = overlapped
  BY <1>1 DEF Aside
<1>3. StoreTyped' /\ StoreMoves /\ EndsNothing
  BY <1>1, <1>2, StoreRests
<1>4. /\ cycles' \in CycleTable /\ timer' \in BOOLEAN /\ controller' \in Cycles \cup {None}
      /\ LoopInv'
  BY <1>1, TimerLoops
<1>5. losses' \in Nat /\ losses <= losses' /\ (revoked => revoked')
  BY <1>1, <1>2, TypeFacts
<1>6. \A j \in Jobs : EndedFits(j)'
  BY <1>1, <1>3, <1>5, EndedFitsStill
<1>7. WorkInv'
  <2>1. CASE HasSession
    <3> PICK y : y = Fresh
      OBVIOUS
    <3>1. /\ y \in Cycle /\ y.at = "poll" /\ y.net = "sent" /\ cycles' = [cycles EXCEPT ![c] = y]
          /\ y \in Cycle \cup {None}
      BY <2>1 DEF TimerFires, Fresh, Cycle, Epochs
    <3>2. ~ Carries(y) /\ CycleFits(y)'
      BY <3>1 DEF Carries, InJob, CycleFits
    <3>3. y # None => CycleFits(y)'
      BY <3>2
    <3>4. y # None /\ Carries(y) => y.epoch > epoch[y.job] \/ (c \in Active /\ Continues(y, cycles[c]))
      BY <3>2
    <3>5. WorkBy(c) /\ \A m \in late' : m \in Request /\ (m \in late \/ LateFits(m)')
      BY <1>1, TypeFacts DEF WorkBy
    <3> QED BY <1>1, <1>3, <1>5, <1>6, <3>1, <3>3, <3>4, <3>5, WorkMoves, ZenonT(40)
  <2>2. CASE ~ HasSession
    <3>1. cycles' = cycles /\ work' = work /\ late' \subseteq late
      BY <1>1, <2>2 DEF TimerFires
    <3> QED BY <1>1, <1>3, <1>5, <1>6, <3>1, WorkRests, ZenonT(20)
  <2> QED BY <2>1, <2>2
<1>8. TypeOK'
  BY <1>1, <1>2, <1>3, <1>4, TypeFacts DEF TypeOK, StoreTyped, CycleTable, WorkTable, Entries
<1> QED BY <1>4, <1>7, <1>8 DEF IInv

-----------------------------------------------------------------------------
(* The server *)

\* What an accepted report records of its job.
LEMMA AcceptedReportFits ==
  ASSUME TypeOK, WorkInv, NEW kind, NEW j \in Jobs, NEW e \in Epochs, Reports(kind, j, e), ~ revoked,
         kind = "complete" => work[j][e] = "done",
         kind = "fail" => MayFail(j, e), losses' = losses, work' = work
  PROVE  \A k \in Jobs : EndedFits(k)'
<1>1. /\ epoch' = epoch /\ Holds(j, e)
      /\ \A k \in Jobs :
           \/ phase'[k] = phase[k]
           \/ k = j /\ kind = "complete" /\ phase'[k] = "succeeded"
           \/ k = j /\ kind = "fail" /\ phase'[k] = "failed"
  BY ReportsMove
<1> TAKE k \in Jobs
<1>2. CASE phase'[k] = phase[k]
  BY <1>1, <1>2 DEF WorkInv, EndedFits
<1>3. CASE k = j /\ kind = "complete" /\ phase'[k] = "succeeded"
  BY <1>1, <1>3 DEF EndedFits, Holds
<1>4. CASE k = j /\ kind = "fail" /\ phase'[k] = "failed"
  BY <1>1, <1>4 DEF EndedFits, Holds, MayFail
<1> QED BY <1>1, <1>2, <1>3, <1>4

\* A request the store accepts, of a cycle or left behind.
LEMMA AcceptsFits ==
  ASSUME TypeOK, WorkInv, NEW kind, NEW j \in Jobs, NEW e \in Epochs, Accepts(kind, j, e), ~ revoked,
         kind = "complete" => work[j][e] = "done",
         kind = "fail" => MayFail(j, e), losses' = losses, work' = work
  PROVE  StoreTyped' /\ StoreMoves /\ \A k \in Jobs : EndedFits(k)'
<1>1. CASE kind = "claim"
  <2>1. Claimable(j) /\ Store!Grant(j)
    BY <1>1 DEF Accepts
  <2>2. StoreTyped' /\ StoreMoves /\ EndsNothing /\ epoch' = [epoch EXCEPT ![j] = epoch[j] + 1]
    BY <2>1, GrantMoves
  <2>3. \A k \in Jobs : EndedFits(k)'
    BY <2>2, EndedFitsStill, TypeFacts
  <2> QED BY <2>2, <2>3
<1>2. CASE kind # "claim"
  <2>1. Reports(kind, j, e)
    BY <1>2 DEF Accepts
  <2>2. StoreTyped' /\ StoreMoves /\ epoch' = epoch /\ Holds(j, e)
    BY <2>1, ReportsMove
  <2>3. \A k \in Jobs : EndedFits(k)'
    BY <2>1, AcceptedReportFits
  <2> QED BY <2>2, <2>3
<1> QED BY <1>1, <1>2

\* The step of a cycle that is served, whatever the store does.
LEMMA ServedKeeps ==
  ASSUME IInv, NEW c \in Active, NEW y \in Cycle, y.aborted = cycles[c].aborted,
         cycles' = [cycles EXCEPT ![c] = y], StoreTyped', StoreMoves, \A j \in Jobs : EndedFits(j)',
         CycleFits(y)',
         Carries(y) => y.epoch > epoch[y.job] \/ Continues(y, cycles[c]),
         UNCHANGED <<revoked, session, running, timer, controller, late, losses, stops, reports, work,
                     overlapped>>
  PROVE  IInv'
<1>1. TypeOK /\ LoopInv /\ WorkInv /\ c \in Cycles
  BY ActiveFacts DEF IInv
<1>2. Turns(c, y) /\ UNCHANGED <<running, overlapped>>
  BY DEF Turns
<1>3. /\ cycles' \in CycleTable /\ timer' \in BOOLEAN /\ controller' \in Cycles \cup {None}
      /\ LoopInv'
  BY <1>1, <1>2, TurnsLoops, ZenonT(20)
<1>4. WorkInv'
  <2>1. losses' \in Nat /\ losses <= losses' /\ (revoked => revoked')
    BY <1>1, TypeFacts
  <2>2. /\ y # None => CycleFits(y)'
        /\ y # None /\ Carries(y) => y.epoch > epoch[y.job] \/ (c \in Active /\ Continues(y, cycles[c]))
    OBVIOUS
  <2>3. WorkBy(c) /\ \A m \in late' : m \in Request /\ (m \in late \/ LateFits(m)')
    BY <1>1, TypeFacts DEF WorkBy
  <2>4. y \in Cycle \cup {None}
    OBVIOUS
  <2> QED BY <1>1, <2>1, <2>2, <2>3, <2>4, WorkMoves, ZenonT(40)
<1>5. TypeOK'
  BY <1>1, <1>3, TypeFacts DEF TypeOK, StoreTyped, CycleTable, WorkTable, Entries
<1> QED BY <1>3, <1>4, <1>5 DEF IInv

LEMMA ServeKeeps ==
  ASSUME IInv, NEW c \in Cycles, Serve(c)
  PROVE  IInv'
<1>1. /\ c \in Active /\ cycles[c].at # "work" /\ cycles[c].net = "sent"
      /\ UNCHANGED <<revoked, session, running, timer, controller, late, losses, stops, reports, work,
                     overlapped>>
  BY DEF Serve
<1> PICK x : x = cycles[c]
  OBVIOUS
<1>2. TypeOK /\ WorkInv /\ x \in Cycle /\ CycleFits(x)
  BY <1>1, ActiveFacts DEF IInv, WorkInv
<1>3. losses' \in Nat /\ losses <= losses' /\ (revoked => revoked')
  BY <1>1, <1>2, TypeFacts
<1>4. UNCHANGED store => StoreTyped' /\ StoreMoves /\ epoch' = epoch /\ \A j \in Jobs : EndedFits(j)'
  <2> SUFFICES ASSUME UNCHANGED store
               PROVE  StoreTyped' /\ StoreMoves /\ epoch' = epoch /\ \A j \in Jobs : EndedFits(j)'
    OBVIOUS
  <2>1. StoreTyped' /\ StoreMoves /\ EndsNothing /\ epoch' = epoch
    BY <1>2, StoreRests DEF store
  <2> QED BY <1>1, <1>2, <1>3, <2>1, EndedFitsStill
<1>5. StoreTyped' /\ StoreMoves => CycleFits(x)'
  BY <1>1, <1>2, <1>3, CycleFitsStill
\* The server refuses, or the claim is taken, or another holds the job.
<1>6. ASSUME NEW answer \in {"refused", "conflict"}, cycles' = [cycles EXCEPT ![c].net = answer],
             UNCHANGED store, answer = "refused" => revoked,
             answer = "conflict" /\ x.at = "complete" => ~ Holds(x.job, x.epoch)
      PROVE  IInv'
  <2> PICK y : y = [x EXCEPT !.net = answer]
    OBVIOUS
  <2>1. y \in Cycle /\ y.at = x.at /\ y.net = answer /\ y.job = x.job /\ y.epoch = x.epoch
        /\ y.aborted = cycles[c].aborted /\ cycles' = [cycles EXCEPT ![c] = y]
    BY <1>2, <1>6 DEF Cycle
  <2>2. StoreTyped' /\ StoreMoves /\ (\A j \in Jobs : EndedFits(j)') /\ CycleFits(x)' /\ phase' = phase
        /\ epoch' = epoch
    BY <1>4, <1>5, <1>6 DEF store
  <2>3. Carries(y) => Carries(x)
    BY <2>1, <1>6 DEF Carries
  <2>4. Carries(y) => Continues(y, cycles[c])
    BY <2>1, <2>3 DEF Continues
  <2>5. CycleFits(y)'
    BY <1>1, <1>6, <2>1, <2>2, <2>3 DEF CycleFits, Carries, MayFail, Holds
  <2> QED BY <1>1, <2>1, <2>2, <2>4, <2>5, ServedKeeps, ZenonT(40)
<1>7. CASE x.at = "poll" /\ UNCHANGED store
           /\ cycles' = [cycles EXCEPT ![c] = [@ EXCEPT !.net = "ok", !.todo = {j \in Jobs : Claimable(j)}]]
  <2> PICK y : y = [x EXCEPT !.net = "ok", !.todo = {j \in Jobs : Claimable(j)}]
    OBVIOUS
  <2>1. y \in Cycle /\ y.at = "poll" /\ y.net = "ok" /\ y.aborted = cycles[c].aborted
        /\ cycles' = [cycles EXCEPT ![c] = y]
    BY <1>2, <1>7 DEF Cycle
  <2>2. ~ Carries(y) /\ CycleFits(y)'
    BY <2>1 DEF Carries, InJob, CycleFits
  <2>3. StoreTyped' /\ StoreMoves /\ \A j \in Jobs : EndedFits(j)'
    BY <1>4, <1>7
  <2> QED BY <1>1, <2>1, <2>2, <2>3, ServedKeeps, ZenonT(40)
<1>8. CASE /\ ~ revoked /\ x.at # "poll" /\ Accepts(x.at, x.job, x.epoch)
           /\ cycles' = [cycles EXCEPT ![c] = [@ EXCEPT !.net = "ok", !.epoch = epoch'[x.job]]]
  <2>1. x.job \in Jobs /\ x.epoch \in Epochs /\ (x.at = "complete" => work[x.job][x.epoch] = "done")
        /\ (x.at = "fail" => MayFail(x.job, x.epoch)) /\ UNCHANGED <<losses, work>>
        /\ x.at \in {"claim", "progress", "complete", "fail"}
    BY <1>1, <1>2, <1>8 DEF CycleFits, Cycle
  <2>2. /\ StoreTyped' /\ StoreMoves /\ (\A k \in Jobs : EndedFits(k)')
        /\ x.at = "claim" => epoch'[x.job] = epoch[x.job] + 1
        /\ x.at # "claim" => epoch' = epoch /\ epoch[x.job] = x.epoch
    <3> PICK kind, j, e : kind = x.at /\ j = x.job /\ e = x.epoch
      OBVIOUS
    <3>1. j \in Jobs /\ e \in Epochs /\ Accepts(kind, j, e) /\ ~ revoked /\ losses' = losses
          /\ work' = work
      BY <1>8, <2>1
    <3>2. (kind = "complete" => work[j][e] = "done") /\ (kind = "fail" => MayFail(j, e))
      BY <2>1
    <3>3. StoreTyped' /\ StoreMoves
      BY <1>2, <3>1, <3>2, AcceptsFits, ZenonT(20)
    <3>4. \A k \in Jobs : EndedFits(k)'
      BY <1>2, <3>1, <3>2, AcceptsFits, ZenonT(20)
    <3>5. kind = "claim" => epoch'[j] = epoch[j] + 1
      <4> SUFFICES ASSUME kind = "claim" PROVE epoch'[j] = epoch[j] + 1
        OBVIOUS
      <4>1. Claimable(j) /\ Store!Grant(j)
        BY <3>1 DEF Accepts
      <4>2. epoch' = [epoch EXCEPT ![j] = epoch[j] + 1]
        BY <1>2, <3>1, <4>1, GrantMoves
      <4> QED BY <1>2, <3>1, <4>2, TypeFacts DEF StoreTyped
    <3>6. kind # "claim" => epoch' = epoch /\ epoch[j] = e
      <4> SUFFICES ASSUME kind # "claim" PROVE epoch' = epoch /\ epoch[j] = e
        OBVIOUS
      <4>1. Reports(kind, j, e)
        BY <3>1 DEF Accepts
      <4>2. TypeOK /\ j \in Jobs
        BY <1>2, <3>1
      <4>3. epoch' = epoch /\ Holds(j, e)
        BY <4>1, <4>2, ReportsMove, ZenonT(20)
      <4> QED BY <4>3 DEF Holds
    <3> QED BY <3>3, <3>4, <3>5, <3>6
  <2> PICK g : g = epoch'[x.job]
    OBVIOUS
  <2> PICK y : y = [x EXCEPT !.net = "ok", !.epoch = g]
    OBVIOUS
  <2>3. g \in Epochs
    BY <2>1, <2>2 DEF StoreTyped
  <2>4. y \in Cycle /\ y.at = x.at /\ y.net = "ok" /\ y.job = x.job /\ y.epoch = g
        /\ y.aborted = cycles[c].aborted /\ cycles' = [cycles EXCEPT ![c] = y]
    BY <1>2, <1>8, <2>3 DEF Cycle
  <2>5. CASE x.at = "claim"
    <3>1. g = epoch[x.job] + 1 /\ epoch[x.job] \in Nat
      BY <1>2, <2>1, <2>2, <2>5, TypeFacts DEF StoreTyped, Epochs
    <3>2. g > epoch[x.job] /\ work[x.job][g] = "none" /\ work'[x.job][g] = "none"
      BY <1>1, <1>2, <2>1, <2>3, <3>1 DEF WorkInv, Epochs
    <3>3. CycleFits(y)'
      BY <2>1, <2>3, <2>4, <2>5, <3>2 DEF CycleFits, Epochs
    <3> QED BY <1>1, <2>2, <2>4, <3>2, <3>3, ServedKeeps
  <2>6. CASE x.at # "claim"
    <3>1. g = x.epoch /\ CycleFits(x)'
      BY <1>5, <2>2, <2>6
    <3>2. Carries(x) /\ Carries(y) /\ Continues(y, cycles[c])
      BY <2>1, <2>4, <2>6, <3>1 DEF Carries, InJob, Continues
    <3>3. CycleFits(y)'
      BY <2>4, <2>6, <3>1, <3>2 DEF CycleFits, Carries, MayFail, Holds
    <3> QED BY <1>1, <2>2, <2>4, <3>2, <3>3, ServedKeeps, ZenonT(40)
  <2> QED BY <2>5, <2>6
<1>9. \/ revoked /\ cycles' = [cycles EXCEPT ![c].net = "refused"] /\ UNCHANGED store
      \/ x.at = "poll" /\ UNCHANGED store
           /\ cycles' = [cycles EXCEPT ![c] = [@ EXCEPT !.net = "ok", !.todo = {j \in Jobs : Claimable(j)}]]
      \/ /\ ~ revoked /\ x.at # "poll" /\ Accepts(x.at, x.job, x.epoch)
         /\ cycles' = [cycles EXCEPT ![c] = [@ EXCEPT !.net = "ok", !.epoch = epoch'[x.job]]]
      \/ /\ x.at = "complete" => ~ Holds(x.job, x.epoch)
         /\ cycles' = [cycles EXCEPT ![c].net = "conflict"] /\ UNCHANGED store
  BY DEF Serve, Acceptable
<1> QED BY <1>6, <1>7, <1>8, <1>9

\* The store moves, and nothing of the client but the requests left behind.
LEMMA StoreKeeps ==
  ASSUME IInv, StoreTyped', StoreMoves, \A j \in Jobs : EndedFits(j)',
         revoked' \in BOOLEAN, revoked => revoked', losses' \in Nat, losses <= losses', stops' \in Nat,
         late' \subseteq late, session' \in {"unpaired", "paired", "clearing", "cleared"},
         UNCHANGED <<running, timer, controller, cycles, reports, work, overlapped>>
  PROVE  IInv'
<1>1. TypeOK /\ LoopInv /\ WorkInv
  BY DEF IInv
<1>2. LoopInv'
  BY <1>1, LoopRests
<1>3. WorkInv'
  BY <1>1, WorkRests
<1>4. TypeOK'
  BY <1>1, TypeFacts DEF TypeOK, StoreTyped, CycleTable, WorkTable, Entries
<1> QED BY <1>2, <1>3, <1>4 DEF IInv

LEMMA ServeLateKeeps ==
  ASSUME IInv, NEW m \in late, ServeLate(m)
  PROVE  IInv'
<1>1. /\ late' = late \ {m} /\ ~ revoked /\ Accepts(m.kind, m.job, m.epoch)
      /\ UNCHANGED <<revoked, session, running, timer, controller, cycles, losses, stops, reports, work,
                     overlapped>>
  BY DEF ServeLate, client
<1>2. TypeOK /\ WorkInv /\ m \in Request /\ LateFits(m)
  BY TypeFacts DEF IInv, WorkInv
<1>3. m.job \in Jobs /\ m.epoch \in Epochs /\ (m.kind = "complete" => work[m.job][m.epoch] = "done")
      /\ (m.kind = "fail" => MayFail(m.job, m.epoch)) /\ losses' = losses /\ work' = work
  BY <1>1, <1>2 DEF LateFits, Request
<1>4. StoreTyped' /\ StoreMoves /\ \A j \in Jobs : EndedFits(j)'
  <2> PICK kind, j, e : kind = m.kind /\ j = m.job /\ e = m.epoch
    OBVIOUS
  <2>1. j \in Jobs /\ e \in Epochs /\ Accepts(kind, j, e) /\ ~ revoked
    BY <1>1, <1>3
  <2>2. (kind = "complete" => work[j][e] = "done") /\ (kind = "fail" => MayFail(j, e))
    BY <1>3
  <2> QED BY <1>2, <1>3, <2>1, <2>2, AcceptsFits, ZenonT(20)
<1>5. revoked' \in BOOLEAN /\ losses' \in Nat /\ losses <= losses' /\ stops' \in Nat
      /\ session' \in {"unpaired", "paired", "clearing", "cleared"} /\ (revoked => revoked')
  BY <1>1, <1>2, TypeFacts
<1> QED BY <1>1, <1>4, <1>5, StoreKeeps

\* The clock and the control plane.
LEMMA OthersKeep ==
  ASSUME IInv, NEW j \in Jobs, Offer(j) \/ LeaseLapses(j) \/ LeaseSlept(j) \/ CancelJob(j) \/ Revoke
  PROVE  IInv'
<1>1. /\ \E S \in SUBSET Jobs : Store!Offer(j) \/ Store!Lapse(S) \/ Store!Cancel(S)
      /\ UNCHANGED <<session, running, timer, controller, cycles, late, reports, work, overlapped>>
      /\ losses' = losses \/ losses' = losses + 1
      /\ stops' = stops \/ stops' = stops + 1
      /\ revoked' = revoked \/ revoked' = TRUE
  <2>1. CASE Offer(j)
    BY <2>1 DEF Offer, client
  <2>2. CASE LeaseLapses(j)
    BY <2>2 DEF LeaseLapses, client
  <2>3. CASE LeaseSlept(j)
    BY <2>3 DEF LeaseSlept, client
  <2>4. CASE CancelJob(j)
    BY <2>4 DEF CancelJob, client
  <2>5. CASE Revoke
    <3>1. {k \in Jobs : phase[k] \in {"free", "held"}} \in SUBSET Jobs
      OBVIOUS
    <3> QED BY <2>5, <3>1 DEF Revoke, client
  <2> QED BY <2>1, <2>2, <2>3, <2>4, <2>5
<1>2. TypeOK /\ WorkInv
  BY DEF IInv
<1>3. StoreTyped' /\ StoreMoves /\ EndsNothing
  BY <1>1, <1>2, OthersMove
<1>4. revoked' \in BOOLEAN /\ (revoked => revoked') /\ losses' \in Nat /\ losses <= losses'
      /\ stops' \in Nat /\ session' \in {"unpaired", "paired", "clearing", "cleared"}
      /\ late' \subseteq late /\ UNCHANGED work
  <2>1. revoked \in BOOLEAN /\ losses \in Nat /\ stops \in Nat
        /\ session \in {"unpaired", "paired", "clearing", "cleared"}
    BY <1>2, TypeFacts
  <2>2. revoked' \in BOOLEAN /\ (revoked => revoked')
    BY <1>1, <2>1, Zenon
  <2>3. losses' \in Nat /\ losses <= losses' /\ stops' \in Nat
    BY <1>1, <2>1
  <2> QED BY <1>1, <2>1, <2>2, <2>3
<1>5. \A k \in Jobs : EndedFits(k)'
  BY <1>2, <1>3, <1>4, EndedFitsStill
<1> QED BY <1>1, <1>3, <1>4, <1>5, StoreKeeps

-----------------------------------------------------------------------------
(* The user and the operating system *)

\* The abort of the cycle under way says nothing of its work.
LEMMA StoppedWorks ==
  ASSUME TypeOK, WorkInv, Stopped, UNCHANGED <<store, revoked, late, losses, work>>
  PROVE  cycles' \in CycleTable /\ WorkInv'
<1>1. ASSUME NEW d \in Cycles
      PROVE  /\ cycles'[d] \in Cycle \cup {None}
             /\ cycles'[d] # None => /\ cycles[d] # None
                                     /\ \A f \in {"at", "net", "job", "epoch"} : cycles'[d][f] = cycles[d][f]
  <2>1. cycles[d] \in Cycle \cup {None}
        /\ cycles'[d] = IF d = controller /\ cycles[d] # None
                        THEN [cycles[d] EXCEPT !.aborted = TRUE] ELSE cycles[d]
    BY DEF TypeOK, Stopped
  <2> PICK x : x = cycles[d]
    OBVIOUS
  <2>2. x \in Cycle => [x EXCEPT !.aborted = TRUE] \in Cycle
                       /\ \A f \in {"at", "net", "job", "epoch"} : [x EXCEPT !.aborted = TRUE][f] = x[f]
    BY DEF Cycle
  <2> QED BY <2>1, <2>2
<1>2. cycles' \in CycleTable
  BY <1>1 DEF Stopped, CycleTable
<1>3. ASSUME NEW d \in Active'
      PROVE  /\ d \in Active /\ cycles[d] \in Cycle /\ cycles'[d] \in Cycle
             /\ cycles'[d].at = cycles[d].at /\ cycles'[d].net = cycles[d].net
             /\ cycles'[d].job = cycles[d].job /\ cycles'[d].epoch = cycles[d].epoch
  <2>1. d \in Cycles /\ cycles'[d] # None
    BY <1>3 DEF Active
  <2>2. d \in Active /\ cycles'[d] \in Cycle
    BY <1>1, <2>1 DEF Active
  <2>3. cycles'[d]["at"] = cycles[d]["at"] /\ cycles'[d]["net"] = cycles[d]["net"]
        /\ cycles'[d]["job"] = cycles[d]["job"] /\ cycles'[d]["epoch"] = cycles[d]["epoch"]
    BY <1>1, <2>1
  <2> QED BY <2>2, <2>3, ActiveFacts
<1>4. phase' = phase /\ epoch' = epoch /\ revoked' = revoked /\ late' = late /\ losses' = losses
      /\ work' = work
  BY DEF store
<1>5. (\A c \in Active : CycleFits(cycles[c]))'
  <2> SUFFICES ASSUME NEW d \in Active' PROVE CycleFits(cycles[d])'
    OBVIOUS
  <2>1. CycleFits(cycles[d])
    BY <1>3 DEF WorkInv
  <2> QED BY <1>3, <1>4, <2>1 DEF CycleFits, Carries, MayFail, Holds
<1>6. (\A c, d \in Active :
         Carries(cycles[c]) /\ Carries(cycles[d]) /\ cycles[c].job = cycles[d].job
           /\ cycles[c].epoch = cycles[d].epoch => c = d)'
  <2> SUFFICES ASSUME NEW c \in Active', NEW d \in Active', Carries(cycles[c])', Carries(cycles[d])',
                      cycles'[c].job = cycles'[d].job, cycles'[c].epoch = cycles'[d].epoch
               PROVE  c = d
    OBVIOUS
  <2>1. Carries(cycles[c]) /\ Carries(cycles[d])
    BY <1>3 DEF Carries
  <2> QED BY <1>3, <2>1 DEF WorkInv
<1>7. (\A m \in late : LateFits(m))' /\ (\A j \in Jobs : EndedFits(j))'
      /\ (\A j \in Jobs, e \in Epochs : e > epoch[j] => work[j][e] = "none")'
  BY <1>4 DEF WorkInv, LateFits, EndedFits, MayFail, Holds
<1> QED BY <1>2, <1>5, <1>6, <1>7 DEF WorkInv

LEMMA StopKeeps ==
  ASSUME IInv, Stop \/ ClearSession
  PROVE  IInv'
<1>1. TypeOK /\ LoopInv /\ WorkInv
  BY DEF IInv
<1>2. /\ Stopped /\ stops' = stops + 1 /\ session' \in {session, "clearing"}
      /\ UNCHANGED <<store, revoked, late, losses, reports, work, overlapped>>
  BY DEF Stop, ClearSession
<1>3. cycles' \in CycleTable /\ WorkInv'
  <2>1. UNCHANGED <<store, revoked, late, losses, work>>
    BY <1>2
  <2> QED BY <1>1, <1>2, <2>1, StoppedWorks, ZenonT(20)
<1>4. LoopInv'
  <2>1. \A c \in Cycles : \/ cycles'[c] = None
                          \/ /\ cycles[c] # None /\ cycles'[c].aborted = cycles[c].aborted
                             /\ c # controller
                          \/ cycles[c] # None /\ cycles'[c].aborted
    <3> TAKE c \in Cycles
    <3>1. cycles[c] \in Cycle \cup {None}
          /\ cycles'[c] = IF c = controller /\ cycles[c] # None
                          THEN [cycles[c] EXCEPT !.aborted = TRUE] ELSE cycles[c]
      BY <1>1, <1>2 DEF TypeOK, Stopped
    <3> PICK x : x = cycles[c]
      OBVIOUS
    <3>2. x \in Cycle => [x EXCEPT !.aborted = TRUE].aborted
      BY DEF Cycle
    <3> QED BY <3>1, <3>2
  <2>2. running' = FALSE /\ timer' = FALSE /\ controller' = None /\ overlapped' = overlapped
    BY <1>2 DEF Stopped
  <2> QED BY <1>1, <2>1, <2>2, StoppedLoops, ZenonT(20)
<1>5. TypeOK'
  <2>1. StoreTyped'
    BY <1>1, <1>2, StoreRests
  <2>2. running' = FALSE /\ timer' = FALSE /\ controller' = None /\ stops' \in Nat
        /\ session' \in {"unpaired", "paired", "clearing", "cleared"}
    BY <1>1, <1>2, TypeFacts DEF Stopped
  <2> QED BY <1>1, <1>2, <1>3, <2>1, <2>2, TypeFacts
       DEF TypeOK, StoreTyped, CycleTable, WorkTable, Entries
<1> QED BY <1>3, <1>4, <1>5 DEF IInv

LEMMA StartKeeps ==
  ASSUME IInv, Pair \/ Start \/ VaultCleared
  PROVE  IInv'
<1>1. TypeOK /\ LoopInv /\ WorkInv
  BY DEF IInv
<1>2. /\ UNCHANGED <<store, revoked, controller, cycles, late, losses, stops, reports, work>>
      /\ session' \in {"unpaired", "paired", "clearing", "cleared"}
      /\ running' \in BOOLEAN /\ timer' \in BOOLEAN /\ overlapped' \in BOOLEAN
  BY <1>1, TypeFacts DEF Pair, Start, VaultCleared
<1>3. StoreTyped' /\ StoreMoves /\ EndsNothing
  BY <1>1, <1>2, StoreRests
<1>4. LoopInv'
  <2>1. CASE Start
    BY <1>1, <2>1, StartLoops
  <2>2. CASE Pair \/ VaultCleared
    <3>1. UNCHANGED <<running, timer, controller, cycles, overlapped>>
      BY <2>2 DEF Pair, VaultCleared
    <3> QED BY <1>1, <3>1, LoopRests
  <2> QED BY <2>1, <2>2
<1>5. WorkInv'
  <2>1. losses' \in Nat /\ losses <= losses' /\ (revoked => revoked') /\ cycles' = cycles /\ work' = work
        /\ late' \subseteq late
    BY <1>1, <1>2, TypeFacts
  <2>2. \A j \in Jobs : EndedFits(j)'
    BY <1>1, <1>3, <2>1, EndedFitsStill
  <2> QED BY <1>1, <1>3, <2>1, <2>2, WorkRests
<1>6. TypeOK'
  BY <1>1, <1>2, <1>3, TypeFacts DEF TypeOK, StoreTyped, CycleTable, WorkTable, Entries
<1> QED BY <1>4, <1>5, <1>6 DEF IInv

\* The application dies: work under way failed, and what was sent may still arrive.
LEMMA CrashKeeps ==
  ASSUME IInv, Crash
  PROVE  IInv'
<1>1. TypeOK /\ LoopInv /\ WorkInv
  BY DEF IInv
<1>2. /\ stops' = stops + 1 /\ session' \in {"unpaired", "paired", "clearing", "cleared"}
      /\ running' = FALSE /\ timer' = FALSE /\ controller' = None
      /\ cycles' = [c \in Cycles |-> None]
      /\ work' = [j \in Jobs |-> [e \in Epochs |->
           IF work[j][e] = "running" THEN "failed" ELSE work[j][e]]]
      /\ UNCHANGED <<store, revoked, losses, overlapped, reports>>
  BY <1>1, TypeFacts DEF Crash
<1>3. StoreTyped' /\ StoreMoves /\ EndsNothing /\ epoch' = epoch
  BY <1>1, <1>2, StoreRests DEF store
<1>4. losses' \in Nat /\ losses <= losses' /\ (revoked => revoked')
  BY <1>1, <1>2, TypeFacts
<1>5. work \in WorkTable /\ work' \in WorkTable
      /\ \A j \in Jobs, e \in Epochs : work[j][e] # "running" => work'[j][e] = work[j][e]
  <2>1. work \in WorkTable
    BY <1>1, TypeFacts
  <2>2. \A j \in Jobs, e \in Epochs :
          work'[j][e] = IF work[j][e] = "running" THEN "failed" ELSE work[j][e]
    BY <1>2
  <2>3. \A j \in Jobs, e \in Epochs :
          (IF work[j][e] = "running" THEN "failed" ELSE work[j][e]) \in {"none", "running", "done", "failed"}
    BY <2>1 DEF WorkTable
  <2>4. work' \in WorkTable
    BY <1>2, <2>3 DEF WorkTable
  <2> QED BY <2>1, <2>2, <2>4
<1>6. Active' = {} /\ cycles' \in CycleTable
  BY <1>2 DEF Active, CycleTable
<1>7. ASSUME NEW m \in late'
      PROVE  m \in Request /\ LateFits(m)
  <2>1. CASE m \in late
    BY <1>1, <2>1, TypeFacts DEF WorkInv
  <2>2. ASSUME NEW d \in Active, cycles[d].net = "sent", cycles[d].at \notin {"poll", "work"},
               m = [kind |-> cycles[d].at, job |-> cycles[d].job, epoch |-> cycles[d].epoch]
        PROVE  m \in Request /\ LateFits(m)
    <3> PICK x : x = cycles[d]
      OBVIOUS
    <3>1. x \in Cycle /\ CycleFits(x)
      BY <1>1, ActiveFacts DEF WorkInv
    <3>2. m.kind = x.at /\ m.job = x.job /\ m.epoch = x.epoch /\ m \in Request
      BY <2>2, <3>1 DEF Request, Cycle, CycleFits
    <3>3. LateFits(m)
      BY <3>1, <3>2 DEF LateFits, CycleFits, Carries, InJob
    <3> QED BY <3>2, <3>3
  <2>3. m \in late \/ \E d \in Active : cycles[d].net = "sent" /\ cycles[d].at \notin {"poll", "work"}
          /\ m = [kind |-> cycles[d].at, job |-> cycles[d].job, epoch |-> cycles[d].epoch]
    BY <1>7 DEF Crash
  <2> QED BY <2>1, <2>2, <2>3
<1>8. \A m \in late' : LateFits(m)'
  <2> TAKE m \in late'
  <2>1. m.kind \in {"complete", "fail"} => work'[m.job][m.epoch] = work[m.job][m.epoch]
    <3>1. m.job \in Jobs /\ m.epoch \in Epochs
      BY <1>7 DEF Request
    <3>2. m.kind \in {"complete", "fail"} => work[m.job][m.epoch] # "running"
      BY <1>7 DEF LateFits, MayFail
    <3> QED BY <1>5, <3>1, <3>2
  <2> QED BY <1>1, <1>3, <1>4, <1>7, <2>1, LateFitsStill
<1>9. \A j \in Jobs : EndedFits(j)'
  <2> TAKE j \in Jobs
  <2>1. work[j][epoch[j]] \in {"done", "failed"} => work'[j][epoch[j]] = work[j][epoch[j]]
    BY <1>1, <1>5, TypeFacts DEF StoreTyped
  <2> QED BY <1>1, <1>3, <1>4, <2>1, EndedFitsStill
<1>10. \A j \in Jobs, e \in Epochs : e > epoch'[j] => work'[j][e] = "none"
  <2>1. \A j \in Jobs, e \in Epochs : e > epoch[j] => work[j][e] = "none"
    BY <1>1 DEF WorkInv
  <2> QED BY <1>3, <1>5, <2>1
<1>11. WorkInv'
  BY <1>6, <1>8, <1>9, <1>10 DEF WorkInv
<1>12. LoopInv'
  BY <1>2, <1>6 DEF LoopInv, LoopAlive
<1>13. TypeOK'
  <2>1. late' \in SUBSET Request
    BY <1>7
  <2>2. stops' \in Nat
    BY <1>1, <1>2, TypeFacts
  <2> QED BY <1>1, <1>2, <1>3, <1>5, <1>6, <2>1, <2>2, TypeFacts
       DEF TypeOK, StoreTyped, CycleTable, WorkTable, Entries
<1> QED BY <1>11, <1>12, <1>13 DEF IInv

-----------------------------------------------------------------------------
(* The theorem *)

LEMMA InitIInv == Init => IInv
<1> SUFFICES ASSUME Init PROVE IInv
  OBVIOUS
<1>1. /\ phase = [j \in Jobs |-> "none"] /\ epoch = [j \in Jobs |-> 0]
      /\ journal = [j \in Jobs |-> <<>>] /\ 0 \in Epochs
  BY DEF Init, Store!Init, Epochs
<1>2. Active = {}
  BY DEF Init, Active
<1>3. \A j \in Jobs, e \in Epochs : work[j][e] = "none"
  BY DEF Init
<1>4. StoreTyped
  BY <1>1 DEF StoreTyped
<1>5. TypeOK
  BY <1>1, <1>4 DEF Init, TypeOK, StoreTyped, Entries
<1>6. LoopInv
  BY <1>2 DEF Init, LoopInv, LoopAlive
<1>7. WorkInv
  BY <1>1, <1>2, <1>3 DEF Init, WorkInv, EndedFits
<1> QED BY <1>5, <1>6, <1>7 DEF IInv

LEMMA NextIInv == IInv /\ [Next]_vars => IInv'
<1> SUFFICES ASSUME IInv, [Next]_vars PROVE IInv'
  OBVIOUS
<1>1. CASE UNCHANGED vars
  <2>1. UNCHANGED <<phase, epoch, journal, revoked, session, running, timer, controller, cycles, late,
                    losses, stops, reports, work, overlapped>>
    BY <1>1 DEF vars, store, client
  <2> QED BY <2>1 DEF IInv, TypeOK, LoopInv, LoopAlive, WorkInv, Active, CycleFits, Carries, LateFits,
                      EndedFits, MayFail, Holds
<1>2. CASE UserNext
  BY <1>2, StartKeeps, StopKeeps, CrashKeeps DEF UserNext
<1>3. CASE Revoke
  <2>1. CASE Jobs = {}
    <3>1. UNCHANGED store
      BY <1>3, <2>1 DEF Revoke, Store!Cancel, Store!Note, store, IInv, TypeOK
    <3>2. TypeOK /\ WorkInv
      BY DEF IInv
    <3>3. StoreTyped' /\ StoreMoves /\ \A j \in Jobs : EndedFits(j)'
      BY <2>1, <3>1, <3>2, StoreRests
    <3>4. /\ revoked' = TRUE /\ stops' = stops + 1 /\ losses' = losses /\ late' = late
          /\ UNCHANGED <<session, running, timer, controller, cycles, reports, work, overlapped>>
      BY <1>3 DEF Revoke, client
    <3>5. revoked' \in BOOLEAN /\ (revoked => revoked') /\ losses' \in Nat /\ losses <= losses'
          /\ stops' \in Nat /\ late' \subseteq late
          /\ session' \in {"unpaired", "paired", "clearing", "cleared"}
      BY <3>2, <3>4, TypeFacts
    <3> QED BY <3>3, <3>4, <3>5, StoreKeeps
  <2>2. CASE Jobs # {}
    BY <1>3, <2>2, OthersKeep
  <2> QED BY <2>1, <2>2
<1>4. CASE \E m \in late : ServeLate(m)
  BY <1>4, ServeLateKeeps
<1>5. CASE \E j \in Jobs : Offer(j) \/ LeaseLapses(j) \/ LeaseSlept(j) \/ CancelJob(j)
  BY <1>5, OthersKeep
<1>6. CASE \E c \in Cycles : CycleNext(c)
  BY <1>6, TimerFiresKeeps, HandlerReportsKeeps, LeaseFailsKeeps, ReceiveKeeps, GiveUpKeeps, ServeKeeps,
     HandlerEndsKeeps DEF CycleNext
<1> QED BY <1>1, <1>2, <1>3, <1>4, <1>5, <1>6 DEF Next, ServerNext

LEMMA IInvIsSafe == IInv => DesktopSafe
<1> SUFFICES ASSUME IInv PROVE DesktopSafe
  OBVIOUS
<1>1. TypeOK /\ LoopAlive
  BY DEF IInv, LoopInv
<1>2. SuccessIsWork /\ DoneIsNotFailed
  BY DEF IInv, WorkInv, EndedFits, SuccessIsWork, DoneIsNotFailed
<1>3. StopIsHeard
  BY DEF IInv, LoopInv, StopIsHeard
<1> QED BY <1>1, <1>2, <1>3 DEF DesktopSafe

\* Whatever messages are lost, delayed or late, however often the executor is stopped
\* and started and the application dies: a job succeeds only when its handler returned
\* under the claim in force, work that was done fails only after a loss, a running
\* executor never falls silent, and a stop reaches the one cycle under way.
THEOREM DesktopIsSafe == Spec => []DesktopSafe
<1>1. IInv /\ [Next]_vars => IInv'
  BY NextIInv
<1> QED BY InitIInv, IInvIsSafe, <1>1, PTL DEF Spec

=============================================================================
