------------------------------ MODULE JobLease ------------------------------
(***************************************************************************)
(* What the job store promises the control plane and the Desktop Agents,   *)
(* without clocks, devices, tokens or requests: a job is held by at most   *)
(* one claim at a time, only the claim that holds it may add to its        *)
(* journal or end it, and an ended job is never touched again.             *)
(***************************************************************************)
EXTENDS Naturals, Sequences

CONSTANT Jobs

VARIABLES
  phase,    \* phase[j]: "none", "free", "held", or the outcome of an ended job
  epoch,    \* epoch[j]: how many claims were granted; the last one is the holder
  journal   \* journal[j]: what happened to the job, as <<kind, epoch>> pairs

vars == <<phase, epoch, journal>>

Outcomes == {"succeeded", "failed"}

Init ==
  /\ phase = [j \in Jobs |-> "none"]
  /\ epoch = [j \in Jobs |-> 0]
  /\ journal = [j \in Jobs |-> <<>>]

\* The journal with one more entry for every job of S.
Note(S, kind) ==
  [j \in Jobs |->
     IF j \in S THEN Append(journal[j], <<kind, epoch[j]>>) ELSE journal[j]]

Offer(j) ==
  /\ phase[j] = "none"
  /\ phase' = [phase EXCEPT ![j] = "free"]
  /\ UNCHANGED <<epoch, journal>>

Grant(j) ==
  /\ phase[j] = "free"
  /\ phase' = [phase EXCEPT ![j] = "held"]
  /\ epoch' = [epoch EXCEPT ![j] = @ + 1]
  /\ journal' = [journal EXCEPT ![j] = Append(@, <<"claimed", epoch[j] + 1>>)]

Report(j) ==
  /\ phase[j] = "held"
  /\ journal' = Note({j}, "progress")
  /\ UNCHANGED <<phase, epoch>>

Finish(j, outcome) ==
  /\ phase[j] = "held"
  /\ phase' = [phase EXCEPT ![j] = outcome]
  /\ journal' = Note({j}, outcome)
  /\ UNCHANGED epoch

\* Leases lapse with the passing of time, so several may lapse at once.
Lapse(S) ==
  /\ \A j \in S : phase[j] = "held"
  /\ phase' = [j \in Jobs |-> IF j \in S THEN "free" ELSE phase[j]]
  /\ UNCHANGED <<epoch, journal>>

\* The control plane stops jobs: one of them, or all those of a device.
Cancel(S) ==
  /\ \A j \in S : phase[j] \in {"free", "held"}
  /\ phase' = [j \in Jobs |-> IF j \in S THEN "cancelled" ELSE phase[j]]
  /\ journal' = Note(S, "cancelled")
  /\ UNCHANGED epoch

Next ==
  \/ \E j \in Jobs :
       \/ Offer(j)
       \/ Grant(j)
       \/ Report(j)
       \/ \E outcome \in Outcomes : Finish(j, outcome)
  \/ \E S \in SUBSET Jobs : Lapse(S) \/ Cancel(S)

Spec == Init /\ [][Next]_vars

=============================================================================
