------------------------------ MODULE Schedules -----------------------------
(***************************************************************************)
(* Recurring schedules in production: productionTick and                   *)
(* updateScheduleStatus of apps/web/src/lib/schedule-server.ts over the    *)
(* tables and claim_workflow_schedule_fire of                              *)
(* supabase/migrations/202607270010_workflow_schedules.sql.                *)
(*                                                                         *)
(* The cron route starts a tick every minute and a tick may run for 800    *)
(* seconds, so ticks overlap.  A tick works on the rows it read at its     *)
(* start; between any two of its database calls other ticks and users act, *)
(* and it may die.  Time is counted in occurrences of the schedule's rule: *)
(* the occurrence after k is k + 1.                                        *)
(***************************************************************************)
EXTENDS Naturals, FiniteSets

CONSTANTS
  Ids,          \* schedules
  Tickers,      \* ticks that may be under way together
  Limit,        \* schedules one tick reads (25)
  MaxFailures,  \* max_failures of a schedule
  MaxTime,      \* bound on the clock
  MaxEvents,    \* bound on calls that fail, ticks that die and requests of users, together
  None          \* "no tick", "no schedule"

ASSUME BoundsAssumption ==
  /\ Limit \in Nat \ {0}
  /\ MaxFailures \in Nat \ {0}
  /\ MaxTime \in Nat
  /\ MaxEvents \in Nat

ASSUME NoneAssumption == None \notin Ids

VARIABLES
  now,         \* the server's clock
  schedules,   \* the rows of workflow_schedules
  fires,       \* the rows of workflow_schedule_fires, by schedule and due_at
  tickers,     \* what each tick has read and does
  faults,      \* how many calls failed and ticks died
  requests,    \* how many requests users made
  dispatched,  \* history: how often a run was asked for, by schedule and due_at
  wanted       \* history: what a user last asked of a schedule

vars == <<now, schedules, fires, tickers, faults, requests, dispatched, wanted>>

-----------------------------------------------------------------------------

Slots == 0 .. MaxTime
Times == 0 .. MaxTime + 1

Row == [status : {"active", "paused"}, next : Times, failures : 0 .. MaxFailures]

\* rows: the rows read; todo: the schedules not handled yet; id: the one being
\* handled; left: the writes of a Promise.all that have not been served; ok: whether
\* those that were served succeeded.
Ticker == [at : {"next", "dispatch", "created", "failed"}, rows : [Ids -> Row],
           todo : SUBSET Ids, id : Ids \cup {None},
           left : SUBSET {"fire", "schedule"}, ok : BOOLEAN]

ASSUME NoneIsNoTicker == None \notin Ticker

TypeOK ==
  /\ now \in Slots
  /\ schedules \in [Ids -> Row]
  /\ fires \in [Ids -> [Slots -> {"none", "claimed", "run_created", "failed"}]]
  /\ tickers \in [Tickers -> Ticker \cup {None}]
  /\ faults \in Nat
  /\ requests \in Nat
  /\ dispatched \in [Ids -> [Slots -> Nat]]
  /\ wanted \in [Ids -> {"active", "paused"}]

\* nextScheduleOccurrence
Occurrence(after) == after + 1

\* createSchedule, at time 0
Init ==
  /\ now = 0
  /\ schedules = [i \in Ids |-> [status |-> "active", next |-> Occurrence(0), failures |-> 0]]
  /\ fires = [i \in Ids |-> [k \in Slots |-> "none"]]
  /\ tickers = [t \in Tickers |-> None]
  /\ faults = 0
  /\ requests = 0
  /\ dispatched = [i \in Ids |-> [k \in Slots |-> 0]]
  /\ wanted = [i \in Ids |-> "active"]

-----------------------------------------------------------------------------
(* updateScheduleStatus *)

Pause(i) ==
  /\ faults + requests < MaxEvents
  /\ requests' = requests + 1
  /\ schedules' = [schedules EXCEPT ![i].status = "paused"]
  /\ wanted' = [wanted EXCEPT ![i] = "paused"]
  /\ UNCHANGED <<now, fires, tickers, faults, dispatched>>

Resumed(row) == [status |-> "active", next |-> Occurrence(now), failures |-> 0]

Resume(i) ==
  /\ faults + requests < MaxEvents
  /\ requests' = requests + 1
  /\ schedules' = [schedules EXCEPT ![i] = Resumed(@)]
  /\ wanted' = [wanted EXCEPT ![i] = "active"]
  /\ UNCHANGED <<now, fires, tickers, faults, dispatched>>

-----------------------------------------------------------------------------
(* productionTick *)

Due == {i \in Ids : schedules[i].status = "active" /\ schedules[i].next <= now}

\* The rows a query ordered by next_run_at and limited to Limit may return.
Selections ==
  {D \in SUBSET Due :
     /\ Cardinality(D) = IF Cardinality(Due) < Limit THEN Cardinality(Due) ELSE Limit
     /\ \A i \in D, j \in Due \ D : schedules[i].next <= schedules[j].next}

TickRead(t) ==
  /\ tickers[t] = None
  /\ Due # {}
  /\ \E D \in Selections :
       tickers' = [tickers EXCEPT
         ![t] = [at |-> "next", rows |-> schedules, todo |-> D, id |-> None,
                 left |-> {}, ok |-> TRUE]]
  /\ UNCHANGED <<now, schedules, fires, faults, requests, dispatched, wanted>>

At(t, label) == tickers[t] # None /\ tickers[t].at = label

\* The row t works on and its due time.
Copy(t) == tickers[t].rows[tickers[t].id]

\* Fault: the claim does not look for an earlier one.
ClaimableAlways(i, k) == TRUE

\* claim_workflow_schedule_fire: on conflict do nothing.
Claimable(i, k) == fires[i][k] = "none"

\* The next schedule, in the order of the rows read. One that is claimed already is
\* counted as a duplicate and left as it is.
Claim(t) ==
  /\ At(t, "next")
  /\ \E i \in tickers[t].todo :
       LET k == tickers[t].rows[i].next
           rest == [tickers[t] EXCEPT !.todo = @ \ {i}, !.id = i]
       IN /\ \A j \in tickers[t].todo : k <= tickers[t].rows[j].next
          /\ IF Claimable(i, k)
             THEN /\ fires' = [fires EXCEPT ![i][k] = "claimed"]
                  /\ tickers' = [tickers EXCEPT ![t] = [rest EXCEPT !.at = "dispatch"]]
             ELSE /\ tickers' = [tickers EXCEPT ![t] = rest]
                  /\ UNCHANGED fires
  /\ UNCHANGED <<now, schedules, faults, requests, dispatched, wanted>>

Writes(t, label) ==
  tickers' = [tickers EXCEPT ![t].at = label, ![t].left = {"fire", "schedule"}, ![t].ok = TRUE]

\* The run is created, or something throws: before the run exists or after.
Dispatch(t) ==
  /\ At(t, "dispatch")
  /\ dispatched' = [dispatched EXCEPT ![tickers[t].id][Copy(t).next] = @ + 1]
  /\ Writes(t, "created") \/ Writes(t, "failed")
  /\ UNCHANGED <<now, schedules, fires, faults, requests, wanted>>

\* One write of the Promise.all is served: it succeeds, or, ok being FALSE, it fails.
Served(t, write, ok) ==
  /\ write \in tickers[t].left
  /\ tickers' = [tickers EXCEPT ![t].left = @ \ {write}, ![t].ok = @ /\ ok]

\* The fire row is updated if it still is claimed; finding no row is an error.
WriteFire(t) ==
  /\ At(t, "created") \/ At(t, "failed")
  /\ LET i == tickers[t].id
         k == Copy(t).next
     IN IF fires[i][k] = "claimed"
        THEN /\ fires' = [fires EXCEPT
                  ![i][k] = IF tickers[t].at = "created" THEN "run_created" ELSE "failed"]
             /\ Served(t, "fire", TRUE)
        ELSE Served(t, "fire", FALSE) /\ UNCHANGED fires
  /\ UNCHANGED <<now, schedules, faults, requests, dispatched, wanted>>

\* The next run counts from the occurrence that was due.
Succeeded(row, copy) == [row EXCEPT !.failures = 0, !.next = Occurrence(copy.next)]

\* Fault: a failure forgets to move the schedule on.
FailedInPlace(copy) ==
  [status |-> IF copy.failures + 1 >= MaxFailures THEN "paused" ELSE "active",
   next |-> copy.next,
   failures |-> copy.failures + 1]

Failed(copy) ==
  [status |-> IF copy.failures + 1 >= MaxFailures THEN "paused" ELSE "active",
   next |-> Occurrence(copy.next),
   failures |-> copy.failures + 1]

WriteSchedule(t) ==
  /\ At(t, "created") \/ At(t, "failed")
  /\ Served(t, "schedule", TRUE)
  /\ schedules' = [schedules EXCEPT ![tickers[t].id] =
       IF tickers[t].at = "created" THEN Succeeded(@, Copy(t)) ELSE Failed(Copy(t))]
  /\ UNCHANGED <<now, fires, faults, requests, dispatched, wanted>>

\* The database refuses one of the two.
WriteFails(t) ==
  /\ At(t, "created") \/ At(t, "failed")
  /\ faults + requests < MaxEvents
  /\ faults' = faults + 1
  /\ \E write \in {"fire", "schedule"} : Served(t, write, FALSE)
  /\ UNCHANGED <<now, schedules, fires, requests, dispatched, wanted>>

\* Both writes are back. When one failed, a created run is recorded as failed, and a
\* failed one makes the tick throw.
Settle(t) ==
  /\ At(t, "created") \/ At(t, "failed")
  /\ tickers[t].left = {}
  /\ IF tickers[t].ok
     THEN tickers' = [tickers EXCEPT ![t].at = "next"]
     ELSE IF tickers[t].at = "created"
          THEN Writes(t, "failed")
          ELSE tickers' = [tickers EXCEPT ![t] = None]
  /\ UNCHANGED <<now, schedules, fires, faults, requests, dispatched, wanted>>

TickEnds(t) ==
  /\ At(t, "next")
  /\ tickers[t].todo = {}
  /\ tickers' = [tickers EXCEPT ![t] = None]
  /\ UNCHANGED <<now, schedules, fires, faults, requests, dispatched, wanted>>

\* The function instance dies.
TickDies(t) ==
  /\ tickers[t] # None
  /\ faults + requests < MaxEvents
  /\ faults' = faults + 1
  /\ tickers' = [tickers EXCEPT ![t] = None]
  /\ UNCHANGED <<now, schedules, fires, requests, dispatched, wanted>>

Pass ==
  /\ now < MaxTime
  /\ now' = now + 1
  /\ UNCHANGED <<schedules, fires, tickers, faults, requests, dispatched, wanted>>

-----------------------------------------------------------------------------

TickNext(t) ==
  \/ Claim(t) \/ Dispatch(t) \/ WriteFire(t) \/ WriteSchedule(t)
  \/ Settle(t) \/ TickEnds(t)

Next ==
  \/ \E t \in Tickers : TickRead(t) \/ TickNext(t) \/ WriteFails(t) \/ TickDies(t)
  \/ \E i \in Ids : Pause(i) \/ Resume(i)
  \/ Pass

Spec == Init /\ [][Next]_vars

\* A tick goes on, time passes, and the cron route is called again and again.
Fairness ==
  /\ \A t \in Tickers : WF_vars(TickNext(t))
  /\ WF_vars(Pass)
  /\ SF_vars(\E t \in Tickers : TickRead(t))

FairSpec == Spec /\ Fairness

-----------------------------------------------------------------------------
(* Properties *)

\* However ticks overlap, fail and die and users pause and resume, a run is asked
\* for at most once for an occurrence.
DispatchedOnce == \A i \in Ids, k \in Slots : dispatched[i][k] <= 1

\* Consecutive failures pause the schedule: none is active that has used them up.
FailuresPause == \A i \in Ids : schedules[i].failures >= MaxFailures => schedules[i].status = "paused"

\* Without users, every occurrence before the next one was asked for: whatever fails
\* or dies, no tick moves a schedule past an occurrence that nobody dispatched.
NoneSkipped ==
  requests = 0 =>
    \A i \in Ids, k \in 1 .. MaxTime : k < schedules[i].next => dispatched[i][k] = 1

\* Tick t has claimed occurrence k of i and has yet to move the schedule on.
Holds(t, i, k) ==
  /\ tickers[t] # None
  /\ tickers[t].id = i
  /\ Copy(t).next = k
  /\ tickers[t].at = "dispatch" \/ "schedule" \in tickers[t].left

\* Without users and faults, a claimed occurrence that the schedule has not passed is
\* in the hands of a tick: no tick that works on an old row moves a schedule back to
\* an occurrence that is claimed, where every later tick would leave it.
ClaimedIsHeld ==
  requests = 0 /\ faults = 0 =>
    \A i \in Ids, k \in Slots :
      k >= schedules[i].next /\ fires[i][k] # "none" => \E t \in Tickers : Holds(t, i, k)

\* A schedule a user paused stays paused until a user resumes it.
PauseIsKept == \A i \in Ids : wanted[i] = "paused" => schedules[i].status = "paused"

\* Where no user intervenes and nothing fails, no active schedule stays behind: its due
\* occurrences are worked off, also when there are more schedules than a tick reads.
KeepsFiring ==
  \A i \in Ids :
    []<>(\/ requests > 0 \/ faults > 0
         \/ (schedules[i].status = "active" => schedules[i].next > now))

\* What holds of schedules and their occurrences at any instant.
SchedulesSafe ==
  /\ TypeOK
  /\ DispatchedOnce
  /\ FailuresPause
  /\ NoneSkipped

=============================================================================
