---------------------------- MODULE UsageBudget -----------------------------
(***************************************************************************)
(* The AI budget, request rate and tool allowance of one tenant:           *)
(* apps/web/src/lib/usage-control-server.ts over the SQL functions of      *)
(* 202607270011_usage_store_operations.sql and                             *)
(* 202608010002_platform_admin_usage_override.sql.                         *)
(*                                                                         *)
(* A request reserves the most it may cost, calls the provider once or     *)
(* more, records what it did cost, and releases its reservation.  Each     *)
(* database function is one transaction, and each statement of it sees     *)
(* what was committed before that statement (READ COMMITTED): only the     *)
(* lock on the row of tenant_subscriptions keeps reservations and tool     *)
(* calls apart, and recording and releasing do not take it.                *)
(* now() of a transaction is the time it started.  One billing             *)
(* period is modelled, and a transaction starts when it gets the lock (an  *)
(* earlier now() counts more as recent and as held, never less).           *)
(***************************************************************************)
EXTENDS Naturals, FiniteSets, Functions

CONSTANTS
  Requests,     \* requests; each reserves or consumes once
  Admins,       \* those made by an active platform administrator
  Plans,        \* the plans the tenant may have
  Budget,       \* monthly_ai_cost_budget_microunits by plan
  Rate,         \* ai_requests_per_minute by plan
  ToolLimit,    \* monthly_tool_call_limit by plan
  MaxAttempts,  \* provider calls of one request
  AttemptCost,  \* what one provider call costs at most
  None          \* "no transaction"

ASSUME UsageAssumption ==
  /\ IsFiniteSet(Requests)
  /\ Admins \subseteq Requests
  /\ Budget \in [Plans -> Nat]
  /\ Rate \in [Plans -> Nat]
  /\ ToolLimit \in [Plans -> Nat]
  /\ MaxAttempts \in Nat \ {0}
  /\ AttemptCost \in Nat
  /\ None \notin Requests

VARIABLES
  plan,          \* tenant_subscriptions.plan_code
  entered,       \* the request whose transaction holds the lock on that row
  reservations,  \* the rows of usage_budget_reservations, by request
  charged,       \* the cost in usage_records, by request
  units,         \* the tool calls in usage_records, by request
  requests       \* what each request is about to do and what it has read

usageVars == <<plan, entered, reservations, charged, units, requests>>

-----------------------------------------------------------------------------

\* Age of a reservation: less than a minute, less than 15 minutes, expired.
Ages == 0 .. 2
MaxCost == MaxAttempts * AttemptCost


\* maximum: maximum_cost_microunits, 0 when it is not active (nothing reads it then).
Reservation == [status : {"none", "active", "released", "expired"}, age : Ages,
                maximum : 0 .. MaxCost]

\* attempts: maxAttempts of the request; lapsed: the reservations whose expires_at was past
\* when the transaction started; read: a sum it has read; tries: provider calls made;
\* tokens: what the usage sink has added up; outcome: of the last provider call.  spent is
\* history.
Request ==
  [at : {"idle", "sumUsage", "sumReserved", "insert", "provider", "record", "release",
         "meter", "answered", "over"},
   attempts : 0 .. MaxAttempts, lapsed : SUBSET Requests, read : Nat,
   tries : 0 .. MaxAttempts, tokens : 0 .. MaxCost, spent : 0 .. MaxCost,
   outcome : {"none", "succeeded", "invalid", "failed"}]

UsageTypeOK ==
  /\ plan \in Plans
  /\ entered \in Requests \cup {None}
  /\ reservations \in [Requests -> Reservation]
  /\ charged \in [Requests -> 0 .. MaxCost]
  /\ units \in [Requests -> 0 .. 1]
  /\ requests \in [Requests -> Request]

\* estimateMaximumAiCostMicrounits
Most(r) == requests[r].attempts * AttemptCost

NewReservation == [status |-> "none", age |-> 0, maximum |-> 0]
NewRequest == [at |-> "idle", attempts |-> 0, lapsed |-> {}, read |-> 0, tries |-> 0,
               tokens |-> 0, spent |-> 0, outcome |-> "none"]

UsageInit ==
  /\ plan \in Plans
  /\ entered = None
  /\ reservations = [r \in Requests |-> NewReservation]
  /\ charged = [r \in Requests |-> 0]
  /\ units = [r \in Requests |-> 0]
  /\ requests = [r \in Requests |-> NewRequest]

Goes(r, at) == requests' = [requests EXCEPT ![r].at = at]
\* The request was refused, failed, died or got its tool call: what it knew no longer
\* matters.
Ends(r) == requests' = [requests EXCEPT ![r] = [NewRequest EXCEPT !.at = "over"]]
RowUnchanged == UNCHANGED <<reservations, charged, units>>
Lapsed == {r \in Requests : reservations[r].age = 2}

\* The rows a reservation in progress set to 'expired' and has not committed.
Swept ==
  IF entered = None \/ requests[entered].at \notin {"sumUsage", "sumReserved", "insert"}
  THEN {}
  ELSE {r \in Requests : reservations[r].status = "active" /\ r \in requests[entered].lapsed}

-----------------------------------------------------------------------------
(* reserve_tenant_usage_budget *)

\* Fault: the row of the subscription is read without FOR UPDATE.
EnterAnyway == TRUE

\* perform 1 from tenant_subscriptions ... for update
MayEnter == entered = None

\* created_at > now() - interval '1 minute'
Recent == {q \in Requests : reservations[q].status # "none" /\ reservations[q].age = 0}

\* The lock is taken, what has expired is swept and the minute is counted; raising
\* gives the lock back and undoes the sweep.
Enter(r) ==
  /\ requests[r].at = "idle"
  /\ MayEnter
  /\ \/ /\ Cardinality(Recent) < Rate[plan]
        /\ entered' = r
        /\ \E attempts \in 1 .. MaxAttempts :
             requests' = [requests EXCEPT ![r].at = "sumUsage", ![r].attempts = attempts,
                                          ![r].lapsed = Lapsed]
     \/ /\ Cardinality(Recent) >= Rate[plan]
        /\ entered' = None
        /\ Ends(r)
  /\ UNCHANGED plan
  /\ RowUnchanged

SumUsage(r) ==
  /\ requests[r].at = "sumUsage"
  /\ requests' = [requests EXCEPT ![r].at = "sumReserved",
                                  ![r].read = SumFunctionOnSet(charged, Requests)]
  /\ UNCHANGED <<plan, entered>>
  /\ RowUnchanged

\* Reservations that are active and had not expired when the transaction started.
Held(r) ==
  SumFunctionOnSet([q \in Requests |-> reservations[q].maximum],
                   {q \in Requests \ requests[r].lapsed : reservations[q].status = "active"})

SumReserved(r) ==
  /\ requests[r].at = "sumReserved"
  /\ \/ /\ r \in Admins \/ requests[r].read + Held(r) + Most(r) <= Budget[plan]
        /\ entered' = entered
        /\ Goes(r, "insert")
     \/ /\ r \notin Admins /\ requests[r].read + Held(r) + Most(r) > Budget[plan]
        /\ entered' = None
        /\ Ends(r)
  /\ UNCHANGED plan
  /\ RowUnchanged

Ended(r, status) == [reservations[r] EXCEPT !.status = status, !.maximum = 0]

\* The row is inserted and the transaction commits, the sweep with it.
Insert(r) ==
  /\ requests[r].at = "insert"
  /\ reservations' = [q \in Requests |->
       IF q = r THEN [status |-> "active", age |-> 0, maximum |-> Most(r)]
       ELSE IF q \in Swept THEN Ended(q, "expired")
       ELSE reservations[q]]
  /\ entered' = None
  /\ requests' = [requests EXCEPT ![r].at = "provider", ![r].lapsed = {}, ![r].read = 0]
  /\ UNCHANGED <<plan, charged, units>>

-----------------------------------------------------------------------------
(* The gateway, the usage sink, and record_tenant_ai_usage *)

\* Fault: the usage of the last provider call stands for all of them.
AggregateLast(tokens, cost) == cost

\* aggregateAssistantUsageRecords
Aggregate(tokens, cost) == tokens + cost

\* shouldSettleAssistantUsage
ShouldSettle(outcome, tries, attempts) == outcome # "invalid" \/ tries >= attempts

\* The request has failed and has still to release its reservation.
Failed == [NewRequest EXCEPT !.at = "release", !.outcome = "failed"]

\* A call that fails is recorded without tokens.  The sink settles, in a transaction that
\* starts now, unless the database is not reached.
CallProvider(r) ==
  /\ requests[r].at = "provider"
  /\ \E outcome \in {"succeeded", "invalid", "failed"} :
       LET cost == IF outcome = "failed" THEN 0 ELSE AttemptCost
           called == [requests[r] EXCEPT !.tries = @ + 1, !.outcome = outcome,
                                         !.tokens = Aggregate(@, cost), !.spent = @ + cost]
           next == IF ~ShouldSettle(outcome, called.tries, called.attempts) THEN {called}
                   ELSE {[called EXCEPT !.at = "record", !.tries = 0, !.attempts = 0,
                                        !.lapsed = Lapsed \cap {r}],
                         Failed}
       IN \E n \in next : requests' = [requests EXCEPT ![r] = n]
  /\ UNCHANGED <<plan, entered>>
  /\ RowUnchanged

Chargeable(r) ==
  /\ reservations[r].status = "active"
  /\ r \notin requests[r].lapsed
  /\ requests[r].tokens <= reservations[r].maximum

\* The row is locked first: a sweep that set it to 'expired' is waited for.
Record(r) ==
  /\ requests[r].at = "record"
  /\ r \notin Swept
  /\ \/ /\ Chargeable(r)
        /\ charged' = [charged EXCEPT ![r] = requests[r].tokens]
        /\ reservations' = [reservations EXCEPT ![r] = Ended(r, "released")]
        \* the answer may be lost
        /\ \E n \in {[requests[r] EXCEPT !.at = "release", !.tokens = 0], Failed} :
             requests' = [requests EXCEPT ![r] = n]
     \/ /\ ~Chargeable(r)
        /\ requests' = [requests EXCEPT ![r] = Failed]
        /\ UNCHANGED <<charged, reservations>>
  /\ UNCHANGED <<plan, entered, units>>

\* release_tenant_usage_reservation; the answer goes out whether or not it succeeds.
Release(r) ==
  /\ requests[r].at = "release"
  /\ r \notin Swept
  /\ \/ /\ reservations[r].status = "active"
        /\ LET status == IF reservations[r].age = 2 THEN "expired" ELSE "released"
           IN reservations' = [reservations EXCEPT ![r] = Ended(r, status)]
     \/ UNCHANGED reservations
  /\ IF requests[r].outcome = "succeeded" THEN Goes(r, "answered") ELSE Ends(r)
  /\ UNCHANGED <<plan, entered, charged, units>>

\* The function instance ends, or the client disconnects and nobody goes on.
Die(r) ==
  /\ requests[r].at = "provider"
  /\ Ends(r)
  /\ UNCHANGED <<plan, entered>>
  /\ RowUnchanged

-----------------------------------------------------------------------------
(* consume_tenant_metered_allowance, one unit at a time *)

EnterMeter(r) ==
  /\ requests[r].at = "idle"
  /\ MayEnter
  /\ entered' = r
  /\ requests' = [requests EXCEPT ![r].at = "meter",
                                  ![r].read = SumFunctionOnSet(units, Requests)]
  /\ UNCHANGED plan
  /\ RowUnchanged

Meter(r) ==
  /\ requests[r].at = "meter"
  /\ \/ /\ r \in Admins \/ requests[r].read + 1 <= ToolLimit[plan]
        /\ units' = [units EXCEPT ![r] = 1]
        /\ Ends(r)
     \/ /\ r \notin Admins /\ requests[r].read + 1 > ToolLimit[plan]
        /\ Ends(r)
        /\ UNCHANGED units
  /\ entered' = None
  /\ UNCHANGED <<plan, reservations, charged>>

-----------------------------------------------------------------------------

\* platform_admin_change_tenant_plan and sync_microsoft_store_entitlement wait for the
\* same row.
ChangePlan(p) ==
  /\ entered = None
  /\ plan # p
  /\ plan' = p
  /\ UNCHANGED <<entered, requests>>
  /\ RowUnchanged

\* Time passes for a reservation; that one that is over is older than a minute is all
\* anything still asks of it.
Grow(r) ==
  /\ \/ reservations[r].status = "active" /\ reservations[r].age < 2
     \/ reservations[r].status \in {"released", "expired"} /\ reservations[r].age = 0
  /\ reservations' = [reservations EXCEPT ![r].age = @ + 1]
  /\ UNCHANGED <<plan, entered, charged, units, requests>>

UsageNext ==
  \/ \E r \in Requests :
       \/ Enter(r) \/ SumUsage(r) \/ SumReserved(r) \/ Insert(r)
       \/ CallProvider(r) \/ Record(r) \/ Release(r) \/ Die(r)
       \/ EnterMeter(r) \/ Meter(r)
       \/ Grow(r)
  \/ \E p \in Plans : ChangePlan(p)

UsageSpec == UsageInit /\ [][UsageNext]_usageVars

-----------------------------------------------------------------------------
(* Properties *)

Granted(r) == reservations[r].status = "none" /\ reservations'[r].status = "active"

\* A reservation that is granted to anyone but a platform administrator fits into the
\* budget of the plan together with the usage it saw and with every reservation that is
\* active when it commits: two requests never both take the last of the budget.  (Usage
\* recorded between its two sums is in neither of them.)
GrantsWithinBudget ==
  [][\A r \in Requests \ Admins :
       Granted(r) => requests[r].read + Held(r)' <= Budget[plan]]_usageVars

\* When a reservation is granted, no more than the rate of the plan were made in the
\* last minute, the ones given back included.
RateHeld ==
  [][\A r \in Requests :
       Granted(r) => Cardinality({q \in Requests : reservations'[q].status # "none"
                                                   /\ reservations'[q].age = 0}) <= Rate[plan]]_usageVars

\* Tool calls that overlap never take more than the plan's allowance.
AllowanceHeld ==
  [][\A r \in Requests \ Admins :
       units[r] = 0 /\ units'[r] = 1
         => SumFunctionOnSet(units', Requests) <= ToolLimit[plan]]_usageVars

\* Once a reservation was released or swept, and its amount given to others, nothing is
\* charged to it and it does not come back.
ReturnedIsReturned ==
  [][\A r \in Requests :
       reservations[r].status \in {"released", "expired"}
         => /\ reservations'[r].status = reservations[r].status
            /\ charged'[r] = charged[r]]_usageVars

\* What a request answers with has been charged in full, the provider calls whose output
\* was invalid included ("AI usage could not be recorded; the output was not released").
OutputIsCharged ==
  \A r \in Requests :
    requests[r].at = "answered" => charged[r] = requests[r].spent

\* What holds of reservations and charges at any instant.
UsageSafe == UsageTypeOK /\ OutputIsCharged

\* What is granted stays within budget, rate and allowance, and what was returned is not
\* taken again.
BudgetHeld == GrantsWithinBudget /\ RateHeld /\ AllowanceHeld /\ ReturnedIsReturned

=============================================================================
