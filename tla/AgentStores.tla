----------------------------- MODULE AgentStores -----------------------------
(* What the two stores of Desktop Agents, AgentJobs in memory and SupabaseAgents in     *)
(* tables, have in common: whom they serve and how long their promises last.            *)
EXTENDS Naturals

CONSTANTS
  Codes,        \* pairing codes that may be issued; each is random, so fresh
  Devices,      \* device identifiers that may be minted
  Jobs,         \* job identifiers
  Requests,     \* device calls that may be in flight together
  MaxAttempts,  \* AgentJob.maxAttempts (3 in the dispatcher)
  Lease,        \* lease length; both callers in the repository ask for 120 s
  PairTTL,      \* PAIRING_TTL_MS
  MaxTime,      \* bound on the clock
  None          \* "no value"

Outcomes == {"succeeded", "failed"}

\* A claim token is random and hence fresh: it is named by its rank among the
\* tokens of its job. 0 stands for "no claim token".
Claims == 1 .. MaxAttempts

=============================================================================
