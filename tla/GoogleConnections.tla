-------------------------- MODULE GoogleConnections --------------------------
(***************************************************************************)
(* One Google Workspace connection and the rows that are appended through  *)
(* it: packages/google-sheets/src/connection.ts and client.ts over the     *)
(* table google_workspace_connections of                                   *)
(* apps/web/src/lib/google-connections.ts.                                 *)
(*                                                                         *)
(* A call reads the connection, may refresh its tokens at Google, and      *)
(* writes what it made of what it read; health checks, appends and         *)
(* revocations interleave between these calls, each of which may fail.     *)
(* The claims of appends are kept in the memory of the server, which may   *)
(* restart.  Scopes are left out; one append stands for every retry that   *)
(* Google answers with 429.                                                *)
(***************************************************************************)
EXTENDS Naturals, FiniteSets

CONSTANTS
  Calls,       \* calls of the service
  Operations,  \* idempotency keys
  Bodies       \* what is appended, as far as its hash tells

VARIABLES
  connection,  \* the row of google_workspace_connections
  granted,     \* external: Google still accepts the tokens of the authorization
  operations,  \* the claims of appends, in memory
  calls,       \* what each call has read and does next
  rows,        \* external: the appends that Google has applied, by call
  revoked,     \* history: a revocation has cleared the row
  renewed,     \* history: since then a refresh under way has written a new refresh token
  misread      \* history: operations whose append was applied and then forgotten: its
               \* answer could not be read, or the server restarted

googleVars == <<connection, granted, operations, calls, rows, revoked, renewed, misread>>

-----------------------------------------------------------------------------

Statuses == {"active", "error", "expired", "revoked"}

\* access, refresh: a token is stored; fresh: the access token lasts another minute.
Connection == [status : Statuses, access : BOOLEAN, refresh : BOOLEAN, fresh : BOOLEAN]

\* body: the hash the key was claimed with.
Claim == [body : Bodies, status : {"pending", "completed", "ambiguous"}]

\* renews: the answer to the refresh carried a refresh token; verdict: the health to write.
Call == [at : {"idle", "refresh", "store", "list", "mark", "withdraw", "clear", "claim", "send",
               "done", "failed"},
         kind : {"health", "append", "revoke"}, renews : BOOLEAN, verdict : Statuses,
         operation : Operations, body : Bodies]

Mine(c) == operations[calls[c].operation]
Known(c) == calls[c].operation \in DOMAIN operations

GoogleTypeOK ==
  /\ connection \in Connection
  /\ granted \in BOOLEAN
  /\ DOMAIN operations \subseteq Operations
  /\ \A o \in DOMAIN operations : operations[o] \in Claim
  /\ calls \in [Calls -> Call]
  /\ \A c \in Calls :
       calls[c].at = "send" => Known(c) /\ Mine(c) = [body |-> calls[c].body, status |-> "pending"]
  /\ rows \subseteq Calls
  /\ revoked \in BOOLEAN /\ renewed \in BOOLEAN
  /\ misread \subseteq Operations

GoogleInit ==
  /\ connection = [status |-> "active", access |-> TRUE, refresh |-> TRUE, fresh |-> TRUE]
  /\ granted = TRUE
  /\ operations = [o \in {} |-> {}]
  /\ calls \in [Calls -> {c \in Call : c.at = "idle" /\ ~c.renews /\ c.verdict = "active"}]
  /\ rows = {} /\ misread = {}
  /\ revoked = FALSE /\ renewed = FALSE

Continues(c, at) == calls' = [calls EXCEPT ![c].at = at]

\* The CHECK constraints of the table.
Allows(row) ==
  /\ row.status = "active" => row.access /\ row.refresh
  /\ row.status = "revoked" => ~row.access /\ ~row.refresh

-----------------------------------------------------------------------------
(* accessToken: nothing is written that depends on the status still being what it was *)

\* A health check writes that it failed; nothing else does.
Fails(c, verdict) ==
  calls' = [calls EXCEPT ![c].at = IF calls[c].kind = "health" THEN "mark" ELSE "failed",
                         ![c].verdict = verdict, ![c].renews = FALSE]

Proceeds(c) ==
  calls' = [calls EXCEPT ![c].at = IF calls[c].kind = "health" THEN "list" ELSE "claim",
                         ![c].renews = FALSE]

ReadConnection(c) ==
  /\ calls[c].at = "idle" /\ calls[c].kind # "revoke"
  /\ \/ connection.status = "revoked" /\ Fails(c, "error")
     \/ connection.status # "revoked" /\ connection.access /\ connection.fresh /\ Proceeds(c)
     \/ /\ connection.status # "revoked" /\ ~(connection.access /\ connection.fresh)
        /\ IF connection.refresh THEN Continues(c, "refresh") ELSE Fails(c, "expired")
     \/ Fails(c, "error")
  /\ UNCHANGED <<connection, granted, operations, rows, revoked, renewed, misread>>

\* GoogleOAuthClient.refresh
Refresh(c) ==
  /\ calls[c].at = "refresh"
  /\ \/ /\ granted
        /\ \E renews \in BOOLEAN :
             calls' = [calls EXCEPT ![c].at = "store", ![c].renews = renews]
     \/ Fails(c, "expired")
  /\ UNCHANGED <<connection, granted, operations, rows, revoked, renewed, misread>>

\* updateTokens: a refresh token that was not answered is not written.  Here and below, what
\* took effect may be answered as a failure.
UpdateTokens(c) ==
  LET row == [status |-> "active", access |-> TRUE, fresh |-> TRUE,
              refresh |-> connection.refresh \/ calls[c].renews]
  IN /\ calls[c].at = "store"
     /\ \/ /\ Allows(row)
           /\ connection' = row
           /\ renewed' = (renewed \/ (revoked /\ calls[c].renews))
           /\ Proceeds(c) \/ Fails(c, "error")
        \/ /\ Fails(c, "error")
           /\ UNCHANGED <<connection, renewed>>
     /\ UNCHANGED <<granted, operations, rows, revoked, misread>>

Expire ==
  /\ connection.fresh
  /\ connection' = [connection EXCEPT !.fresh = FALSE]
  /\ UNCHANGED <<granted, operations, calls, rows, revoked, renewed, misread>>

\* External: the user withdraws the authorization at Google.
Withdraw ==
  /\ granted' = FALSE
  /\ UNCHANGED <<connection, operations, calls, rows, revoked, renewed, misread>>

-----------------------------------------------------------------------------
(* health *)

\* listSpreadsheets: Google refuses the token of a withdrawn authorization.
ListSpreadsheets(c) ==
  /\ calls[c].at = "list"
  /\ \/ granted /\ calls' = [calls EXCEPT ![c].at = "mark", ![c].verdict = "active"]
     \/ ~granted /\ Fails(c, "expired")
     \/ Fails(c, "error")
  /\ UNCHANGED <<connection, granted, operations, rows, revoked, renewed, misread>>

\* updateHealth of a success that the table refuses, or that fails as the reading after it
\* may, is followed by one of an error; of that one the failure is swallowed.
UpdateHealth(c) ==
  LET row == [connection EXCEPT !.status = calls[c].verdict]
      healthy == calls[c].verdict = "active"
  IN /\ calls[c].at = "mark"
     /\ connection' \in {connection} \cup (IF Allows(row) THEN {row} ELSE {})
     /\ \/ healthy /\ connection' = row /\ Continues(c, "done")
        \/ healthy /\ calls' = [calls EXCEPT ![c].verdict = "error"]
        \/ ~healthy /\ Continues(c, "failed")
     /\ UNCHANGED <<granted, operations, rows, revoked, renewed, misread>>

-----------------------------------------------------------------------------
(* revoke *)

BeginRevoke(c) ==
  /\ calls[c].at = "idle" /\ calls[c].kind = "revoke"
  /\ \/ Continues(c, IF connection.refresh THEN "withdraw" ELSE "clear")
     \/ Continues(c, "failed")
  /\ UNCHANGED <<connection, granted, operations, rows, revoked, renewed, misread>>

\* GoogleOAuthClient.revoke; the row is cleared however this ends.
RevokeAtGoogle(c) ==
  /\ calls[c].at = "withdraw"
  /\ granted' \in {granted, FALSE}
  /\ Continues(c, "clear")
  /\ UNCHANGED <<connection, operations, rows, revoked, renewed, misread>>

Cleared(row) == [row EXCEPT !.status = "revoked", !.access = FALSE, !.refresh = FALSE]

ClearTokens(c) ==
  /\ calls[c].at = "clear"
  /\ \/ /\ connection' = Cleared(connection)
        /\ revoked' = TRUE
        /\ Continues(c, "done") \/ Continues(c, "failed")
     \/ /\ Continues(c, "failed")
        /\ UNCHANGED <<connection, revoked>>
  /\ UNCHANGED <<granted, operations, rows, renewed, misread>>

-----------------------------------------------------------------------------
(* append: idempotentWrite over InMemoryGoogleOperationStore *)

Records(c, status) ==
  operations' = [o \in DOMAIN operations \cup {calls[c].operation} |->
                   IF o = calls[c].operation THEN [body |-> calls[c].body, status |-> status]
                   ELSE operations[o]]
Releases(c) == operations' = [o \in DOMAIN operations \ {calls[c].operation} |-> operations[o]]

MayClaim(c) == ~Known(c)

\* Fault: the hash of the request is not compared.
ReplaysAny(c) == Mine(c).status = "completed"

Replays(c) == Mine(c).status = "completed" /\ Mine(c).body = calls[c].body

ClaimOperation(c) ==
  /\ calls[c].at = "claim"
  /\ IF MayClaim(c)
     THEN /\ Records(c, "pending")
          /\ Continues(c, "send")
     ELSE /\ Continues(c, IF Replays(c) THEN "done" ELSE "failed")
          /\ UNCHANGED operations
  /\ UNCHANGED <<connection, granted, rows, revoked, renewed, misread>>

\* What becomes of the claim: a transport error or a 5xx leaves it ambiguous, whether the
\* rows were appended or not; a refusal releases it; so does an answer of success whose body
\* is lost, too long or not what was expected.
Send(c) ==
  /\ calls[c].at = "send"
  /\ \/ /\ granted
        /\ rows' = rows \cup {c}
        /\ \/ Records(c, "completed") /\ Continues(c, "done") /\ UNCHANGED misread
           \/ Records(c, "ambiguous") /\ Continues(c, "failed") /\ UNCHANGED misread
           \/ /\ Releases(c) /\ Continues(c, "failed")
              /\ misread' = misread \cup {calls[c].operation}
     \/ /\ Records(c, "ambiguous") \/ Releases(c)
        /\ Continues(c, "failed")
        /\ UNCHANGED <<rows, misread>>
  /\ UNCHANGED <<connection, granted, revoked, renewed>>

\* The server restarts: its calls end and its claims are gone.
Restart ==
  /\ operations' = [o \in {} |-> {}]
  /\ calls' = [c \in Calls |->
                 IF calls[c].at \in {"idle", "done"} THEN calls[c]
                 ELSE [calls[c] EXCEPT !.at = "failed", !.renews = FALSE]]
  /\ misread' = misread \cup {calls[c].operation : c \in rows}
  /\ UNCHANGED <<connection, granted, rows, revoked, renewed>>

GoogleNext ==
  \/ \E c \in Calls :
       \/ ReadConnection(c) \/ Refresh(c) \/ UpdateTokens(c)
       \/ ListSpreadsheets(c) \/ UpdateHealth(c)
       \/ BeginRevoke(c) \/ RevokeAtGoogle(c) \/ ClearTokens(c)
       \/ ClaimOperation(c) \/ Send(c)
  \/ Expire \/ Withdraw \/ Restart

GoogleSpec == GoogleInit /\ [][GoogleNext]_googleVars

-----------------------------------------------------------------------------
(* Properties *)

\* "Revocation ... clears both local ciphertexts": whatever health checks and refreshes
\* were under way or come later, a revoked connection has no tokens and is not active
\* again, unless a refresh that overlapped the revocation brought a new refresh token.
RevokedIsCleared ==
  revoked /\ ~renewed =>
    ~connection.access /\ ~connection.refresh /\ connection.status # "active"

\* "That outcome is marked ambiguous and is not automatically retried": calls with one key
\* append once, unless the append was forgotten.
AppendedOnce ==
  \A c, d \in rows :
    calls[c].operation = calls[d].operation /\ calls[c].operation \notin misread => c = d

\* "A different hash ... fails closed": a call answered with a result, its own or a
\* replayed one, had just what it asked for appended.
AnsweredIsAppended ==
  \A c \in Calls :
    calls[c].kind = "append" /\ calls[c].at = "done" =>
      \E d \in rows : calls[d].operation = calls[c].operation /\ calls[d].body = calls[c].body

\* What holds of a connection and of what was appended through it at any instant.
GoogleSafe ==
  /\ GoogleTypeOK
  /\ RevokedIsCleared
  /\ AppendedOnce
  /\ AnsweredIsAppended

=============================================================================
