------------------------ MODULE AssistantConversations ------------------------
(*****************************************************************************)
(* One conversation with the assistant: POST of apps/web/src/app/api/ai/chat, *)
(* .../plan and .../images over assistant-conversation-server.ts and         *)
(* assistant-image-server.ts, and delete_ai_conversation.                    *)
(*                                                                           *)
(* A request is a sequence of calls to the database, to the object storage   *)
(* and to the provider; other requests act between any two of them.  A call  *)
(* may fail, its answer may be lost after it took effect, and the instance   *)
(* may die.  Budgets are those of UsageBudget: here a reservation is granted *)
(* or not.                                                                   *)
(*****************************************************************************)
EXTENDS Naturals, Sequences, FiniteSets

CONSTANTS
  Chats,      \* chat requests
  Planners,   \* requests for a plan
  Images,     \* image requests, each naming the image it makes
  Providers,  \* providers of models that are configured and available
  ReadLimit,  \* the messages of a conversation that are read (200)
  Window,     \* the messages a provider is shown (40)
  MaxMishaps  \* bound on calls that fail, answers that are lost and deaths

ASSUME ConversationBounds ==
  /\ Chats \cap Images = {} /\ Planners \cap (Chats \cup Images) = {}
  /\ ReadLimit \in Nat \ {0} /\ Window \in Nat \ {0} /\ MaxMishaps \in Nat

VARIABLES
  exists,    \* is there the row of ai_conversations
  log,       \* the rows of ai_messages, by created_at
  rows,      \* the rows of ai_image_artifacts
  objects,   \* the bytes in the bucket assistant-images
  turns,     \* what each request is about to do and what it knows
  deletion,  \* the request that deletes the conversation
  mishaps,   \* how many calls failed or lost their answer, and instances died
  lost,      \* history: did an answer get lost
  missed     \* history: the images deleted without having been listed

conversationVars == <<exists, log, rows, objects, turns, deletion, mishaps, lost, missed>>
tables == <<exists, log, rows, objects>>

Turns == Chats \cup Planners \cup Images
Message == [of : Turns, role : {"user", "assistant"}, status : {"completed", "failed", "cancelled"}]

ChatLabels == {"history", "stream", "answer", "answered", "partial"}
PlanLabels == {"provider", "plan"}
ImageLabels == {"generate", "upload", "row", "unupload", "usage", "message", "lookup", "bytes", "metadata"}

\* granted: was the budget reserved; gone: has the reader left; verdict: the status of
\* the answer that is about to be stored; tried: the providers that failed.
Turn == [at : {"idle", "prompt", "reserve", "end"} \cup ChatLabels \cup PlanLabels \cup ImageLabels,
         granted : BOOLEAN, gone : BOOLEAN, verdict : {"failed", "cancelled"},
         tried : SUBSET Providers]

ConversationInit ==
  /\ exists = TRUE
  /\ log = <<>>
  /\ rows = {}
  /\ objects = {}
  /\ turns = [r \in Turns |-> [at |-> "idle", granted |-> FALSE, gone |-> FALSE,
                               verdict |-> "failed", tried |-> {}]]
  /\ deletion = [at |-> "idle", paths |-> {}]
  /\ mishaps = 0
  /\ lost = FALSE
  /\ missed = {}

-----------------------------------------------------------------------------
(* Calls *)

TurnAt(r, label) == turns[r].at = label
Goto(r, label) == turns' = [turns EXCEPT ![r].at = label]
Fault == mishaps < MaxMishaps /\ mishaps' = mishaps + 1
NoFault == UNCHANGED <<mishaps, lost>>

\* A call about tables that has no effect unless possible, and may fail.
Calls(r, possible, effect, ok, bad) ==
  \/ /\ possible /\ effect
     /\ \/ Goto(r, ok) /\ NoFault
        \/ Goto(r, bad) /\ Fault /\ lost' = TRUE
  \/ /\ UNCHANGED tables /\ Goto(r, bad)
     /\ (~ possible /\ NoFault) \/ (Fault /\ UNCHANGED lost)

\* Fault: a message is stored whatever became of its conversation.
AppendableAlways == TRUE

\* The foreign keys of ai_messages and ai_image_artifacts.
Appendable == exists

Appends(r, role, status) ==
  /\ log' = Append(log, [of |-> r, role |-> role, status |-> status])
  /\ UNCHANGED <<exists, rows, objects>>

\* ensureAssistantConversation finds the conversation, or the request is refused.
BeginTurn(r) ==
  /\ TurnAt(r, "idle")
  /\ Goto(r, IF exists THEN "prompt" ELSE "end")
  /\ UNCHANGED <<tables, deletion, mishaps, lost, missed>>

AppendPrompt(r) ==
  /\ TurnAt(r, "prompt")
  /\ Calls(r, Appendable, Appends(r, "user", "completed"), "reserve", IF r \in Planners THEN "partial" ELSE "end")
  /\ UNCHANGED <<deletion, missed>>

Granted(r) == CASE r \in Chats -> "history" [] r \in Planners -> "provider" [] OTHER -> "generate"

\* The sources cannot be prepared or the budget is used up: the prompt stays, and only a
\* plan is answered.
ReserveTurn(r) ==
  /\ TurnAt(r, "reserve")
  /\ \/ turns' = [turns EXCEPT ![r].at = Granted(r), ![r].granted = TRUE]
     \/ Goto(r, IF r \in Planners THEN "partial" ELSE "end")
  /\ UNCHANGED <<tables, deletion, mishaps, lost, missed>>

DieInTurn(r) ==
  /\ turns[r].at \notin {"idle", "end"}
  /\ Goto(r, "end")
  /\ Fault
  /\ UNCHANGED <<tables, deletion, lost, missed>>

-----------------------------------------------------------------------------
(* A chat *)

\* What the provider is given: the last completed messages among the oldest ReadLimit.
Shown ==
  LET read == {i \in 1 .. Len(log) : i <= ReadLimit /\ log[i].status = "completed"}
  IN {i \in read : Cardinality({j \in read : j > i}) < Window}

ReadHistory(r) ==
  /\ TurnAt(r, "history")
  /\ \/ exists /\ Goto(r, "stream") /\ NoFault
     \/ Goto(r, "partial") /\ ((~ exists /\ NoFault) \/ (Fault /\ UNCHANGED lost))
  /\ UNCHANGED <<tables, deletion, missed>>

\* When the reader has left, the request to the provider is aborted, or what it delivers
\* cannot be passed on.
Interrupted(r) == IF turns[r].gone THEN {"failed", "cancelled"} ELSE {"failed"}

\* The provider is through, or fails.
Stream(r) ==
  /\ TurnAt(r, "stream")
  /\ \/ Goto(r, "answer")
     \/ \E verdict \in Interrupted(r) :
          turns' = [turns EXCEPT ![r].at = "partial", ![r].verdict = verdict]
  /\ UNCHANGED <<tables, deletion, mishaps, lost, missed>>

AppendAnswer(r) ==
  /\ TurnAt(r, "answer")
  /\ Calls(r, Appendable, Appends(r, "assistant", "completed"), "answered", "partial")
  /\ UNCHANGED <<deletion, missed>>

\* enqueue() throws when the reader has left, and the answer is stored once more.
PassOn(r) ==
  /\ TurnAt(r, "answered")
  /\ Goto(r, IF turns[r].gone THEN "partial" ELSE "end")
  /\ UNCHANGED <<tables, deletion, mishaps, lost, missed>>

\* The answer, or a sentence that says there is none, is kept in any case.
Keeps(r) == TRUE

AppendPartial(r) ==
  /\ TurnAt(r, "partial")
  /\ Calls(r, Appendable /\ Keeps(r), Appends(r, "assistant", turns[r].verdict), "end", "end")
  /\ UNCHANGED <<deletion, missed>>

\* The browser stops the generation or closes the page.
Leave(r) ==
  /\ turns[r].at \in ChatLabels
  /\ ~ turns[r].gone
  /\ turns' = [turns EXCEPT ![r].gone = TRUE]
  /\ UNCHANGED <<tables, deletion, mishaps, lost, missed>>

-----------------------------------------------------------------------------
(* A plan *)

\* Fault: only the provider that has just failed is passed over.
ExcludedLast(r, provider) == {provider}

\* attemptedProviders, after one more has failed.
Excluded(r, provider) == turns[r].tried \cup {provider}

\* With provider "auto" a plan that failed in a way that may be retried is asked of
\* another provider, with a reservation of its own, until none is left.
AskProvider(r) ==
  /\ TurnAt(r, "provider")
  /\ \/ Goto(r, "plan")
     \/ \E verdict \in {"failed", "cancelled"} :
          turns' = [turns EXCEPT ![r].at = "partial", ![r].verdict = verdict]
     \/ \E provider \in Providers \ turns[r].tried :
          turns' = [turns EXCEPT
            ![r].tried = Excluded(r, provider),
            ![r].at = IF Excluded(r, provider) = Providers THEN "partial" ELSE "reserve"]
  /\ UNCHANGED <<tables, deletion, mishaps, lost, missed>>

AppendPlan(r) ==
  /\ TurnAt(r, "plan")
  /\ Calls(r, Appendable, Appends(r, "assistant", "completed"), "end", "partial")
  /\ UNCHANGED <<deletion, missed>>

-----------------------------------------------------------------------------
(* An image *)

Generate(r) ==
  /\ TurnAt(r, "generate")
  /\ Goto(r, "upload") \/ Goto(r, "end")
  /\ UNCHANGED <<tables, deletion, mishaps, lost, missed>>

Upload(r) ==
  /\ TurnAt(r, "upload")
  /\ Calls(r, TRUE, objects' = objects \cup {r} /\ UNCHANGED <<exists, log, rows>>, "row", "end")
  /\ UNCHANGED <<deletion, missed>>

AfterRefusal == "unupload"

InsertRow(r) ==
  /\ TurnAt(r, "row")
  /\ Calls(r, Appendable, rows' = rows \cup {r} /\ UNCHANGED <<exists, log, objects>>,
           "usage", AfterRefusal)
  /\ UNCHANGED <<deletion, missed>>

Unupload(r) ==
  /\ TurnAt(r, "unupload")
  /\ Calls(r, TRUE, objects' = objects \ {r} /\ UNCHANGED <<exists, log, rows>>, "end", "end")
  /\ UNCHANGED <<deletion, missed>>

\* The usage is recorded, or its reservation has expired.
RecordUsage(r) ==
  /\ TurnAt(r, "usage")
  /\ Goto(r, "message") \/ Goto(r, "lookup")
  /\ UNCHANGED <<tables, deletion, mishaps, lost, missed>>

AppendImage(r) ==
  /\ TurnAt(r, "message")
  /\ Calls(r, Appendable, Appends(r, "assistant", "completed"), "end", "lookup")
  /\ UNCHANGED <<deletion, missed>>

\* removeAssistantImage: an image without a row is left alone.
LookUp(r) ==
  /\ TurnAt(r, "lookup")
  /\ \/ Goto(r, IF r \in rows THEN "bytes" ELSE "end") /\ NoFault
     \/ Goto(r, "end") /\ Fault /\ UNCHANGED lost
  /\ UNCHANGED <<tables, deletion, missed>>

RemoveBytes(r) ==
  /\ TurnAt(r, "bytes")
  /\ Calls(r, TRUE, objects' = objects \ {r} /\ UNCHANGED <<exists, log, rows>>, "metadata", "metadata")
  /\ UNCHANGED <<deletion, missed>>

RemoveRow(r) ==
  /\ TurnAt(r, "metadata")
  /\ Calls(r, TRUE, rows' = rows \ {r} /\ UNCHANGED <<exists, log, objects>>, "end", "end")
  /\ UNCHANGED <<deletion, missed>>

-----------------------------------------------------------------------------
(* Deletion *)

\* delete_ai_conversation lists the images in one statement ...
ListImages ==
  /\ deletion.at = "idle"
  /\ exists
  /\ deletion' = [at |-> "listed", paths |-> rows]
  /\ UNCHANGED <<tables, turns, mishaps, lost, missed>>

\* ... and deletes the rows in those that follow; an image stored in between is deleted
\* with them.  The transaction may fail as a whole, and its answer may be lost.
DeleteRows ==
  /\ deletion.at = "listed"
  /\ \/ /\ exists' = FALSE /\ log' = <<>> /\ rows' = {}
        /\ missed' = rows \ deletion.paths
        /\ \/ deletion' = [deletion EXCEPT !.at = "bytes"] /\ NoFault
           \/ deletion' = [deletion EXCEPT !.at = "end"] /\ Fault /\ lost' = TRUE
     \/ /\ deletion' = [deletion EXCEPT !.at = "end"]
        /\ Fault
        /\ UNCHANGED <<exists, log, rows, lost, missed>>
  /\ UNCHANGED <<objects, turns>>

Removed == deletion.paths

DeleteBytes ==
  /\ deletion.at = "bytes"
  /\ deletion' = [deletion EXCEPT !.at = "end"]
  /\ \/ objects' = objects \ Removed /\ NoFault
     \/ Fault /\ UNCHANGED <<objects, lost>>
  /\ UNCHANGED <<exists, log, rows, turns, missed>>

-----------------------------------------------------------------------------

TurnNext(r) ==
  \/ AppendPrompt(r) \/ ReserveTurn(r)
  \/ ReadHistory(r) \/ Stream(r) \/ AppendAnswer(r) \/ PassOn(r) \/ AppendPartial(r)
  \/ AskProvider(r) \/ AppendPlan(r)
  \/ Generate(r) \/ Upload(r) \/ InsertRow(r) \/ Unupload(r) \/ RecordUsage(r)
  \/ AppendImage(r) \/ LookUp(r) \/ RemoveBytes(r) \/ RemoveRow(r)

ConversationNext ==
  \/ \E r \in Turns : BeginTurn(r) \/ TurnNext(r) \/ DieInTurn(r)
  \/ \E r \in Chats : Leave(r)
  \/ ListImages \/ DeleteRows \/ DeleteBytes

ConversationSpec == ConversationInit /\ [][ConversationNext]_conversationVars

\* A request that was begun goes on.
ConversationFairness == \A r \in Turns : WF_conversationVars(TurnNext(r))

-----------------------------------------------------------------------------
(* Properties *)

ConversationTypeOK ==
  /\ exists \in BOOLEAN
  /\ log \in Seq(Message)
  /\ rows \subseteq Images /\ objects \subseteq Images /\ missed \subseteq Images
  /\ turns \in [Turns -> Turn]
  /\ deletion \in [at : {"idle", "listed", "bytes", "end"}, paths : SUBSET Images]
  /\ mishaps \in 0 .. MaxMishaps
  /\ lost \in BOOLEAN

\* Nothing of a deleted conversation comes back, although requests that were under way
\* go on appending to it.
DeletedIsEmpty == ~ exists => log = <<>> /\ rows = {}

\* An image that a message shows can be fetched: its removal, on a failure or with the
\* conversation, never takes it from under a message that stays.  (Where an answer is
\* lost, a stored message may be taken for a failed one, and its image is removed.)
ShownImagesHaveBytes ==
  ~ lost => \A i \in 1 .. Len(log) :
    log[i].role = "assistant" /\ log[i].of \in Images => log[i].of \in rows \cap objects

\* Without faults the bytes in the bucket belong to a row, or a request under way will
\* give them one or remove them; except those of an image that was stored while its
\* conversation was being deleted.
BytesAccounted ==
  mishaps = 0 =>
    objects \subseteq rows \cup missed \cup {r \in Images : turns[r].at \in {"row", "unupload"}}
               \cup (IF deletion.at = "bytes" THEN deletion.paths ELSE {})

\* Every chat whose budget was reserved and every plan leaves an answer, be it partial
\* or an apology, unless its conversation was deleted: also when the reader left.
EveryTurnAnswered ==
  mishaps = 0 /\ exists =>
    \A r \in Chats \cup Planners : TurnAt(r, "end") /\ (r \in Chats => turns[r].granted) =>
      \E i \in 1 .. Len(log) : log[i].of = r /\ log[i].role = "assistant"

\* Every request ends: one provider after the other may fail, but none is asked twice.
TurnsEnd == \A r \in Turns : turns[r].at # "idle" ~> TurnAt(r, "end")

\* What the provider is shown reaches to the prompt it is to answer, however long the
\* conversation has become.
PromptIsSeen ==
  [][\A r \in Chats : TurnAt(r, "history") /\ turns'[r].at = "stream" =>
       \E i \in Shown, prompt \in 1 .. Len(log) :
         log[prompt] = [of |-> r, role |-> "user", status |-> "completed"] /\ prompt <= i]_conversationVars

\* What holds of a conversation, its images and its turns at any instant.
ConversationSafe ==
  /\ ConversationTypeOK
  /\ DeletedIsEmpty
  /\ ShownImagesHaveBytes
  /\ BytesAccounted
  /\ EveryTurnAnswered

=============================================================================
