-------------------------- MODULE AssistantWorkspace ---------------------------
(*****************************************************************************)
(* The browser's side of the assistant:                                      *)
(* apps/web/src/components/assistant/assistant-workspace.tsx.                *)
(*                                                                           *)
(* A handler runs without interruption between two awaits; its answers land  *)
(* in any order, and a handler goes on with the conversation, plan or draft  *)
(* that was shown when it was called, whatever is shown now.  Most buttons   *)
(* look at pending alone, so the user may turn to another conversation while *)
(* answers about the first are under way.                                    *)
(*****************************************************************************)
EXTENDS Naturals, Sequences, FiniteSets, FiniteSetsExt

CONSTANTS
  Conversations,  \* conversations there are or may be
  MaxPlans,       \* bound on the plans made; plans are 1, 2, ... in the order they are made
  MaxFlights,     \* bound on the handlers that await an answer
  Nothing,        \* "undefined"
  Unsent          \* the message of the user that has no identifier yet

ASSUME WorkspaceBounds ==
  /\ MaxPlans \in Nat \ {0} /\ MaxFlights \in Nat
  /\ Nothing \notin Conversations /\ Unsent \notin Conversations

VARIABLES
  there,    \* the conversations the server has
  plans,    \* for each plan the conversation it was made in
  drafted,  \* the plans the server has a draft of
  shown,    \* what the page shows
  flights,  \* what each handler awaits, and what it was called with
  crossed,  \* history: did an answer land after the page had turned to something else
  failed    \* history: did a call fail

workspaceVars == <<there, plans, drafted, shown, flights, crossed, failed>>
serverState == <<there, plans, drafted>>

PlanIds == 1 .. MaxPlans
Places == Conversations \cup {Nothing}

\* The two handlers "open" stand for clicks on two conversations in the list; of the
\* others there is one at a time.
Slots == {"open", "open again", "send", "work", "delete", "upload", "artifact"}

\* conversation: conversationId; messages: whose messages they are; plan: planMessageId;
\* draft, run: the plan that executionDraft and executionRun are of; sources: whose
\* attachments are listed; chosen: whose attachments are selected.
Page == [conversation : Places, messages : SUBSET (Conversations \cup {Unsent}),
         plan : {0} \cup PlanIds, draft : {0} \cup PlanIds, run : {0} \cup PlanIds,
         sources : Places, chosen : SUBSET Conversations]

\* about: the conversation it is about; of: the one that was shown when it was called;
\* seen: the conversation and the plan on the page when it last ran.
Flight == [step : {"load", "loaded", "resources", "serve", "served", "stream", "draft", "run",
                   "automatic", "delete", "create", "attach", "artifact"},
           about : Places, of : Places, plan : {0} \cup PlanIds,
           seen : Places \X ({0} \cup PlanIds)]

\* A slot without a handler holds no handler.
ASSUME NothingAssumption == Nothing \notin Flight

EmptyPage == [conversation |-> Nothing, messages |-> {}, plan |-> 0, draft |-> 0, run |-> 0, sources |-> Nothing, chosen |-> {}]

WorkspaceInit ==
  /\ there \in SUBSET Conversations
  /\ plans \in {<<>>} \cup {<<c>> : c \in there}
  /\ drafted = {}
  /\ shown = EmptyPage
  /\ flights = [s \in Slots |-> Nothing]
  /\ crossed = FALSE
  /\ failed = FALSE

-----------------------------------------------------------------------------
(* Handlers *)

Pending == flights["send"] # Nothing
Working == flights["work"] # Nothing
Deleting == flights["delete"] # Nothing

View(page) == <<page.conversation, page.plan>>

Depart(s, step, about, plan) ==
  /\ flights[s] = Nothing
  /\ Cardinality({t \in Slots : flights[t] # Nothing}) < MaxFlights
  /\ flights' = [flights EXCEPT ![s] =
       [step |-> step, about |-> about, of |-> shown.conversation, plan |-> plan, seen |-> View(shown)]]
  /\ UNCHANGED <<serverState, crossed, failed>>

Awaits(s, step) == flights[s] # Nothing /\ flights[s].step = step

\* The handler ran, page is what it left, and it awaits the answer of next.
GoesOn(s, page, next, about) ==
  /\ shown' = page
  /\ flights' = [flights EXCEPT ![s].step = next, ![s].about = about, ![s].seen = View(page)]

HandlerEnds(s, page) == shown' = page /\ flights' = [flights EXCEPT ![s] = Nothing]

\* Has the page turned to something else since the handler last ran?
Crosses(s) ==
  \/ flights[s].seen[1] # shown.conversation
  \/ s = "work" /\ flights[s].seen[2] # shown.plan

Lands(s) == crossed' = (crossed \/ Crosses(s)) /\ UNCHANGED failed

\* A call fails, or the user stops the generation: the finally clauses run.
Fail(s) ==
  /\ flights[s] # Nothing
  /\ HandlerEnds(s, shown)
  /\ failed' = TRUE
  /\ UNCHANGED <<serverState, crossed>>

\* refreshResources.
Listed(page, c) == [page EXCEPT !.sources = c, !.chosen = @ \cap {c}]

LandResources(s) ==
  /\ Awaits(s, "resources")
  /\ HandlerEnds(s, Listed(shown, flights[s].about))
  /\ Lands(s)
  /\ UNCHANGED serverState

-----------------------------------------------------------------------------
(* resetConversation, openConversation, deleteConversation *)

ResetPage ==
  /\ ~ Pending
  /\ shown' = EmptyPage
  /\ UNCHANGED <<serverState, flights, crossed, failed>>

Open(s, c) ==
  /\ s \in {"open", "open again"}
  /\ ~ Pending /\ ~ Deleting
  /\ c \in there
  /\ Depart(s, "load", c, 0)
  /\ UNCHANGED shown

LatestPlan(c) == Max({0} \cup {p \in 1 .. Len(plans) : plans[p] = c})

\* The server reads the conversation; its answer is under way.
Load(s) ==
  LET c == flights[s].about IN
  /\ Awaits(s, "load")
  /\ c \in there
  /\ flights' = [flights EXCEPT ![s].step = "loaded", ![s].plan = LatestPlan(c)]
  /\ UNCHANGED <<serverState, shown, crossed, failed>>

\* Fault: the draft and the Run of the conversation that was open before stay.
OpenedKeepingDraft(c, p) == [shown EXCEPT !.conversation = c, !.messages = {c}, !.plan = p]

Opened(c, p) ==
  [shown EXCEPT !.conversation = c, !.messages = {c}, !.plan = p, !.draft = 0, !.run = 0]

LandOpened(s) ==
  /\ Awaits(s, "loaded")
  /\ GoesOn(s, Opened(flights[s].about, flights[s].plan), "resources", flights[s].about)
  /\ UNCHANGED <<serverState, crossed, failed>>

BeginDelete(c) ==
  /\ ~ Pending
  /\ c \in there
  /\ Depart("delete", "delete", c, 0)
  /\ UNCHANGED shown

\* The server refuses a conversation that a draft was made in.
Delete ==
  LET c == flights["delete"].about IN
  /\ Awaits("delete", "delete")
  /\ \A p \in drafted : plans[p] # c
  /\ there' = there \ {c}
  /\ HandlerEnds("delete", IF flights["delete"].of = c THEN EmptyPage ELSE shown)
  /\ Lands("delete")
  /\ UNCHANGED <<plans, drafted>>

-----------------------------------------------------------------------------
(* submit: sendAsk, sendPlan, sendImage *)

Submit ==
  /\ ~ Pending
  /\ Depart("send", "serve", shown.conversation, 0)
  /\ shown' = [shown EXCEPT !.messages = @ \cup {Unsent}]

\* The server finds the conversation or makes one, and in the mode of plans a plan in it.
Serve ==
  LET f == flights["send"] IN
  /\ Awaits("send", "serve")
  /\ \E c \in IF f.about = Nothing THEN Conversations \ there ELSE {f.about} \cap there :
       /\ there' = there \cup {c}
       /\ \/ /\ Len(plans) < MaxPlans
             /\ plans' = Append(plans, c)
             /\ flights' = [flights EXCEPT !["send"].step = "served", !["send"].about = c,
                                           !["send"].plan = Len(plans')]
          \/ /\ UNCHANGED plans
             /\ flights' = [flights EXCEPT !["send"].step = "served", !["send"].about = c]
  /\ UNCHANGED <<drafted, shown, crossed, failed>>

\* replaceOptimisticUser.
Replaced(page, c) ==
  [page EXCEPT !.conversation = c,
               !.messages = IF Unsent \in @ THEN (@ \ {Unsent}) \cup {c} ELSE @]

\* An answer with a plan replaces what was drafted before; one without leaves it.
Answered(page, c, p) ==
  LET page2 == [Replaced(page, c) EXCEPT !.messages = @ \cup {c}]
  IN IF p = 0 THEN page2 ELSE [page2 EXCEPT !.plan = p, !.draft = 0, !.run = 0]

\* The resources listed again are those of the conversation that was open at submit.
ListAgain(page) ==
  IF flights["send"].of = Nothing THEN HandlerEnds("send", page)
  ELSE GoesOn("send", page, "resources", flights["send"].of)

\* The whole answer, or the first event of a stream of which the rest follows.
LandAnswer ==
  LET f == flights["send"] IN
  /\ Awaits("send", "served")
  /\ \/ ListAgain(Answered(shown, f.about, f.plan))
     \/ f.plan = 0 /\ GoesOn("send", Replaced(shown, f.about), "stream", f.about)
  /\ Lands("send")
  /\ UNCHANGED serverState

\* Whose message the rest of the stream is.
Streamed == flights["send"].about

LandStream ==
  /\ Awaits("send", "stream")
  /\ ListAgain([shown EXCEPT !.messages = @ \cup {Streamed}])
  /\ Lands("send")
  /\ UNCHANGED serverState

-----------------------------------------------------------------------------
(* uploadSource, toggleAttachment, createArtifact *)

BeginUpload ==
  /\ ~ Pending
  /\ Depart("upload", IF shown.conversation = Nothing THEN "create" ELSE "attach", shown.conversation, 0)
  /\ UNCHANGED shown

\* ensureResourceConversation.
CreateForUpload ==
  /\ Awaits("upload", "create")
  /\ \E c \in Conversations \ there :
       /\ there' = there \cup {c}
       /\ GoesOn("upload", [shown EXCEPT !.conversation = c], "attach", c)
  /\ Lands("upload")
  /\ UNCHANGED <<plans, drafted>>

\* The attachment is stored, listed with the others, and selected.
Attach ==
  LET c == flights["upload"].about IN
  /\ Awaits("upload", "attach")
  /\ c \in there
  /\ HandlerEnds("upload", [Listed(shown, c) EXCEPT !.chosen = @ \cup {c}])
  /\ Lands("upload")
  /\ UNCHANGED serverState

Toggle ==
  /\ ~ Pending
  /\ shown.sources # Nothing
  /\ shown' = [shown EXCEPT !.chosen = IF shown.sources \in @ THEN @ \ {shown.sources}
                                       ELSE @ \cup {shown.sources}]
  /\ UNCHANGED <<serverState, flights, crossed, failed>>

CreateArtifact ==
  /\ ~ Pending
  /\ shown.conversation # Nothing
  /\ Depart("artifact", "resources", shown.conversation, 0)
  /\ UNCHANGED shown

-----------------------------------------------------------------------------
(* prepareExecutionReview, requestExecutionRun, automaticExecution *)

\* The card with the draft is shown with a plan.
PrepareReview ==
  /\ shown.plan # 0 /\ shown.conversation # Nothing
  /\ shown.draft = 0 /\ shown.run = 0
  /\ Depart("work", "draft", shown.conversation, shown.plan)
  /\ UNCHANGED shown

RequestRun ==
  /\ shown.plan # 0 /\ shown.draft # 0 /\ shown.run = 0
  /\ Depart("work", "run", shown.conversation, shown.draft)
  /\ UNCHANGED shown

RunAutomatically ==
  /\ ~ Pending
  /\ shown.plan # 0 /\ shown.conversation # Nothing
  /\ Depart("work", "automatic", shown.conversation, shown.plan)
  /\ UNCHANGED shown

Drafted(p) == [shown EXCEPT !.draft = p, !.run = 0]

\* The server makes a draft of a plan of the conversation it is given.
LandDraft ==
  LET f == flights["work"] IN
  /\ Awaits("work", "draft") \/ Awaits("work", "automatic")
  /\ f.about \in there /\ plans[f.plan] = f.about
  /\ drafted' = drafted \cup {f.plan}
  /\ IF f.step = "draft" THEN HandlerEnds("work", Drafted(f.plan))
     ELSE GoesOn("work", [shown EXCEPT !.draft = f.plan], "run", f.about)
  /\ Lands("work")
  /\ UNCHANGED <<there, plans>>

LandRun ==
  LET f == flights["work"] IN
  /\ Awaits("work", "run")
  /\ HandlerEnds("work", [shown EXCEPT !.draft = f.plan, !.run = f.plan])
  /\ Lands("work")
  /\ UNCHANGED serverState

-----------------------------------------------------------------------------
(* Other controls *)

\* A plan is made for a device, and the mode of images has none.
Unplanned == [shown EXCEPT !.plan = 0, !.draft = 0, !.run = 0]

DropPlan ==
  /\ ~ Pending
  /\ shown.plan # 0
  /\ shown' = Unplanned
  /\ UNCHANGED <<serverState, flights, crossed, failed>>

-----------------------------------------------------------------------------

WorkspaceNext ==
  \/ ResetPage \/ Submit \/ BeginUpload \/ Toggle \/ CreateArtifact
  \/ PrepareReview \/ RequestRun \/ RunAutomatically \/ DropPlan
  \/ \E c \in Conversations : (\E s \in Slots : Open(s, c)) \/ BeginDelete(c)
  \/ \E s \in Slots : Load(s) \/ LandOpened(s) \/ LandResources(s) \/ Fail(s)
  \/ Delete \/ Serve \/ LandAnswer \/ LandStream \/ CreateForUpload \/ Attach
  \/ LandDraft \/ LandRun

WorkspaceSpec == WorkspaceInit /\ [][WorkspaceNext]_workspaceVars

-----------------------------------------------------------------------------
(* Properties *)

WorkspaceTypeOK ==
  /\ there \subseteq Conversations
  /\ plans \in Seq(Conversations) /\ Len(plans) <= MaxPlans
  /\ drafted \subseteq PlanIds
  /\ shown \in Page
  /\ flights \in [Slots -> Flight \cup {Nothing}]
  /\ crossed \in BOOLEAN /\ failed \in BOOLEAN

\* Unless an answer lands on a page that has turned to something else, the parts of the
\* page belong together: its messages and its plan to the conversation, its draft to the
\* plan and its Run to the draft.
Coherent ==
  ~ crossed =>
    /\ shown.messages \subseteq {shown.conversation, Unsent}
    /\ shown.plan # 0 => plans[shown.plan] = shown.conversation
    /\ shown.draft # 0 => shown.draft = shown.plan
    /\ shown.run # 0 => shown.run = shown.draft

\* Once all answers have landed, none of them across another, the sources that are listed
\* and selected are those of the conversation.
SourcesFollow ==
  ~ crossed /\ ~ failed /\ (\A s \in Slots : flights[s] = Nothing) =>
    /\ shown.sources \in {Nothing, shown.conversation}
    /\ shown.chosen \subseteq {shown.sources}

\* What holds of the page at any instant.
PageSafe ==
  /\ WorkspaceTypeOK
  /\ Coherent
  /\ SourcesFollow

=============================================================================
