--------------------------- MODULE AssistantDrafts ----------------------------
(*****************************************************************************)
(* From a plan in a conversation to a Run: createAssistantWorkflowDraft and  *)
(* startAssistantWorkflowDraftRun of                                         *)
(* apps/web/src/lib/assistant-execution-server.ts, over the tables of        *)
(* 202607270008_ai_execution_drafts.sql, and delete_ai_conversation.         *)
(*                                                                           *)
(* A request is a sequence of database calls; others act between any two of  *)
(* them.  A call may fail, its answer may be lost after it took effect, and  *)
(* the instance may die.  A request to create names its workflow, version    *)
(* and draft, whose identifiers it mints.                                    *)
(*****************************************************************************)
EXTENDS Naturals, FiniteSets

CONSTANTS
  Plans,     \* completed Plan messages of one conversation
  Creates,   \* requests to create a draft
  Starts,    \* requests to start a Run from a draft
  MaxSlips,  \* bound on calls that fail, answers that are lost and deaths
  NoDraft    \* "no draft", "no plan"

ASSUME DraftBounds == MaxSlips \in Nat /\ NoDraft \notin Creates \cup Plans

VARIABLES
  kept,       \* is the conversation there, with its messages
  workflows,  \* the status of each row of workflows
  versions,   \* the rows of workflow_versions
  drafts,     \* the rows of ai_workflow_drafts
  planRuns,   \* the drafts a row of workflow_runs was made from
  creates,    \* what each request to create does, for which plan, and its answer
  starts,     \* what each request to start does, and for which draft
  slips,      \* how many calls failed or lost their answer, and instances died
  refusals    \* history: was a request to delete the conversation refused

draftVars == <<kept, workflows, versions, drafts, planRuns, creates, starts, slips, refusals>>
draftTables == <<workflows, versions, drafts, planRuns>>

Create == [at : {"idle", "look", "workflow", "version", "link", "draft", "audit", "undo", "end"},
           plan : Plans \cup {NoDraft}, answer : Creates \cup {NoDraft}]
Start == [at : {"idle", "activate", "audit", "deactivate", "run", "end"},
          draft : Creates \cup {NoDraft}]

DraftsInit ==
  /\ kept = TRUE
  /\ workflows = [c \in Creates |-> "none"]
  /\ versions = {}
  /\ drafts = {}
  /\ planRuns = {}
  /\ creates = [c \in Creates |-> [at |-> "idle", plan |-> NoDraft, answer |-> NoDraft]]
  /\ starts = [s \in Starts |-> [at |-> "idle", draft |-> NoDraft]]
  /\ slips = 0
  /\ refusals = FALSE

-----------------------------------------------------------------------------
(* createAssistantWorkflowDraft *)

Creating(c, label) == creates' = [creates EXCEPT ![c].at = label]
Slip == slips < MaxSlips /\ slips' = slips + 1

\* A call of c that has no effect unless possible, and may fail.
CallOf(c, possible, effect, ok, bad) ==
  \/ possible /\ effect /\ Creating(c, ok) /\ UNCHANGED slips
  \/ possible /\ effect /\ Creating(c, bad) /\ Slip
  \/ ~ possible /\ UNCHANGED draftTables /\ Creating(c, bad) /\ UNCHANGED slips
  \/ UNCHANGED draftTables /\ Creating(c, bad) /\ Slip

DraftsOf(p) == {d \in drafts : creates[d].plan = p}

\* reviewedWorkflow: the plan is a message of a conversation that is there.
Review(c) ==
  /\ creates[c].at = "idle"
  /\ kept
  /\ \E p \in Plans : creates' = [creates EXCEPT ![c].at = "look", ![c].plan = p]
  /\ UNCHANGED <<kept, draftTables, starts, slips, refusals>>

LookForDraft(c) ==
  /\ creates[c].at = "look"
  /\ \/ \E d \in DraftsOf(creates[c].plan) :
          creates' = [creates EXCEPT ![c].at = "end", ![c].answer = d] /\ UNCHANGED slips
     \/ DraftsOf(creates[c].plan) = {} /\ Creating(c, "workflow") /\ UNCHANGED slips
     \/ Creating(c, "end") /\ Slip
  /\ UNCHANGED <<kept, draftTables, starts, refusals>>

InsertWorkflow(c) ==
  /\ creates[c].at = "workflow"
  /\ CallOf(c, TRUE, workflows' = [workflows EXCEPT ![c] = "draft"] /\ UNCHANGED <<versions, drafts, planRuns>>,
            "version", "end")
  /\ UNCHANGED <<kept, starts, refusals>>

InsertVersion(c) ==
  /\ creates[c].at = "version"
  /\ CallOf(c, TRUE, versions' = versions \cup {c} /\ UNCHANGED <<workflows, drafts, planRuns>>, "link", "undo")
  /\ UNCHANGED <<kept, starts, refusals>>

\* active_version_id is set; nothing below reads it.
LinkVersion(c) ==
  /\ creates[c].at = "link"
  /\ CallOf(c, TRUE, UNCHANGED draftTables, "draft", "undo")
  /\ UNCHANGED <<kept, starts, refusals>>

\* Fault: a message may have several drafts.
LinkableToAny(c) == kept

\* unique (message_id), and its foreign key.
Linkable(c) == kept /\ DraftsOf(creates[c].plan) = {}

AfterRefusedDraft == "undo"

InsertDraft(c) ==
  /\ creates[c].at = "draft"
  /\ CallOf(c, Linkable(c), drafts' = drafts \cup {c} /\ UNCHANGED <<workflows, versions, planRuns>>,
            "audit", AfterRefusedDraft)
  /\ UNCHANGED <<kept, starts, refusals>>

AuditDraft(c) ==
  /\ creates[c].at = "audit"
  /\ \/ creates' = [creates EXCEPT ![c].at = "end", ![c].answer = c] /\ UNCHANGED slips
     \/ Creating(c, "undo") /\ Slip
  /\ UNCHANGED <<kept, draftTables, starts, refusals>>

\* The foreign key of workflow_runs restricts the deletion.
Deletable(c) == c \notin planRuns

\* The deletion of a workflow takes its version and its draft with it.
Undone(c) == {c}

UndoDraft(c) ==
  /\ creates[c].at = "undo"
  /\ CallOf(c, Deletable(c),
            /\ workflows' = [w \in Creates |-> IF w \in Undone(c) THEN "none" ELSE workflows[w]]
            /\ versions' = versions \ Undone(c)
            /\ drafts' = drafts \ Undone(c)
            /\ UNCHANGED planRuns,
            "end", "end")
  /\ UNCHANGED <<kept, starts, refusals>>

CreateDies(c) ==
  /\ creates[c].at \notin {"idle", "end"}
  /\ Creating(c, "end")
  /\ Slip
  /\ UNCHANGED <<kept, draftTables, starts, refusals>>

-----------------------------------------------------------------------------
(* startAssistantWorkflowDraftRun *)

Starting(s, label) == starts' = [starts EXCEPT ![s].at = label]

\* productionDraft finds the draft and its version.
LoadDraft(s) ==
  /\ starts[s].at = "idle"
  /\ \E d \in drafts \cap versions : starts' = [starts EXCEPT ![s] = [at |-> "activate", draft |-> d]]
  /\ UNCHANGED <<kept, draftTables, creates, slips, refusals>>

\* A workflow that is active already, or was deleted since, is not updated, and the
\* request goes on.
Activate(s) ==
  LET d == starts[s].draft IN
  /\ starts[s].at = "activate"
  /\ \/ /\ workflows[d] = "draft"
        /\ workflows' = [workflows EXCEPT ![d] = "active"]
        /\ (Starting(s, "audit") /\ UNCHANGED slips) \/ (Starting(s, "end") /\ Slip)
     \/ workflows[d] # "draft" /\ Starting(s, "run") /\ UNCHANGED <<workflows, slips>>
     \/ Starting(s, "end") /\ Slip /\ UNCHANGED workflows
  /\ UNCHANGED <<kept, versions, drafts, planRuns, creates, refusals>>

AuditActivation(s) ==
  /\ starts[s].at = "audit"
  /\ (Starting(s, "run") /\ UNCHANGED slips) \/ (Starting(s, "deactivate") /\ Slip)
  /\ UNCHANGED <<kept, draftTables, creates, refusals>>

Deactivated == "draft"

Deactivate(s) ==
  LET d == starts[s].draft IN
  /\ starts[s].at = "deactivate"
  /\ Starting(s, "end")
  /\ \/ workflows' = [workflows EXCEPT ![d] = IF @ = "active" THEN Deactivated ELSE @] /\ UNCHANGED slips
     \/ Slip /\ UNCHANGED workflows
  /\ UNCHANGED <<kept, versions, drafts, planRuns, creates, refusals>>

\* The Run is asked for with the key assistant:<draft>, once more or for the first time;
\* a workflow that was deleted since has none.
StartPlanRun(s) ==
  LET d == starts[s].draft IN
  /\ starts[s].at = "run"
  /\ Starting(s, "end")
  /\ \/ planRuns' = (IF workflows[d] = "none" THEN planRuns ELSE planRuns \cup {d}) /\ UNCHANGED slips
     \/ Slip /\ UNCHANGED planRuns
  /\ UNCHANGED <<kept, workflows, versions, drafts, creates, refusals>>

StartDies(s) ==
  /\ starts[s].at \notin {"idle", "end"}
  /\ Starting(s, "end")
  /\ Slip
  /\ UNCHANGED <<kept, draftTables, creates, refusals>>

-----------------------------------------------------------------------------

\* delete_ai_conversation deletes the messages but no draft, and the foreign key of a
\* draft restricts the deletion of its message.
DeleteConversation ==
  /\ kept
  /\ IF drafts = {} THEN kept' = FALSE /\ UNCHANGED refusals ELSE refusals' = TRUE /\ UNCHANGED kept
  /\ UNCHANGED <<draftTables, creates, starts, slips>>

CreateNext(c) ==
  \/ Review(c) \/ LookForDraft(c) \/ InsertWorkflow(c) \/ InsertVersion(c) \/ LinkVersion(c)
  \/ InsertDraft(c) \/ AuditDraft(c) \/ UndoDraft(c) \/ CreateDies(c)

StartNext(s) ==
  \/ LoadDraft(s) \/ Activate(s) \/ AuditActivation(s) \/ Deactivate(s) \/ StartPlanRun(s)
  \/ StartDies(s)

DraftsNext ==
  (\E c \in Creates : CreateNext(c)) \/ (\E s \in Starts : StartNext(s)) \/ DeleteConversation

DraftsSpec == DraftsInit /\ [][DraftsNext]_draftVars

-----------------------------------------------------------------------------
(* Properties *)

DraftsTypeOK ==
  /\ kept \in BOOLEAN /\ refusals \in BOOLEAN
  /\ workflows \in [Creates -> {"none", "draft", "active"}]
  /\ versions \subseteq Creates /\ drafts \subseteq Creates /\ planRuns \subseteq Creates
  /\ creates \in [Creates -> Create]
  /\ starts \in [Starts -> Start]
  /\ slips \in 0 .. MaxSlips

\* However often a plan is turned into a draft and its drafts are started, by requests
\* that overlap, fail half way, are undone and are repeated, it has one Run at most.
OneRunPerPlan ==
  \A c, d \in planRuns : creates[c].plan = creates[d].plan => c = d

\* A Run keeps the version that was reviewed, and its plan.
RunsAreReviewed == planRuns \subseteq drafts \cap versions

\* Without faults, a request that was refused leaves no workflow behind, and every
\* draft that was answered is there, although requests for the same plan overlap.
NoLitter ==
  slips = 0 => \A c \in Creates : creates[c].at = "end" =>
    /\ workflows[c] # "none" => c \in drafts
    /\ creates[c].answer # NoDraft => creates[c].answer \in drafts

\* A conversation is deleted when its user asks for it.
DeletedWhenAsked == ~ refusals

\* What holds of plans, their drafts and their Runs at any instant.
DraftsSafe ==
  /\ DraftsTypeOK
  /\ OneRunPerPlan
  /\ RunsAreReviewed
  /\ NoLitter

=============================================================================
