----------------------------- MODULE MCPlanning -----------------------------
(* What is planned before it runs: the recurring schedules, the conversations in which *)
(* plans are made, and the drafts made of them.  They share no state; a behaviour is    *)
(* about one of them, and the others stay in their initial state.                       *)
EXTENDS Schedules, AssistantConversations, AssistantDrafts, FiniteSetsExt, TLC

VARIABLES
  about,
  parties  \* the requests that take part in a behaviour about a conversation

planningVars == <<about, parties, vars, conversationVars, draftVars>>

PlanningInit ==
  /\ about \in {"schedules", "conversation", "drafts"}
  /\ parties \in (IF about = "conversation" THEN kSubset(2, Turns) ELSE {{}})
  /\ Init
  /\ ConversationInit
  /\ DraftsInit

PlanningNext ==
  /\ \/ about = "schedules" /\ Next /\ UNCHANGED <<conversationVars, draftVars>>
     \/ /\ about = "conversation" /\ ConversationNext /\ UNCHANGED <<vars, draftVars>>
        /\ \A r \in Turns \ parties : turns'[r] = turns[r]
     \/ about = "drafts" /\ DraftsNext /\ UNCHANGED <<vars, conversationVars>>
  /\ UNCHANGED <<about, parties>>

PlanningFairness ==
  /\ \A t \in Tickers : WF_vars(about = "schedules" /\ TickNext(t))
  /\ WF_vars(about = "schedules" /\ Pass)
  /\ SF_vars(about = "schedules" /\ \E t \in Tickers : TickRead(t))
  /\ \A r \in Turns : WF_conversationVars(about = "conversation" /\ TurnNext(r))

PlanningSpec == PlanningInit /\ [][PlanningNext]_planningVars /\ PlanningFairness

=============================================================================
