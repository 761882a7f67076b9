----------------------------- MODULE MCServices -----------------------------
(* The services that keep no state in common, and the page of the assistant.  A          *)
(* behaviour is about one of them, chosen at the start; the others stay in one initial   *)
(* state.                                                                                *)
EXTENDS UsageBudget, Storefront, WebsiteStudio, GithubPublications, GoogleConnections, AssistantWorkspace, TLC

CONSTANTS small, large

MCBudget == [p \in Plans |-> IF p = small THEN 2 ELSE 3]
MCRate == [p \in Plans |-> IF p = small THEN 1 ELSE 2]
MCToolLimit == [p \in Plans |-> IF p = small THEN 1 ELSE 2]

\* The requests of the services that a behaviour is not about.
AnyPush == [at |-> "idle", key |-> CHOOSE k \in Keys : TRUE, project |-> CHOOSE p \in Projects : TRUE,
            base |-> <<>>]
AnyCall == [at |-> "idle", kind |-> "health", renews |-> FALSE, verdict |-> "active",
            operation |-> CHOOSE o \in Operations : TRUE, body |-> CHOOSE b \in Bodies : TRUE]

VARIABLE about

Init ==
  /\ about \in {"usage", "store", "studio", "github", "google", "page"}
  /\ UsageInit /\ (about # "usage" => plan = small)
  /\ StoreInit
  /\ StudioInit /\ (about # "studio" => project.brief = {} /\ taken = {})
  /\ GithubInit /\ (about # "github" => branch = <<>> /\ \A p \in Pushes : pushes[p] = AnyPush)
  /\ GoogleInit /\ (about # "google" => \A c \in Calls : calls[c] = AnyCall)
                /\ \A c \in Calls : calls[c].kind # "append" => calls[c].body = AnyCall.body
  /\ WorkspaceInit /\ (about # "page" => there = {} /\ plans = <<>>)

\* An administrator, whom no budget holds, makes one provider call at most, and its
\* reservation does not expire.  What the properties say of the storefront ends where
\* its ledger is broken, and what they say of the page where an answer landed across
\* another; so do the behaviours.
Next ==
  \/ about = "usage" /\ UsageNext
     /\ (\A a \in Admins : requests'[a].attempts <= 1 /\ reservations'[a].age < 2)
     /\ UNCHANGED <<about, storeVars, studioVars, githubVars, googleVars, workspaceVars>>
  \/ about = "store" /\ ledger # "broken" /\ StoreNext /\ UNCHANGED <<about, usageVars, studioVars, githubVars, googleVars, workspaceVars>>
  \/ about = "studio" /\ StudioNext /\ UNCHANGED <<about, usageVars, storeVars, githubVars, googleVars, workspaceVars>>
  \/ about = "github" /\ GithubNext /\ UNCHANGED <<about, usageVars, storeVars, studioVars, googleVars, workspaceVars>>
  \/ about = "google" /\ GoogleNext /\ UNCHANGED <<about, usageVars, storeVars, studioVars, githubVars, workspaceVars>>
  \/ about = "page" /\ ~ crossed /\ WorkspaceNext /\ UNCHANGED <<about, usageVars, storeVars, studioVars, githubVars, googleVars>>

Spec == Init /\ [][Next]_<<about, usageVars, storeVars, studioVars, githubVars, googleVars, workspaceVars>>

\* Some of the actors of every service have the same names, so that one permutation of
\* them permutes the actors of all services.
Symmetry == Permutations(Orders)
=============================================================================
