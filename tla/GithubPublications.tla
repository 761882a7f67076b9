------------------------- MODULE GithubPublications -------------------------
(***************************************************************************)
(* Publishing website versions to a branch of the customer's repository:   *)
(* publishWebsiteVersionToGithub of                                        *)
(* apps/web/src/lib/website-github-server.ts over pushGithubStaticSource   *)
(* of github-app-client.ts.                                                *)
(*                                                                         *)
(* A request claims its idempotency key by inserting a pending row, reads  *)
(* the branch and its manifest, moves the branch, and records the commit.  *)
(* Each is a call that may fail, or take effect and be answered as a       *)
(* failure; requests with one key or one branch interleave between them,   *)
(* and the customer works on the branch meanwhile.  One branch is          *)
(* modelled, of an installation that stays connected.                      *)
(***************************************************************************)
EXTENDS Naturals, FiniteSets, Sequences, SequencesExt

CONSTANTS
  Pushes,      \* requests to publish
  Keys,        \* idempotency keys
  Projects,    \* website projects
  Customer,    \* whoever else commits to the branch
  NoProject,   \* the project of a manifest that is missing or not ours
  MaxCommits   \* bound: commits on the branch when the customer adds one

ASSUME GithubAssumption ==
  /\ Customer \notin Pushes
  /\ NoProject \notin Projects
  /\ MaxCommits \in Nat \ {0}
  /\ IsFiniteSet(Pushes)

VARIABLES
  branch,        \* the commits of the branch, oldest first; <<>> when it does not exist
  publications,  \* the status of website_github_publications, by idempotency key
  pushes,        \* what each request has read and does next
  pushed,        \* history: the requests whose commit reached the branch
  unrecorded,    \* history: the keys whose commit is on the branch but was not recorded, since
                 \* moving the branch or recording the commit was answered as a failure
  rewound        \* history: the customer has taken commits off the branch

githubVars == <<branch, publications, pushes, pushed, unrecorded, rewound>>

-----------------------------------------------------------------------------

\* manifest: the project that manifest.json of the commit names.
Commit == [by : Pushes \cup {Customer}, manifest : Projects \cup {NoProject}]

\* base: the branch as the request read it.
Push == [at : {"idle", "insert", "readRef", "manifest", "move", "record", "audit", "fail",
               "published", "refused"},
         key : Keys, project : Projects, base : Seq(Commit)]

GithubTypeOK ==
  /\ branch \in Seq(Commit)
  /\ Len(branch) <= MaxCommits + Cardinality(Pushes)
  /\ publications \in [Keys -> {"none", "pending", "succeeded", "failed"}]
  /\ pushes \in [Pushes -> Push]
  /\ pushed \subseteq Pushes
  /\ unrecorded \subseteq Keys
  /\ rewound \in BOOLEAN

\* A branch that does not exist, or one that somebody has used.
GithubInit ==
  /\ branch \in {<<>>} \cup {<<[by |-> Customer, manifest |-> m]>> : m \in Projects \cup {NoProject}}
  /\ publications = [k \in Keys |-> "none"]
  /\ pushes \in [Pushes -> [at : {"idle"}, key : Keys, project : Projects, base : {<<>>}]]
  /\ pushed = {}
  /\ unrecorded = {}
  /\ rewound = FALSE

Key(p) == pushes[p].key
Sets(p, status) == publications' = [publications EXCEPT ![Key(p)] = status]
At(p, at) == pushes' = [pushes EXCEPT ![p].at = at]

Leaves(p, at) == pushes' = [pushes EXCEPT ![p].at = at, ![p].base = <<>>]

-----------------------------------------------------------------------------
(* publishWebsiteVersionToGithub *)

\* A key that is known is answered from its row, if it succeeded.
CheckKey(p) ==
  /\ pushes[p].at = "idle"
  /\ At(p, CASE publications[Key(p)] = "none" -> "insert"
             [] publications[Key(p)] = "succeeded" -> "published"
             [] OTHER -> "refused")
  /\ UNCHANGED <<branch, publications, pushed, unrecorded, rewound>>

\* unique (tenant_id, idempotency_key)
Claims(p) == publications[Key(p)] = "none"

\* A row that was inserted by a call answered as a failure stays pending.
InsertPending(p) ==
  /\ pushes[p].at = "insert"
  /\ \/ /\ Claims(p)
        /\ Sets(p, "pending")
        /\ \/ At(p, "readRef")
           \/ At(p, "refused")
     \/ /\ At(p, "refused")
        /\ UNCHANGED publications
  /\ UNCHANGED <<branch, pushed, unrecorded, rewound>>

\* A call fails without effect.
CallFails(p) ==
  /\ pushes[p].at \in {"readRef", "manifest", "move", "record", "audit"}
  /\ Leaves(p, "fail")
  /\ unrecorded' = IF pushes[p].at = "record" THEN unrecorded \cup {Key(p)} ELSE unrecorded
  /\ UNCHANGED <<branch, publications, pushed, rewound>>

\* The completion filters on the status, but not on having found a row.
Complete(p) ==
  /\ pushes[p].at = "record"
  /\ IF publications[Key(p)] = "pending" THEN Sets(p, "succeeded") ELSE UNCHANGED publications
  /\ \/ At(p, "audit")
     \/ At(p, "fail")
  /\ UNCHANGED <<branch, pushed, unrecorded, rewound>>

Audit(p) ==
  /\ pushes[p].at = "audit"
  /\ At(p, "published")
  /\ UNCHANGED <<branch, publications, pushed, unrecorded, rewound>>

\* Fault: the catch clause writes whatever the status is.
MarksAnything(p) == TRUE

\* .eq('status', 'pending') of the catch clause
Marks(p) == publications[Key(p)] = "pending"

\* The error of the update is ignored.  Nothing is known there of how far the push came.
MarkFailed(p) ==
  /\ pushes[p].at = "fail"
  /\ \/ IF Marks(p) THEN Sets(p, "failed") ELSE UNCHANGED publications
     \/ UNCHANGED publications
  /\ At(p, "refused")
  /\ UNCHANGED <<branch, pushed, unrecorded, rewound>>

\* The function instance ends.
StopPush(p) ==
  /\ pushes[p].at \notin {"idle", "published", "refused"}
  /\ Leaves(p, "refused")
  /\ UNCHANGED <<branch, publications, pushed, unrecorded, rewound>>

-----------------------------------------------------------------------------
(* pushGithubStaticSource *)

ReadRef(p) ==
  /\ pushes[p].at = "readRef"
  /\ pushes' = [pushes EXCEPT ![p].at = IF branch = <<>> THEN "move" ELSE "manifest",
                              ![p].base = branch]
  /\ UNCHANGED <<branch, publications, pushed, unrecorded, rewound>>

\* readManagedManifest: of the branch as it is now.
Manages(p) == branch # <<>> /\ Last(branch).manifest = pushes[p].project

ReadManifest(p) ==
  /\ pushes[p].at = "manifest"
  /\ IF Manages(p) THEN At(p, "move") ELSE Leaves(p, "fail")
  /\ UNCHANGED <<branch, publications, pushed, unrecorded, rewound>>

\* Fault: the branch is moved with force.
MovesAnyway(base) == TRUE

\* External: a new branch must not exist; without force one that exists moves only to a
\* descendant of its head, and the new commit's parent is the head that was read.
Moves(base) == IF base = <<>> THEN branch = <<>> ELSE branch # <<>> /\ IsPrefix(branch, base)

\* The blobs, the tree and the commit are visible to nobody until the branch is moved.
MoveBranch(p) ==
  LET base == pushes[p].base
      commit == [by |-> p, manifest |-> pushes[p].project]
  IN /\ pushes[p].at = "move"
     /\ \/ /\ Moves(base)
           /\ branch' = Append(base, commit)
           /\ pushed' = pushed \cup {p}
           /\ \/ Leaves(p, "record") /\ UNCHANGED unrecorded
              \/ Leaves(p, "fail") /\ unrecorded' = unrecorded \cup {Key(p)}
        \/ /\ ~Moves(base)
           /\ Leaves(p, "fail")
           /\ UNCHANGED <<branch, pushed, unrecorded>>
     /\ UNCHANGED <<publications, rewound>>

-----------------------------------------------------------------------------
(* The customer.  Two commits of the customer with one manifest are the same commit. *)

CustomerCommits(manifest) ==
  /\ Len(branch) < MaxCommits
  /\ branch' = Append(branch, [by |-> Customer, manifest |-> manifest])
  /\ UNCHANGED <<publications, pushes, pushed, unrecorded, rewound>>

\* The branch is deleted, or reset to an earlier commit.
CustomerRewinds ==
  /\ branch # <<>>
  /\ \E n \in 0 .. Len(branch) - 1 : branch' = SubSeq(branch, 1, n)
  /\ rewound' = TRUE
  /\ UNCHANGED <<publications, pushes, pushed, unrecorded>>

GithubNext ==
  \/ \E p \in Pushes :
       \/ CheckKey(p) \/ InsertPending(p) \/ CallFails(p) \/ Complete(p) \/ Audit(p)
       \/ MarkFailed(p) \/ StopPush(p)
       \/ ReadRef(p) \/ ReadManifest(p) \/ MoveBranch(p)
  \/ \E m \in Projects \cup {NoProject} : CustomerCommits(m)
  \/ CustomerRewinds

GithubSpec == GithubInit /\ [][GithubNext]_githubVars

-----------------------------------------------------------------------------
(* Properties *)

\* "A successful retry returns the existing recorded commit rather than creating another
\* external write": however requests with one key overlap, fail or are given up, one of
\* them at most writes to the repository.
PushedOnce ==
  \A p, q \in pushed : Key(p) = Key(q) => p = q

\* A recorded success is a commit that reached the branch, and a request is answered as
\* published only with a recorded success.
SucceededIsPushed ==
  /\ \A k \in Keys : publications[k] = "succeeded" => \E p \in pushed : Key(p) = k
  /\ \A p \in Pushes : pushes[p].at = "published" => publications[Key(p)] = "succeeded"

\* "Create a new publishing request before retrying a failed push": a row is marked failed
\* only if nothing was written, unless moving the branch or recording the commit was
\* answered as a failure.
FailedIsUnpushed ==
  \A k \in Keys \ unrecorded :
    publications[k] = "failed" => ~\E p \in pushed : Key(p) = k

\* "A pre-existing managed branch is updated only when its manifest.json identifies the
\* same Website Project": no commit of a project follows one that is not the project's,
\* unless the customer took commits off the branch.
OnlyManaged ==
  ~rewound =>
    \A i \in 2 .. Len(branch) :
      branch[i].by \in Pushes => branch[i - 1].manifest = branch[i].manifest

\* No request takes a commit off the branch, of another project, another request or the
\* customer.
CommitsKept ==
  [][pushed' # pushed => IsPrefix(branch, branch')]_githubVars

\* What holds of publications and of the branch at any instant.
GithubSafe ==
  /\ GithubTypeOK
  /\ PushedOnce
  /\ SucceededIsPushed
  /\ FailedIsUnpushed
  /\ OnlyManaged

=============================================================================
