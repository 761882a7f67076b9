--------------------------- MODULE WebsiteStudio ----------------------------
(***************************************************************************)
(* One website project: its brief, its draft, the versions of its Website  *)
(* Spec, the images they refer to and the address it is published under:   *)
(* apps/web/src/lib/website-studio-server.ts, website-spec-server.ts,      *)
(* website-asset-server.ts and website-publication-server.ts.              *)
(*                                                                         *)
(* No operation is a transaction except the publication.  Each reads the   *)
(* project or its latest version, may call a model provider for a minute,  *)
(* and then writes what it made of what it read; any two requests          *)
(* interleave between their calls and any of them may end early.  Content  *)
(* is abstracted to the set of edits it has taken in.  That a model keeps  *)
(* to the images it was given is assumed.                                  *)
(***************************************************************************)
EXTENDS Naturals, FiniteSets, FiniteSetsExt

CONSTANTS
  Edits,        \* requests of the members of the workspace; each does one thing
  Steps,        \* the decisions of a brief
  Slugs,        \* addresses on the platform's domain
  DefaultSlug,  \* the one made from the project's name and id
  NoSlug        \* "not published", "no address given"

ASSUME StudioAssumption ==
  /\ DefaultSlug \in Slugs
  /\ NoSlug \notin Slugs
  /\ IsFiniteSet(Edits) /\ IsFiniteSet(Steps)

VARIABLES
  project,    \* the row of website_projects
  specs,      \* the rows of website_specs
  images,     \* the images stored for the project, by the request that made them
  site,       \* its active row of website_publications
  taken,      \* the addresses under which other projects are published
  editors,    \* what each request has read and does next
  overtaken,  \* history: the draft was created from a brief that had changed meanwhile
  unanswered  \* history: images whose version was stored although its insert failed

studioVars == <<project, specs, images, site, taken, editors, overtaken, unanswered>>

-----------------------------------------------------------------------------

Numbers == 0 .. Cardinality(Edits) + 1

\* brief: the decisions that are complete; progress: the column brief_progress.
Project == [status : {"briefing", "draft"}, brief : SUBSET Steps, progress : 0 .. Cardinality(Steps)]

\* content: the edits whose effect is in the spec; pictures: the images it refers to.
Row == [number : Numbers, parent : Numbers, content : SUBSET Edits, pictures : SUBSET Edits,
        source : {"generated", "direct", "natural-language", "asset-generation", "restore"}]

\* output: the version it is about to store; brief: the one it is about to write; slug and
\* seen: the address given and the one it found.
Editor ==
  [at : {"idle", "writeBrief", "writeDraft", "image", "latest", "insert", "remove", "publish", "over"},
   brief : SUBSET Steps, output : Row, slug : Slugs \cup {NoSlug}, seen : Slugs \cup {NoSlug}]

StudioTypeOK ==
  /\ project \in Project
  /\ specs \subseteq Row
  /\ images \subseteq Edits
  /\ site \in [number : Numbers, slug : Slugs \cup {NoSlug}]
  /\ site.number = 0 <=> site.slug = NoSlug
  /\ taken \subseteq Slugs
  /\ editors \in [Edits -> Editor]
  /\ overtaken \in BOOLEAN
  /\ unanswered \subseteq Edits

EmptyRow == [number |-> 0, parent |-> 0, content |-> {}, pictures |-> {}, source |-> "generated"]
NewEditor == [at |-> "idle", brief |-> {}, output |-> EmptyRow, slug |-> NoSlug, seen |-> NoSlug]
Generated == [EmptyRow EXCEPT !.number = 1]

\* A project that is being described, or one whose first version was generated.
StudioInit ==
  /\ \/ /\ \E brief \in SUBSET Steps :
             project = [status |-> "briefing", brief |-> brief, progress |-> Cardinality(brief)]
        /\ specs = {}
     \/ /\ project = [status |-> "draft", brief |-> Steps, progress |-> Cardinality(Steps)]
        /\ specs = {Generated}
  /\ images = {}
  /\ site = [number |-> 0, slug |-> NoSlug]
  /\ taken \in SUBSET Slugs
  /\ editors = [q \in Edits |-> NewEditor]
  /\ overtaken = FALSE
  /\ unanswered = {}

Latest == IF specs = {} THEN 0 ELSE Max({r.number : r \in specs})
Version(n) == CHOOSE r \in specs : r.number = n

\* projectView: a row whose progress is not that of its brief is not opened by anything.
Opens == project.progress = Cardinality(project.brief)
MayGenerate == Opens /\ project.status = "draft"

EndEditor(q) == editors' = [editors EXCEPT ![q] = [NewEditor EXCEPT !.at = "over"]]

-----------------------------------------------------------------------------
(* The brief and the draft *)

\* updateWebsiteBrief: a patch may fill in a decision or empty it.
BeginBrief(q) ==
  /\ editors[q].at = "idle"
  /\ Opens /\ project.status = "briefing"
  /\ \E patch \in (SUBSET Steps) \ {{}} : \E filled \in SUBSET patch :
       editors' = [editors EXCEPT ![q].at = "writeBrief",
                                  ![q].brief = (project.brief \ patch) \cup filled]
  /\ UNCHANGED <<project, specs, images, site, taken, overtaken, unanswered>>

\* .eq('status', 'briefing')
StillBriefing == project.status = "briefing"

\* The whole brief is written, whatever other patches were written since it was read.
WriteBrief(q) ==
  /\ editors[q].at = "writeBrief"
  /\ project' = IF StillBriefing
                THEN [project EXCEPT !.brief = editors[q].brief,
                                     !.progress = Cardinality(editors[q].brief)]
                ELSE project
  /\ EndEditor(q)
  /\ UNCHANGED <<specs, images, site, taken, overtaken, unanswered>>

\* createWebsiteDraft on a project that has one already changes nothing.
BeginDraft(q) ==
  /\ editors[q].at = "idle"
  /\ Opens /\ project.status = "briefing"
  /\ project.brief = Steps
  /\ editors' = [editors EXCEPT ![q].at = "writeDraft", ![q].brief = project.brief]
  /\ UNCHANGED <<project, specs, images, site, taken, overtaken, unanswered>>

\* The brief itself is not written and not looked at again.
WriteDraft(q) ==
  /\ editors[q].at = "writeDraft"
  /\ IF project.status = "briefing"
     THEN /\ project' = [project EXCEPT !.status = "draft", !.progress = Cardinality(Steps)]
          /\ overtaken' = (project.brief # editors[q].brief)
     ELSE UNCHANGED <<project, overtaken>>
  /\ EndEditor(q)
  /\ UNCHANGED <<specs, images, site, taken, unanswered>>

-----------------------------------------------------------------------------
(* Versions *)

Stores(q, at, row) ==
  editors' = [editors EXCEPT ![q].at = at, ![q].output = row]

\* generateWebsiteSpec: two requests that both find no version both generate one.
BeginGenerate(q) ==
  /\ editors[q].at = "idle"
  /\ MayGenerate /\ Latest = 0
  /\ Stores(q, "latest", EmptyRow)
  /\ UNCHANGED <<project, specs, images, site, taken, overtaken, unanswered>>

\* editWebsiteSpec: a direct edit is applied at once; a model may drop what it was to keep.
BeginEdit(q) ==
  LET current == Version(Latest)
      edit == [current EXCEPT !.number = 0, !.parent = current.number]
  IN /\ editors[q].at = "idle"
     /\ MayGenerate /\ Latest > 0
     /\ \/ Stores(q, "latest", [edit EXCEPT !.content = @ \cup {q}, !.source = "direct"])
        \/ \E kept \in SUBSET current.pictures :
             Stores(q, "latest", [edit EXCEPT !.content = @ \cup {q}, !.pictures = kept,
                                              !.source = "natural-language"])
     /\ UNCHANGED <<project, specs, images, site, taken, overtaken, unanswered>>

\* generateWebsiteAsset, also once for each product by autoGenerateStorefrontImages.
BeginImage(q) ==
  LET current == Version(Latest)
  IN /\ editors[q].at = "idle"
     /\ MayGenerate /\ Latest > 0
     /\ Stores(q, "image", [current EXCEPT !.number = 0, !.parent = current.number,
                                           !.content = @ \cup {q}, !.pictures = @ \cup {q},
                                           !.source = "asset-generation"])
     /\ UNCHANGED <<project, specs, images, site, taken, overtaken, unanswered>>

\* The provider's image is stored and its row inserted; an object without a row, left when
\* that fails, is visible to nobody.
StoreImage(q) ==
  /\ editors[q].at = "image"
  /\ images' = images \cup {q}
  /\ editors' = [editors EXCEPT ![q].at = "latest"]
  /\ UNCHANGED <<project, specs, site, taken, overtaken, unanswered>>

\* restoreWebsiteSpec
BeginRestore(q) ==
  /\ editors[q].at = "idle"
  /\ MayGenerate
  /\ \E restored \in specs :
       Stores(q, "latest", [restored EXCEPT !.number = 0, !.parent = Latest, !.source = "restore"])
  /\ UNCHANGED <<project, specs, images, site, taken, overtaken, unanswered>>

\* Fault: the version to build on is noted only now.
NumberedLate(row) == [row EXCEPT !.number = Latest + 1, !.parent = Latest]

Numbered(row) == [row EXCEPT !.number = Latest + 1]

\* The catch clause of generateWebsiteAsset.
Removes(row, failed) == failed /\ row.source = "asset-generation"

\* persistSpec asks for the latest version once more, for its number only.
ReadLatest(q) ==
  /\ editors[q].at = "latest"
  /\ \/ Stores(q, "insert", Numbered(editors[q].output))
     \/ Removes(editors[q].output, TRUE) /\ editors' = [editors EXCEPT ![q].at = "remove"]
  /\ UNCHANGED <<project, specs, images, site, taken, overtaken, unanswered>>

\* Fault: nothing keeps two rows from having one number.
FreeAnyway(number) == TRUE

\* unique (project_id, version_number)
Free(number) == \A r \in specs : r.number # number

\* The row is stored or not, and a stored row may be answered as a failure.
InsertSpec(q) ==
  LET row == editors[q].output
      Answers(failed) ==
        IF Removes(row, failed) THEN editors' = [editors EXCEPT ![q].at = "remove"] ELSE EndEditor(q)
  IN /\ editors[q].at = "insert"
     /\ \/ /\ Free(row.number)
           /\ specs' = specs \cup {row}
           /\ \/ Answers(FALSE) /\ UNCHANGED unanswered
              \/ /\ Answers(TRUE)
                 /\ unanswered' = unanswered \cup (row.pictures \cap {q})
        \/ /\ Answers(TRUE)
           /\ UNCHANGED <<specs, unanswered>>
     /\ UNCHANGED <<project, images, site, taken, overtaken>>

\* removeWebsiteAsset; its errors are ignored.
RemoveImage(q) ==
  /\ editors[q].at = "remove"
  /\ images' = images \ {q}
  /\ EndEditor(q)
  /\ UNCHANGED <<project, specs, site, taken, overtaken, unanswered>>

\* The request fails before its next write, or its function instance ends.
Abandon(q) ==
  /\ editors[q].at \notin {"idle", "over"}
  /\ EndEditor(q)
  /\ UNCHANGED <<project, specs, images, site, taken, overtaken, unanswered>>

-----------------------------------------------------------------------------
(* Publication *)

\* input.siteSlug ?? existingPublication?.slug ?? defaultWebsiteSiteSlug(...)
Address(given, seen) ==
  IF given # NoSlug THEN given ELSE IF seen # NoSlug THEN seen ELSE DefaultSlug

BeginPublish(q) ==
  /\ editors[q].at = "idle"
  /\ MayGenerate
  /\ \E row \in specs, given \in Slugs \cup {NoSlug} :
       editors' = [editors EXCEPT ![q].at = "publish", ![q].output = row, ![q].slug = given,
                                  ![q].seen = site.slug]
  /\ UNCHANGED <<project, specs, images, site, taken, overtaken, unanswered>>

\* The check of publish_website_with_slug and website_publications_one_active_slug_idx.
Available(slug) == slug \notin taken

\* publish_website_with_slug supersedes the active publication, of whatever version.  What
\* publishWebsite reads afterwards changes only what it answers.
Publish(q) ==
  LET address == Address(editors[q].slug, editors[q].seen)
  IN /\ editors[q].at = "publish"
     /\ site' = IF Available(address) THEN [number |-> editors[q].output.number, slug |-> address]
                ELSE site
     /\ EndEditor(q)
     /\ UNCHANGED <<project, specs, images, taken, overtaken, unanswered>>

\* The same by another project, which gives up the address it had.
PublishOther(old, new) ==
  /\ new \in Slugs \ (taken \cup {site.slug})
  /\ taken' = (taken \ {old}) \cup {new}
  /\ UNCHANGED <<project, specs, images, site, editors, overtaken, unanswered>>

StudioNext ==
  \/ \E q \in Edits :
       \/ BeginBrief(q) \/ WriteBrief(q) \/ BeginDraft(q) \/ WriteDraft(q)
       \/ BeginGenerate(q) \/ BeginEdit(q) \/ BeginImage(q) \/ StoreImage(q) \/ BeginRestore(q)
       \/ ReadLatest(q) \/ InsertSpec(q) \/ RemoveImage(q)
       \/ BeginPublish(q) \/ Publish(q)
       \/ Abandon(q)
  \/ \E old \in taken \cup {NoSlug}, new \in Slugs : PublishOther(old, new)

StudioSpec == StudioInit /\ [][StudioNext]_studioVars

-----------------------------------------------------------------------------
(* Properties *)

\* "A stored draft must have all six steps": its brief is complete and it opens, unless
\* another request wrote the brief between the check and the creation of the draft.
DraftIsComplete ==
  project.status = "draft" /\ ~overtaken => project.brief = Steps /\ Opens

\* "Direct changes create new immutable versions": no two rows share a number, so no
\* request that was overtaken replaces the version of another, and none is lost.
VersionsKept ==
  [][/\ specs \subseteq specs'
     /\ \A r, s \in specs' : r.number = s.number => r = s]_studioVars

\* A version names the one it was made from: what it lacks of the versions between was
\* overtaken, never content of its parent.
BuildsOnParent ==
  \A r \in specs :
    r.source \in {"direct", "asset-generation"}
      => /\ r.parent < r.number
         /\ Version(r.parent).content \subseteq r.content
         /\ Version(r.parent).pictures \subseteq r.pictures

\* Every image that a version refers to is there, whatever failed, unless the insert of its
\* first version was stored and answered as a failure.
PicturesExist ==
  \A r \in specs : r.pictures \subseteq images \cup unanswered

\* No two projects are published under one address.
OneSitePerAddress == site.slug \notin taken

\* Publishing without an address keeps the one the site has, unless it was given another
\* one since the request began.
AddressKept ==
  [][\A q \in Edits :
       editors[q].at = "publish" /\ editors[q].slug = NoSlug /\ site.slug = editors[q].seen
         /\ site.slug # NoSlug /\ editors'[q].at = "over"
       => site'.slug = site.slug]_studioVars

\* What holds of a website, its versions, images and address at any instant.
StudioSafe ==
  /\ StudioTypeOK
  /\ DraftIsComplete
  /\ BuildsOnParent
  /\ PicturesExist
  /\ OneSitePerAddress

\* What no request takes away: a version, and the address of the site.
VersionsStay == VersionsKept /\ AddressKept

=============================================================================
