------------------------------- MODULE SiteData --------------------------------
(*****************************************************************************)
(* The data and the members of one published site:                          *)
(* apps/web/src/lib/website-data-server.ts and website-access-server.ts with *)
(* the SQL of 202607290002 and 202607290003.                                 *)
(*                                                                           *)
(* A collection has reviewed fields, records hold values for them, and a     *)
(* form lets members or visitors make records.  Every handler reads several  *)
(* tables in several calls, decides, and writes in a last one;               *)
(* execute_website_data_action, the last call of what changes a record, is   *)
(* one transaction.  Values are abstracted to the fields they were validated *)
(* against, and pages, names and references to other records are left out.   *)
(*****************************************************************************)
EXTENDS Naturals, FiniteSets

CONSTANTS
  Calls,       \* requests under way
  Keys,        \* idempotency keys of clients
  Users,       \* people with an account
  FieldSets,   \* what the fields of the collection may be
  MaxRecords,  \* bound on the records ever made
  MaxVersion,  \* bound on the version of a record
  Roles,       \* ranks of roles: 1 member, 2 staff, 3 manager
  Absent,
  Gone,        \* the place of a record that was deleted
  Unread       \* an answer a handler has not got yet

ASSUME SiteDataConstants ==
  /\ MaxRecords \in Nat /\ MaxVersion \in Nat \ {0}
  /\ {1, 3} \subseteq Roles /\ Roles \subseteq 1 .. 3
  /\ Absent \notin Users \cup FieldSets /\ Absent # Gone /\ Absent # Unread /\ Unread \notin FieldSets

VARIABLES
  fields,        \* fields of the collection, Absent before it is made
  records,       \* website_data_records by the order they were made in
  actions,       \* website_data_action_runs by key
  form,          \* Absent, or whether it is active and the role it asks for, 0 for none
  members,       \* website_site_memberships by user
  registration,  \* registration_enabled
  calls,
  overlapped     \* history: were two requests ever under way at once

siteVars == <<fields, records, actions, form, members, registration, calls, overlapped>>

RecordIds == 1 .. MaxRecords
Record == [fields : FieldSets, version : 1 .. MaxVersion, owner : Users \cup {Absent}]
Form == [active : BOOLEAN, role : {0} \cup Roles]
Member == [role : Roles, status : {"active", "suspended"}]

\* The record and version that a change of a record is about.
Target == [record : RecordIds, version : 1 .. MaxVersion]

Creating == {"create", "submit"}
Changing == {"update", "delete"}
Managing == {"create", "update", "delete", "collection", "form"}

\* about: the Target, the new fields or the new form.  Read so far: the fields of the
\* collection; of the records the version of the one to be changed, or whether there are
\* any; the role the form asks for; the own membership.  allowed: the checks are passed.
Call == [kind : Managing \cup {"submit", "login"}, key : Keys \cup {Absent},
         about : Target \cup FieldSets \cup Form \cup {Absent}, user : Users \cup {Absent},
         fields : FieldSets \cup {Absent, Unread},
         seen : (0 .. MaxVersion) \cup Roles \cup {Unread}, own : Member \cup {Absent, Unread},
         allowed : BOOLEAN]

\* A row of website_data_action_runs; the request is what its hash is made of.
Run == [request : [kind : Creating \cup Changing, about : Target \cup {Absent}, fields : FieldSets],
        record : RecordIds]

\* A place that is empty holds no row.
ASSUME NullsAreNoRows ==
  \A x \in {Absent, Gone} : x \notin Record /\ x \notin Form /\ x \notin Member /\ x \notin Run /\ x \notin Call

SiteInit ==
  /\ fields \in FieldSets \cup {Absent}
  /\ records = [r \in RecordIds |-> Absent]
  /\ actions = [k \in Keys |-> Absent]
  /\ form = Absent
  /\ members = [u \in Users |-> Absent]
  /\ registration = FALSE
  /\ calls = [c \in Calls |-> Absent]
  /\ overlapped = FALSE

tables == <<fields, records, actions, form, members, registration>>

-----------------------------------------------------------------------------
(* Requests and what they read *)

SiteBegin(c, kind, k, about, u) ==
  /\ calls[c] = Absent
  /\ calls' = [calls EXCEPT ![c] =
       [kind |-> kind, key |-> k, about |-> about, user |-> u,
        fields |-> Unread, seen |-> Unread, own |-> Unread, allowed |-> FALSE]]
  /\ overlapped' = (overlapped \/ \E d \in Calls : calls[d] # Absent)
  /\ UNCHANGED tables

Under(c, kinds) == calls[c] # Absent /\ calls[c].kind \in kinds

Learns(c, part, value) ==
  /\ calls' = [calls EXCEPT ![c] = [@ EXCEPT ![part] = value]]
  /\ UNCHANGED <<tables, overlapped>>

EndCall(c) == calls' = [calls EXCEPT ![c] = Absent] /\ UNCHANGED overlapped

\* A check of the input, a quota, a rate, a role or the database refuses, or the
\* instance dies.
SiteRefuse(c) ==
  /\ calls[c] # Absent
  /\ EndCall(c)
  /\ UNCHANGED tables

\* The collections among the queries that the dashboard and a page run at once.
ReadFields(c) ==
  /\ Under(c, Managing \cup {"submit"})
  /\ calls[c].fields = Unread
  /\ Learns(c, "fields", fields)

Live(r) == records[r] \notin {Absent, Gone}

\* The records among these queries: the version of the one that is to be changed, 0 if it
\* is not there, and for new fields whether there are any.
ReadRecords(c) ==
  /\ Under(c, Changing \cup {"collection"})
  /\ calls[c].seen = Unread
  /\ Learns(c, "seen",
       IF calls[c].kind = "collection"
         THEN IF \E r \in RecordIds : Live(r) THEN 1 ELSE 0
         ELSE LET r == calls[c].about.record IN IF Live(r) THEN records[r].version ELSE 0)

-----------------------------------------------------------------------------
(* mutateWebsiteData: saveCollection and saveForm *)

FieldsMayChange(c) == calls[c].seen = 1 => calls[c].about = calls[c].fields

SaveCollection(c) ==
  /\ Under(c, {"collection"})
  /\ calls[c].fields # Unread /\ calls[c].seen # Unread
  /\ \/ calls[c].fields = Absent /\ fields = Absent
     \/ calls[c].fields # Absent /\ FieldsMayChange(c)
  /\ fields' = calls[c].about
  /\ EndCall(c)
  /\ UNCHANGED <<records, actions, form, members, registration>>

\* The fields it names and the page were checked against what was read.
SaveForm(c) ==
  /\ Under(c, {"form"})
  /\ calls[c].fields \notin {Unread, Absent}
  /\ form' = calls[c].about
  /\ EndCall(c)
  /\ UNCHANGED <<fields, records, actions, members, registration>>

-----------------------------------------------------------------------------
(* submitPublishedWebsiteDataForm *)

ReadForm(c) ==
  /\ Under(c, {"submit"})
  /\ calls[c].seen = Unread
  /\ form # Absent /\ form.active
  /\ Learns(c, "seen", form.role)

Holds(u, role) ==
  u # Absent /\ members[u] # Absent /\ members[u].status = "active" /\ members[u].role >= role

\* getWebsiteSiteAuthState, after the form and the collection.
ReadStanding(c) ==
  /\ Under(c, {"submit"})
  /\ calls[c].fields \notin {Unread, Absent}
  /\ calls[c].seen # Unread /\ ~ calls[c].allowed
  /\ calls[c].seen # 0 => Holds(calls[c].user, calls[c].seen)
  /\ Learns(c, "allowed", TRUE)

-----------------------------------------------------------------------------
(* execute_website_data_action *)

Asked(c) == [kind |-> calls[c].kind, about |-> calls[c].about, fields |-> calls[c].fields]

\* Has the handler let the action through?
Approved(c) ==
  /\ calls[c].fields \notin {Unread, Absent}
  /\ CASE calls[c].kind = "create" -> TRUE
       [] calls[c].kind = "submit" -> calls[c].allowed
       [] OTHER -> calls[c].seen = calls[c].about.version

Bound(c) == actions[calls[c].key] # Absent

\* Fault: whether the member was suspended since is not asked.
ActorAsRead(c) == TRUE

ActorMay(c) == calls[c].kind = "submit" /\ calls[c].user # Absent => Holds(calls[c].user, 1)

\* Fault: the version the handler compared is not compared again.
VersionAsRead(c) == Live(calls[c].about.record)

VersionHolds(c) == Live(calls[c].about.record) /\ records[calls[c].about.record].version = calls[c].about.version

Changed(c) ==
  LET r == calls[c].about.record IN
  IF calls[c].kind = "delete" THEN [records EXCEPT ![r] = Gone]
  ELSE [records EXCEPT ![r].fields = calls[c].fields, ![r].version = @ + 1]

\* A key that is bound replays its answer, or is refused for another request.
Execute(c) ==
  /\ Under(c, Creating \cup Changing)
  /\ Approved(c)
  /\ IF Bound(c) THEN UNCHANGED tables
     ELSE \E r \in RecordIds :
       /\ ActorMay(c)
       /\ IF calls[c].kind \in Creating
          THEN /\ records[r] = Absent /\ \A s \in 1 .. r - 1 : records[s] # Absent
               /\ records' = [records EXCEPT ![r] =
                    [fields |-> calls[c].fields, version |-> 1, owner |-> calls[c].user]]
          ELSE /\ r = calls[c].about.record /\ VersionHolds(c)
               /\ calls[c].kind = "update" => records[r].version < MaxVersion
               /\ records' = Changed(c)
       /\ actions' = [actions EXCEPT ![calls[c].key] = [request |-> Asked(c), record |-> r]]
       /\ UNCHANGED <<fields, form, members, registration>>
  /\ EndCall(c)

-----------------------------------------------------------------------------
(* executeWebsiteSiteAuth and ensureSiteMember; mutateWebsiteSiteAccess *)

ReadOwn(c) ==
  /\ Under(c, {"login"})
  /\ calls[c].own = Unread
  /\ members[calls[c].user] # Absent => members[calls[c].user].status = "active"
  /\ Learns(c, "own", members[calls[c].user])

\* Only the name and the address are written.
Refreshed(c) == members

RefreshMember(c) ==
  /\ Under(c, {"login"})
  /\ calls[c].own \notin {Absent, Unread}
  /\ members' = Refreshed(c)
  /\ EndCall(c)
  /\ UNCHANGED <<fields, records, actions, form, registration>>

\* Registration and the number of members are read.
ReadRegistration(c) ==
  /\ Under(c, {"login"})
  /\ calls[c].own = Absent /\ ~ calls[c].allowed
  /\ registration
  /\ Learns(c, "allowed", TRUE)

InsertMember(c) ==
  /\ Under(c, {"login"})
  /\ calls[c].allowed
  /\ members[calls[c].user] = Absent
  /\ members' = [members EXCEPT ![calls[c].user] = [role |-> 1, status |-> "active"]]
  /\ EndCall(c)
  /\ UNCHANGED <<fields, records, actions, form, registration>>

\* The review of a workspace owner or administrator, who becomes a manager of the site.
SaveMatrix(u, open) ==
  /\ registration' = open
  /\ members' = [members EXCEPT ![u] = [role |-> 3, status |-> "active"]]
  /\ UNCHANGED <<fields, records, actions, form, calls, overlapped>>

SetMember(u, m) ==
  /\ members[u] # Absent
  /\ members' = [members EXCEPT ![u] = m]
  /\ UNCHANGED <<fields, records, actions, form, registration, calls, overlapped>>

-----------------------------------------------------------------------------

\* What changes a record has a key.
BeginAny(c) ==
  \/ \E k \in Keys :
       \/ SiteBegin(c, "create", k, Absent, Absent)
       \/ \E u \in Users \cup {Absent} : SiteBegin(c, "submit", k, Absent, u)
       \/ \E target \in Target, kind \in Changing :
            /\ Live(target.record) /\ target.version <= records[target.record].version
            /\ SiteBegin(c, kind, k, target, Absent)
  \/ \E f \in FieldSets : SiteBegin(c, "collection", Absent, f, Absent)
  \/ \E f \in Form : SiteBegin(c, "form", Absent, f, Absent)
  \/ \E u \in Users : SiteBegin(c, "login", Absent, Absent, u)

SiteNext ==
  \/ \E c \in Calls :
       \/ BeginAny(c) \/ SiteRefuse(c) \/ ReadFields(c) \/ ReadRecords(c)
       \/ SaveCollection(c) \/ SaveForm(c) \/ ReadForm(c) \/ ReadStanding(c) \/ Execute(c)
       \/ ReadOwn(c) \/ RefreshMember(c) \/ ReadRegistration(c) \/ InsertMember(c)
  \/ \E u \in Users : (\E open \in BOOLEAN : SaveMatrix(u, open)) \/ \E m \in Member : SetMember(u, m)

SiteSpec == SiteInit /\ [][SiteNext]_siteVars

-----------------------------------------------------------------------------
(* Properties *)

SiteTypeOK ==
  /\ fields \in FieldSets \cup {Absent}
  /\ records \in [RecordIds -> Record \cup {Absent, Gone}]
  /\ actions \in [Keys -> Run \cup {Absent}]
  /\ form \in Form \cup {Absent}
  /\ members \in [Users -> Member \cup {Absent}]
  /\ registration \in BOOLEAN
  /\ calls \in [Calls -> Call \cup {Absent}]
  /\ overlapped \in BOOLEAN

RunsOf(kinds, r) ==
  {k \in Keys : actions[k] # Absent /\ actions[k].request.kind \in kinds /\ actions[k].record = r}

\* The action runs account for every record: one that made it, one for each of its later
\* versions and one for its deletion, whatever requests were repeated.
RunsAccount ==
  \A r \in RecordIds :
    /\ Cardinality(RunsOf(Creating, r)) = (IF records[r] = Absent THEN 0 ELSE 1)
    /\ Cardinality(RunsOf({"delete"}, r)) = (IF records[r] = Gone THEN 1 ELSE 0)
    /\ Live(r) => Cardinality(RunsOf({"update"}, r)) = records[r].version - 1

\* Of two users who saw the same version of a record, one changes it.
OneChangePerVersion ==
  \A k, l \in Keys :
    /\ k # l /\ actions[k] # Absent /\ actions[l] # Absent
    /\ actions[k].request.kind \in Changing /\ actions[l].request.kind \in Changing
    => actions[k].request.about # actions[l].request.about

\* While requests come one after the other, each record has values for the fields of its
\* collection.
RecordsFit == ~ overlapped => \A r \in RecordIds : Live(r) => records[r].fields = fields

\* No request of a user, however old what it read, changes the role or the status of one
\* who is a member: only a manager does.
StandingIsManaged ==
  [][calls' # calls => \A u \in Users : members[u] # Absent => members'[u] = members[u]]_siteVars

\* From the moment a member is suspended, none of the forms they were sending makes a record.
SuspendedMakeNothing ==
  [][\A r \in RecordIds :
       records[r] = Absent /\ records'[r] # Absent /\ records'[r].owner # Absent
       => Holds(records'[r].owner, 1)]_siteVars

\* What holds of the data of a site at any instant: versions, action runs and fields
\* agree, whichever requests were repeated or overlapped.
SiteSafe ==
  /\ SiteTypeOK
  /\ RunsAccount
  /\ OneChangePerVersion
  /\ RecordsFit

\* Who stands how with a site: only a manager changes it, and one who is suspended adds
\* nothing, whatever requests were under way.
StandingKept == StandingIsManaged /\ SuspendedMakeNothing

=============================================================================
