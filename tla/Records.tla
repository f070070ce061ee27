------------------------------- MODULE Records ------------------------------
(***************************************************************************)
(* Rows that requests edit, and the rows that say who may: the tables of   *)
(* the backend, its users' roles and the gates of its routes.              *)
(***************************************************************************)
EXTENDS Naturals, FiniteSets

(***************************************************************************)
(* The backend's tables that requests edit by reading an entity, assigning *)
(* to some of its columns and saving it: contributors, users, communities, *)
(* grants, drafts and the platform's configuration.  TypeORM's save()      *)
(* writes every column of the entity that differs from the row by then, so *)
(* a copy takes back what others wrote since it was read; an entity made   *)
(* by create() writes only the columns it was given.  A behaviour is about *)
(* one row of one table.                                                   *)
(***************************************************************************)

CONSTANTS Editor,       \* requests that may be under way at once
          MaxEditCalls  \* bound: requests

ASSUME RecordsAssumption == MaxEditCalls \in Nat

Columns ==
    [contributors |-> {"reputation", "blacklisted", "prefs", "profile"},
     users        |-> {"email", "github", "twitter"},
     communities  |-> {"description", "featured"},
     grants       |-> {"status", "community"},
     drafts       |-> {"title", "budget"},
     config       |-> {"fee"}]
Tables == DOMAIN Columns
KnownColumns == (UNION {Columns[t] : t \in Tables}) \cup {"row"}
Absent == [c \in {} |-> 0]
Defaults(t) == [c \in Columns[t] |-> 0]
\* The columns of "new" written over those of "old".
Over(new, old) ==
    [c \in DOMAIN new \cup DOMAIN old |-> IF c \in DOMAIN new THEN new[c] ELSE old[c]]

\* An edit assigns to "sets"; if there is no row it refuses, or makes an entity
\* with the columns "fills".
Edit(table, sets, refuses, fills) ==
    [table |-> table, sets |-> sets, refuses |-> refuses, fills |-> fills]

\* contributors: made with the address alone, with the reputation it adds to,
\* or with every column.
Blacklist == Edit("contributors", {"blacklisted"}, FALSE, {})
Preferences == Edit("contributors", {"prefs"}, FALSE, {})
PatchProfile == Edit("contributors", {"profile"}, FALSE, Columns.contributors)
Award == Edit("contributors", {"reputation"}, FALSE, {"reputation"})
\* users
Register == Edit("users", {"email"}, FALSE, {})
LinkGithub == Edit("users", {"github"}, FALSE, {})
LinkTwitter == Edit("users", {"twitter"}, FALSE, {})
EnsureUser == Edit("users", {}, FALSE, {})
\* communities, grants, drafts, configuration
Describe == Edit("communities", {"description"}, TRUE, {})
Feature == Edit("communities", {"featured"}, TRUE, {})
AssignCommunity == Edit("grants", {"community"}, TRUE, {})
PatchTitle == Edit("drafts", {"title"}, TRUE, {})
PatchBudget == Edit("drafts", {"budget"}, TRUE, {})
SetFeePercentage == Edit("config", {"fee"}, FALSE, {})

Edits == {Blacklist, Preferences, PatchProfile, Award, Register, LinkGithub, LinkTwitter,
          EnsureUser, Describe, Feature, AssignCommunity, PatchTitle, PatchBudget,
          SetFeePercentage}

\* Tables whose primary key is generated: an entity made by create() is
\* inserted, which the unique key refuses if the row is there by then.
Generated == {"users", "communities"}

VARIABLES
    about,    \* the table of this behaviour
    record,   \* its row, Absent if there is none
    editing,  \* the entity each request holds; Resting if none
    word      \* history, see RecordInit

recordVars == <<about, record, editing, word>>
Resting == [edit |-> "none"]
InFlight == {q \in Editor : editing[q] # Resting}

\* A request's answer: the columns it set hold their values, until a copy read
\* before this answer is saved later.
Answered(q, columns, values) ==
    [word EXCEPT
        !.of = Over([c \in columns |-> values[c]], @),
        !.waits = [c \in KnownColumns |-> IF c \in columns THEN InFlight \ {q} ELSE @[c] \ {q}],
        !.undone = @ \ columns]
Forget(q, written) ==
    [word EXCEPT !.waits = [c \in KnownColumns |-> @[c] \ {q}],
                 !.undone = @ \cup {c \in written : q \in word.waits[c]}]

-----------------------------------------------------------------------------

\* The entity a request will save: its copy of the row or a new one, assigned to.
EntityOf(e, v) ==
    LET entity == IF record = Absent THEN [c \in e.fills |-> 0] ELSE record
    IN Over([c \in e.sets |-> IF e = Award /\ c \in DOMAIN entity THEN entity[c] + 1 ELSE v],
            entity)

BeginEdit(q, e, v) ==
    /\ editing[q] = Resting /\ word.calls < MaxEditCalls
    /\ e.table = about /\ ~(e.refuses /\ record = Absent)
    /\ editing' = [editing EXCEPT ![q] =
          [edit |-> e, made |-> record = Absent, entity |-> EntityOf(e, v)]]
    /\ word' = [word EXCEPT !.calls = @ + 1]
    /\ UNCHANGED <<about, record>>

\* save(): by key, whatever became of the row since; the entity's columns only.
\* A new entity without a key is inserted, which a unique column refuses.
SaveEdited(q) ==
    LET c == editing[q] IN
    /\ c # Resting
    /\ editing' = [editing EXCEPT ![q] = Resting]
    /\ IF c.made /\ record # Absent /\ about \in Generated
       THEN UNCHANGED record /\ word' = Forget(q, {})
       ELSE LET stale == Forget(q, DOMAIN c.entity \cup {"row"}) IN
            /\ record' = Over(c.entity, Over(record, Defaults(about)))
            /\ word' = [Answered(q, c.edit.sets, c.entity) EXCEPT
                           !.undone = stale.undone \ c.edit.sets]
    /\ UNCHANGED about

\* A request that fails before it saves.
DropEdit(q) ==
    /\ editing[q] # Resting
    /\ editing' = [editing EXCEPT ![q] = Resting]
    /\ word' = Forget(q, {})
    /\ UNCHANGED <<about, record>>

\* POST of a community or of a draft inserts a row with every column.
CreateRecord(q, v) ==
    /\ editing[q] = Resting /\ word.calls < MaxEditCalls
    /\ about \in {"communities", "drafts"} /\ record = Absent /\ ~word.deleted
    /\ record' = [c \in Columns[about] |-> v]
    /\ word' = [Answered(q, Columns[about], record') EXCEPT !.calls = @ + 1]
    /\ UNCHANGED <<about, editing>>

\* One statement sets the status of a grant: a synchronisation saves the plain
\* object it fetched; the admin's bulk action commits a transaction, and then
\* answers 500 (responseCache has no invalidateGrantsAndStats).
WriteStatus(q, v) ==
    /\ editing[q] = Resting /\ word.calls < MaxEditCalls
    /\ about = "grants" /\ record # Absent
    /\ record' = [record EXCEPT !.status = v]
    /\ word' = [Answered(q, {"status"}, record') EXCEPT !.calls = @ + 1]
    /\ UNCHANGED <<about, editing>>

\* DELETE of a draft; a later PATCH finds no row.
DeleteRecord(q) ==
    /\ editing[q] = Resting /\ word.calls < MaxEditCalls
    /\ about = "drafts" /\ record # Absent
    /\ record' = Absent
    /\ word' = [Answered(q, {"row"}, [row |-> 0]) EXCEPT !.deleted = TRUE, !.calls = @ + 1]
    /\ UNCHANGED <<about, editing>>

\* "word": the value each column was last answered to have, the requests under
\* way at that answer, the columns such a request saved since, requests made.
\* The pseudo-column "row" is about a deletion.
RecordInit ==
    /\ about \in Tables
    /\ record \in {Absent, Defaults(about)}
    /\ (about = "grants" => record # Absent)
    /\ editing = [q \in Editor |-> Resting]
    /\ word = [of |-> Absent, waits |-> [c \in KnownColumns |-> {}], undone |-> {},
               deleted |-> FALSE, calls |-> 0]

RecordNext == \E q \in Editor :
    \/ SaveEdited(q) \/ DropEdit(q) \/ DeleteRecord(q)
    \/ \E v \in {1, 2} :
          \/ \E e \in Edits : BeginEdit(q, e, v)
          \/ CreateRecord(q, v) \/ WriteStatus(q, v)

-----------------------------------------------------------------------------

\* What a request answered about a column stands, and a draft answered to be
\* deleted is gone, unless a request that read the row before that answer saves
\* its copy of that very column later.  So calls made one after the other never
\* lose each other's columns, whichever routes they go through.
AnswersStand ==
    /\ word.deleted /\ "row" \notin word.undone => record = Absent
    /\ \A c \in DOMAIN word.of \ {"row"} :
          c \notin word.undone /\ record # Absent => record[c] = word.of[c]

-----------------------------------------------------------------------------
(***************************************************************************)
(* Roles of the backend's users and the gates of its routes (config/rbac,  *)
(* services/rbac-service, middlewares/rbac-middleware, routes/roles).      *)
(* One gate asks each role for a permission and trusts an administrator    *)
(* with all of them; the other looks in the union of the roles' lists,     *)
(* where an administrator has the single entry "admin:all".                *)
(***************************************************************************)

CONSTANTS Account,      \* users, with a row in "users"
          FirstAdmin,   \* accounts made administrators by hand
          RoleRequest,  \* requests that may be under way at once
          MaxRoleCalls  \* bound: requests

ASSUME RolesAssumption == FirstAdmin \subseteq Account /\ MaxRoleCalls \in Nat

RoleNames == {"user", "grantee", "reviewer", "admin"}

ROLE_PERMISSIONS ==
    [user     |-> {"grants:read", "milestones:read", "profiles:read", "profiles:update_own",
                   "watchlist:manage"},
     grantee  |-> {"grants:read", "grants:create", "grants:update", "milestones:read",
                   "milestones:create", "milestones:comment", "profiles:read",
                   "profiles:update_own", "watchlist:manage"},
     reviewer |-> {"grants:read", "grants:report", "milestones:read", "milestones:approve",
                   "milestones:reject", "milestones:comment", "profiles:read",
                   "profiles:update_own", "analytics:read"},
     admin    |-> {"admin:all"}]

\* What the routes and the ready-made gates ask for, one of each list.
Requirements ==
    {{"users:assign_roles"}, {"admin:all"}, {"communities:create"}, {"communities:manage"},
     {"communities:update", "admin:all"}, {"milestones:approve", "admin:all"},
     {"grants:create", "admin:all"}}

VARIABLES
    roleRows,   \* names with a row in "roles"
    userRoles,  \* rows of "user_roles" for each account and role
    clerk,      \* what each request is about to write
    told        \* history: roles last answered assigned or revoked; requests made

roleVars == <<roleRows, userRoles, clerk, told>>
NoClerk == [step |-> "idle"]

RolesOf(a) == {r \in RoleNames : userRoles[a][r] > 0}
roleHasPermission(r, p) == r = "admin" \/ p \in ROLE_PERMISSIONS[r]
UserPermissions(a) == UNION {ROLE_PERMISSIONS[r] : r \in RolesOf(a)}

\* userHasPermissionByAddress and userHasAnyPermissionByAddress.
requirePermission(a, p) == \E r \in RolesOf(a) : roleHasPermission(r, p)
requireAnyPermission(a, list) == list \cap UserPermissions(a) # {}
Passes(a, list) == IF Cardinality(list) = 1 THEN \A p \in list : requirePermission(a, p)
                   ELSE requireAnyPermission(a, list)

-----------------------------------------------------------------------------

\* POST /roles/initialize, by an administrator.
InitializeRoles(by) ==
    /\ requirePermission(by, "admin:all") /\ roleRows # RoleNames
    /\ roleRows' = RoleNames
    /\ UNCHANGED <<userRoles, clerk, told>>

BeginRoleCall(q, job) ==
    /\ clerk[q] = NoClerk /\ told.calls < MaxRoleCalls
    /\ clerk' = [clerk EXCEPT ![q] = job]
    /\ told' = [told EXCEPT !.calls = @ + 1]
    /\ UNCHANGED <<roleRows, userRoles>>

BeginAssign(q, by, a, r) ==
    /\ requirePermission(by, "users:assign_roles")
    /\ r \in roleRows /\ userRoles[a][r] = 0
    /\ BeginRoleCall(q, [step |-> "assign", account |-> a, role |-> r])
BeginRevoke(q, by, a, r) ==
    /\ requirePermission(by, "users:assign_roles")
    /\ r \in roleRows
    /\ BeginRoleCall(q, [step |-> "revoke", account |-> a, role |-> r])

\* The unique key (userId, roleId) refuses a second row.
InsertUserRole(q) ==
    LET c == clerk[q] IN
    /\ c.step = "assign"
    /\ clerk' = [clerk EXCEPT ![q] = NoClerk]
    /\ IF userRoles[c.account][c.role] > 0
       THEN UNCHANGED <<userRoles, told>>
       ELSE /\ userRoles' = [userRoles EXCEPT ![c.account][c.role] = @ + 1]
            /\ told' = [told EXCEPT !.last[c.account] = @ \cup {c.role}]
    /\ UNCHANGED roleRows
DeleteUserRole(q) ==
    LET c == clerk[q] IN
    /\ c.step = "revoke"
    /\ clerk' = [clerk EXCEPT ![q] = NoClerk]
    /\ userRoles' = [userRoles EXCEPT ![c.account][c.role] = 0]
    /\ told' = [told EXCEPT !.last[c.account] = @ \ {c.role}]
    /\ UNCHANGED roleRows

RoleInit ==
    /\ roleRows \in {{"admin"}, RoleNames}
    /\ userRoles = [a \in Account |-> [r \in RoleNames |->
                       IF r = "admin" /\ a \in FirstAdmin THEN 1 ELSE 0]]
    /\ clerk = [q \in RoleRequest |-> NoClerk]
    /\ told = [last |-> [a \in Account |-> IF a \in FirstAdmin THEN {"admin"} ELSE {}],
               calls |-> 0]

RoleNext ==
    \/ \E by \in Account : InitializeRoles(by)
    \/ \E q \in RoleRequest :
          \/ InsertUserRole(q) \/ DeleteUserRole(q)
          \/ \E by, a \in Account, r \in RoleNames :
                BeginAssign(q, by, a, r) \/ BeginRevoke(q, by, a, r)

-----------------------------------------------------------------------------

\* The two gates agree whatever roles an account holds: who has one permission
\* of a route's list passes, an administrator always.  The lists must name
\* "admin:all" for that, since no administrator has another entry
\* (rbac-middleware.ts:53-79, config/rbac.ts:94-122).
GatesAgree ==
    \A a \in Account, list \in Requirements :
        Passes(a, list) <=> \E p \in list : requirePermission(a, p)

\* Requests that overlap leave one row of a role at most, and the roles an
\* account has are those it was last told of.
HeldAsTold ==
    \A a \in Account :
        RolesOf(a) = told.last[a] /\ \A r \in RoleNames : userRoles[a][r] <= 1

\* Roles are what the last answers said, and both gates read them alike (rbac-service.ts).
RolesAreSound == GatesAgree /\ HeldAsTold
=============================================================================
