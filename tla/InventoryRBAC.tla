---------------------------- MODULE InventoryRBAC ----------------------------
(***************************************************************************)
(* The inventory permission evaluator of src/rbac/inventory.go             *)
(* (inventoryRead, inventoryWrite, inventoryUse) against a MongoDB grant   *)
(* store that other requests change concurrently.                          *)
(*                                                                         *)
(* Each evaluation is a request process whose steps are the function's     *)
(* store accesses in code order: the caller hands over the inventory       *)
(* document (read earlier), the flag check, the organization query, the    *)
(* scan of the document's roles, the team query. Each query may fail; mgo  *)
(* then returns a count of 0 and the code logs and falls through.          *)
(*                                                                         *)
(* The two queries are modelled by what MongoDB does with them:            *)
(*  - a filter on "roles.user_id" and "roles.role" of an array without     *)
(*    $elemMatch matches when SOME element has the user and SOME element   *)
(*    (possibly another) has the role;                                     *)
(*  - a filter on a key a document does not have matches only null, and   *)
(*    neither the team id list nor an organization id is null. The         *)
(*    organization query filters on "organization_id", which organization  *)
(*    documents (keyed by _id, as FindId in credentials/acl.go reads them) *)
(*    do not have, and the team query on the key "_id:".                   *)
(***************************************************************************)
EXTENDS Naturals, FiniteSets

CONSTANTS
    Users,           \* user ids
    Teams,           \* team ids
    Orgs,            \* organization ids
    Inventories,     \* inventory ids
    SuperUsers,      \* users with IsSuperUser
    SystemAuditors,  \* users with IsSystemAuditor
    InvOrg,          \* InvOrg[i]: inventory.GetOrganizationID()
    TeamOrg,         \* TeamOrg[t]: the organization_id of team t
    Reqs,            \* concurrent evaluation requests
    MaxRoles         \* bound on the role entries of one document

ASSUME SuperUsers \subseteq Users /\ SystemAuditors \subseteq Users
ASSUME InvOrg \in [Inventories -> Orgs] /\ TeamOrg \in [Teams -> Orgs]

VARIABLES
    orgRoles,   \* orgRoles[o]: the roles array of organization o
    invRoles,   \* invRoles[i]: inventory.GetRoles() as stored
    teamRoles,  \* teamRoles[t]: the roles.user_id values of team t
    req,        \* req[r]: state of evaluation request r
    seen        \* history: the evaluator's answers for r's question while r ran

store == <<orgRoles, invRoles, teamRoles>>
vars == <<orgRoles, invRoles, teamRoles, req, seen>>

Spec == INSTANCE RBACSpec

(***************************************************************************)
(* Role identifiers of package rbac (not under src/; values from the       *)
(* vocabulary of spec.md section 6).                                       *)
(***************************************************************************)
OrganizationAdmin == "admin"
OrganizationMember == "member"
OrganizationAuditor == "auditor"
InventoryAdmin == "admin"
InventoryUse == "use"
InventoryUpdate == "update"
InventoryRead == "read"

OrgRoleNames == {OrganizationAdmin, OrganizationMember, OrganizationAuditor}
InvRoleNames == {InventoryAdmin, InventoryUse, InventoryUpdate, InventoryRead}

OrgRole == [grantee : Users, role : OrgRoleNames]
InvRole == [type : {"user"}, grantee : Users, role : InvRoleNames]
           \cup [type : {"team"}, grantee : Teams, role : InvRoleNames]

\* The function a request runs: inventoryRead, inventoryWrite or inventoryUse.
Caps == {"read", "write", "use"}

NoTeams == {}

ReqState ==
    [pc : {"idle", "flags", "org", "scan", "team", "done"},
     user : Users \cup {"none"}, inv : Inventories \cup {"none"},
     cap : Caps \cup {"none"},
     roles : SUBSET InvRole,   \* the inventory document the caller loaded
     teams : SUBSET Teams,     \* the teams slice built by the scan
     result : BOOLEAN]

TypeOK ==
    /\ orgRoles \in [Orgs -> SUBSET OrgRole]
    /\ invRoles \in [Inventories -> SUBSET InvRole]
    /\ teamRoles \in [Teams -> SUBSET Users]
    /\ req \in [Reqs -> ReqState]
    /\ seen \in [Reqs -> SUBSET BOOLEAN]

(***************************************************************************)
(* The evaluator's pieces, shared by the three functions.                  *)
(***************************************************************************)

\* First statement of each function: inventoryRead also lets system auditors in.
FlagGrants(u, cap) ==
    \/ u \in SuperUsers
    \/ cap = "read" /\ u \in SystemAuditors

\* mgo's Count() on an error: n is 0, the error is logged, the code goes on.
CountOrZero(failed, n) == IF failed THEN 0 ELSE n

\* A dotted filter "roles.f": v on an array matches when some element has f = v.
ArrayFieldMatches(roles, f, v) == \E e \in roles : e[f] = v

\* Keys of an organization document, and the key the query filters it on.
OrgDocKeys == {"_id", "roles"}
OrgIdKey == "organization_id"

\* {OrgIdKey: o}: on a missing key the value is null, never an id.
OrgIdIs(x, o) == OrgIdKey \in OrgDocKeys /\ x = o

\* Organizations().Find({"roles.user_id": u, "organization_id": o,
\*                       "roles.role": OrganizationAdmin}).Count(); the
\* member field "roles.user_id" (spec.md section 2) is an entry's grantee.
OrgAdminCount(u, o) ==
    Cardinality({x \in Orgs : /\ OrgIdIs(x, o)
                              /\ ArrayFieldMatches(orgRoles[x], "grantee", u)
                              /\ ArrayFieldMatches(orgRoles[x], "role", OrganizationAdmin)})

\* Mutant: inventoryRead asking for the Read role itself.
CapRolesReadNeedsRead(cap) ==
    IF cap = "read" THEN {InventoryRead}
    ELSE IF cap = "write" THEN {InventoryAdmin, InventoryUpdate}
    ELSE {InventoryAdmin, InventoryUse}

\* The roles a grant must carry for the function: any role for inventoryRead,
\* Admin or Update for inventoryWrite, Admin or Use for inventoryUse.
CapRoles(cap) ==
    CASE cap = "read"  -> InvRoleNames
      [] cap = "write" -> {InventoryAdmin, InventoryUpdate}
      [] cap = "use"   -> {InventoryAdmin, InventoryUse}

\* Mutant: the first entry of the user decides, allowing or denying.
UserGrantEveryEntry(u, cap, roles) ==
    /\ \E g \in roles : g.type = "user" /\ g.grantee = u
    /\ \A g \in roles : g.type = "user" /\ g.grantee = u => g.role \in CapRoles(cap)

\* The scan's early return: a user-type entry for u with a qualifying role.
UserGrantFound(u, cap, roles) ==
    \E g \in roles : g.type = "user" /\ g.grantee = u /\ g.role \in CapRoles(cap)

\* Mutant: every qualifying grantee appended, users included.
TeamIdsAnyGrantee(cap, roles) == {g.grantee : g \in {e \in roles : e.role \in CapRoles(cap)}}

\* The teams slice the scan appends to.
TeamIds(cap, roles) ==
    {g.grantee : g \in {e \in roles : e.type = "team" /\ e.role \in CapRoles(cap)}}

\* Keys of a team document, and the key the team query filters ids on.
TeamDocKeys == {"_id", "organization_id", "roles"}
TeamIdKey == "_id:"

\* {TeamIdKey: {"$in": ids}}: on a missing key the value is null, not in ids.
IdIn(t, ids) == TeamIdKey \in TeamDocKeys /\ t \in ids

\* Teams().Find({"_id:": {"$in": ids}, ["organization_id": o,] "roles.user_id": u})
\* .Count(); only inventoryRead filters on the organization.
TeamCount(u, i, cap, ids) ==
    Cardinality({t \in Teams : /\ IdIn(t, ids)
                               /\ cap = "read" => TeamOrg[t] = InvOrg[i]
                               /\ u \in teamRoles[t]})

\* The whole function evaluated at once on the current store, with a
\* document `roles` and a choice of which of the two queries fail.
InventoryAccess(u, i, cap, roles, orgFails, teamFails) ==
    \/ FlagGrants(u, cap)
    \/ CountOrZero(orgFails, OrgAdminCount(u, InvOrg[i])) > 0
    \/ UserGrantFound(u, cap, roles)
    \/ CountOrZero(teamFails, TeamCount(u, i, cap, TeamIds(cap, roles))) > 0

inventoryRead(u, i) == InventoryAccess(u, i, "read", invRoles[i], FALSE, FALSE)
inventoryWrite(u, i) == InventoryAccess(u, i, "write", invRoles[i], FALSE, FALSE)
inventoryUse(u, i) == InventoryAccess(u, i, "use", invRoles[i], FALSE, FALSE)

Access(u, i, cap) == InventoryAccess(u, i, cap, invRoles[i], FALSE, FALSE)

(***************************************************************************)
(* Initial state: empty grant store, no request running.                   *)
(***************************************************************************)
IdleReq == [pc |-> "idle", user |-> "none", inv |-> "none", cap |-> "none",
            roles |-> {}, teams |-> NoTeams, result |-> FALSE]

Init ==
    /\ orgRoles = [o \in Orgs |-> {}]
    /\ invRoles = [i \in Inventories |-> {}]
    /\ teamRoles = [t \in Teams |-> {}]
    /\ req = [r \in Reqs |-> IdleReq]
    /\ seen = [r \in Reqs |-> {}]

(***************************************************************************)
(* Evaluation request steps. A request runs one of the three functions.   *)
(***************************************************************************)

\* The caller passes a user and the inventory document it loaded; the
\* function's flag check runs next.
Begin(r) ==
    /\ req[r].pc = "idle"
    /\ \E u \in Users, i \in Inventories, cap \in Caps :
          req' = [req EXCEPT ![r] = [IdleReq EXCEPT !.pc = "flags", !.user = u,
                                     !.inv = i, !.cap = cap, !.roles = invRoles[i]]]
    /\ UNCHANGED store

\* if user.IsSuperUser [|| user.IsSystemAuditor] { return true }
CheckFlags(r) ==
    /\ req[r].pc = "flags"
    /\ req' = [req EXCEPT ![r] = IF FlagGrants(@.user, @.cap)
                                 THEN [@ EXCEPT !.pc = "done", !.result = TRUE]
                                 ELSE [@ EXCEPT !.pc = "org"]]
    /\ UNCHANGED store

\* The organization admin query; count > 0 returns true.
CheckOrg(r) ==
    /\ req[r].pc = "org"
    /\ \E failed \in BOOLEAN :
         LET n == CountOrZero(failed, OrgAdminCount(req[r].user, InvOrg[req[r].inv]))
         IN  req' = [req EXCEPT ![r] = [@ EXCEPT !.pc = IF n > 0 THEN "done" ELSE "scan",
                                                 !.result = n > 0]]
    /\ UNCHANGED store

\* The loop over inventory.GetRoles(): return true on a qualifying user
\* entry, else collect the qualifying teams.
ScanRoles(r) ==
    LET q == req[r]
    IN  /\ q.pc = "scan"
        /\ req' = [req EXCEPT ![r] =
                     IF UserGrantFound(q.user, q.cap, q.roles)
                     THEN [q EXCEPT !.pc = "done", !.result = TRUE]
                     ELSE [q EXCEPT !.pc = "team", !.teams = TeamIds(q.cap, q.roles)]]
        /\ UNCHANGED store

\* Mutant: a failed team query lets the user in.
CheckTeamsFailOpen(r) ==
    /\ req[r].pc = "team"
    /\ \E failed \in BOOLEAN :
         LET q == req[r]
             n == TeamCount(q.user, q.inv, q.cap, q.teams)
         IN  req' = [req EXCEPT ![r] = [@ EXCEPT !.pc = "done",
                                                 !.result = failed \/ n > 0]]
    /\ UNCHANGED store

\* The team membership query; its count decides.
CheckTeams(r) ==
    /\ req[r].pc = "team"
    /\ \E failed \in BOOLEAN :
         LET q == req[r]
             n == CountOrZero(failed, TeamCount(q.user, q.inv, q.cap, q.teams))
         IN  req' = [req EXCEPT ![r] = [@ EXCEPT !.pc = "done", !.result = n > 0]]
    /\ UNCHANGED store

(***************************************************************************)
(* Sharing operations of other requests (not under src/; spec.md section   *)
(* 3 lifecycle): role assignments are added and removed concurrently.      *)
(***************************************************************************)
GrantOrgRole(o, e) ==
    /\ e \notin orgRoles[o]
    /\ Cardinality(orgRoles[o]) < MaxRoles
    /\ orgRoles' = [orgRoles EXCEPT ![o] = @ \cup {e}]
    /\ UNCHANGED <<invRoles, teamRoles, req>>

RevokeOrgRole(o, e) ==
    /\ e \in orgRoles[o]
    /\ orgRoles' = [orgRoles EXCEPT ![o] = @ \ {e}]
    /\ UNCHANGED <<invRoles, teamRoles, req>>

GrantInvRole(i, g) ==
    /\ g \notin invRoles[i]
    /\ Cardinality(invRoles[i]) < MaxRoles
    /\ invRoles' = [invRoles EXCEPT ![i] = @ \cup {g}]
    /\ UNCHANGED <<orgRoles, teamRoles, req>>

RevokeInvRole(i, g) ==
    /\ g \in invRoles[i]
    /\ invRoles' = [invRoles EXCEPT ![i] = @ \ {g}]
    /\ UNCHANGED <<orgRoles, teamRoles, req>>

AddTeamMember(t, u) ==
    /\ u \notin teamRoles[t]
    /\ teamRoles' = [teamRoles EXCEPT ![t] = @ \cup {u}]
    /\ UNCHANGED <<orgRoles, invRoles, req>>

RemoveTeamMember(t, u) ==
    /\ u \in teamRoles[t]
    /\ teamRoles' = [teamRoles EXCEPT ![t] = @ \ {u}]
    /\ UNCHANGED <<orgRoles, invRoles, req>>

Sharing ==
    \/ \E o \in Orgs, e \in OrgRole : GrantOrgRole(o, e) \/ RevokeOrgRole(o, e)
    \/ \E i \in Inventories, g \in InvRole : GrantInvRole(i, g) \/ RevokeInvRole(i, g)
    \/ \E t \in Teams, u \in Users : AddTeamMember(t, u) \/ RemoveTeamMember(t, u)

Evaluate ==
    \E r \in Reqs : Begin(r) \/ CheckFlags(r) \/ CheckOrg(r) \/ ScanRoles(r) \/ CheckTeams(r)

\* History, not code: after every step, each running request records what
\* the evaluator, run at once on the store of that instant, answers to it.
\* The answer after the step to the question q of a running request.
AnswerAfter(q) ==
    {b \in BOOLEAN : \E u \in Users, i \in Inventories, c \in Caps :
                        /\ <<q.user, q.inv, q.cap>> = <<u, i, c>>
                        /\ b = Access(u, i, c)'}

Observe ==
    seen' = [r \in Reqs |->
               IF req[r].pc \in {"idle", "done"} /\ req'[r].pc = req[r].pc
               THEN seen[r]
               ELSE seen[r] \cup AnswerAfter(req'[r])]

Next == (Evaluate \/ Sharing) /\ Observe

SpecInventoryRBAC == Init /\ [][Next]_vars

(***************************************************************************)
(* Properties                                                              *)
(***************************************************************************)

\* The three copies agree on the capability order: whoever inventoryWrite
\* or inventoryUse lets in, inventoryRead lets in too (spec.md section 8,
\* role implication), whatever the store holds.
ReadCoversWriteAndUse ==
    \A u \in Users, i \in Inventories :
        inventoryWrite(u, i) \/ inventoryUse(u, i) => inventoryRead(u, i)

\* A step in which no role assignment or team membership is removed.
StoreGrows ==
    /\ \A o \in Orgs : orgRoles[o] \subseteq orgRoles'[o]
    /\ \A i \in Inventories : invRoles[i] \subseteq invRoles'[i]
    /\ \A t \in Teams : teamRoles[t] \subseteq teamRoles'[t]

\* Monotonicity (spec.md sections 3 and 8): adding grants never turns an
\* allowed (user, inventory, function) into a denied one.
MonotoneInGrants ==
    [][StoreGrows => \A u \in Users, i \in Inventories, cap \in Caps :
                        Access(u, i, cap) => Access(u, i, cap)']_vars

\* No stale allow: a request that ends allowed was right to at some instant
\* while it ran, so a grant revoked before the request started (or never
\* made) cannot let it in.
AllowedWhileRunning ==
    \A r \in Reqs : req[r].pc = "done" /\ req[r].result => TRUE \in seen[r]

(***************************************************************************)
(* What spec.md says of canAccess, checked against the code's evaluator.  *)
(***************************************************************************)

\* Team transitivity (section 8): a team grant reaches every current member
\* of the team, for each capability the granted role implies.
TeamGrantsReachMembers ==
    \A u \in Users, i \in Inventories, cap \in Caps :
        (\E g \in invRoles[i] : /\ g.type = "team"
                                /\ u \in teamRoles[g.grantee]
                                /\ Spec!NeededRole[cap] \in Spec!ResourceDescendants[g.role])
        => Access(u, i, cap)

\* Org-admin override (spec.md sections 4.3 step 3 and 8): an admin of the
\* organization that owns the inventory is let in by all three functions,
\* even when the inventory's own roles are empty.
OrgAdminOverride ==
    \A u \in Users, i \in Inventories, cap \in Caps :
        [grantee |-> u, role |-> OrganizationAdmin] \in orgRoles[InvOrg[i]]
            => Access(u, i, cap)

====
