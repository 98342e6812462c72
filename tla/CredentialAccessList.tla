------------------------- MODULE CredentialAccessList -------------------------
(***************************************************************************)
(* The credential access list handler, AccessList in                       *)
(* src/api/common/credentials/acl.go, against an organization document,    *)
(* a credential document and a user collection that sharing operations and *)
(* user removals change concurrently.                                      *)
(*                                                                         *)
(* A request is a process whose steps are the handler's store accesses in  *)
(* code order: the Middleware hands over the credential (loaded earlier),  *)
(* the organization is read, the two role arrays are folded into the map   *)
(* allaccess, and every key of the map is looked up in the user collection *)
(* in Go's map iteration order (any order). The map is declared and never  *)
(* made: it is modelled as a function whose domain is the set of keys that *)
(* hold a non-nil *AccessType, and an append through a key that does not   *)
(* is a nil pointer dereference, which panics (gin's recovery answers      *)
(* 500). Descriptions, links and JSON layout are left out; an entry is the *)
(* role it was built from. Pagination (util.NewPagination) is not under    *)
(* src/.                                                                   *)
(***************************************************************************)
EXTENDS Naturals, FiniteSets

CONSTANTS
    Users,     \* user ids
    Teams,     \* team ids (team-type grantees are skipped by the handler)
    Reqs,      \* concurrent AccessList requests
    MaxRoles   \* bound on the role entries of one document

VARIABLES
    orgRoles,   \* the roles array of the credential's organization
    credRoles,  \* the roles array of the credential
    users,      \* ids present in the users collection
    req         \* req[r]: state of AccessList request r

vars == <<orgRoles, credRoles, users, req>>

(***************************************************************************)
(* Role identifiers of package rbac (not under src/).                      *)
(***************************************************************************)
OrganizationAdmin == "admin"
OrganizationMember == "member"
OrganizationAuditor == "auditor"
CredentialAdmin == "admin"
CredentialUse == "use"
CredentialRead == "read"
InventoryUse == "use"

OrgRoleNames == {OrganizationAdmin, OrganizationMember, OrganizationAuditor}
CredRoleNames == {CredentialAdmin, CredentialUse, CredentialRead}

Grant(roleNames) ==
    [type : {"user"}, grantee : Users, role : roleNames]
    \cup [type : {"team"}, grantee : Teams, role : roleNames]

\* common.AccessType, reduced to the roles its entries were built from.
AccessType == [indirect : SUBSET OrgRoleNames, direct : SUBSET CredRoleNames]

Outcomes == {"none", "ok", "error", "panic"}

\* A request: its program counter, the credential the Middleware loaded
\* (cred), the organization it read (org), the map allaccess, the keys the
\* range has not reached yet (todo), the usrs slice, its outcome, and
\* whether one of its reads of the store failed (storeFailed).

\* var allaccess map[bson.ObjectId]*common.AccessType: a nil map, no keys.
NilMap == [k \in {} |-> [indirect |-> {}, direct |-> {}]]

IdleReq ==
    [pc |-> "idle", cred |-> {}, org |-> {}, allaccess |-> NilMap,
     todo |-> {}, usrs |-> {}, outcome |-> "none", storeFailed |-> FALSE]

TypeOK ==
    /\ orgRoles \subseteq Grant(OrgRoleNames)
    /\ credRoles \subseteq Grant(CredRoleNames)
    /\ users \subseteq Users
    /\ \A r \in Reqs :
        /\ req[r].pc \in {"idle", "org", "indirect", "direct", "users", "done"}
        /\ req[r].outcome \in Outcomes
        /\ DOMAIN req[r].allaccess \subseteq Users
        /\ req[r].usrs \subseteq DOMAIN req[r].allaccess

(***************************************************************************)
(* The two switches: which user-type entries produce an access entry.      *)
(***************************************************************************)
\* Organization roles, lines 36-103: admin, member and auditor.
IndirectEntries(org) ==
    {v \in org : v.type = "user" /\ v.role \in OrgRoleNames}

\* Credential roles, lines 107-155: only CredentialAdmin and InventoryUse.
DirectEntries(cred) ==
    {v \in cred : v.type = "user" /\ v.role \in {CredentialAdmin, InventoryUse}}

\* allaccess[v.GranteeID].F = append(allaccess[v.GranteeID].F, access) for
\* every entry v of es; a key without an entry yields a nil pointer.
NilDeref(m, es) == \E v \in es : v.grantee \notin DOMAIN m

AppendAll(m, es, f) ==
    [k \in DOMAIN m |->
        [m[k] EXCEPT ![f] = @ \cup {v.role : v \in {e \in es : e.grantee = k}}]]

Init ==
    /\ orgRoles = {}
    /\ credRoles = {}
    /\ users = Users
    /\ req = [r \in Reqs |-> IdleReq]

(***************************************************************************)
(* AccessList, one action per store access.                                *)
(***************************************************************************)
\* c.MustGet(CTXCredential): the credential the Middleware loaded.
Begin(r) ==
    /\ req[r].pc = "idle"
    /\ req' = [req EXCEPT ![r].pc = "org", ![r].cred = credRoles]
    /\ UNCHANGED <<orgRoles, credRoles, users>>

\* db.Organizations().FindId(credential.OrganizationID).One: on an error
\* the handler answers 500 and returns.
LoadOrg(r) ==
    /\ req[r].pc = "org"
    /\ \/ req' = [req EXCEPT ![r].pc = "done", ![r].outcome = "error",
                             ![r].storeFailed = TRUE]
       \/ req' = [req EXCEPT ![r].pc = "indirect", ![r].org = orgRoles]
    /\ UNCHANGED <<orgRoles, credRoles, users>>

\* The loop over organization.Roles (in memory).
IndirectAccess(r) ==
    LET q == req[r]
        es == IndirectEntries(q.org)
    IN /\ q.pc = "indirect"
       /\ req' = [req EXCEPT ![r] =
                    IF NilDeref(q.allaccess, es)
                    THEN [q EXCEPT !.pc = "done", !.outcome = "panic"]
                    ELSE [q EXCEPT !.pc = "direct",
                                   !.allaccess = AppendAll(q.allaccess, es, "indirect")]]
       /\ UNCHANGED <<orgRoles, credRoles, users>>

\* The loop over credential.Roles (in memory); the range over allaccess
\* starts with every key of the map.
DirectAccess(r) ==
    LET q == req[r]
        es == DirectEntries(q.cred)
        m == AppendAll(q.allaccess, es, "direct")
    IN /\ q.pc = "direct"
       /\ req' = [req EXCEPT ![r] =
                    IF NilDeref(q.allaccess, es)
                    THEN [q EXCEPT !.pc = "done", !.outcome = "panic"]
                    ELSE [q EXCEPT !.pc = "users", !.allaccess = m, !.todo = DOMAIN m]]
       /\ UNCHANGED <<orgRoles, credRoles, users>>

\* One iteration of the range: db.Users().FindId(k).One in map order (any
\* key); a failed read or a missing user answers 500 and returns.
LookupUser(r) ==
    LET q == req[r]
    IN /\ q.pc = "users"
       /\ \E k \in q.todo :
            \/ req' = [req EXCEPT ![r].pc = "done", ![r].outcome = "error",
                                  ![r].storeFailed = TRUE]
            \/ /\ k \in users
               /\ req' = [req EXCEPT ![r].todo = @ \ {k}, ![r].usrs = @ \cup {k}]
       /\ UNCHANGED <<orgRoles, credRoles, users>>

\* The range is over: the page of usrs is rendered with 200.
Respond(r) ==
    /\ req[r].pc = "users"
    /\ req[r].todo = {}
    /\ req' = [req EXCEPT ![r].pc = "done", ![r].outcome = "ok"]
    /\ UNCHANGED <<orgRoles, credRoles, users>>

AccessList(r) ==
    \/ Begin(r) \/ LoadOrg(r) \/ IndirectAccess(r) \/ DirectAccess(r)
    \/ LookupUser(r) \/ Respond(r)

(***************************************************************************)
(* The operations that change the documents the handler reads: sharing and *)
(* user removal (handlers outside src/, modelled from spec.md section 3).  *)
(***************************************************************************)
GrantOrgRole(e) ==
    /\ e \notin orgRoles
    /\ Cardinality(orgRoles) < MaxRoles
    /\ orgRoles' = orgRoles \cup {e}
    /\ UNCHANGED <<credRoles, users, req>>

RevokeOrgRole(e) ==
    /\ e \in orgRoles
    /\ orgRoles' = orgRoles \ {e}
    /\ UNCHANGED <<credRoles, users, req>>

GrantCredRole(g) ==
    /\ g \notin credRoles
    /\ Cardinality(credRoles) < MaxRoles
    /\ credRoles' = credRoles \cup {g}
    /\ UNCHANGED <<orgRoles, users, req>>

RevokeCredRole(g) ==
    /\ g \in credRoles
    /\ credRoles' = credRoles \ {g}
    /\ UNCHANGED <<orgRoles, users, req>>

RemoveUser(u) ==
    /\ u \in users
    /\ users' = users \ {u}
    /\ UNCHANGED <<orgRoles, credRoles, req>>

Sharing ==
    \/ \E e \in Grant(OrgRoleNames) : GrantOrgRole(e) \/ RevokeOrgRole(e)
    \/ \E g \in Grant(CredRoleNames) : GrantCredRole(g) \/ RevokeCredRole(g)
    \/ \E u \in Users : RemoveUser(u)

Next == (\E r \in Reqs : AccessList(r)) \/ Sharing

SpecCredentialAccessList == Init /\ [][Next]_vars

(***************************************************************************)
(* Properties                                                              *)
(***************************************************************************)
\* spec.md sections 4.4 and 7: the access list is all-or-nothing and fails
\* only when a read of the store fails (the organization, or a user lookup);
\* AccessList must not fail on documents it has read successfully, such as
\* an organization with a user-type admin.
FailsOnlyOnStoreError ==
    \A r \in Reqs : req[r].outcome \in {"error", "panic"} => req[r].storeFailed

====
