------------------------------ MODULE RBACSpec ------------------------------
(***************************************************************************)
(* What the permission evaluator promises (spec.md sections 3, 4.1, 4.3):  *)
(* the generalized canAccess over the role catalog and the grant store.    *)
(* This module is the abstract specification the evaluator of              *)
(* src/rbac/inventory.go is compared with; it models no line of code.      *)
(* The grant store is passed in as arguments, in the shape InventoryRBAC   *)
(* keeps it:                                                               *)
(*   orgR[o]  set of [grantee |-> user, role |-> organization role]        *)
(*   invR[i]  set of [type |-> "user"|"team", grantee, role]               *)
(*   teamR[t] set of users who are members of team t                       *)
(***************************************************************************)
CONSTANTS
    Users,           \* user ids
    SuperUsers,      \* users with is_super_user
    SystemAuditors,  \* users with is_system_auditor
    InvOrg           \* InvOrg[i]: the organization owning resource i

\* Capabilities a caller may request.
Capabilities == {"read", "use", "write"}

\* Role catalog, section 4.1: the implied (descendant) roles of every role.
OrgDescendants ==
    [admin |-> {"admin", "use", "read"},
     member |-> {"read", "use"},
     auditor |-> {"read"}]

ResourceDescendants ==
    [admin |-> {"admin", "use", "read"},
     update |-> {"use", "read"},
     use |-> {"use", "read"},
     read |-> {"read"}]

\* The descendant a role must include to grant a capability; Write is the
\* admin-equivalent capability (section 4.3).
NeededRole == [read |-> "read", use |-> "use", write |-> "admin"]

\* Section 4.3 step 3: the organization-level check. OrgAdmin grants every
\* capability; for Read, Member and Auditor grant too.
OrgGrants(u, i, cap, orgR) ==
    \/ [grantee |-> u, role |-> "admin"] \in orgR[InvOrg[i]]
    \/ /\ cap = "read"
       /\ \E r \in {"member", "auditor"} : [grantee |-> u, role |-> r] \in orgR[InvOrg[i]]

\* Section 4.3 steps 4 and 5: a direct grant to u, or a grant to a team u is
\* a member of, whose descendants include the requested capability.
ResourceGrants(u, i, cap, invR, teamR) ==
    \E g \in invR[i] :
        /\ NeededRole[cap] \in ResourceDescendants[g.role]
        /\ \/ g.type = "user" /\ g.grantee = u
           \/ g.type = "team" /\ u \in teamR[g.grantee]

\* canAccess(user, resource, capability), section 4.3 steps 1 to 6.
CanAccess(u, i, cap, orgR, invR, teamR) ==
    \/ u \in SuperUsers
    \/ cap = "read" /\ u \in SystemAuditors
    \/ OrgGrants(u, i, cap, orgR)
    \/ ResourceGrants(u, i, cap, invR, teamR)

=============================================================================
