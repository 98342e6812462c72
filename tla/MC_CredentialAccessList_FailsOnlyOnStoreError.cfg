\* One AccessList request against an organization and a credential with at
\* most one role entry each, while roles are granted and users removed.
CONSTANTS
    u1 = u1
    u2 = u2
    t1 = t1
    r1 = r1
    Users <- MCUsers
    Teams <- MCTeams
    Reqs <- MCReqs
    MaxRoles = 1
INIT Init
NEXT Next
INVARIANT FailsOnlyOnStoreError
