\* The grant store alone (no evaluation request), at most two role entries
\* per document: the property compares the evaluator with spec.md.
CONSTANTS
    u1 = u1
    u2 = u2
    u3 = u3
    t1 = t1
    o1 = o1
    i1 = i1
    r1 = r1
    r2 = r2
    Users <- MCUsers
    SuperUsers <- MCSuperUsers
    SystemAuditors <- MCSystemAuditors
    Teams = {t1}
    Orgs = {o1}
    Inventories = {i1}
    InvOrg <- MCInvOrg
    TeamOrg <- MCTeamOrg
    Reqs = {}
    MaxRoles = 2
INIT Init
NEXT Next
INVARIANT
    TeamGrantsReachMembers
