\* Two concurrent requests of any handler over one stored template.
\* The system stops when both requests have answered.
CONSTANTS
    j1 = j1
    j2 = j2
    j3 = j3
    a = a
    b = b
    p1 = p1
    p2 = p2
    v1 = v1
    v2 = v2
    c1 = c1
    c2 = c2
    r1 = r1
    r2 = r2
    Ids <- MCIds
    Names <- MCNames
    Projects <- MCProjects
    Vals <- MCVals
    Creds <- MCCreds
    Reqs <- MCReqs
    InitTemplates <- MCInitTemplates
    ScmUpdateOnLaunch <- MCScmUpdateOnLaunch
INIT Init
NEXT Next
INVARIANTS TypeOK
PROPERTIES ImplementsStore
CHECK_DEADLOCK FALSE
