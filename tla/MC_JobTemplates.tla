---------------------------- MODULE MC_JobTemplates ----------------------------
\* Model values for JobTemplates: one stored template, room for one more.
EXTENDS JobTemplates

CONSTANTS j1, j2, j3, a, b, p1, p2, v1, v2, c1, c2, r1, r2

MCIds == {j1, j2, j3}
MCNames == {a, b}
MCProjects == {p1, p2}
MCVals == {v1, v2}
MCCreds == {c1, c2}
MCReqs == {r1, r2}
\* Template j1, named a in project p1, prompting for its credential.
MCInitTemplates ==
    j1 :> [name |-> [base |-> a, padded |-> FALSE], project |-> p1, vars |-> v1,
           cred |-> c1, promptCred |-> TRUE]
\* Project p1 updates its SCM checkout on launch, p2 does not.
MCScmUpdateOnLaunch == (p1 :> TRUE) @@ (p2 :> FALSE)
====
