------------------------ MODULE MC_CredentialAccessList ------------------------
\* Model values for CredentialAccessList: two users, one team.
EXTENDS CredentialAccessList

CONSTANTS u1, u2, t1, r1

MCUsers == {u1, u2}
MCTeams == {t1}
MCReqs == {r1}
====
