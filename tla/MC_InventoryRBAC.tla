-------------------------- MODULE MC_InventoryRBAC --------------------------
(***************************************************************************)
(* Model-checking instance of InventoryRBAC: one organization owning one   *)
(* inventory, one team of that organization, three users of whom u3 is a  *)
(* super user and u2 a system auditor.                                     *)
(***************************************************************************)
EXTENDS InventoryRBAC

CONSTANTS u1, u2, u3, t1, o1, i1, r1, r2

MCUsers == {u1, u2, u3}
MCSuperUsers == {u3}
MCSystemAuditors == {u2}
MCInvOrg == [i \in {i1} |-> o1]
MCTeamOrg == [t \in {t1} |-> o1]
====
