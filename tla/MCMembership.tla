----------------------------- MODULE MCMembership -----------------------------
(* Membership for TLC: an administrator from the settings, a newcomer       *)
(* whose directory group names qa, the built-in administrator role and one  *)
(* role of the team's own (qa).                                             *)
EXTENDS Membership

CONSTANTS boss, ann, admin, qa, members, users, write

MCBuiltIn    == [x \in {admin} |-> {members, users, write}]
MCGroupRoles == [u \in Users |-> IF u = ann THEN {qa} ELSE {}]
MCDrafts     == [x \in RoleIds |-> IF x = admin THEN {{members}} ELSE {{write}}]
MCTokenKinds == {[user |-> boss, cap |-> qa, projects |-> None]}
===============================================================================
