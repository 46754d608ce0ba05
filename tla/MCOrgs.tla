------------------------------- MODULE MCOrgs -------------------------------
(* Model-checking instance of Orgs: three accounts, and the memberships a team
   may have when the run starts. *)
EXTENDS Orgs

CONSTANTS u1, u2, u3

Of(a, b, c) == [u \in Users |-> CASE u = u1 -> a [] u = u2 -> b [] u = u3 -> c]
OwnerAndAdmin == [role |-> Of("owner", "admin", NotMember), joined |-> Of(-3, -2, 0)]
LateAdmin == [role |-> Of("owner", "member", "admin"), joined |-> Of(-3, -2, -1)]
MCStarts == {Nobody, OwnerAndAdmin, LateAdmin}
=============================================================================
