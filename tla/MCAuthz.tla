------------------------------ MODULE MCAuthz ------------------------------
EXTENDS Authz, TLC

CONSTANTS k1, sub, path, admin, viewer

(* Two tokens of one subject with different roles, for one path.           *)
MCSub      == [k \in Keys |-> sub]
MCRoles    == [k \in Keys |-> IF k = k1 THEN {admin} ELSE {viewer}]
MCPolicies == {<<admin, path>>}
MCPath     == [k \in Keys |-> path]

MCSymmetry == Permutations(Requests)
=============================================================================
