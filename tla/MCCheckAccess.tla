--------------------------- MODULE MCCheckAccess ---------------------------
(* Policies of each effect that ask for a relationship, a permission or a   *)
(* clearance: what each of the mutations changes.                           *)
EXTENDS CheckAccess

MCWildcard(type) == "employee.*"

Allow == Unconditional("ALLOW", "view", "employee")
Deny  == Unconditional("DENY", "view", "employee")

MCPolicyPool ==
  {[Allow EXCEPT !.relationships = {"ANCESTOR", "NONE"}],
   [Deny EXCEPT !.minClearance = 2],
   [Deny EXCEPT !.requirePermission = "yes"],
   [Deny EXCEPT !.relationships = {"SIBLING", "DIRECT_MANAGER"}]}

MCInitialPolicies == {<< >>} \cup {<<p>> : p \in MCPolicyPool}
=============================================================================
