-------------------------- MODULE MCPolicyChanges --------------------------
(* PolicyChanges with policies of the shapes of tenant-policies.fixture.ts  *)
(* and the clauses the fixture does not use.                                *)
EXTENDS PolicyChanges

MCWildcard(type) == IF type = "employee" THEN "employee.*" ELSE "payroll.*"

Allow == Unconditional("ALLOW", "view", "employee")
Deny  == Unconditional("DENY", "view", "employee")

MCPolicyPool ==
  {[Allow EXCEPT !.relationships = {"SELF", "DIRECT_MANAGER", "ANCESTOR"},
                 !.maxSensitivity = 2, !.requirePermission = "yes"],
   [Allow EXCEPT !.departments = {"finance"}, !.requirePermission = "yes"],
   [Allow EXCEPT !.requirePermission = "no", !.minClearance = 1,
                 !.maxSensitivity = 1, !.action = Star],
   [Deny EXCEPT !.relationships = {"SIBLING", "NONE"}],
   [Deny EXCEPT !.minClearance = 2],
   [Deny EXCEPT !.maxSensitivity = 1, !.departments = {"finance"}],
   [Deny EXCEPT !.requirePermission = "yes", !.resourceType = Star],
   [Deny EXCEPT !.enabled = FALSE],
   [Deny EXCEPT !.action = "edit"]}
=============================================================================
