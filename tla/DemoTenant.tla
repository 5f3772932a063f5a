----------------------------- MODULE DemoTenant -----------------------------
(***************************************************************************)
(* Tenant A as the seed writes it, and what checkAccess decides over the    *)
(* rows that are there at any point of a seeding, interrupted or complete.  *)
(* The rows are those of Seed, the relationship is the query of             *)
(* ClosureTable, the decision that of PolicyEngine.                         *)
(***************************************************************************)
EXTENDS Seed, PolicyEngine

Demo == Tenants[1]

(* The owners of the fixture's resources are among the users it creates.    *)
ASSUME DemoAssumption == {"employee-a", "employee-b"} \subseteq Staff[Demo]

(* The chart of seedTenantA, as far as the scenarios name it: nobody but    *)
(* the CEO is without a manager, and no user belongs to both tenants.       *)
ASSUME DemoChartAssumption ==
  /\ {"ceo-a", "director-a", "manager-a", "manager-b", "finance-admin-a",
      "hr-admin-a"} \subseteq Staff[Demo]
  /\ Manager[Demo]["employee-a"] = "manager-a"
  /\ Manager[Demo]["employee-b"] = "manager-b"
  /\ Manager[Demo]["manager-a"] = "director-a"
  /\ Manager[Demo]["manager-b"] = "director-a"
  /\ \A u \in Staff[Demo] : Manager[Demo][u] = NoUser => u = "ceo-a"
  /\ Staff[Demo] \cap Staff[Tenants[2]] = {}

(* seedTenantA.  The CEO has no department; no policy of the fixture looks  *)
(* at the location.                                                         *)
UserRow(department, clearance, roles) ==
  [department |-> department, clearance |-> clearance, roles |-> roles]

UserRows ==
  [u \in Staff[Demo] |->
     CASE u = "ceo-a"           -> UserRow("none", 4, {"Admin", "Executive"})
       [] u = "director-a"      -> UserRow("eng", 3, {"Director"})
       [] u \in {"manager-a", "manager-b"}   -> UserRow("eng", 2, {"Manager"})
       [] u \in {"employee-a", "employee-b"} -> UserRow("eng", 1, {"Employee"})
       [] u = "finance-admin-a" -> UserRow("fin", 2, {"Finance"})
       [] u = "hr-admin-a"      -> UserRow("hr", 2, {"HR"})]

Performance == "employee.performance.view"
Salary      == "employee.salary.view"
Payroll     == "payroll.view"
Expense     == "expense.approve"

Grants(role) ==
  CASE role = "Admin"                    -> {Star}
    [] role = "Executive"                -> {Performance, Salary, Payroll, Expense}
    [] role \in {"Director", "Manager"}  -> {Performance, Salary}
    [] role = "Finance"                  -> {Expense}
    [] role = "HR"                       -> {Payroll}
    [] role = "Employee"                 -> {}

ResourceRow(type, id, owner, sensitivity) ==
  [type |-> type, id |-> id, owner |-> owner, sensitivity |-> sensitivity]

ResourceRows ==
  {ResourceRow("employee", "employee-a", "employee-a", 2),
   ResourceRow("employee", "employee-b", "employee-b", 2),
   ResourceRow("payroll", "payroll-june", NoUser, 2),
   ResourceRow("expense", "expense-1", NoUser, 1)}

(* tenantPolicies. *)
Employees(effect, action, related) ==
  [Unconditional(effect, action, "employee") EXCEPT !.relationships = related]

Ceiling(p) == [p EXCEPT !.maxSensitivity = 2, !.requirePermission = "yes"]

(* Fault: the payroll policy names no department. *)
TenantPoliciesAnyDepartment ==
  {Ceiling(Employees("ALLOW", action, {"SELF", "DIRECT_MANAGER", "ANCESTOR"})) :
     action \in {Performance, Salary}}
  \cup {Employees("DENY", Salary, {"SIBLING", "NONE"}),
        Ceiling(Unconditional("ALLOW", Payroll, "payroll")),
        [Unconditional("ALLOW", Expense, "expense")
           EXCEPT !.departments = {"fin"}, !.requirePermission = "yes"]}

TenantPolicies ==
  {Ceiling(Employees("ALLOW", action, {"SELF", "DIRECT_MANAGER", "ANCESTOR"})) :
     action \in {Performance, Salary}}
  \cup {Employees("DENY", Salary, {"SIBLING", "NONE"}),
        Ceiling([Unconditional("ALLOW", Payroll, "payroll")
                   EXCEPT !.departments = {"hr"}]),
        [Unconditional("ALLOW", Expense, "expense")
           EXCEPT !.departments = {"fin"}, !.requirePermission = "yes"]}

-----------------------------------------------------------------------------
(* The pipeline over a set of tables that hold their rows.                  *)

Request(subject, action, type, id) ==
  [subject |-> subject, action |-> action, type |-> type, id |-> id]

(* resource.repository.ts: the row, or for an employee the user's own row.  *)
Resolve(have, type, id) ==
  LET found == {r \in ResourceRows :
                  "Resource" \in have /\ r.type = type /\ r.id = id}
  IN  IF found # {} THEN found
      ELSE {ResourceRow(type, id, u, 2) :
              u \in {v \in Staff[Demo] :
                       v = id /\ type = "employee" /\ "User" \in have}}

PermissionNames(have, subject) ==
  IF {"RolePermission", "UserRole"} \subseteq have
  THEN UNION {Grants(role) : role \in UserRows[subject].roles} ELSE {}

(* NONE for a resource without an owner, else the closure table's answer.   *)
ResolveRelationship(have, subject, owner) ==
  IF owner = NoUser THEN {"NONE"}
  ELSE GetRelationship(IF "Closure" \in have THEN ClosureRows[Demo]
                       ELSE EmptyTable, subject, owner)

(* runPipeline for an active tenant and its active staff. *)
Decide(have, rq) ==
  IF ~ {"Tenant", "User"} \subseteq have \/ rq.subject \notin Staff[Demo]
     \/ Resolve(have, rq.type, rq.id) = {}
  THEN {"DENY"}
  ELSE LET user == UserRows[rq.subject]
           resource == CHOOSE r \in Resolve(have, rq.type, rq.id) : TRUE
           ContextOf(relationship) ==
             [department |-> user.department, location |-> "",
              employmentStatus |-> "ACTIVE", clearance |-> user.clearance,
              sensitivity |-> resource.sensitivity,
              relationship |-> relationship,
              hasRbacPermission |->
                HasRbacPermission(PermissionNames(have, rq.subject),
                                  rq.action, rq.type)]
           policies == FindApplicable(IF "Policy" \in have THEN TenantPolicies
                                      ELSE {}, rq.action, rq.type)
       IN  {Evaluate(policies, ContextOf(relationship)) :
              relationship \in ResolveRelationship(have, rq.subject,
                                                   resource.owner)}

-----------------------------------------------------------------------------
AllTables == {TablesOf(Demo)[i] : i \in DOMAIN TablesOf(Demo)}

Views(subjects, actions, owners) ==
  {Request(s, a, "employee", o) : s \in subjects, a \in actions, o \in owners}

(* The table "Acceptance Scenarios" of the README; the last request has the *)
(* permission of scenario 6 without its department.                         *)
Allowed ==
  Views({"manager-a", "director-a"}, {Performance}, {"employee-a"})
  \cup Views({"ceo-a"}, {Performance, Salary}, Staff[Demo])
  \cup {Request("hr-admin-a", Payroll, "payroll", "payroll-june"),
        Request("finance-admin-a", Expense, "expense", "expense-1")}

Denied ==
  Views({"manager-a"}, {Performance}, {"employee-b"})
  \cup Views(Staff[Demo], {Performance, Salary}, Staff[Tenants[2]])
  \cup Views({"employee-a"}, {Salary}, {"employee-b"})
  \cup {Request("employee-a", Payroll, "payroll", "payroll-june"),
        Request("ceo-a", Payroll, "payroll", "payroll-june")}

(* Every request about the demo's subjects and resources, and those a fully *)
(* seeded tenant allows.                                                    *)
Requests ==
  Views(Staff[Demo], {Performance, Salary}, Users)
  \cup {Request(s, Payroll, "payroll", "payroll-june") : s \in Staff[Demo]}
  \cup {Request(s, Expense, "expense", "expense-1") : s \in Staff[Demo]}

Intended == {rq \in Requests : Decide(AllTables, rq) = {"ALLOW"}}

(* The sets of filled tables over which a request would be allowed that the *)
(* full tenant denies.                                                      *)
FailOpen ==
  {have \in SUBSET AllTables :
     \E rq \in Requests \ Intended : "ALLOW" \in Decide(have, rq)}

(* A tenant the seed has completed, and the service has not written to      *)
(* since, decides the acceptance scenarios as the README's table says, over *)
(* the closure rows the seed computes itself rather than the service.       *)
ScenariosDecide ==
  rows[Demo] = AllTables /\ edited[Demo] = {} =>
    /\ \A rq \in Allowed : Decide(rows[Demo], rq) = {"ALLOW"}
    /\ \A rq \in Denied : Decide(rows[Demo], rq) = {"DENY"}

(* Whatever died or raced during the seeding, a tenant that is served half  *)
(* seeded allows nothing that the full one denies: rows that are missing,   *)
(* be they users, closure rows, grants, resources or policies, only take    *)
(* access away.                                                             *)
HalfSeededAllowsNoMore == edited[Demo] = {} => rows[Demo] \notin FailOpen
=============================================================================
