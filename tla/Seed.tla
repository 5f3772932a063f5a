-------------------------------- MODULE Seed --------------------------------
(***************************************************************************)
(* prisma/seed.ts, as docker-entrypoint.sh runs it before every start of    *)
(* the service: one statement per table and tenant, no transaction around   *)
(* them.  A statement may be rejected, containers may die at any of them,   *)
(* start again, and run beside one another on one database.                 *)
(***************************************************************************)
EXTENDS ClosureTable, Sequences

CONSTANTS
  Containers,
  Tenants,      \* the demo tenants, in the order they are seeded
  Staff,        \* Staff[t]: ids of the users of tenant t
  Manager,      \* Manager[t]: their manager ids
  HasService,   \* the tenants with a service identity
  Written       \* tables the service may write rows to

ASSUME TenantsAssumption == Tenants[1] # Tenants[2]

VARIABLES
  rows,       \* rows[t]: the tables that hold the rows the seed has for t
  edited,     \* edited[t]: the tables the service has written to since
  container,  \* container[c]: where a container is
  disturbed   \* history: what may have spoilt the rows now there

vars == <<rows, edited, container, disturbed>>

-----------------------------------------------------------------------------
(* Fault: the grants are written before the permissions they refer to. *)
TablesGrantsFirst(t) ==
  <<"Tenant", "Department", "User", "Closure", "Role", "RolePermission",
    "Permission", "UserRole", "Resource", "Policy">>

(* seedTenantA and seedTenantB: the tables in the order they are written.   *)
TablesOf(t) ==
  <<"Tenant", "Department", "User", "Closure", "Role", "Permission",
    "RolePermission", "UserRole", "Resource", "Policy">>
    \o IF t \in HasService THEN <<"ServiceIdentity">> ELSE << >>

(* The foreign keys: the tables whose rows those of a table refer to.       *)
References(table) ==
  CASE table = "Tenant"         -> {}
    [] table = "User"           -> {"Tenant", "Department"}
    [] table = "Closure"        -> {"Tenant", "User"}
    [] table = "RolePermission" -> {"Role", "Permission"}
    [] table = "UserRole"       -> {"User", "Role"}
    [] OTHER                    -> {"Tenant"}

(* Every statement of a run: <<tenant, table>>. *)
Script ==
  LET StepsOf(t) == [i \in DOMAIN TablesOf(t) |-> <<t, TablesOf(t)[i]>>]
  IN  StepsOf(Tenants[1]) \o StepsOf(Tenants[2])

Tenant == {Tenants[1], Tenants[2]}

(* The charts of the script: forests over the users it creates.             *)
ASSUME ChartsAssumption ==
  \A t \in Tenant :
    /\ Staff[t] \subseteq Users
    /\ Manager[t] \in Charts /\ Forest(Manager[t])
    /\ \A u \in Users : Manager[t][u] # NoUser => {u, Manager[t][u]} \subseteq Staff[t]

Complete(t) == rows[t] = {TablesOf(t)[i] : i \in DOMAIN TablesOf(t)}

(* Fault: the depth counts the users in between. *)
BuildClosureRowsBetween(chart, staff) ==
  LET levels == Distance(chart)
  IN  [a \in Users |-> [d \in Users |->
         IF d \notin staff THEN NoRow
         ELSE IF levels[a][d] > 0 THEN levels[a][d] - 1 ELSE levels[a][d]]]

(* buildClosureRows: each user with itself and with everyone above it, at   *)
(* the first level the climb meets them.                                    *)
BuildClosureRows(chart, staff) ==
  LET levels == Distance(chart)
  IN  [a \in Users |-> [d \in Users |->
         IF d \in staff THEN levels[a][d] ELSE NoRow]]

ClosureRows == [t \in Tenant |-> BuildClosureRows(Manager[t], Staff[t])]

Down == [at |-> "down", step |-> 0, forced |-> FALSE, raced |-> FALSE]

Init ==
  /\ rows = [t \in Tenant |-> {}]
  /\ edited = [t \in Tenant |-> {}]
  /\ container = [c \in Containers |-> Down]
  /\ disturbed = FALSE

-----------------------------------------------------------------------------
Seeding(c) == container[c].at = "insert"

Goes(c, at) == container' = [container EXCEPT ![c].at = at]

(* The container starts; SEED_RESET is forced.                              *)
Start(c, forced) ==
  /\ container[c].at = "down"
  /\ container' = [container EXCEPT ![c] = [Down EXCEPT !.at = "check",
                                                        !.forced = forced]]
  /\ UNCHANGED <<rows, edited, disturbed>>

(* Fault: only the tenant seeded last is looked for. *)
CheckExistingLast(c) ==
  /\ container[c].at = "check"
  /\ Goes(c, IF "Tenant" \in rows[Tenants[2]] /\ ~ container[c].forced
             THEN "serving" ELSE "delete")
  /\ UNCHANGED <<rows, edited, disturbed>>

(* main: the seed is skipped when a demo tenant is there and it is not      *)
(* forced; it hashes a password before it goes on.                          *)
CheckExisting(c) ==
  /\ container[c].at = "check"
  /\ Goes(c, IF (\E t \in Tenant : "Tenant" \in rows[t]) /\ ~ container[c].forced
             THEN "serving" ELSE "delete")
  /\ UNCHANGED <<rows, edited, disturbed>>

(* Fault: the rows of the tenants are left to a later clean-up. *)
DeleteTenantsOnly(c) ==
  /\ container[c].at = "delete"
  /\ rows' = [t \in Tenant |-> rows[t] \ {"Tenant"}]
  /\ edited' = [t \in Tenant |-> {}]
  /\ container' = [container EXCEPT ![c].at = "insert", ![c].step = 1]
  /\ disturbed' = \E d \in Containers \ {c} : Seeding(d)

(* deleteMany: both tenants go, and by cascade every row of theirs.         *)
DeleteTenants(c) ==
  /\ container[c].at = "delete"
  /\ rows' = [t \in Tenant |-> {}]
  /\ edited' = [t \in Tenant |-> {}]
  /\ container' = [container EXCEPT ![c].at = "insert", ![c].step = 1]
  /\ disturbed' = \E d \in Containers \ {c} : Seeding(d)

(* One create or createMany.  Containers between their check and their      *)
(* deletion learn that they race (history).                                 *)
Insert(c) ==
  /\ Seeding(c)
  /\ LET t == Script[container[c].step][1]
         table == Script[container[c].step][2]
     IN  /\ table \notin rows[t]
         /\ References(table) \subseteq rows[t]
         /\ rows' = [rows EXCEPT ![t] = @ \cup {table}]
  /\ container' = [d \in Containers |->
       IF d = c
       THEN IF container[c].step = Len(Script)
            THEN [container[c] EXCEPT !.at = "serving", !.step = 0]
            ELSE [container[c] EXCEPT !.step = @ + 1]
       ELSE [container[d] EXCEPT !.raced = @ \/ container[d].at = "delete"]]
  /\ UNCHANGED <<edited, disturbed>>

(* A key that is taken, by another run or by the service, or a foreign key  *)
(* without its row: the script exits, and the entrypoint starts the service *)
(* all the same.                                                            *)
FailInsert(c) ==
  /\ Seeding(c)
  /\ LET t == Script[container[c].step][1]
         table == Script[container[c].step][2]
     IN  table \in rows[t] \cup edited[t] \/ ~ References(table) \subseteq rows[t]
  /\ container' = [container EXCEPT ![c].at = "serving", ![c].step = 0]
  /\ UNCHANGED <<rows, edited, disturbed>>

(* The statement the script awaits is rejected: the connection is lost, the *)
(* database restarts, a time limit passes.  The catch of main exits, and    *)
(* the entrypoint starts the service all the same.  A statement that ran    *)
(* although it was rejected leaves what one that went through leaves when   *)
(* the next is rejected.                                                    *)
Reject(c) ==
  /\ container[c].at \in {"check", "delete", "insert"}
  /\ container' = [container EXCEPT ![c].at = "serving", ![c].step = 0]
  /\ disturbed' = (disturbed \/ Seeding(c))
  /\ UNCHANGED <<rows, edited>>

(* A container dies: of the seeding it was doing nothing is taken back.     *)
Die(c) ==
  /\ container[c].at # "down"
  /\ container' = [container EXCEPT ![c] = Down]
  /\ disturbed' = (disturbed \/ Seeding(c))
  /\ UNCHANGED <<rows, edited>>

(* A container that serves writes for a user of the tenant.                 *)
Serve(c, t, table) ==
  /\ container[c].at = "serving"
  /\ {"User"} \cup References(table) \subseteq rows[t]
  /\ edited' = [edited EXCEPT ![t] = @ \cup {table}]
  /\ disturbed' = (disturbed \/ \E d \in Containers : Seeding(d))
  /\ UNCHANGED <<rows, container>>

Next ==
  \/ \E c \in Containers, forced \in BOOLEAN : Start(c, forced)
  \/ \E c \in Containers : \/ CheckExisting(c) \/ DeleteTenants(c)
                           \/ Insert(c) \/ FailInsert(c) \/ Reject(c) \/ Die(c)
  \/ \E c \in Containers, t \in Tenant, table \in Written : Serve(c, t, table)

Spec == Init /\ [][Next]_vars

-----------------------------------------------------------------------------
(* The types; no row refers to one that is not there.                       *)
TypeOK ==
  /\ \A t \in Tenant :
       /\ rows[t] \subseteq {TablesOf(t)[i] : i \in DOMAIN TablesOf(t)}
       /\ \A table \in rows[t] \cup edited[t] : References(table) \subseteq rows[t]
       /\ edited[t] \subseteq Written
  /\ \A c \in Containers :
       /\ container[c].at \in {"down", "check", "delete", "insert", "serving"}
       /\ container[c].step \in 0 .. Len(Script)
       /\ Seeding(c) <=> container[c].step # 0
  /\ disturbed \in BOOLEAN

(* "restarting the container never wipes data" (seed.ts, README): what the  *)
(* service wrote is lost only to a reset that was asked for, or to a run    *)
(* that looked for the tenants before another run created them.             *)
EditsSurviveRestarts ==
  [][(\E t \in Tenant : ~ edited[t] \subseteq edited'[t]) =>
       \E c \in Containers :
         /\ container[c].at = "delete" /\ container'[c].at = "insert"
         /\ container[c].forced \/ container[c].raced]_vars

(* A tenant is left half seeded, and then skipped by every later start,     *)
(* only if its seeding was cut -- the container died in it, or a statement  *)
(* was rejected for reasons of its own --, two runs overlapped, or the      *)
(* service wrote to the tenant meanwhile.  No order of starts, forced       *)
(* resets, skipped seeds and statements that meet a taken key or miss a row *)
(* does it alone.                                                           *)
HalfSeededOnlyIfDisturbed ==
  (\E t \in Tenant : rows[t] # {}) /\ ~ disturbed
    => (\E c \in Containers : Seeding(c)) \/ \A t \in Tenant : Complete(t)

(* The tenant t as the hierarchy service finds it before it writes to it.   *)
Seeded(t) ==
  INSTANCE Hierarchy WITH
    users <- IF "User" \in rows[t] THEN Staff[t] ELSE {},
    managerId <- IF "User" \in rows[t] THEN Manager[t]
                 ELSE [u \in Users |-> NoUser],
    closure <- IF "Closure" \in rows[t]
               THEN ClosureRows[t] ELSE EmptyTable,
    call <- [u \in Users |-> [stage |-> "done", manager |-> NoUser]],
    Foreign <- {}

(* The rows the seed computes are those the service would have written: a   *)
(* seeded tenant satisfies the invariant of Hierarchy, so what holds of     *)
(* every tenant built by the service holds of it from there on.             *)
SeededTenantIsConsistent ==
  \A t \in Tenant : "Closure" \in rows[t] => Seeded(t)!Inv
=============================================================================
