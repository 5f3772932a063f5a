----------------------------- MODULE TenantData -----------------------------
(***************************************************************************)
(* The mutations that fill a tenant -- createTenant, createDepartment,      *)
(* createUser, updateUser, assignManager, createRole, createPermission,     *)
(* assignRole, assignPermission, createServiceIdentity -- taken apart at    *)
(* each await, over the tenant-scoped repositories of one database, with    *)
(* the code the exception filter replies.  No operation of the service      *)
(* deletes a row, and of the columns that must be unique in a tenant only   *)
(* the address of a user can change: any other id stands for the row with   *)
(* its name or slug, and a user is told apart from the address it has.      *)
(* What assignManager does to the closure table is module Hierarchy; here   *)
(* it registers nodes and sets the edge.                                    *)
(***************************************************************************)
EXTENDS FiniteSets

CONSTANTS
  Tenants,        \* tenants with a principal who can call
  NewTenants,     \* tenants createTenant may make; nobody can log in to one
  Departments, Users, Roles, Permissions, Services,  \* ids, of all tenants
  TenantOf,       \* the tenant of each of those
  Addresses,      \* e-mail addresses
  None,           \* a reference that is null or not given
  Calls,          \* requests under way at a time
  Sent            \* bound: the requests that clients send, of those below

Ids == NewTenants \cup Departments \cup Users \cup Roles \cup Permissions \cup Services

ASSUME TenantAssumption ==
  /\ \A x \in Ids \ NewTenants : TenantOf[x] \in Tenants
  /\ None \notin Ids \cup Addresses
  /\ Users \cap (NewTenants \cup Departments \cup Roles \cup Permissions \cup Services) = {}

VARIABLES
  db,      \* the tables, below
  call,    \* call[c]: the request c serves and how far it is
  answer   \* the reply a client is given by this step, if it ends a call

vars == <<db, call, answer>>

-----------------------------------------------------------------------------
(* The tables: which rows there are, the department of a user or the parent *)
(* of a department, the address and the manager of a user, the join rows    *)
(* <<tenant, role, user>> and <<tenant, permission, role>>, the nodes       *)
(* <<tenant, user>>.                                                        *)
EmptyDb ==
  [rows |-> {}, refOf |-> [x \in Departments \cup Users |-> None],
   emailOf |-> [u \in Users |-> None], managerOf |-> [u \in Users |-> None],
   joins |-> {}, nodes |-> {}]

(* BaseTenantRepository: every read and update is filtered by the tenant.   *)
(* Fault: the filter is lost. *)
FindByIdAnywhere(t, x) == x \in db.rows

FindById(t, x) == x \in db.rows /\ TenantOf[x] = t

-----------------------------------------------------------------------------
(* The inputs.  The tenant of a call is that of its token.  What a create   *)
(* names is of that tenant; every other id is whatever the client sends.    *)
Inputs(o, ids, refs) ==
  [op : {o}, by : Tenants, id : ids, ref : refs, manager : {None}, email : {None}]

UserInputs(o, managers, emails) ==
  [op : {o}, by : Tenants, id : Users, ref : Departments \cup {None},
   manager : managers, email : emails]

Optional(values) == values \cup {None}

CreateTenantInput     == Inputs("createTenant", NewTenants, {None})
CreateDepartmentInput == Inputs("createDepartment", Departments, Optional(Departments))
CreateUserInput       == UserInputs("createUser", Optional(Users), Addresses)
UpdateUserInput       == UserInputs("updateUser", {None}, Optional(Addresses))
AssignManagerInput    == Inputs("assignManager", Users, Users)
CreateRoleInput       == Inputs("createRole", Roles, {None})
CreatePermissionInput == Inputs("createPermission", Permissions, {None})
AssignRoleInput       == Inputs("assignRole", Roles, Users)
AssignPermissionInput == Inputs("assignPermission", Permissions, Roles)
CreateServiceIdentityInput == Inputs("createServiceIdentity", Services, {None})

Creates == {"createTenant", "createDepartment", "createUser", "createRole",
            "createPermission", "createServiceIdentity"}

AdminOnly == {"createTenant", "createServiceIdentity"}

(* A create makes an id, so it cannot be given the id it makes.             *)
Requests ==
  {q \in CreateTenantInput \cup CreateDepartmentInput \cup CreateUserInput
           \cup UpdateUserInput \cup AssignManagerInput \cup CreateRoleInput
           \cup CreatePermissionInput \cup AssignRoleInput
           \cup AssignPermissionInput \cup CreateServiceIdentityInput :
   /\ q.op \in Creates \ {"createTenant"} => TenantOf[q.id] = q.by
   /\ q.op \in Creates => q.id \notin {q.ref, q.manager}}

ASSUME SentAssumption == Sent \subseteq Requests

(* Fault: the role is looked up, the user left to the foreign key. *)
LookedUpRoleOnly(q) ==
  CASE q.op = "createDepartment"           -> {q.ref} \ {None}
    [] q.op = "assignManager"              -> {q.id, q.ref}
    [] q.op \in {"assignRole", "assignPermission"} -> {q.id}
    [] OTHER                               -> {}

(* The ids a handler looks up in the tenant before it writes; what it is    *)
(* given besides is left to the foreign keys, which know no tenant.         *)
LookedUp(q) ==
  CASE q.op = "createDepartment"           -> {q.ref} \ {None}
    [] q.op \in {"assignManager", "assignRole"} -> {q.id, q.ref}
    [] q.op = "assignPermission"           -> {q.id}
    [] OTHER                               -> {}

(* The exception of a handler that did not find all of them.                *)
NotFound(q, missing) ==
  IF q.op # "createDepartment" /\ q.id \in missing
  THEN "NotFoundException" ELSE "BadRequestException"

(* GlobalExceptionFilter.normalize: a foreign key that fails (P2003) and a  *)
(* lost connection are not told apart.                                      *)
Normalize(exception) ==
  CASE exception = "BadRequestException" -> "BAD_REQUEST"
    [] exception = "ForbiddenException"  -> "FORBIDDEN"
    [] exception \in {"NotFoundException", "P2025"} -> "NOT_FOUND"
    [] exception = "P2002"               -> "CONFLICT"
    [] OTHER                             -> "INTERNAL_SERVER_ERROR"

-----------------------------------------------------------------------------
(* The statement a call is at: the exception it raises, or what it writes.  *)
References(q) == {q.ref} \cup IF q.op \in Creates THEN {} ELSE {q.id}

(* The unique column holds the value already: another user of the tenant    *)
(* has the address, or the name or slug is that of a row.                   *)
Taken(d, q) ==
  IF q.op \in {"createUser", "updateUser"}
  THEN \E u \in (Users \cap d.rows) \ {q.id} :
         TenantOf[u] = q.by /\ d.emailOf[u] = q.email
  ELSE q.op \in Creates /\ q.id \in d.rows

(* Fault: the column has no foreign key. *)
WriteErrorNoForeignKey(q) ==
  CASE q.op = "updateUser" /\ ~ FindById(q.by, q.id) -> "NotFoundException"
    [] Taken(db, q) -> "P2002"
    [] OTHER -> "none"

WriteError(q) ==
  CASE q.op = "updateUser" /\ ~ FindById(q.by, q.id) -> "NotFoundException"
    [] Taken(db, q) -> "P2002"
    [] ~ References(q) \subseteq db.rows \cup {None} -> "P2003"
    [] OTHER -> "none"

ManagerOf(q) == IF q.op = "createUser" THEN q.manager ELSE q.ref

ManagerError(q) ==
  CASE ManagerOf(q) = q.id -> "BadRequestException"
    [] ManagerOf(q) \notin db.rows -> "P2003"
    [] OTHER -> "none"

Written(q) ==
  CASE q.op = "createDepartment" ->
         [db EXCEPT !.rows = @ \cup {q.id}, !.refOf[q.id] = q.ref]
    [] q.op = "createUser" ->
         [db EXCEPT !.rows = @ \cup {q.id}, !.refOf[q.id] = q.ref,
                    !.emailOf[q.id] = q.email]
    [] q.op = "updateUser" ->
         [db EXCEPT !.refOf[q.id] = q.ref,
                    !.emailOf[q.id] = IF q.email = None THEN @ ELSE q.email]
    [] q.op \in {"assignRole", "assignPermission"} ->
         [db EXCEPT !.joins = @ \cup {<<q.by, q.id, q.ref>>}]
    [] OTHER -> [db EXCEPT !.rows = @ \cup {q.id}]

Registered(q) == [db EXCEPT !.nodes = @ \cup {<<q.by, q.id>>}]

Managed(q) ==
  [db EXCEPT !.nodes = @ \cup {<<q.by, q.id>>, <<q.by, ManagerOf(q)>>},
             !.managerOf[q.id] = ManagerOf(q)]

-----------------------------------------------------------------------------
Idle == [pc |-> "idle"]

NoAnswer == [code |-> "none"]

Init ==
  /\ db = EmptyDb
  /\ call = [c \in Calls |-> Idle]
  /\ answer = NoAnswer

(* The step of a call c goes on at pc, the tables being d.                  *)
Proceed(c, pc, d) ==
  /\ db' = d
  /\ call' = [call EXCEPT ![c].pc = pc, ![c].wrote = @ \/ d # db]
  /\ answer' = NoAnswer

(* The call ends and its client is told the code, the tables being d.       *)
Respond(c, code, d) ==
  /\ db' = d
  /\ call' = [call EXCEPT ![c] = Idle]
  /\ answer' = [code |-> code, request |-> call[c].request,
                wrote |-> call[c].wrote \/ d # db]

(* Where a handler continues after its lookups.                             *)
FirstStatement(q) == IF q.op = "assignManager" THEN "manager" ELSE "write"

(* The id of a new user is one that no other user is given.                 *)
Fresh(q) ==
  q.op = "createUser" =>
    /\ q.id \notin db.rows
    /\ \A e \in Calls :
         call[e] # Idle => <<call[e].request.op, call[e].request.id>> # <<q.op, q.id>>

Start(c, q) ==
  /\ call[c] = Idle
  /\ Fresh(q)
  /\ call' = [call EXCEPT ![c] =
       [pc |-> IF LookedUp(q) = {} THEN FirstStatement(q) ELSE "lookup",
        request |-> q, left |-> LookedUp(q), missing |-> {}, wrote |-> FALSE]]
  /\ answer' = NoAnswer
  /\ UNCHANGED db

(* RolesGuard: the token does not carry the role Admin.                     *)
Forbid(q) ==
  /\ q.op \in AdminOnly
  /\ answer' = [code |-> Normalize("ForbiddenException"), request |-> q, wrote |-> FALSE]
  /\ UNCHANGED <<db, call>>

(* One of the lookups, which Promise.all sends together, is answered.       *)
Lookup(c, x) ==
  /\ call[c].pc = "lookup"
  /\ x \in call[c].left
  /\ call' = [call EXCEPT ![c].left = @ \ {x},
        ![c].missing = IF FindById(call[c].request.by, x) THEN @ ELSE @ \cup {x}]
  /\ answer' = NoAnswer
  /\ UNCHANGED db

(* The lookups have returned: the handler writes or refuses.                *)
Decide(c) ==
  /\ call[c].pc = "lookup"
  /\ call[c].left = {}
  /\ LET q == call[c].request
         missing == call[c].missing
     IN  \/ missing = {} /\ Proceed(c, FirstStatement(q), db)
         \/ missing # {} /\ Respond(c, Normalize(NotFound(q, missing)), db)

(* What the client is told when the statement at pc rejects: the catch of   *)
(* assignPermission takes every reason for a missing role.                  *)
Rejected(c, exception) ==
  IF call[c].pc = "write" /\ call[c].request.op = "assignPermission"
  THEN Normalize("BadRequestException") ELSE Normalize(exception)

(* create, updateMany or upsert.                                            *)
Write(c) ==
  /\ call[c].pc = "write"
  /\ LET q == call[c].request
     IN  \/ /\ WriteError(q) # "none"
            /\ Respond(c, Rejected(c, WriteError(q)), db)
         \/ /\ WriteError(q) = "none"
            /\ Proceed(c, IF q.op = "createUser" THEN "node" ELSE "return", Written(q))

(* Fault: the reply does not wait for the node. *)
RegisterNodeLater(c) ==
  /\ call[c].pc = "node"
  /\ Proceed(c, IF call[c].request.manager = None THEN "return" ELSE "manager", db)

(* createUser registers the user as a node of the hierarchy.                *)
RegisterNode(c) ==
  /\ call[c].pc = "node"
  /\ LET q == call[c].request
     IN  Proceed(c, IF q.manager = None THEN "return" ELSE "manager", Registered(q))

(* The transaction of hierarchyService.assignManager.                       *)
AttachManager(c) ==
  /\ call[c].pc = "manager"
  /\ LET q == call[c].request
     IN  \/ /\ ManagerError(q) # "none"
            /\ Respond(c, Normalize(ManagerError(q)), db)
         \/ /\ ManagerError(q) = "none"
            /\ Proceed(c, "return", Managed(q))

(* It refuses a cycle: whether there is one is the question of Hierarchy.   *)
RefuseCycle(c) ==
  /\ call[c].pc = "manager"
  /\ ManagerError(call[c].request) = "none"
  /\ Respond(c, Normalize("BadRequestException"), db)

(* The row is read again where the handler does, and returned.              *)
Return(c) ==
  /\ call[c].pc = "return"
  /\ Respond(c, "OK", db)

Effect(c) ==
  LET q == call[c].request
  IN  CASE call[c].pc = "write" /\ WriteError(q) = "none"     -> Written(q)
        [] call[c].pc = "node"                                -> Registered(q)
        [] call[c].pc = "manager" /\ ManagerError(q) = "none" -> Managed(q)
        [] OTHER                                              -> db

(* The connection is lost before the statement ran or before its reply, and *)
(* the await rejects.  When it is the process that dies the same is left    *)
(* behind, and the client is told less.                                     *)
LoseConnection(c) ==
  /\ call[c].pc # "idle"
  /\ call[c].pc = "return" =>
       call[c].request.op \in {"createUser", "updateUser", "assignManager"}
  /\ \E d \in {db, Effect(c)} : Respond(c, Rejected(c, "connection"), d)

Next ==
  \/ \E c \in Calls, q \in Sent : Start(c, q)
  \/ \E q \in Sent : Forbid(q)
  \/ \E c \in Calls, x \in Ids : Lookup(c, x)
  \/ \E c \in Calls :
       \/ Decide(c) \/ Write(c) \/ RegisterNode(c) \/ AttachManager(c)
       \/ RefuseCycle(c) \/ Return(c) \/ LoseConnection(c)

Spec == Init /\ [][Next]_vars
-----------------------------------------------------------------------------
Codes == {"BAD_REQUEST", "FORBIDDEN", "NOT_FOUND", "CONFLICT", "INTERNAL_SERVER_ERROR"}

Nodes == Tenants \X Users

Joins == Tenants \X ((Roles \X Users) \cup (Permissions \X Roles))

(* The tables hold what their columns may, every foreign key names a row    *)
(* that exists, and no two users of a tenant have one address: createUser   *)
(* and updateUser trust the database with it.                               *)
TypeOK ==
  /\ db.rows \subseteq Ids
  /\ \A x \in Departments \cup Users :
       db.refOf[x] # None => db.refOf[x] \in Departments \cap db.rows
  /\ \A u \in Users :
       db.managerOf[u] # None => db.managerOf[u] \in Users \cap db.rows
  /\ \A u \in Users \cap db.rows :
       /\ db.emailOf[u] \in Addresses
       /\ \A v \in Users \cap db.rows :
            TenantOf[u] = TenantOf[v] /\ db.emailOf[u] = db.emailOf[v] => u = v
  /\ \A n \in db.nodes : n \in Nodes /\ n[2] \in db.rows
  /\ \A j \in db.joins :
       <<j[1], <<j[2], j[3]>>>> \in Joins /\ {j[2], j[3]} \subseteq db.rows
  /\ \A c \in Calls :
       call[c].pc \in {"idle", "lookup", "write", "node", "manager", "return"}
  /\ answer.code \in Codes \cup {"none", "OK"}

(* What a handler looks up before it writes stays in its tenant, whatever   *)
(* calls of other tenants run meanwhile: the parent of a department, role   *)
(* and user of a user role, the permission of a grant.                      *)
ReferencesStay(d) ==
  /\ \A x \in Departments :
       d.refOf[x] # None => TenantOf[d.refOf[x]] = TenantOf[x]
  /\ \A j \in d.joins :
       /\ TenantOf[j[2]] = j[1]
       /\ j[3] \in Users => TenantOf[j[3]] = j[1]

LookedUpReferencesStay == ReferencesStay(db)

-----------------------------------------------------------------------------
(* What the tenant's scoped queries return.                                 *)
Seen(d, t) ==
  LET mine == {x \in d.rows \ NewTenants : TenantOf[x] = t}
  IN  [rows |-> mine,
       refs |-> {<<x, d.refOf[x]>> : x \in mine \cap (Departments \cup Users)},
       emails |-> {<<u, d.emailOf[u]>> : u \in mine \cap Users},
       managers |-> {<<u, d.managerOf[u]>> : u \in mine \cap Users},
       joins |-> {j \in d.joins : j[1] = t},
       nodes |-> {n \in d.nodes : n[1] = t}]

(* permissionNamesForUser: the rows of the tenant's UserRole, joined with   *)
(* RolePermission through the role alone.                                   *)
PermissionsOfUser(d, u) ==
  {p \in Permissions : \E r \in Roles :
     /\ <<TenantOf[u], r, u>> \in d.joins
     /\ \E j \in d.joins : j[2] = p /\ j[3] = r}

(* The tenants whose calls take the step. *)
Acting == {call[c].request.by : c \in {e \in Calls : /\ call[e] # Idle
                                                     /\ call'[e] # call[e]}}

(* A role of tenant t is given a permission by a tenant that is not t.      *)
GrantedAcross(d, e, t) ==
  \E j \in e.joins \ d.joins : j[3] \in Roles /\ TenantOf[j[3]] = t /\ j[1] # t

(* From tables d to tables e nothing changes for tenant t: not what its     *)
(* queries return, nor what its users' permission checks do.                *)
Isolated(d, e, t) ==
  /\ Seen(e, t) = Seen(d, t)
  /\ \/ GrantedAcross(d, e, t)
     \/ \A u \in {x \in Users : TenantOf[x] = t} :
          PermissionsOfUser(e, u) = PermissionsOfUser(d, u)

(* The role of a grant is of the tenant that grants.  The comment in        *)
(* assignPermission says that the foreign key and the tenant scoping see to *)
(* it; the foreign key knows no tenant, so this does not hold.              *)
GrantsStayInTheTenant ==
  \A j \in db.joins : j[3] \in Roles => TenantOf[j[3]] = j[1]

(* No call of another tenant changes what a tenant's queries return, and    *)
(* the one step that changes its permission checks is the grant that breaks *)
(* GrantsStayInTheTenant: no interleaving and no other handler, with any    *)
(* ids, reaches across.                                                     *)
OthersChangeNothingElse ==
  [][db' # db => \A t \in Tenants \ Acting : Isolated(db, db', t)]_vars

(* What the client of an ended call may conclude.  OK: all the call was to  *)
(* write is there.  A refusal: it wrote nothing, but for the user whose     *)
(* manager is refused, who is there without one, and for a grant, where     *)
(* 'Role not found' may hide a row that was written.  CONFLICT: a row with  *)
(* the name, slug or address is there, perhaps half made: the retry of a    *)
(* lost createUser is told this and nothing completes the user.             *)
Done(d, q) ==
  /\ q.id \in d.rows
  /\ q.op = "createUser" => <<q.by, q.id>> \in d.nodes
  /\ q.manager # None \/ q.op = "assignManager" => d.managerOf[q.id] # None
  /\ q.op \in {"assignRole", "assignPermission"} => <<q.by, q.id, q.ref>> \in d.joins

RepliesTellWhatHappened ==
  LET q == answer.request
      late == q.op = "createUser" /\ answer.code = "BAD_REQUEST"
  IN  /\ answer.code = "OK" => Done(db, q)
      /\ answer.code = "CONFLICT" => Taken(db, q)
      /\ answer.code \in Codes \ {"INTERNAL_SERVER_ERROR"} =>
           \/ ~ answer.wrote
           \/ late /\ <<q.by, q.id>> \in db.nodes
           \/ q.op = "assignPermission" /\ Done(db, q)
=============================================================================
