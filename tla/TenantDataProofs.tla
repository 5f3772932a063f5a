-------------------------- MODULE TenantDataProofs --------------------------
(***************************************************************************)
(* For any tenants, rows and number of calls: the references a handler      *)
(* looked up stay in its tenant, and a call of another tenant changes       *)
(* nothing a tenant's queries return.  Both rest on what a call has         *)
(* established when it writes: the ids it looked up are of its tenant.      *)
(***************************************************************************)
EXTENDS TenantData, TLAPS

Tables ==
  [rows : SUBSET Ids,
   refOf : [Departments \cup Users -> Departments \cup {None}],
   emailOf : [Users -> Addresses \cup {None}],
   managerOf : [Users -> Users \cup {None}],
   joins : SUBSET (Tenants \X Ids \X Ids),
   nodes : SUBSET (Tenants \X Users)]

Started ==
  [pc : {"lookup", "write", "node", "manager", "return"}, request : Requests,
   left : SUBSET Ids, missing : SUBSET Ids, wrote : BOOLEAN]

(* What a call that is under way knows of its request.                      *)
Progress(r) ==
  /\ r.pc = "write" => r.request.op # "assignManager"
  /\ r.pc = "node" => r.request.op = "createUser"
  /\ r.pc = "manager" =>
       \/ r.request.op = "createUser" /\ r.request.manager # None
       \/ r.request.op = "assignManager"
  /\ r.pc # "lookup" => r.left \cup r.missing = {}
  /\ \A x \in LookedUp(r.request) :
       x \in r.left \cup r.missing \/ TenantOf[x] = r.request.by

CallsInv ==
  /\ call \in [Calls -> {Idle} \cup Started]
  /\ \A c \in Calls : call[c] # Idle => Progress(call[c])

Inv == db \in Tables /\ CallsInv /\ ReferencesStay(db)

-----------------------------------------------------------------------------
(* The requests, by operation. *)
LEMMA RequestType ==
  ASSUME NEW q \in Requests
  PROVE  /\ q.by \in Tenants
         /\ q.id \in Ids /\ q.ref \in Ids \cup {None}
         /\ q.op \in Creates \ {"createTenant"} => TenantOf[q.id] = q.by
         /\ q.op = "createTenant" => q.id \in NewTenants
         /\ q.op = "createDepartment" =>
              q.id \in Departments /\ q.ref \in Departments \cup {None}
         /\ q.op = "createUser" => /\ q.id \in Users
                                   /\ q.ref \in Departments \cup {None}
                                   /\ q.manager \in Users \cup {None}
                                   /\ q.email \in Addresses
         /\ q.op = "updateUser" => /\ q.id \in Users
                                   /\ q.ref \in Departments \cup {None}
                                   /\ q.email \in Addresses \cup {None}
         /\ q.op = "assignManager" => q.id \in Users /\ q.ref \in Users
         /\ q.op = "assignRole" => q.id \in Roles /\ q.ref \in Users
         /\ q.op = "assignPermission" => q.id \in Permissions /\ q.ref \in Roles
         /\ q.op \in Creates \cup {"updateUser", "assignManager", "assignRole",
                                   "assignPermission"}
<1>1. \/ q \in CreateTenantInput
      \/ q \in CreateDepartmentInput
      \/ q \in CreateUserInput
      \/ q \in UpdateUserInput
      \/ q \in AssignManagerInput
      \/ q \in CreateRoleInput
      \/ q \in CreatePermissionInput
      \/ q \in AssignRoleInput
      \/ q \in AssignPermissionInput
      \/ q \in CreateServiceIdentityInput
  BY DEF Requests
<1>2. q.op \in Creates \ {"createTenant"} => TenantOf[q.id] = q.by
  BY DEF Requests
<1>3. QED
  BY <1>1, <1>2
  DEF Inputs, UserInputs, Optional, Ids, Creates, CreateTenantInput, CreateDepartmentInput,
      CreateUserInput, UpdateUserInput, AssignManagerInput, CreateRoleInput,
      CreatePermissionInput, AssignRoleInput, AssignPermissionInput,
      CreateServiceIdentityInput

(* What a statement of a call may write: tables d of their types, in which  *)
(* the references looked up are of one tenant, and which leave the other    *)
(* tenants alone.                                                           *)
Allowed(d, by) ==
  /\ d \in Tables
  /\ ReferencesStay(d)
  /\ \A t \in Tenants \ {by} : Isolated(db, d, t)

LEMMA IsolatedByNothing ==
  ASSUME NEW by, db \in Tables, ReferencesStay(db)
  PROVE  Allowed(db, by)
BY DEF Allowed, Isolated

(* Tables that differ from db in what is of tenant by alone. *)
LEMMA IsolatedIf ==
  ASSUME db \in Tables, NEW d \in Tables, NEW t \in Tenants, NEW by, t # by,
         \A x \in Ids : TenantOf[x] = t /\ x \notin NewTenants
                          => (x \in d.rows <=> x \in db.rows),
         \A x \in Departments \cup Users :
            TenantOf[x] = t => d.refOf[x] = db.refOf[x],
         \A u \in Users : TenantOf[u] = t => d.emailOf[u] = db.emailOf[u],
         \A u \in Users : TenantOf[u] = t => d.managerOf[u] = db.managerOf[u],
         ReferencesStay(db), db.joins \subseteq d.joins,
         \A j \in d.joins \ db.joins : j[1] = by,
         db.nodes \subseteq d.nodes,
         \A n \in d.nodes \ db.nodes : n[1] = by
  PROVE  Isolated(db, d, t)
<1> DEFINE mine == {x \in db.rows \ NewTenants : TenantOf[x] = t}
<1>1. {x \in d.rows \ NewTenants : TenantOf[x] = t} = mine
  BY DEF Tables
<1>2. {<<x, d.refOf[x]>> : x \in mine \cap (Departments \cup Users)}
        = {<<x, db.refOf[x]>> : x \in mine \cap (Departments \cup Users)}
  OBVIOUS
<1>3. {<<u, d.managerOf[u]>> : u \in mine \cap Users}
        = {<<u, db.managerOf[u]>> : u \in mine \cap Users}
  OBVIOUS
<1>e. {<<u, d.emailOf[u]>> : u \in mine \cap Users}
        = {<<u, db.emailOf[u]>> : u \in mine \cap Users}
  OBVIOUS
<1>4. {j \in d.joins : j[1] = t} = {j \in db.joins : j[1] = t}
  OBVIOUS
<1>5. {n \in d.nodes : n[1] = t} = {n \in db.nodes : n[1] = t}
  OBVIOUS
<1>6. Seen(d, t) = Seen(db, t)
  <2>1. Seen(db, t) =
          [rows |-> mine,
           refs |-> {<<x, db.refOf[x]>> : x \in mine \cap (Departments \cup Users)},
           emails |-> {<<u, db.emailOf[u]>> : u \in mine \cap Users},
           managers |-> {<<u, db.managerOf[u]>> : u \in mine \cap Users},
           joins |-> {j \in db.joins : j[1] = t},
           nodes |-> {n \in db.nodes : n[1] = t}]
    BY DEF Seen
  <2>2. Seen(d, t) =
          [rows |-> mine,
           refs |-> {<<x, d.refOf[x]>> : x \in mine \cap (Departments \cup Users)},
           emails |-> {<<u, d.emailOf[u]>> : u \in mine \cap Users},
           managers |-> {<<u, d.managerOf[u]>> : u \in mine \cap Users},
           joins |-> {j \in d.joins : j[1] = t},
           nodes |-> {n \in d.nodes : n[1] = t}]
    BY <1>1, Zenon DEF Seen
  <2>3. QED
    BY <2>1, <2>2, <1>2, <1>3, <1>e, <1>4, <1>5
<1>7. ASSUME ~ GrantedAcross(db, d, t), NEW u \in Users, TenantOf[u] = t
      PROVE  PermissionsOfUser(d, u) = PermissionsOfUser(db, u)
  <2>1. PermissionsOfUser(db, u) \subseteq PermissionsOfUser(d, u)
    BY DEF PermissionsOfUser
  <2>2. ASSUME NEW p \in PermissionsOfUser(d, u) PROVE p \in PermissionsOfUser(db, u)
    <3>1. PICK r \in Roles : /\ <<TenantOf[u], r, u>> \in d.joins
                             /\ \E j \in d.joins : j[2] = p /\ j[3] = r
      BY DEF PermissionsOfUser
    <3>2. PICK j \in d.joins : j[2] = p /\ j[3] = r
      BY <3>1
    <3>3. <<TenantOf[u], r, u>> \in db.joins
      BY <3>1, <1>7
    <3>4. TenantOf[r] = t
      BY <3>3, <1>7 DEF ReferencesStay
    <3>5. j \in db.joins
      BY <1>7, <3>1, <3>2, <3>4 DEF GrantedAcross
    <3>6. p \in Permissions
      BY DEF PermissionsOfUser
    <3>7. QED
      BY <3>1, <3>2, <3>3, <3>5, <3>6 DEF PermissionsOfUser
  <2>3. QED
    BY <2>1, <2>2
<1>8. QED
  BY <1>6, <1>7 DEF Isolated

(* The first statement of a handler whose lookups found everything. *)
LEMMA WrittenAllowed ==
  ASSUME db \in Tables, ReferencesStay(db), NEW q \in Requests,
         \A x \in LookedUp(q) : TenantOf[x] = q.by,
         WriteError(q) = "none", q.op # "assignManager"
  PROVE  Allowed(Written(q), q.by)
<1> DEFINE d == Written(q)
<1> USE TenantAssumption
<1>1. CASE q.op \in {"createDepartment", "createUser"}
  <2>1. /\ q.id \in Departments \cup Users /\ q.id \in Ids
        /\ q.ref \in Departments \cup {None} /\ TenantOf[q.id] = q.by
        /\ q.op = "createUser" => q.id \in Users /\ q.email \in Addresses
    BY <1>1, RequestType DEF Creates
  <2>2. /\ d.rows = db.rows \cup {q.id}
        /\ d.refOf = [db.refOf EXCEPT ![q.id] = q.ref]
        /\ d.managerOf = db.managerOf /\ d.joins = db.joins /\ d.nodes = db.nodes
        /\ d.emailOf = IF q.op = "createUser" THEN [db.emailOf EXCEPT ![q.id] = q.email]
                                              ELSE db.emailOf
        /\ d = [rows |-> d.rows, refOf |-> d.refOf, emailOf |-> d.emailOf,
                managerOf |-> d.managerOf, joins |-> d.joins, nodes |-> d.nodes]
    <3>1. CASE q.op = "createDepartment"
      <4>1. d = [db EXCEPT !.rows = @ \cup {q.id}, !.refOf[q.id] = q.ref]
        BY <3>1 DEF Written
      <4> HIDE DEF d
      <4>2. QED
        BY <3>1, <4>1 DEF Tables
    <3>2. CASE q.op = "createUser"
      <4>1. d = [db EXCEPT !.rows = @ \cup {q.id}, !.refOf[q.id] = q.ref,
                           !.emailOf[q.id] = q.email]
        BY <3>2 DEF Written
      <4> HIDE DEF d
      <4>2. QED
        BY <3>2, <4>1 DEF Tables
    <3>3. QED
      BY <1>1, <3>1, <3>2
  <2> HIDE DEF d
  <2>3. d.emailOf \in [Users -> Addresses \cup {None}]
    BY <2>1, <2>2 DEF Tables
  <2>4. d \in Tables
    BY <2>1, <2>2, <2>3 DEF Tables
  <2>5. ReferencesStay(d)
    <3>1. q.op = "createDepartment" /\ q.ref # None => TenantOf[q.ref] = q.by
      BY DEF LookedUp
    <3>2. QED
      BY <3>1, <2>1, <2>2, <1>1, RequestType DEF Tables, ReferencesStay
  <2>6. ASSUME NEW t \in Tenants \ {q.by} PROVE Isolated(db, d, t)
    <3>1. \A u \in Users : TenantOf[u] = t => d.emailOf[u] = db.emailOf[u]
      BY <2>1, <2>2 DEF Tables
    <3>2. \A x \in Departments \cup Users : TenantOf[x] = t => d.refOf[x] = db.refOf[x]
      BY <2>1, <2>2 DEF Tables
    <3>3. \A x \in Ids : TenantOf[x] = t /\ x \notin NewTenants
                        => (x \in d.rows <=> x \in db.rows)
      BY <2>1, <2>2
    <3>4. /\ db.joins \subseteq d.joins /\ d.joins \ db.joins = {} /\ t # q.by
          /\ db.nodes \subseteq d.nodes /\ d.nodes \ db.nodes = {}
      BY <2>2
    <3>5. \A u \in Users : TenantOf[u] = t => d.managerOf[u] = db.managerOf[u]
      BY <2>2
    <3>6. QED
      BY <2>4, <3>1, <3>2, <3>3, <3>4, <3>5, IsolatedIf
  <2>7. QED
    BY <2>4, <2>5, <2>6 DEF Allowed, d
<1>2. CASE q.op = "updateUser"
  <2> DEFINE email == IF q.email = None THEN db.emailOf[q.id] ELSE q.email
  <2>1. /\ q.id \in Users /\ q.ref \in Departments \cup {None}
        /\ q.email \in Addresses \cup {None}
        /\ TenantOf[q.id] = q.by
    BY <1>2, RequestType DEF WriteError, FindById
  <2>2. /\ d.refOf = [db.refOf EXCEPT ![q.id] = q.ref]
        /\ d.emailOf = [db.emailOf EXCEPT ![q.id] = email]
        /\ d.rows = db.rows
        /\ d.managerOf = db.managerOf /\ d.joins = db.joins /\ d.nodes = db.nodes
        /\ d = [rows |-> d.rows, refOf |-> d.refOf, emailOf |-> d.emailOf,
                managerOf |-> d.managerOf, joins |-> d.joins, nodes |-> d.nodes]
    <3>1. d = [db EXCEPT !.refOf[q.id] = q.ref,
                         !.emailOf = [db.emailOf EXCEPT ![q.id] = email]]
      BY <1>2, <2>1 DEF Written, Tables
    <3> HIDE DEF d, email
    <3>2. QED
      BY <3>1 DEF Tables
  <2>3. email \in Addresses \cup {None}
    BY <2>1 DEF Tables
  <2> HIDE DEF d, email
  <2>4. d \in Tables
    BY <2>1, <2>2, <2>3 DEF Tables
  <2>5. ReferencesStay(d)
    BY <2>1, <2>2 DEF Tables, ReferencesStay
  <2>6. ASSUME NEW t \in Tenants \ {q.by} PROVE Isolated(db, d, t)
    <3>1. \A u \in Users : TenantOf[u] = t => d.emailOf[u] = db.emailOf[u]
      BY <2>1, <2>2 DEF Tables
    <3>2. \A x \in Departments \cup Users : TenantOf[x] = t => d.refOf[x] = db.refOf[x]
      BY <2>1, <2>2 DEF Tables
    <3>3. \A x \in Ids : TenantOf[x] = t /\ x \notin NewTenants
                        => (x \in d.rows <=> x \in db.rows)
      BY <2>1, <2>2
    <3>4. /\ db.joins \subseteq d.joins /\ d.joins \ db.joins = {} /\ t # q.by
          /\ db.nodes \subseteq d.nodes /\ d.nodes \ db.nodes = {}
      BY <2>2
    <3>5. \A u \in Users : TenantOf[u] = t => d.managerOf[u] = db.managerOf[u]
      BY <2>2
    <3>6. QED
      BY <2>4, <3>1, <3>2, <3>3, <3>4, <3>5, IsolatedIf
  <2>7. QED
    BY <2>4, <2>5, <2>6 DEF Allowed, d
<1>3. CASE q.op \in {"assignRole", "assignPermission"}
  <2>1. d = [db EXCEPT !.joins = @ \cup {<<q.by, q.id, q.ref>>}]
    BY <1>3 DEF Written
  <2>2. /\ q.by \in Tenants /\ q.id \in Ids /\ q.ref \in Ids
        /\ TenantOf[q.id] = q.by
        /\ q.op = "assignRole" => TenantOf[q.ref] = q.by
    BY <1>3, RequestType DEF LookedUp, Ids
  <2>3. /\ d.joins = db.joins \cup {<<q.by, q.id, q.ref>>}
        /\ d.rows = db.rows /\ d.refOf = db.refOf /\ d.emailOf = db.emailOf
        /\ d.managerOf = db.managerOf /\ d.nodes = db.nodes
        /\ d = [rows |-> d.rows, refOf |-> d.refOf, emailOf |-> d.emailOf,
                managerOf |-> d.managerOf, joins |-> d.joins, nodes |-> d.nodes]
    BY <2>1 DEF Tables
  <2>4. d \in Tables
    BY <2>2, <2>3 DEF Tables
  <2>5. ReferencesStay(d)
    <3>1. q.ref \in Users => TenantOf[q.ref] = q.by
      BY <1>3, <2>2, RequestType
    <3>2. QED
      BY <3>1, <2>2, <2>3 DEF Tables, ReferencesStay
  <2>6. ASSUME NEW t \in Tenants \ {q.by} PROVE Isolated(db, d, t)
    <3>1. \A j \in d.joins \ db.joins : j[1] = q.by
      BY <2>3
    <3>2. /\ db.joins \subseteq d.joins /\ t # q.by
          /\ d.nodes \ db.nodes = {} /\ db.nodes \subseteq d.nodes
      BY <2>3
    <3>3. QED
      BY <2>3, <2>4, <3>1, <3>2, IsolatedIf
  <2>7. QED
    BY <2>4, <2>5, <2>6 DEF Allowed
<1>4. CASE q.op \in Creates \ {"createDepartment", "createUser"}
  <2>1. d = [db EXCEPT !.rows = @ \cup {q.id}]
    BY <1>4 DEF Written, Creates
  <2>2. q.id \in Ids /\ (q.id \in NewTenants \/ TenantOf[q.id] = q.by)
    BY <1>4, RequestType
  <2>3. /\ d.rows = db.rows \cup {q.id}
        /\ d.refOf = db.refOf /\ d.emailOf = db.emailOf
        /\ d.managerOf = db.managerOf /\ d.joins = db.joins /\ d.nodes = db.nodes
        /\ d = [rows |-> d.rows, refOf |-> d.refOf, emailOf |-> d.emailOf,
                managerOf |-> d.managerOf, joins |-> d.joins, nodes |-> d.nodes]
    BY <2>1 DEF Tables
  <2>4. d \in Tables
    BY <2>2, <2>3 DEF Tables
  <2>5. ReferencesStay(d)
    BY <2>3 DEF ReferencesStay
  <2>6. ASSUME NEW t \in Tenants \ {q.by} PROVE Isolated(db, d, t)
    <3>1. \A x \in Ids : TenantOf[x] = t /\ x \notin NewTenants
                        => (x \in d.rows <=> x \in db.rows)
      BY <2>2, <2>3
    <3>2. /\ db.joins \subseteq d.joins /\ d.joins \ db.joins = {} /\ t # q.by
          /\ db.nodes \subseteq d.nodes /\ d.nodes \ db.nodes = {}
      BY <2>3
    <3>3. QED
      BY <2>3, <2>4, <3>1, <3>2, IsolatedIf
  <2>7. QED
    BY <2>4, <2>5, <2>6 DEF Allowed
<1>5. QED
  BY <1>1, <1>2, <1>3, <1>4, RequestType

(* The node createUser registers. *)
LEMMA RegisteredAllowed ==
  ASSUME db \in Tables, ReferencesStay(db), NEW q \in Requests, q.op = "createUser"
  PROVE  Allowed(Registered(q), q.by)
<1> DEFINE d == Registered(q)
<1>1. q.by \in Tenants /\ q.id \in Users
  BY RequestType
<1>2. /\ d.nodes = db.nodes \cup {<<q.by, q.id>>}
      /\ d.rows = db.rows /\ d.refOf = db.refOf /\ d.emailOf = db.emailOf
      /\ d.managerOf = db.managerOf /\ d.joins = db.joins
      /\ d = [rows |-> d.rows, refOf |-> d.refOf, emailOf |-> d.emailOf,
              managerOf |-> d.managerOf, joins |-> d.joins, nodes |-> d.nodes]
  <2>1. d = [db EXCEPT !.nodes = db.nodes \cup {<<q.by, q.id>>}]
    BY DEF Registered, Tables
  <2> HIDE DEF d
  <2>2. QED
    BY <2>1 DEF Tables
<1>3. d \in Tables
  BY <1>1, <1>2 DEF Tables
<1>4. ReferencesStay(d)
  BY <1>2 DEF ReferencesStay
<1>5. ASSUME NEW t \in Tenants \ {q.by} PROVE Isolated(db, d, t)
  <2>1. \A n \in d.nodes \ db.nodes : n[1] = q.by
    BY <1>2
  <2>2. db.joins \subseteq d.joins /\ d.joins \ db.joins = {} /\ db.nodes \subseteq d.nodes
    BY <1>2
  <2>3. QED
    BY <1>2, <1>3, <2>1, <2>2, IsolatedIf
<1>6. QED
  BY <1>3, <1>4, <1>5 DEF Allowed

(* The nodes and the edge of the transaction. *)
LEMMA ManagedAllowed ==
  ASSUME db \in Tables, ReferencesStay(db), NEW q \in Requests,
         q.op \in {"createUser", "assignManager"},
         \A x \in LookedUp(q) : TenantOf[x] = q.by,
         q.op = "createUser" => q.manager # None
  PROVE  Allowed(Managed(q), q.by)
<1> DEFINE d == Managed(q)
<1>1. /\ q.by \in Tenants /\ q.id \in Users /\ ManagerOf(q) \in Users
      /\ TenantOf[q.id] = q.by
  BY RequestType DEF ManagerOf, LookedUp, Creates
<1>2. /\ d.nodes = db.nodes \cup {<<q.by, q.id>>, <<q.by, ManagerOf(q)>>}
      /\ d.managerOf = [db.managerOf EXCEPT ![q.id] = ManagerOf(q)]
      /\ d.rows = db.rows /\ d.refOf = db.refOf /\ d.joins = db.joins
      /\ d.emailOf = db.emailOf
      /\ d = [rows |-> d.rows, refOf |-> d.refOf, emailOf |-> d.emailOf,
              managerOf |-> d.managerOf, joins |-> d.joins, nodes |-> d.nodes]
  <2>1. d = [db EXCEPT !.nodes = db.nodes \cup {<<q.by, q.id>>, <<q.by, ManagerOf(q)>>},
                       !.managerOf = [db.managerOf EXCEPT ![q.id] = ManagerOf(q)]]
    BY DEF Managed, Tables
  <2> HIDE DEF d
  <2>2. QED
    BY <2>1 DEF Tables
<1>3. d \in Tables
  BY <1>1, <1>2 DEF Tables
<1>4. ReferencesStay(d)
  BY <1>2 DEF ReferencesStay
<1>5. ASSUME NEW t \in Tenants \ {q.by} PROVE Isolated(db, d, t)
  <2>1. \A n \in d.nodes \ db.nodes : n[1] = q.by
    BY <1>2
  <2>2. db.joins \subseteq d.joins /\ d.joins \ db.joins = {} /\ db.nodes \subseteq d.nodes
    BY <1>2
  <2>3. \A u \in Users : TenantOf[u] = t => d.managerOf[u] = db.managerOf[u]
    BY <1>1, <1>2 DEF Tables
  <2>4. QED
    BY <1>2, <1>3, <2>1, <2>2, <2>3, IsolatedIf
<1>6. QED
  BY <1>3, <1>4, <1>5 DEF Allowed

-----------------------------------------------------------------------------
(* A step of the call c, whose record becomes r. *)
Settles(c, r) ==
  /\ r \in {Idle} \cup Started
  /\ r # Idle => Progress(r)
  /\ call' = [call EXCEPT ![c] = r]
  /\ \/ db' = db
     \/ /\ call[c] # Idle /\ r # call[c]
        /\ Allowed(db', call[c].request.by)

LEMMA Busy ==
  ASSUME Inv, NEW c \in Calls, call[c].pc # "idle"
  PROVE  call[c] # Idle /\ call[c] \in Started /\ Progress(call[c])
BY DEF Inv, CallsInv, Idle

LEMMA ProceedSettles ==
  ASSUME Inv, NEW c \in Calls, call[c] # Idle, NEW d,
         NEW pc \in {"write", "node", "manager", "return"}, pc # call[c].pc,
         Proceed(c, pc, d), Allowed(d, call[c].request.by),
         call[c].left \cup call[c].missing = {},
         LET q == call[c].request
         IN  /\ pc = "write" => q.op # "assignManager"
             /\ pc = "node" => q.op = "createUser"
             /\ pc = "manager" => \/ q.op = "createUser" /\ q.manager # None
                                  \/ q.op = "assignManager"
  PROVE  \E r : Settles(c, r)
<1> DEFINE w == call[c].wrote \/ d # db
           r == [call[c] EXCEPT !.pc = pc, !.wrote = w]
<1>1. call[c] \in Started /\ Progress(call[c])
  BY DEF Inv, CallsInv
<1>2. w \in BOOLEAN
  OBVIOUS
<1>3. call' = [call EXCEPT ![c] = r] /\ db' = d
  BY <1>1 DEF Proceed, Inv, CallsInv, Started
<1> HIDE DEF w
<1>4. /\ r \in Started /\ r.pc = pc /\ r.request = call[c].request
      /\ r.left = call[c].left /\ r.missing = call[c].missing
  BY <1>1, <1>2 DEF Started
<1>5. Progress(r)
  BY <1>1, <1>4 DEF Progress
<1>6. r # call[c]
  BY <1>4
<1>7. QED
  BY <1>3, <1>4, <1>5, <1>6 DEF Settles

LEMMA RespondSettles ==
  ASSUME Inv, NEW c \in Calls, call[c] # Idle, NEW d, NEW code,
         Respond(c, code, d), Allowed(d, call[c].request.by)
  PROVE  \E r : Settles(c, r)
<1>1. Settles(c, Idle)
  BY DEF Respond, Settles
<1>2. QED
  BY <1>1

(* What the statement at pc writes is allowed, whether its reply is lost or *)
(* not.                                                                     *)
LEMMA EffectAllowed ==
  ASSUME Inv, NEW c \in Calls, call[c].pc # "idle"
  PROVE  /\ Allowed(db, call[c].request.by)
         /\ Allowed(Effect(c), call[c].request.by)
         /\ call[c].pc = "write" /\ WriteError(call[c].request) = "none" =>
              Allowed(Written(call[c].request), call[c].request.by)
         /\ call[c].pc = "node" =>
              Allowed(Registered(call[c].request), call[c].request.by)
         /\ call[c].pc = "manager" =>
              Allowed(Managed(call[c].request), call[c].request.by)
<1> DEFINE q == call[c].request
<1>1. q \in Requests /\ Progress(call[c])
  BY Busy DEF Started
<1>2. db \in Tables /\ ReferencesStay(db)
  BY DEF Inv
<1>3. Allowed(db, q.by)
  BY <1>2, IsolatedByNothing
<1>4. ASSUME call[c].pc = "write", WriteError(q) = "none"
      PROVE  Allowed(Written(q), q.by)
  BY <1>1, <1>2, <1>4, WrittenAllowed DEF Progress
<1>5. ASSUME call[c].pc = "node" PROVE Allowed(Registered(q), q.by)
  BY <1>1, <1>2, <1>5, RegisteredAllowed DEF Progress
<1>6. ASSUME call[c].pc = "manager" PROVE Allowed(Managed(q), q.by)
  <2>1. q.op = "createUser" => q.manager # None
    BY <1>1, <1>6 DEF Progress
  <2>2. q.op \in {"createUser", "assignManager"} /\ \A x \in LookedUp(q) : TenantOf[x] = q.by
    BY <1>1, <1>6 DEF Progress
  <2>3. QED
    BY <1>1, <1>2, <2>1, <2>2, ManagedAllowed
<1>7. Allowed(Effect(c), q.by)
  BY <1>3, <1>4, <1>5, <1>6 DEF Effect
<1>8. QED
  BY <1>3, <1>4, <1>5, <1>6, <1>7

LEMMA StartSettles ==
  ASSUME Inv, NEW c \in Calls, NEW q \in Requests, Start(c, q)
  PROVE  \E r : Settles(c, r)
<1> DEFINE pc == IF LookedUp(q) = {} THEN FirstStatement(q) ELSE "lookup"
           r == [pc |-> pc, request |-> q, left |-> LookedUp(q),
                 missing |-> {}, wrote |-> FALSE]
<1>1. pc \in {"lookup", "write", "manager"}
  BY DEF FirstStatement
<1>2. LookedUp(q) \subseteq Ids
  <2>1. q.id \in Ids /\ q.ref \in Ids \cup {None}
    BY RequestType
  <2>2. q.op \in {"assignManager", "assignRole"} => q.ref \in Ids
    BY RequestType DEF Ids
  <2>3. QED
    BY <2>1, <2>2 DEF LookedUp
<1>3. call' = [call EXCEPT ![c] = r] /\ db' = db
  BY DEF Start
<1>4. pc = "write" => q.op # "assignManager"
  BY DEF FirstStatement
<1>5. pc = "manager" => q.op = "assignManager"
  BY DEF FirstStatement
<1>6. pc # "lookup" => LookedUp(q) = {}
  OBVIOUS
<1> HIDE DEF pc
<1>7. /\ r \in Started /\ r.pc = pc /\ r.request = q
      /\ r.left = LookedUp(q) /\ r.missing = {}
  BY <1>1, <1>2 DEF Started
<1>8. Progress(r)
  BY <1>1, <1>4, <1>5, <1>6, <1>7 DEF Progress
<1>9. QED
  BY <1>3, <1>7, <1>8 DEF Settles

LEMMA LookupSettles ==
  ASSUME Inv, NEW c \in Calls, NEW x \in Ids, Lookup(c, x)
  PROVE  \E r : Settles(c, r)
<1> DEFINE q == call[c].request
           left == call[c].left \ {x}
           missing == IF FindById(q.by, x) THEN call[c].missing
                                           ELSE call[c].missing \cup {x}
           r == [call[c] EXCEPT !.left = left, !.missing = missing]
<1>1. call[c] # Idle /\ call[c] \in Started /\ Progress(call[c]) /\ call[c].pc = "lookup"
  BY Busy DEF Lookup
<1>2. left \in SUBSET Ids /\ missing \in SUBSET Ids
  BY <1>1 DEF Started
<1>3. call' = [call EXCEPT ![c] = r] /\ db' = db
  BY <1>1 DEF Lookup, Inv, CallsInv, Started
<1>4. \A y \in LookedUp(q) : y \in left \cup missing \/ TenantOf[y] = q.by
  BY <1>1 DEF Progress, FindById
<1> HIDE DEF left, missing
<1>5. /\ r \in Started /\ r.pc = "lookup" /\ r.request = q
      /\ r.left = left /\ r.missing = missing
  BY <1>1, <1>2 DEF Started
<1>6. Progress(r)
  BY <1>4, <1>5 DEF Progress
<1>7. QED
  BY <1>3, <1>5, <1>6 DEF Settles

(* Every step of the specification that is not a refusal of RolesGuard is a *)
(* step of one call.                                                        *)
LEMMA StepSettles ==
  ASSUME Inv, Next
  PROVE  UNCHANGED <<db, call>> \/ \E c \in Calls : \E r : Settles(c, r)
<1>1. ASSUME NEW q \in Requests, Forbid(q) PROVE UNCHANGED <<db, call>>
  BY <1>1 DEF Forbid
<1>2. ASSUME NEW c \in Calls, Decide(c) PROVE \E r : Settles(c, r)
  <2>1. call[c].pc = "lookup" /\ call[c] # Idle /\ Allowed(db, call[c].request.by)
    BY <1>2, EffectAllowed DEF Decide, Idle
  <2>2. CASE Respond(c, Normalize(NotFound(call[c].request, call[c].missing)), db)
    BY <2>1, <2>2, RespondSettles
  <2>3. CASE call[c].missing = {} /\ Proceed(c, FirstStatement(call[c].request), db)
    <3>1. call[c].left \cup call[c].missing = {}
      BY <1>2, <2>3 DEF Decide
    <3>2. CASE call[c].request.op = "assignManager"
      <4>1. Proceed(c, "manager", db)
        BY <2>3, <3>2 DEF FirstStatement
      <4>2. QED
        BY <2>1, <3>1, <3>2, <4>1, ProceedSettles
    <3>3. CASE call[c].request.op # "assignManager"
      <4>1. Proceed(c, "write", db)
        BY <2>3, <3>3 DEF FirstStatement
      <4>2. QED
        BY <2>1, <3>1, <3>3, <4>1, ProceedSettles
    <3>4. QED
      BY <3>2, <3>3
  <2>4. QED
    BY <1>2, <2>2, <2>3 DEF Decide
<1>3. ASSUME NEW c \in Calls, Write(c) PROVE \E r : Settles(c, r)
  <2> DEFINE q == call[c].request
  <2>1. /\ call[c].pc = "write" /\ call[c] # Idle /\ Progress(call[c])
        /\ Allowed(db, q.by)
        /\ WriteError(q) = "none" => Allowed(Written(q), q.by)
    BY <1>3, EffectAllowed, Busy DEF Write
  <2>2. CASE Respond(c, Rejected(c, WriteError(q)), db)
    BY <2>1, <2>2, RespondSettles
  <2>3. CASE /\ WriteError(q) = "none"
             /\ Proceed(c, IF q.op = "createUser" THEN "node" ELSE "return", Written(q))
    <3>1. call[c].left \cup call[c].missing = {} /\ Allowed(Written(q), q.by)
      BY <2>1, <2>3 DEF Progress
    <3>2. CASE q.op = "createUser"
      <4>1. Proceed(c, "node", Written(q))
        BY <2>3, <3>2
      <4>2. QED
        BY <2>1, <3>1, <3>2, <4>1, ProceedSettles
    <3>3. CASE q.op # "createUser"
      <4>1. Proceed(c, "return", Written(q))
        BY <2>3, <3>3
      <4>2. QED
        BY <2>1, <3>1, <4>1, ProceedSettles
    <3>4. QED
      BY <3>2, <3>3
  <2>4. QED
    BY <1>3, <2>2, <2>3 DEF Write
<1>4. ASSUME NEW c \in Calls, RegisterNode(c) PROVE \E r : Settles(c, r)
  <2> DEFINE q == call[c].request
  <2>1. /\ call[c].pc = "node" /\ call[c] # Idle /\ Progress(call[c])
        /\ Allowed(Registered(q), q.by)
    BY <1>4, EffectAllowed, Busy DEF RegisterNode
  <2>2. call[c].left \cup call[c].missing = {} /\ q.op = "createUser"
    BY <2>1 DEF Progress
  <2>3. CASE q.manager = None
    <3>1. Proceed(c, "return", Registered(q))
      BY <1>4, <2>3 DEF RegisterNode
    <3>2. QED
      BY <2>1, <2>2, <3>1, ProceedSettles
  <2>4. CASE q.manager # None
    <3>1. Proceed(c, "manager", Registered(q))
      BY <1>4, <2>4 DEF RegisterNode
    <3>2. QED
      BY <2>1, <2>2, <2>4, <3>1, ProceedSettles
  <2>5. QED
    BY <2>3, <2>4
<1>5. ASSUME NEW c \in Calls, AttachManager(c) PROVE \E r : Settles(c, r)
  <2> DEFINE q == call[c].request
  <2>1. /\ call[c].pc = "manager" /\ call[c] # Idle /\ Progress(call[c])
        /\ Allowed(db, q.by) /\ Allowed(Managed(q), q.by)
    BY <1>5, EffectAllowed, Busy DEF AttachManager
  <2>2. call[c].left \cup call[c].missing = {}
    BY <2>1 DEF Progress
  <2>3. \/ Respond(c, Normalize(ManagerError(q)), db)
        \/ Proceed(c, "return", Managed(q))
    BY <1>5 DEF AttachManager
  <2>4. QED
    BY <2>1, <2>2, <2>3, RespondSettles, ProceedSettles
<1>6. ASSUME NEW c \in Calls, RefuseCycle(c) \/ Return(c) \/ LoseConnection(c)
      PROVE  \E r : Settles(c, r)
  <2>1. call[c].pc # "idle" /\ call[c] # Idle
    BY <1>6 DEF RefuseCycle, Return, LoseConnection, Idle
  <2>2. Allowed(db, call[c].request.by) /\ Allowed(Effect(c), call[c].request.by)
    BY <2>1, EffectAllowed
  <2>3. \E d \in {db, Effect(c)}, code \in {"OK", Normalize("BadRequestException"),
                                            Rejected(c, "connection")} :
           Respond(c, code, d)
    BY <1>6 DEF RefuseCycle, Return, LoseConnection
  <2>4. QED
    BY <2>1, <2>2, <2>3, RespondSettles
<1>7. QED
  BY <1>1, <1>2, <1>3, <1>4, <1>5, <1>6, StartSettles, LookupSettles,
     SentAssumption DEF Next

-----------------------------------------------------------------------------
THEOREM InitInv == Init => Inv
<1> SUFFICES ASSUME Init PROVE Inv
  OBVIOUS
<1>1. /\ db.rows = {} /\ db.joins = {} /\ db.nodes = {}
      /\ db.refOf = [x \in Departments \cup Users |-> None]
      /\ db.managerOf = [u \in Users |-> None]
      /\ db.emailOf = [u \in Users |-> None]
      /\ db = [rows |-> db.rows, refOf |-> db.refOf, emailOf |-> db.emailOf,
               managerOf |-> db.managerOf, joins |-> db.joins, nodes |-> db.nodes]
  BY DEF Init, EmptyDb
<1>2. db \in Tables
  BY <1>1 DEF Tables
<1>3. ReferencesStay(db)
  BY <1>1 DEF ReferencesStay
<1>4. CallsInv
  BY DEF Init, CallsInv
<1>5. QED
  BY <1>2, <1>3, <1>4 DEF Inv

(* Steps of one call keep the invariant. *)
LEMMA SettlesKeeps ==
  ASSUME Inv, NEW c \in Calls, NEW r, Settles(c, r)
  PROVE  Inv'
<1>1. db' \in Tables /\ ReferencesStay(db')
  BY DEF Settles, Allowed, Inv
<1>2. call' \in [Calls -> {Idle} \cup Started]
  BY DEF Settles, Inv, CallsInv
<1>3. ASSUME NEW e \in Calls, call'[e] # Idle PROVE Progress(call'[e])
  <2>1. CASE e = c
    BY <2>1, <1>3 DEF Settles, Inv, CallsInv
  <2>2. CASE e # c
    BY <2>2, <1>3 DEF Settles, Inv, CallsInv
  <2>3. QED
    BY <2>1, <2>2
<1>4. QED
  BY <1>1, <1>2, <1>3 DEF Inv, CallsInv

LEMMA NextKeeps ==
  ASSUME Inv, [Next]_vars
  PROVE  Inv'
<1>1. CASE UNCHANGED <<db, call>>
  BY <1>1 DEF Inv, CallsInv
<1>2. CASE UNCHANGED vars
  BY <1>1, <1>2 DEF vars
<1>3. CASE Next
  BY <1>1, <1>3, StepSettles, SettlesKeeps
<1>4. QED
  BY <1>2, <1>3

(* The tables have their types, the references looked up stay in their      *)
(* tenant, and a call past its lookups found every id it looked up.         *)
THEOREM InvAlways == Spec => []Inv
<1>1. Init => Inv
  BY InitInv
<1>2. Inv /\ [Next]_vars => Inv'
  BY NextKeeps
<1>3. QED
  BY <1>1, <1>2, PTL DEF Spec

(* The parent of a department, role and user of a user role and the         *)
(* permission of a grant are of the tenant of the row that names them,      *)
(* however many calls of however many tenants interleave or are cut off:    *)
(* the lookups before the write are enough although nothing locks the rows. *)
THEOREM ReferencesStayAlways == Spec => []LookedUpReferencesStay
<1>1. Inv => LookedUpReferencesStay
  BY DEF Inv, LookedUpReferencesStay
<1>2. QED
  BY <1>1, InvAlways, PTL

(* No call changes what the scoped queries of another tenant return, nor    *)
(* what its permission checks do but for the one grant that leaves its      *)
(* tenant, the violation of GrantsStayInTheTenant.                          *)
THEOREM Isolation == Spec => OthersChangeNothingElse
<1>1. ASSUME Inv, [Next]_vars, db' # db, NEW t \in Tenants \ Acting
      PROVE  Isolated(db, db', t)
  <2>0. PICK c \in Calls : \E r : Settles(c, r)
    BY <1>1, StepSettles DEF vars
  <2>1. PICK r : Settles(c, r)
    BY <2>0
  <2> DEFINE by == call[c].request.by
  <2>2. call[c] # Idle /\ r # call[c] /\ Allowed(db', by)
    BY <1>1, <2>1 DEF Settles
  <2>3. call'[c] = r
    BY <1>1, <2>1 DEF Settles, Inv, CallsInv
  <2>4. by \in Acting
    BY <2>2, <2>3 DEF Acting
  <2>5. QED
    BY <1>1, <2>2, <2>4 DEF Allowed
<1>2. Inv /\ [Next]_vars =>
        [db' # db => \A t \in Tenants \ Acting : Isolated(db, db', t)]_vars
  BY <1>1
<1>3. QED
  BY <1>2, InvAlways, PTL DEF Spec, OthersChangeNothingElse

-----------------------------------------------------------------------------
(* The replies: every foreign key names a row, and a client may trust what  *)
(* a reply says.                                                            *)

(* No two users of a tenant have one address.                               *)
Addressed(d) ==
  \A u \in Users \cap d.rows :
    /\ d.emailOf[u] \in Addresses
    /\ \A v \in Users \cap d.rows :
         TenantOf[u] = TenantOf[v] /\ d.emailOf[u] = d.emailOf[v] => u = v

(* The foreign keys and the unique column of the tables.                    *)
Keyed(d) ==
  /\ Addressed(d)
  /\ \A x \in Departments \cup Users :
       d.refOf[x] # None => d.refOf[x] \in Departments \cap d.rows
  /\ \A u \in Users :
       d.managerOf[u] # None => d.managerOf[u] \in Users \cap d.rows
  /\ \A n \in d.nodes : n \in Nodes /\ n[2] \in d.rows
  /\ \A j \in d.joins :
       <<j[1], <<j[2], j[3]>>>> \in Joins /\ {j[2], j[3]} \subseteq d.rows

(* No operation takes a row, a node, a grant or an edge away.               *)
Grown(d, e) ==
  /\ d.rows \subseteq e.rows /\ d.nodes \subseteq e.nodes /\ d.joins \subseteq e.joins
  /\ \A u \in Users : d.managerOf[u] # None => e.managerOf[u] # None

(* What a statement may leave. *)
Kept(d) == Keyed(d) /\ Grown(db, d)

(* What a call under way, of record r, has found and written in tables d.   *)
Known(r, d) ==
  LET q == r.request
  IN  /\ \A x \in LookedUp(q) : x \in r.left \cup r.missing \cup d.rows
      /\ r.pc \in {"lookup", "write"} => r.wrote = FALSE
      /\ r.pc = "manager" /\ q.op = "assignManager" => r.wrote = FALSE
      /\ r.pc \in {"node", "manager"} => q.id \in d.rows
      /\ r.pc = "manager" /\ q.op = "createUser" => <<q.by, q.id>> \in d.nodes
      /\ r.pc = "return" => Done(d, q)

(* What a reply says, as RepliesTellWhatHappened has it.                    *)
Told(a, d) ==
  LET q == a.request
      late == q.op = "createUser" /\ a.code = "BAD_REQUEST"
  IN  /\ a.code \in Codes \cup {"none", "OK"}
      /\ a.code = "OK" => Done(d, q)
      /\ a.code = "CONFLICT" => Taken(d, q)
      /\ a.code \in Codes \ {"INTERNAL_SERVER_ERROR"} =>
           \/ ~ a.wrote
           \/ late /\ <<q.by, q.id>> \in d.nodes
           \/ q.op = "assignPermission" /\ Done(d, q)

ReplyInv ==
  /\ Inv /\ Keyed(db) /\ Told(answer, db)
  /\ \A c \in Calls : call[c] # Idle => Known(call[c], db)

-----------------------------------------------------------------------------
(* The statements. *)
LEMMA ManagerGiven ==
  ASSUME NEW q \in Requests
  PROVE  q.manager # None => q.op = "createUser" /\ q.manager \in Users
BY DEF Requests, Inputs, UserInputs, Optional, CreateTenantInput, CreateDepartmentInput,
       CreateUserInput, UpdateUserInput, AssignManagerInput, CreateRoleInput,
       CreatePermissionInput, AssignRoleInput, AssignPermissionInput,
       CreateServiceIdentityInput

(* A user of tables d is given an address that no other user of its tenant  *)
(* has.                                                                     *)
LEMMA AddressedWith ==
  ASSUME db \in Tables, Addressed(db), NEW d, NEW id \in Users, NEW email \in Addresses,
         d.rows \in {db.rows, db.rows \cup {id}},
         d.emailOf = [db.emailOf EXCEPT ![id] = email],
         \A u \in (Users \cap db.rows) \ {id} :
            ~ (TenantOf[u] = TenantOf[id] /\ db.emailOf[u] = email)
  PROVE  Addressed(d)
<1>1. d.emailOf[id] = email /\ \A u \in Users \ {id} : d.emailOf[u] = db.emailOf[u]
  BY DEF Tables
<1>2. ASSUME NEW u \in Users \cap d.rows, u # id PROVE u \in (Users \cap db.rows) \ {id}
  BY <1>2
<1>3. ASSUME NEW u \in Users \cap d.rows PROVE d.emailOf[u] \in Addresses
  BY <1>1, <1>2 DEF Addressed
<1>4. ASSUME NEW u \in Users \cap d.rows, NEW v \in Users \cap d.rows,
             TenantOf[u] = TenantOf[v], d.emailOf[u] = d.emailOf[v]
      PROVE  u = v
  BY <1>1, <1>2, <1>4 DEF Addressed
<1>5. QED
  BY <1>3, <1>4 DEF Addressed

(* The rows that other creates make are not users.                          *)
LEMMA OthersMakeNoUser ==
  ASSUME NEW q \in Requests, q.op \in Creates \ {"createDepartment", "createUser"}
  PROVE  q.id \notin Users
BY TenantAssumption
DEF Requests, Inputs, UserInputs, Creates, CreateTenantInput, CreateDepartmentInput,
    CreateUserInput, UpdateUserInput, AssignManagerInput, CreateRoleInput,
    CreatePermissionInput, AssignRoleInput, AssignPermissionInput,
    CreateServiceIdentityInput

LEMMA WrittenKept ==
  ASSUME db \in Tables, Keyed(db), NEW q \in Requests,
         WriteError(q) = "none", q.op # "assignManager"
  PROVE  /\ Kept(Written(q))
         /\ q.id \in Written(q).rows
         /\ q.op # "createUser" => Done(Written(q), q)
<1> DEFINE d == Written(q)
<1> USE TenantAssumption
<1>1. q.op # "createUser" => q.manager = None
  BY ManagerGiven
<1>2. CASE q.op \in {"createDepartment", "createUser"}
  <2>1. /\ d.rows = db.rows \cup {q.id}
        /\ d.refOf = [db.refOf EXCEPT ![q.id] = q.ref]
        /\ d.managerOf = db.managerOf /\ d.joins = db.joins /\ d.nodes = db.nodes
        /\ d.emailOf = IF q.op = "createUser" THEN [db.emailOf EXCEPT ![q.id] = q.email]
                                              ELSE db.emailOf
    BY <1>2 DEF Written, Tables
  <2> HIDE DEF d
  <2>2. /\ q.id \in Departments \cup Users
        /\ q.ref # None => q.ref \in Departments \cap db.rows
    BY <1>2, RequestType DEF WriteError, References, Creates
  <2>3. Addressed(d)
    <3>1. CASE q.op = "createDepartment"
      <4>1. Users \cap d.rows = Users \cap db.rows
        BY <2>1, <3>1, RequestType
      <4>2. QED
        BY <2>1, <3>1, <4>1 DEF Keyed, Addressed
    <3>2. CASE q.op = "createUser"
      <4>1. /\ q.id \in Users /\ q.email \in Addresses
            /\ TenantOf[q.id] = q.by /\ ~ Taken(db, q)
        BY <3>2, RequestType DEF WriteError, Creates
      <4>2. QED
        BY <2>1, <3>2, <4>1, AddressedWith DEF Keyed, Taken
    <3>3. QED
      BY <1>2, <3>1, <3>2
  <2>4. Kept(d)
    BY <2>1, <2>2, <2>3 DEF Kept, Keyed, Grown, Tables
  <2>5. q.op # "createUser" => Done(d, q)
    BY <1>1, <1>2, <2>1 DEF Done
  <2>6. QED
    BY <2>1, <2>4, <2>5 DEF d
<1>3. CASE q.op = "updateUser"
  <2> DEFINE email == IF q.email = None THEN db.emailOf[q.id] ELSE q.email
  <2>1. /\ q.id \in Users /\ q.id \in db.rows /\ TenantOf[q.id] = q.by
        /\ q.email \in Addresses \cup {None}
        /\ q.ref # None => q.ref \in Departments \cap db.rows
        /\ ~ Taken(db, q)
    BY <1>3, RequestType DEF WriteError, References, Creates, FindById
  <2>2. /\ d.refOf = [db.refOf EXCEPT ![q.id] = q.ref]
        /\ d.emailOf = [db.emailOf EXCEPT ![q.id] = email]
        /\ d.rows = db.rows
        /\ d.managerOf = db.managerOf /\ d.joins = db.joins /\ d.nodes = db.nodes
    <3>1. d = [db EXCEPT !.refOf[q.id] = q.ref,
                         !.emailOf = [db.emailOf EXCEPT ![q.id] = email]]
      BY <1>3, <2>1 DEF Written, Tables
    <3> HIDE DEF d, email
    <3>2. QED
      BY <3>1 DEF Tables
  <2>3. email \in Addresses /\ \A u \in (Users \cap db.rows) \ {q.id} :
          ~ (TenantOf[u] = TenantOf[q.id] /\ db.emailOf[u] = email)
    BY <1>3, <2>1 DEF Keyed, Addressed, Taken
  <2> HIDE DEF d, email
  <2>4. Addressed(d)
    BY <2>1, <2>2, <2>3, AddressedWith DEF Keyed
  <2>5. Kept(d)
    BY <2>1, <2>2, <2>4 DEF Kept, Keyed, Grown, Tables
  <2>6. Done(d, q)
    BY <1>1, <1>3, <2>1, <2>2 DEF Done
  <2>7. QED
    BY <2>1, <2>2, <2>5, <2>6 DEF d
<1>4. CASE q.op \in {"assignRole", "assignPermission"}
  <2>1. d = [db EXCEPT !.joins = @ \cup {<<q.by, q.id, q.ref>>}]
    BY <1>4 DEF Written
  <2>2. /\ d.joins = db.joins \cup {<<q.by, q.id, q.ref>>}
        /\ d.rows = db.rows /\ d.refOf = db.refOf /\ d.emailOf = db.emailOf
        /\ d.managerOf = db.managerOf /\ d.nodes = db.nodes
    BY <2>1 DEF Tables
  <2>3. /\ q.by \in Tenants
        /\ <<q.id, q.ref>> \in (Roles \X Users) \cup (Permissions \X Roles)
    BY <1>4, RequestType
  <2>4. q.id \in db.rows /\ q.ref \in db.rows
    <3>1. q.id \in Ids /\ q.ref \in Ids
      BY <2>3 DEF Ids
    <3>2. {q.id, q.ref} \subseteq db.rows \cup {None}
      BY <1>4 DEF WriteError, References, Creates
    <3>3. QED
      BY <3>1, <3>2
  <2>5. Keyed(d)
    BY <2>2, <2>3, <2>4 DEF Keyed, Joins, Addressed
  <2>6. Grown(db, d)
    BY <2>2 DEF Grown
  <2>7. Done(d, q)
    BY <1>1, <1>4, <2>2, <2>4 DEF Done
  <2>8. QED
    BY <2>2, <2>4, <2>5, <2>6, <2>7 DEF Kept
<1>5. CASE q.op \in Creates \ {"createDepartment", "createUser"}
  <2>1. d = [db EXCEPT !.rows = @ \cup {q.id}]
    BY <1>5 DEF Written, Creates
  <2>2. /\ d.rows = db.rows \cup {q.id}
        /\ d.refOf = db.refOf /\ d.emailOf = db.emailOf
        /\ d.managerOf = db.managerOf /\ d.joins = db.joins /\ d.nodes = db.nodes
    BY <2>1 DEF Tables
  <2>3. Kept(d)
    <3>1. Users \cap d.rows = Users \cap db.rows
      BY <1>5, <2>2, RequestType, OthersMakeNoUser
    <3>2. Addressed(d)
      BY <2>2, <3>1 DEF Keyed, Addressed
    <3>3. QED
      BY <2>2, <3>2 DEF Kept, Keyed, Grown
  <2>4. Done(d, q)
    BY <1>1, <1>5, <2>2 DEF Done, Creates
  <2>5. QED
    BY <2>2, <2>3, <2>4
<1>6. QED
  BY <1>2, <1>3, <1>4, <1>5, RequestType

LEMMA RegisteredKept ==
  ASSUME db \in Tables, Keyed(db), NEW q \in Requests, q.op = "createUser",
         q.id \in db.rows
  PROVE  /\ Kept(Registered(q))
         /\ q.id \in Registered(q).rows
         /\ <<q.by, q.id>> \in Registered(q).nodes
         /\ q.manager = None => Done(Registered(q), q)
<1> DEFINE d == Registered(q)
<1>1. q.by \in Tenants /\ q.id \in Users
  BY RequestType
<1>2. /\ d.nodes = db.nodes \cup {<<q.by, q.id>>}
      /\ d.rows = db.rows /\ d.refOf = db.refOf /\ d.emailOf = db.emailOf
      /\ d.managerOf = db.managerOf /\ d.joins = db.joins
  BY DEF Registered, Tables
<1>3. Keyed(d)
  BY <1>1, <1>2 DEF Keyed, Addressed, Nodes
<1>4. Grown(db, d)
  BY <1>2 DEF Grown
<1>5. QED
  BY <1>2, <1>3, <1>4 DEF Kept, Done

LEMMA ManagedKept ==
  ASSUME db \in Tables, Keyed(db), NEW q \in Requests,
         q.op \in {"createUser", "assignManager"},
         q.op = "createUser" => q.manager # None,
         q.id \in db.rows, ManagerError(q) = "none"
  PROVE  /\ Kept(Managed(q))
         /\ Done(Managed(q), q)
<1> DEFINE d == Managed(q)
<1> USE TenantAssumption
<1>1. /\ q.by \in Tenants /\ q.id \in Users
      /\ ManagerOf(q) \in Users /\ ManagerOf(q) # None
  BY RequestType DEF ManagerOf, Ids
<1>2. ManagerOf(q) \in db.rows
  BY DEF ManagerError
<1>3. /\ d.nodes = db.nodes \cup {<<q.by, q.id>>, <<q.by, ManagerOf(q)>>}
      /\ d.managerOf = [db.managerOf EXCEPT ![q.id] = ManagerOf(q)]
      /\ d.rows = db.rows /\ d.refOf = db.refOf /\ d.joins = db.joins
      /\ d.emailOf = db.emailOf
  <2>1. d = [db EXCEPT !.nodes = db.nodes \cup {<<q.by, q.id>>, <<q.by, ManagerOf(q)>>},
                       !.managerOf = [db.managerOf EXCEPT ![q.id] = ManagerOf(q)]]
    BY DEF Managed, Tables
  <2> HIDE DEF d
  <2>2. QED
    BY <2>1 DEF Tables
<1>4. Keyed(d)
  BY <1>1, <1>2, <1>3 DEF Keyed, Addressed, Nodes, Tables
<1>5. Grown(db, d)
  BY <1>1, <1>3 DEF Grown, Tables
<1>6. d.managerOf[q.id] # None
  BY <1>1, <1>3 DEF Tables
<1>7. Done(d, q)
  BY <1>3, <1>6 DEF Done
<1>8. QED
  BY <1>4, <1>5, <1>7 DEF Kept

LEMMA KeptByNothing ==
  ASSUME Keyed(db) PROVE Kept(db)
BY DEF Kept, Grown

(* What the statement at pc writes, whether its reply is lost or not.       *)
LEMMA EffectKept ==
  ASSUME ReplyInv, NEW c \in Calls, call[c].pc # "idle"
  PROVE  LET q == call[c].request
         IN  /\ Kept(db) /\ Kept(Effect(c))
             /\ call[c].pc = "write" /\ WriteError(q) = "none" =>
                  /\ Kept(Written(q))
                  /\ q.id \in Written(q).rows
                  /\ q.op # "createUser" => Done(Written(q), q)
             /\ call[c].pc = "node" =>
                  /\ Kept(Registered(q))
                  /\ q.id \in Registered(q).rows
                  /\ <<q.by, q.id>> \in Registered(q).nodes
                  /\ q.manager = None => Done(Registered(q), q)
             /\ call[c].pc = "manager" /\ ManagerError(q) = "none" =>
                  Kept(Managed(q)) /\ Done(Managed(q), q)
<1> DEFINE q == call[c].request
<1>1. q \in Requests /\ Progress(call[c]) /\ Known(call[c], db)
  BY Busy DEF Started, ReplyInv
<1>2. db \in Tables /\ Keyed(db) /\ Kept(db)
  BY KeptByNothing DEF ReplyInv, Inv
<1>3. ASSUME call[c].pc = "write", WriteError(q) = "none"
      PROVE  /\ Kept(Written(q))
             /\ q.id \in Written(q).rows
             /\ q.op # "createUser" => Done(Written(q), q)
  <2>1. q.op # "assignManager"
    BY <1>1, <1>3 DEF Progress
  <2>2. QED
    BY <1>1, <1>2, <1>3, <2>1, WrittenKept
<1>4. ASSUME call[c].pc = "node"
      PROVE  /\ Kept(Registered(q))
             /\ q.id \in Registered(q).rows
             /\ <<q.by, q.id>> \in Registered(q).nodes
             /\ q.manager = None => Done(Registered(q), q)
  <2>1. q.op = "createUser" /\ q.id \in db.rows
    BY <1>1, <1>4 DEF Progress, Known
  <2>2. QED
    BY <1>1, <1>2, <2>1, RegisteredKept
<1>5. ASSUME call[c].pc = "manager", ManagerError(q) = "none"
      PROVE  Kept(Managed(q)) /\ Done(Managed(q), q)
  <2>1. q.op \in {"createUser", "assignManager"} /\ q.id \in db.rows
    BY <1>1, <1>5 DEF Progress, Known
  <2>2. q.op = "createUser" => q.manager # None
    BY <1>1, <1>5 DEF Progress
  <2>3. QED
    BY <1>1, <1>2, <1>5, <2>1, <2>2, ManagedKept
<1>6. Kept(Effect(c))
  BY <1>2, <1>3, <1>4, <1>5 DEF Effect
<1>7. QED
  BY <1>2, <1>3, <1>4, <1>5, <1>6

-----------------------------------------------------------------------------
(* A step of the call c, whose record becomes r. *)
Tells(c, r) ==
  /\ call' = [call EXCEPT ![c] = r]
  /\ Kept(db') /\ Told(answer', db')
  /\ r # Idle => Known(r, db')

LEMMA NoAnswerTold ==
  ASSUME NEW d PROVE Told(NoAnswer, d)
BY DEF Told, NoAnswer, Codes

LEMMA ProceedTells ==
  ASSUME ReplyInv, NEW c \in Calls, call[c].pc # "idle", NEW d,
         NEW pc \in {"write", "node", "manager", "return"},
         Proceed(c, pc, d), Kept(d),
         LET q == call[c].request
         IN  /\ pc = "write" \/ (pc = "manager" /\ q.op = "assignManager") =>
                  call[c].wrote = FALSE /\ d = db
             /\ pc \in {"node", "manager"} => q.id \in d.rows
             /\ pc = "manager" /\ q.op = "createUser" => <<q.by, q.id>> \in d.nodes
             /\ pc = "return" => Done(d, q)
  PROVE  \E r : Tells(c, r)
<1> DEFINE w == call[c].wrote \/ d # db
           r == [call[c] EXCEPT !.pc = pc, !.wrote = w]
<1>1. call[c] \in Started /\ Known(call[c], db)
  BY Busy DEF ReplyInv
<1>2. call' = [call EXCEPT ![c] = r] /\ db' = d /\ answer' = NoAnswer
  BY <1>1 DEF Proceed, Inv, ReplyInv, CallsInv, Started
<1>3. call[c].wrote = FALSE /\ d = db => w = FALSE
  OBVIOUS
<1> HIDE DEF w
<1>4. /\ r.pc = pc /\ r.request = call[c].request /\ r.wrote = w
      /\ r.left = call[c].left /\ r.missing = call[c].missing
  BY <1>1 DEF Started
<1> HIDE DEF r
<1>5. \A x \in LookedUp(r.request) : x \in r.left \cup r.missing \cup d.rows
  BY <1>1, <1>4 DEF Known, Kept, Grown
<1>6. Known(r, d)
  BY <1>3, <1>4, <1>5 DEF Known
<1>7. QED
  BY <1>2, <1>6, NoAnswerTold DEF Tells

LEMMA RespondTells ==
  ASSUME ReplyInv, NEW c \in Calls, NEW d, NEW code \in Codes \cup {"OK"},
         Respond(c, code, d), Kept(d),
         LET q == call[c].request
         IN  /\ code = "OK" => Done(d, q)
             /\ code = "CONFLICT" => Taken(d, q)
             /\ code \in Codes \ {"INTERNAL_SERVER_ERROR"} =>
                  \/ call[c].wrote = FALSE /\ d = db
                  \/ /\ q.op = "createUser" /\ code = "BAD_REQUEST"
                     /\ <<q.by, q.id>> \in d.nodes
                  \/ q.op = "assignPermission" /\ Done(d, q)
  PROVE  \E r : Tells(c, r)
<1> DEFINE w == call[c].wrote \/ d # db
<1>1. /\ call' = [call EXCEPT ![c] = Idle] /\ db' = d
      /\ answer' = [code |-> code, request |-> call[c].request, wrote |-> w]
  BY DEF Respond
<1>2. call[c].wrote = FALSE /\ d = db => ~ w
  OBVIOUS
<1> HIDE DEF w
<1>3. answer'.code = code /\ answer'.request = call[c].request
  BY <1>1
<1>4. ~ w => ~ answer'.wrote
  BY <1>1
<1>5. Told(answer', d)
  BY <1>2, <1>3, <1>4 DEF Told
<1>6. QED
  BY <1>1, <1>5 DEF Tells

LEMMA StartTells ==
  ASSUME ReplyInv, NEW c \in Calls, NEW q \in Requests, Start(c, q)
  PROVE  \E r : Tells(c, r)
<1> DEFINE pc == IF LookedUp(q) = {} THEN FirstStatement(q) ELSE "lookup"
           r == [pc |-> pc, request |-> q, left |-> LookedUp(q),
                 missing |-> {}, wrote |-> FALSE]
<1>1. pc \in {"lookup", "write"}
  <2>1. q.op = "assignManager" => q.id \in LookedUp(q)
    BY DEF LookedUp
  <2>2. QED
    BY <2>1 DEF FirstStatement
<1>2. call' = [call EXCEPT ![c] = r] /\ db' = db /\ answer' = NoAnswer
  BY DEF Start
<1> HIDE DEF pc
<1>3. /\ r.pc = pc /\ r.request = q /\ r.wrote = FALSE
      /\ r.left = LookedUp(q) /\ r.missing = {}
  OBVIOUS
<1>4. Known(r, db)
  BY <1>1, <1>3 DEF Known
<1>5. Kept(db)
  BY KeptByNothing DEF ReplyInv
<1>6. QED
  BY <1>2, <1>4, <1>5, NoAnswerTold DEF Tells

LEMMA LookupTells ==
  ASSUME ReplyInv, NEW c \in Calls, NEW x \in Ids, Lookup(c, x)
  PROVE  \E r : Tells(c, r)
<1> DEFINE q == call[c].request
           left == call[c].left \ {x}
           missing == IF FindById(q.by, x) THEN call[c].missing
                                           ELSE call[c].missing \cup {x}
           r == [call[c] EXCEPT !.left = left, !.missing = missing]
<1>1. /\ call[c] \in Started /\ call[c].pc = "lookup" /\ Known(call[c], db)
      /\ Kept(db)
  BY Busy, KeptByNothing DEF Lookup, ReplyInv
<1>2. call' = [call EXCEPT ![c] = r] /\ db' = db /\ answer' = NoAnswer
  BY <1>1 DEF Lookup, Inv, ReplyInv, CallsInv, Started
<1>3. \A y \in LookedUp(q) : y \in left \cup missing \cup db.rows
  BY <1>1 DEF Known, FindById
<1> HIDE DEF left, missing
<1>4. /\ r.pc = "lookup" /\ r.request = q /\ r.left = left /\ r.missing = missing
      /\ r.wrote = call[c].wrote
  BY <1>1 DEF Started
<1> HIDE DEF r
<1>5. Known(r, db)
  BY <1>1, <1>3, <1>4 DEF Known
<1>6. QED
  BY <1>1, <1>2, <1>5, NoAnswerTold DEF Tells

LEMMA DecideTells ==
  ASSUME ReplyInv, NEW c \in Calls, Decide(c)
  PROVE  \E r : Tells(c, r)
<1> DEFINE q == call[c].request
           missing == call[c].missing
           code == Normalize(NotFound(q, missing))
<1>1. /\ call[c].pc = "lookup" /\ call[c].pc # "idle" /\ Kept(db)
      /\ Known(call[c], db) /\ call[c].left = {}
  BY Busy, KeptByNothing DEF Decide, ReplyInv
<1>2. call[c].wrote = FALSE
  BY <1>1 DEF Known
<1>3. CASE Respond(c, code, db)
  <2>1. code \in {"NOT_FOUND", "BAD_REQUEST"}
    BY DEF NotFound, Normalize
  <2>2. code \in Codes \cup {"OK"} /\ code # "OK" /\ code # "CONFLICT"
    BY <2>1 DEF Codes
  <2>3. QED
    BY <1>1, <1>2, <1>3, <2>2, RespondTells
<1>4. CASE missing = {} /\ Proceed(c, FirstStatement(q), db)
  <2>1. CASE q.op = "assignManager"
    <3>1. Proceed(c, "manager", db)
      BY <1>4, <2>1 DEF FirstStatement
    <3>2. q.id \in db.rows
      BY <1>1, <1>4, <2>1 DEF Known, LookedUp
    <3>3. QED
      BY <1>1, <1>2, <2>1, <3>1, <3>2, ProceedTells
  <2>2. CASE q.op # "assignManager"
    <3>1. Proceed(c, "write", db)
      BY <1>4, <2>2 DEF FirstStatement
    <3>2. QED
      BY <1>1, <1>2, <3>1, ProceedTells
  <2>3. QED
    BY <2>1, <2>2
<1>5. QED
  BY <1>3, <1>4 DEF Decide

LEMMA WriteTells ==
  ASSUME ReplyInv, NEW c \in Calls, Write(c)
  PROVE  \E r : Tells(c, r)
<1> DEFINE q == call[c].request
           code == Rejected(c, WriteError(q))
<1>1. /\ call[c].pc = "write" /\ call[c].pc # "idle" /\ Kept(db)
      /\ WriteError(q) = "none" =>
           /\ Kept(Written(q)) /\ q.id \in Written(q).rows
           /\ q.op # "createUser" => Done(Written(q), q)
  BY EffectKept DEF Write
<1>2. call[c].wrote = FALSE
  BY <1>1, Busy DEF ReplyInv, Known
<1>3. CASE WriteError(q) # "none" /\ Respond(c, code, db)
  <2>1. /\ code \in {"CONFLICT", "NOT_FOUND", "BAD_REQUEST", "INTERNAL_SERVER_ERROR"}
        /\ code = "CONFLICT" => Taken(db, q)
    BY <1>1, <1>3 DEF Rejected, WriteError, Normalize
  <2>2. code \in Codes \cup {"OK"} /\ code # "OK"
    BY <2>1 DEF Codes
  <2>3. QED
    BY <1>1, <1>2, <1>3, <2>1, <2>2, RespondTells
<1>4. CASE /\ WriteError(q) = "none"
           /\ Proceed(c, IF q.op = "createUser" THEN "node" ELSE "return", Written(q))
  <2>1. CASE q.op = "createUser"
    <3>1. Proceed(c, "node", Written(q))
      BY <1>4, <2>1
    <3>2. QED
      BY <1>1, <1>4, <3>1, ProceedTells
  <2>2. CASE q.op # "createUser"
    <3>1. Proceed(c, "return", Written(q))
      BY <1>4, <2>2
    <3>2. QED
      BY <1>1, <1>4, <2>2, <3>1, ProceedTells
  <2>3. QED
    BY <2>1, <2>2
<1>5. QED
  BY <1>3, <1>4 DEF Write

LEMMA RegisterNodeTells ==
  ASSUME ReplyInv, NEW c \in Calls, RegisterNode(c)
  PROVE  \E r : Tells(c, r)
<1> DEFINE q == call[c].request
<1>1. /\ call[c].pc = "node" /\ call[c].pc # "idle"
      /\ Kept(Registered(q)) /\ q.id \in Registered(q).rows
      /\ <<q.by, q.id>> \in Registered(q).nodes
      /\ q.manager = None => Done(Registered(q), q)
  BY EffectKept DEF RegisterNode
<1>2. q.op = "createUser"
  BY <1>1, Busy DEF Progress, ReplyInv
<1>3. CASE q.manager = None
  <2>1. Proceed(c, "return", Registered(q))
    BY <1>3 DEF RegisterNode
  <2>2. QED
    BY <1>1, <1>3, <2>1, ProceedTells
<1>4. CASE q.manager # None
  <2>1. Proceed(c, "manager", Registered(q))
    BY <1>4 DEF RegisterNode
  <2>2. QED
    BY <1>1, <1>2, <2>1, ProceedTells
<1>5. QED
  BY <1>3, <1>4

(* A call whose manager is refused: it wrote nothing, or the new user and   *)
(* its node.                                                                *)
LEMMA ManagerRefused ==
  ASSUME ReplyInv, NEW c \in Calls, call[c].pc = "manager"
  PROVE  LET q == call[c].request
         IN  \/ call[c].wrote = FALSE
             \/ q.op = "createUser" /\ <<q.by, q.id>> \in db.nodes
<1>1. Progress(call[c]) /\ Known(call[c], db)
  BY Busy DEF ReplyInv
<1>2. QED
  BY <1>1 DEF Progress, Known

LEMMA AttachManagerTells ==
  ASSUME ReplyInv, NEW c \in Calls, AttachManager(c) \/ RefuseCycle(c)
  PROVE  \E r : Tells(c, r)
<1> DEFINE q == call[c].request
           code == Normalize(ManagerError(q))
<1>1. /\ call[c].pc = "manager" /\ call[c].pc # "idle" /\ Kept(db)
      /\ ManagerError(q) = "none" => Kept(Managed(q)) /\ Done(Managed(q), q)
  BY EffectKept DEF AttachManager, RefuseCycle
<1>2. CASE \E refusal \in {"BAD_REQUEST", "INTERNAL_SERVER_ERROR"} :
             Respond(c, refusal, db)
  <2>1. PICK refusal \in {"BAD_REQUEST", "INTERNAL_SERVER_ERROR"} :
           Respond(c, refusal, db)
    BY <1>2
  <2>2. /\ refusal \in Codes \cup {"OK"} /\ refusal # "OK" /\ refusal # "CONFLICT"
        /\ refusal \in Codes \ {"INTERNAL_SERVER_ERROR"} => refusal = "BAD_REQUEST"
    BY DEF Codes
  <2>3. QED
    BY <1>1, <2>1, <2>2, ManagerRefused, RespondTells
<1>3. CASE ManagerError(q) = "none" /\ Proceed(c, "return", Managed(q))
  BY <1>1, <1>3, ProceedTells
<1>4. code \in {"BAD_REQUEST", "INTERNAL_SERVER_ERROR"}
  BY DEF ManagerError, Normalize
<1>5. Normalize("BadRequestException") = "BAD_REQUEST"
  BY DEF Normalize
<1>6. QED
  BY <1>2, <1>3, <1>4, <1>5 DEF AttachManager, RefuseCycle

LEMMA ReturnTells ==
  ASSUME ReplyInv, NEW c \in Calls, Return(c)
  PROVE  \E r : Tells(c, r)
<1>1. /\ call[c].pc = "return" /\ call[c].pc # "idle" /\ Kept(db)
      /\ Known(call[c], db)
  BY Busy, KeptByNothing DEF Return, ReplyInv
<1>2. Respond(c, "OK", db) /\ Done(db, call[c].request)
  BY <1>1 DEF Return, Known
<1>3. "OK" \in Codes \cup {"OK"} /\ "OK" \notin Codes
  BY DEF Codes
<1>4. QED
  BY <1>1, <1>2, <1>3, RespondTells

LEMMA LoseConnectionTells ==
  ASSUME ReplyInv, NEW c \in Calls, LoseConnection(c)
  PROVE  \E r : Tells(c, r)
<1> DEFINE q == call[c].request
           code == Rejected(c, "connection")
<1>1. /\ call[c].pc # "idle" /\ Kept(db) /\ Kept(Effect(c))
      /\ call[c].pc = "write" /\ WriteError(q) = "none" /\ q.op # "createUser" =>
           Done(Written(q), q)
  BY EffectKept DEF LoseConnection
<1>2. PICK d \in {db, Effect(c)} : Respond(c, code, d)
  BY DEF LoseConnection
<1>3. CASE call[c].pc = "write" /\ q.op = "assignPermission"
  <2>1. code = "BAD_REQUEST"
    BY <1>3 DEF Rejected, Normalize
  <2>2. call[c].wrote = FALSE
    BY <1>1, <1>3, Busy DEF ReplyInv, Known
  <2>3. d = db \/ Done(d, q)
    BY <1>1, <1>2, <1>3 DEF Effect
  <2>4. code \in Codes \cup {"OK"} /\ code # "OK" /\ code # "CONFLICT"
    BY <2>1 DEF Codes
  <2>5. QED
    BY <1>1, <1>2, <1>3, <2>2, <2>3, <2>4, RespondTells
<1>4. CASE ~ (call[c].pc = "write" /\ q.op = "assignPermission")
  <2>1. code = "INTERNAL_SERVER_ERROR"
    BY <1>4 DEF Rejected, Normalize
  <2>2. code \in Codes \cup {"OK"} /\ code # "OK" /\ code # "CONFLICT"
    BY <2>1 DEF Codes
  <2>3. QED
    BY <1>1, <1>2, <2>1, <2>2, RespondTells
<1>5. QED
  BY <1>3, <1>4

-----------------------------------------------------------------------------
LEMMA DoneStays ==
  ASSUME NEW q \in Requests, NEW d, NEW e, Grown(d, e), Done(d, q)
  PROVE  Done(e, q)
<1>1. q.manager # None \/ q.op = "assignManager" => q.id \in Users
  BY ManagerGiven, RequestType
<1>2. QED
  BY <1>1 DEF Grown, Done

(* Steps of one call keep what the others know. *)
LEMMA TellsKeeps ==
  ASSUME ReplyInv, Inv', NEW c \in Calls, NEW r, Tells(c, r)
  PROVE  ReplyInv'
<1>1. Keyed(db') /\ Grown(db, db') /\ Told(answer', db')
  BY DEF Tells, Kept
<1>2. ASSUME NEW e \in Calls, call'[e] # Idle PROVE Known(call'[e], db')
  <2>1. CASE e = c
    BY <1>2, <2>1 DEF Tells, ReplyInv, Inv, CallsInv
  <2>2. CASE e # c
    <3>1. call'[e] = call[e]
      BY <2>2 DEF Tells, ReplyInv, Inv, CallsInv
    <3>2. call[e].request \in Requests /\ Known(call[e], db)
      BY <1>2, <3>1 DEF ReplyInv, Inv, CallsInv, Started
    <3>3. Done(db, call[e].request) => Done(db', call[e].request)
      BY <1>1, <3>2, DoneStays
    <3>4. Known(call[e], db')
      BY <1>1, <3>2, <3>3 DEF Known, Grown
    <3>5. QED
      BY <3>1, <3>4
  <2>3. QED
    BY <2>1, <2>2
<1>3. QED
  BY <1>1, <1>2 DEF ReplyInv

LEMMA ReplyStep ==
  ASSUME ReplyInv, [Next]_vars
  PROVE  ReplyInv'
<1>1. Inv'
  BY NextKeeps DEF ReplyInv
<1>2. ASSUME NEW q \in Requests, Forbid(q) PROVE ReplyInv'
  <2>1. /\ UNCHANGED <<db, call>>
        /\ answer'.code = "FORBIDDEN" /\ ~ answer'.wrote
    BY <1>2 DEF Forbid, Normalize
  <2>2. Told(answer', db)
    BY <2>1 DEF Told, Codes
  <2>3. QED
    BY <1>1, <2>1, <2>2 DEF ReplyInv
<1>3. CASE UNCHANGED vars
  BY <1>1, <1>3 DEF vars, ReplyInv
<1>4. ASSUME NEW c \in Calls, \E r : Tells(c, r) PROVE ReplyInv'
  BY <1>1, <1>4, TellsKeeps
<1>5. QED
  BY <1>2, <1>3, <1>4, StartTells, LookupTells, DecideTells, WriteTells,
     RegisterNodeTells, AttachManagerTells, ReturnTells, LoseConnectionTells,
     SentAssumption DEF Next

(* Every foreign key names a row, a call under way knows what it has found  *)
(* and written, and a reply tells it.                                       *)
THEOREM ReplyInvAlways == Spec => []ReplyInv
<1>1. Init => ReplyInv
  <2> SUFFICES ASSUME Init PROVE ReplyInv
    OBVIOUS
  <2>1. Inv
    BY InitInv
  <2>2. Keyed(db)
    BY DEF Init, EmptyDb, Keyed, Addressed
  <2>3. Told(answer, db)
    BY NoAnswerTold DEF Init
  <2>4. QED
    BY <2>1, <2>2, <2>3 DEF ReplyInv, Init
<1>2. ReplyInv /\ [Next]_vars => ReplyInv'
  BY ReplyStep
<1>3. QED
  BY <1>1, <1>2, PTL DEF Spec

(* The tables hold what their columns may, every foreign key names a row    *)
(* that exists, those the handlers do not look up included, and no two      *)
(* users of a tenant have one address, however createUser and updateUser    *)
(* interleave.                                                              *)
THEOREM TypeCorrect == Spec => []TypeOK
<1>1. ReplyInv => TypeOK
  <2> SUFFICES ASSUME ReplyInv PROVE TypeOK
    OBVIOUS
  <2>1. \A c \in Calls :
          call[c].pc \in {"idle", "lookup", "write", "node", "manager", "return"}
    BY DEF ReplyInv, Inv, CallsInv, Idle, Started
  <2>2. QED
    BY <2>1 DEF ReplyInv, Inv, Tables, Keyed, Addressed, Told, TypeOK
<1>2. QED
  BY <1>1, ReplyInvAlways, PTL

(* What the client of an ended call may conclude from its reply is so,      *)
(* whichever connection was lost and whatever ran meanwhile.                *)
THEOREM RepliesAlwaysTell == Spec => []RepliesTellWhatHappened
<1>1. ReplyInv => RepliesTellWhatHappened
  BY DEF ReplyInv, Told, RepliesTellWhatHappened
<1>2. QED
  BY <1>1, ReplyInvAlways, PTL
=============================================================================
