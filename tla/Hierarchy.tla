----------------------------- MODULE Hierarchy -----------------------------
(***************************************************************************)
(* The management hierarchy of one tenant, one database transaction per     *)
(* step: the mutations createUser and assignManager of users.service.ts     *)
(* over the closure table of hierarchy.service.ts.  createUser is three     *)
(* transactions (the row, its node, its manager), so calls interleave       *)
(* between them and a call may die between them.  HierarchyTx takes the     *)
(* assignManager transaction apart, statement by statement.                 *)
(***************************************************************************)
EXTENDS ClosureTable

CONSTANT Foreign   \* ids of users of other tenants

ASSUME ForeignAssumption == Foreign \subseteq Users

VARIABLES
  users,      \* ids of the tenant's rows in table User
  managerId,  \* the column User.managerId
  closure,    \* the tenant's rows in OrganizationHierarchyClosure
  call        \* call[u]: what is left to do of the createUser call of u

vars == <<users, managerId, closure, call>>

Done == [stage |-> "done", manager |-> NoUser]

Call == [stage : {"addNode"}, manager : Users \cup {NoUser}]
          \cup [stage : {"assignManager"}, manager : Users]
          \cup {Done}

(* Ids a foreign key to User accepts: the keys name the id alone, so a user *)
(* of another tenant satisfies them.                                        *)
Referable == users \cup Foreign

Init ==
  /\ users = {}
  /\ managerId = [u \in Users |-> NoUser]
  /\ closure = EmptyTable
  /\ call = [u \in Users |-> Done]

(* users.service.ts create: the row is inserted with a fresh id; the        *)
(* managerId of the input is kept for the third transaction, unchecked.     *)
InsertUser(u, m) ==
  /\ u \notin Referable
  /\ m # u
  /\ users' = users \cup {u}
  /\ call' = [call EXCEPT ![u] = [stage |-> "addNode", manager |-> m]]
  /\ UNCHANGED <<managerId, closure>>

(* Fault: the call goes on to a manager it was not given. *)
RegisterNodeAnyManager(u) ==
  /\ call[u].stage = "addNode"
  /\ closure' = AddNode(closure, u)
  /\ call' = [call EXCEPT ![u].stage = "assignManager"]
  /\ UNCHANGED <<users, managerId>>

RegisterNode(u) ==
  /\ call[u].stage = "addNode"
  /\ closure' = AddNode(closure, u)
  /\ call' = [call EXCEPT ![u] = IF call[u].manager = NoUser THEN Done
                                 ELSE [@ EXCEPT !.stage = "assignManager"]]
  /\ UNCHANGED <<users, managerId>>

(* Fault: no cycle check. *)
CommitManagerUnchecked(u, m) ==
  /\ u # m
  /\ m \in Referable
  /\ closure' = Reparent(AddNode(AddNode(closure, u), m), u, m)
  /\ managerId' = [managerId EXCEPT ![u] = m]

(* The committed effect of hierarchy.service.ts assignManager; a self       *)
(* assignment, a cycle and a foreign key that fails leave everything as it  *)
(* was.  updateMany sets managerId where the user is one of the tenant.     *)
CommitManager(u, m) ==
  LET nodes == AddNode(AddNode(closure, u), m)
  IN  /\ u # m
      /\ m \in Referable
      /\ ~ WouldCycle(nodes, u, m)
      /\ closure' = Reparent(nodes, u, m)
      /\ managerId' = [managerId EXCEPT ![u] = m]

AttachNewUser(u) ==
  /\ call[u].stage = "assignManager"
  /\ CommitManager(u, call[u].manager)
  /\ call' = [call EXCEPT ![u] = Done]
  /\ UNCHANGED users

(* The call stops before its next transaction: the process dies, or the     *)
(* transaction fails (a cycle, a missing manager, a lost connection).       *)
AbandonCreate(u) ==
  /\ call[u] # Done
  /\ call' = [call EXCEPT ![u] = Done]
  /\ UNCHANGED <<users, managerId, closure>>

(* users.service.ts assignManager: both users were found in the tenant.     *)
AssignManager(u, m) ==
  /\ {u, m} \subseteq users
  /\ CommitManager(u, m)
  /\ UNCHANGED <<users, call>>

Next ==
  \/ \E u \in Users, m \in Users \cup {NoUser} : InsertUser(u, m)
  \/ \E u \in Users : RegisterNode(u)
  \/ \E u \in Users : AttachNewUser(u)
  \/ \E u \in Users : AbandonCreate(u)
  \/ \E u, m \in Users : AssignManager(u, m)

Spec == Init /\ [][Next]_vars

-----------------------------------------------------------------------------
(* The types of the four variables. *)
TypeOK ==
  /\ users \subseteq Users
  /\ managerId \in [Users -> Users \cup {NoUser}]
  /\ closure \in Tables
  /\ call \in [Users -> Call]

(* The closure table says what the managerId column says, after every      *)
(* transaction.                                                             *)
ClosureOK == IsClosureOf(closure, managerId)

(* Only users of the tenant have a manager in it, or are being created.     *)
ManagedAreMembers ==
  \A u \in Users : managerId[u] # NoUser \/ call[u] # Done => u \in users

(* The inductive invariant.                                                 *)
Inv == TypeOK /\ ManagedAreMembers /\ ClosureOK

Chart == INSTANCE OrgChart WITH staff <- users, manager <- managerId

(* "Prevents cycles" (hierarchy.service.ts): no group of users reports only *)
(* to itself, whatever the order of creations, crashes and re-parentings.   *)
NoCycle == Forest(managerId)

(* Every query of hierarchy.service.ts, answered from one row or one scan   *)
(* of the table, says what walking up the chart says.                       *)
QueriesAnswerTheChart ==
  LET distance == Distance(managerId)
  IN  \A s, u \in Users :
        /\ GetRelationship(closure, s, u)
             = {ChartRelationship(managerId, s, u)}
        /\ IsDirectManager(closure, s, u) <=> managerId[u] = s
        /\ IsAncestor(closure, s, u) <=> distance[s][u] >= 1
        /\ <<s, distance[s][u]>> \in GetAncestors(closure, u)
             <=> distance[s][u] >= 1
        /\ <<u, distance[s][u]>> \in GetDescendants(closure, s)
             <=> distance[s][u] >= 1

(* The one-row cycle check refuses an assignment exactly when it would      *)
(* close a cycle: it lets no cycle pass and refuses no sound assignment.    *)
CycleCheckExact ==
  \A u, m \in Users :
     u # m => (WouldCycle(closure, u, m)
                 <=> ~ Forest([managerId EXCEPT ![u] = m]))

(* skipDuplicates hides nothing: when the cross join of an accepted         *)
(* assignment is inserted, none of its rows has a key that is still taken.  *)
NothingSkipped ==
  \A u, m \in Users :
     u # m /\ ~ WouldCycle(closure, u, m) =>
       LET sub == Subtree(closure, u)
           kept == Detach(closure, OldAncestors(closure, u), Ids(sub))
           rows == CrossJoin(SuperTree(closure, m), sub)
       IN  \A a, d \in Users : rows[a][d] # NoRow => kept[a][d] = NoRow

(* A re-parenting moves the subtree as one piece: nothing changes inside it *)
(* nor outside it, its users lose every ancestor the new manager does not   *)
(* give them, and each is as far below a new ancestor as the root plus its  *)
(* own depth in the subtree.                                                *)
SubtreeMovesAsOnePiece ==
  [][\A u \in Users : managerId'[u] # managerId[u] =>
       LET Inside(x) == x = u \/ closure[u][x] # NoRow
       IN  \A a, d \in Users :
             /\ Inside(a) = Inside(d) /\ a # d
                  => closure'[a][d] = closure[a][d]
             /\ Inside(a) /\ ~ Inside(d) => closure'[a][d] = NoRow
             /\ ~ Inside(a) /\ Inside(d) =>
                  closure'[a][d] = IF closure'[a][u] = NoRow THEN NoRow
                                   ELSE closure'[a][u]
                                        + (IF d = u THEN 0 ELSE closure[u][d])
    ]_vars

(* Every step is a step of the chart: a user joins, or a manager is         *)
(* assigned that leaves a forest.                                           *)
ImplementsOrgChart == Chart!ChartSpec

-----------------------------------------------------------------------------
(* DESIGN: foreign keys stay within a tenant.                               *)
RowsStayInTheTenant ==
  \A a, d \in Users : closure[a][d] # NoRow => {a, d} \subseteq users
=============================================================================
