-------------------------- MODULE HierarchyProofs --------------------------
(***************************************************************************)
(* Proofs about Hierarchy, for any finite set of users: the closure table   *)
(* stays the closure of the managerId edges, so the chart stays a forest    *)
(* and every step is a step of OrgChart.  Then about HierarchyTx, for any   *)
(* writers and readers: transactions that do not touch each other's chains  *)
(* take effect as if each ran alone.                                        *)
(***************************************************************************)
EXTENDS HierarchyTx, ClosureTableProofs

-----------------------------------------------------------------------------
(* The committed effect of assignManager keeps the invariant's parts.       *)
LEMMA CommitManagerClosure ==
  ASSUME TypeOK, ClosureOK, NEW u \in Users, NEW m \in Users,
         CommitManager(u, m)
  PROVE  /\ closure' \in Tables
         /\ managerId' = [managerId EXCEPT ![u] = m]
         /\ IsClosureOf(closure', managerId')
<1> DEFINE nodes == AddNode(AddNode(closure, u), m)
<1>1. /\ u # m /\ nodes[u][m] = NoRow
      /\ closure' = Reparent(nodes, u, m)
      /\ managerId' = [managerId EXCEPT ![u] = m]
  BY DEF CommitManager, WouldCycle
<1>2. closure \in Tables /\ managerId \in Charts
  BY DEF TypeOK, Charts
<1>3. /\ nodes \in Tables /\ IsClosureOf(nodes, managerId)
      /\ nodes[u][u] = 0 /\ nodes[m][m] = 0
  BY <1>2, BothNodes DEF ClosureOK
<1> HIDE DEF nodes
<1> QED
  BY <1>1, <1>2, <1>3, ReparentClosure

-----------------------------------------------------------------------------
(* The invariant holds initially and every step keeps it. *)
LEMMA InitInv == Init => Inv
<1> SUFFICES ASSUME Init PROVE Inv
  OBVIOUS
<1>1. TypeOK
  BY DEF Init, TypeOK, Tables, EmptyTable, Call, Done
<1>2. ManagedAreMembers
  BY DEF Init, ManagedAreMembers
<1>3. ClosureOK
  BY ClosureAssumption
     DEF Init, ClosureOK, IsClosureOf, SelfRows, PathsCompose, AncestorsChain,
         DirectRows, NoGaps, EmptyTable, NoRow
<1> QED
  BY <1>1, <1>2, <1>3 DEF Inv

LEMMA StepInv == Inv /\ [Next]_vars => Inv'
<1> SUFFICES ASSUME Inv, [Next]_vars PROVE Inv'
  OBVIOUS
<1> USE DEF Inv
<1>1. ASSUME NEW u \in Users, NEW m \in Users \cup {NoUser}, InsertUser(u, m)
      PROVE  Inv'
  <2>1. TypeOK'
    <3>1. [stage |-> "addNode", manager |-> m] \in Call
      BY DEF Call
    <3> QED
      BY <1>1, <3>1 DEF InsertUser, TypeOK
  <2>2. ManagedAreMembers'
    BY <1>1 DEF InsertUser, ManagedAreMembers, TypeOK
  <2>3. ClosureOK'
    BY <1>1 DEF InsertUser, ClosureOK
  <2> QED
    BY <2>1, <2>2, <2>3
<1>2. ASSUME NEW u \in Users, RegisterNode(u)
      PROVE  Inv'
  <2>1. managerId \in Charts /\ closure \in Tables
    BY DEF TypeOK, Charts
  <2>2. closure' \in Tables /\ IsClosureOf(closure', managerId)
    BY <1>2, <2>1, AddNodeClosure DEF RegisterNode, ClosureOK
  <2>3. TypeOK'
    <3>1. call[u] \in [stage : {"addNode"}, manager : Users \cup {NoUser}]
      BY <1>2 DEF RegisterNode, TypeOK, Call, Done
    <3>2. Done \in Call
      BY DEF Call
    <3>3. CASE call[u].manager = NoUser
      BY <1>2, <2>2, <3>2, <3>3 DEF RegisterNode, TypeOK
    <3>4. CASE call[u].manager # NoUser
      <4>1. [call[u] EXCEPT !.stage = "assignManager"]
              \in [stage : {"assignManager"}, manager : Users]
        BY <3>1, <3>4
      <4>2. [call[u] EXCEPT !.stage = "assignManager"] \in Call
        BY <4>1 DEF Call
      <4> QED
        BY <1>2, <2>2, <3>4, <4>2 DEF RegisterNode, TypeOK
    <3> QED
      BY <3>3, <3>4
  <2>4. ManagedAreMembers'
    BY <1>2 DEF RegisterNode, ManagedAreMembers, TypeOK, Done
  <2>5. ClosureOK'
    BY <1>2, <2>2 DEF RegisterNode, ClosureOK
  <2> QED
    BY <2>3, <2>4, <2>5
<1>3. ASSUME NEW u \in Users, AttachNewUser(u)
      PROVE  Inv'
  <2>1. call[u].manager \in Users
    BY <1>3, ForeignAssumption
       DEF AttachNewUser, CommitManager, Referable, TypeOK
  <2>2. /\ closure' \in Tables
        /\ managerId' = [managerId EXCEPT ![u] = call[u].manager]
        /\ IsClosureOf(closure', managerId')
    BY <1>3, <2>1, CommitManagerClosure DEF AttachNewUser
  <2>3. TypeOK'
    BY <1>3, <2>1, <2>2 DEF AttachNewUser, TypeOK, Call, Done
  <2>4. ManagedAreMembers'
    BY <1>3, <2>2 DEF AttachNewUser, ManagedAreMembers, TypeOK, Done
  <2>5. ClosureOK'
    BY <2>2 DEF ClosureOK
  <2> QED
    BY <2>3, <2>4, <2>5
<1>4. ASSUME NEW u \in Users, AbandonCreate(u)
      PROVE  Inv'
  <2>1. TypeOK'
    BY <1>4 DEF AbandonCreate, TypeOK, Call, Done
  <2>2. ManagedAreMembers' /\ ClosureOK'
    BY <1>4 DEF AbandonCreate, ManagedAreMembers, ClosureOK, TypeOK
  <2> QED
    BY <2>1, <2>2
<1>5. ASSUME NEW u \in Users, NEW m \in Users, AssignManager(u, m)
      PROVE  Inv'
  <2>1. /\ closure' \in Tables
        /\ managerId' = [managerId EXCEPT ![u] = m]
        /\ IsClosureOf(closure', managerId')
    BY <1>5, CommitManagerClosure DEF AssignManager
  <2>2. TypeOK'
    BY <1>5, <2>1 DEF AssignManager, TypeOK
  <2>3. ManagedAreMembers'
    BY <1>5, <2>1 DEF AssignManager, ManagedAreMembers, TypeOK
  <2>4. ClosureOK'
    BY <2>1 DEF ClosureOK
  <2> QED
    BY <2>2, <2>3, <2>4
<1>6. CASE UNCHANGED vars
  BY <1>6 DEF vars, TypeOK, ManagedAreMembers, ClosureOK
<1> QED
  BY <1>1, <1>2, <1>3, <1>4, <1>5, <1>6 DEF Next

-----------------------------------------------------------------------------
(* Every reachable state satisfies the invariant: the types, and the closure *)
(* table kept "fully consistent" (hierarchy.service.ts).                     *)
THEOREM InvAlways == Spec => []Inv
<1>1. Inv /\ [Next]_vars => Inv'
  BY StepInv
<1> QED
  BY InitInv, <1>1, PTL DEF Spec

(* The variables keep their types. *)
THEOREM TypeCorrect == Spec => []TypeOK
<1>1. Inv => TypeOK
  BY DEF Inv
<1> QED
  BY InvAlways, <1>1, PTL

(* The table is the closure of the managerId edges after every transaction. *)
THEOREM ClosureConsistent == Spec => []ClosureOK
<1>1. Inv => ClosureOK
  BY DEF Inv
<1> QED
  BY InvAlways, <1>1, PTL

(* No order of creations, crashes and re-parentings makes a cycle, as long  *)
(* as each transaction runs alone.                                          *)
THEOREM ChartStaysForest == Spec => []NoCycle
<1>1. Inv => NoCycle
  <2> SUFFICES ASSUME Inv PROVE NoCycle
    OBVIOUS
  <2>1. closure \in Tables /\ managerId \in Charts
        /\ IsClosureOf(closure, managerId)
    BY DEF Inv, TypeOK, ClosureOK, Charts
  <2> QED
    BY <2>1, ClosureIsForest DEF NoCycle
<1> QED
  BY InvAlways, <1>1, PTL

(* The single-row check of assignManager refuses exactly the cycles.        *)
THEOREM CycleCheckIsExact == Spec => []CycleCheckExact
<1>1. Inv => CycleCheckExact
  <2> SUFFICES ASSUME Inv, NEW u \in Users, NEW m \in Users, u # m
               PROVE  closure[u][m] # NoRow
                        <=> ~ Forest([managerId EXCEPT ![u] = m])
    BY DEF CycleCheckExact, WouldCycle
  <2> DEFINE nodes == AddNode(AddNode(closure, u), m)
             chart == [managerId EXCEPT ![u] = m]
  <2>1. closure \in Tables /\ managerId \in Charts
        /\ IsClosureOf(closure, managerId)
    BY DEF Inv, TypeOK, ClosureOK, Charts
  <2>2. ASSUME closure[u][m] # NoRow
        PROVE  ~ Forest(chart)
    BY <2>1, <2>2, CycleIsNoForest
  <2>3. ASSUME closure[u][m] = NoRow
        PROVE  Forest(chart)
    <3>1. /\ nodes \in Tables /\ IsClosureOf(nodes, managerId)
          /\ nodes[u][u] = 0 /\ nodes[m][m] = 0 /\ nodes[u][m] = NoRow
      BY <2>1, <2>3, BothNodes
    <3>2. chart \in Charts
      BY <2>1 DEF Charts
    <3> HIDE DEF nodes, chart
    <3>3. /\ Reparent(nodes, u, m) \in Tables
          /\ IsClosureOf(Reparent(nodes, u, m), chart)
      BY <3>1, <2>1, ReparentClosure DEF chart
    <3> QED
      BY <3>2, <3>3, ClosureIsForest
  <2> QED
    BY <2>2, <2>3
<1> QED
  BY InvAlways, <1>1, PTL

(* Every query says what climbing the chart says: the rows above a user are *)
(* the distances on the chart, and one row of depth 1 is its manager.       *)
THEOREM QueriesAlwaysAnswerTheChart == Spec => []QueriesAnswerTheChart
<1>1. Inv => QueriesAnswerTheChart
  <2> SUFFICES ASSUME Inv, NEW s \in Users, NEW u \in Users
               PROVE  LET distance == Distance(managerId)
                      IN  /\ GetRelationship(closure, s, u)
                               = {ChartRelationship(managerId, s, u)}
                          /\ IsDirectManager(closure, s, u) <=> managerId[u] = s
                          /\ IsAncestor(closure, s, u) <=> distance[s][u] >= 1
                          /\ <<s, distance[s][u]>> \in GetAncestors(closure, u)
                               <=> distance[s][u] >= 1
                          /\ <<u, distance[s][u]>> \in GetDescendants(closure, s)
                               <=> distance[s][u] >= 1
    BY DEF QueriesAnswerTheChart
  <2> DEFINE d == Distance(managerId)[s][u]
  <2>1. closure \in Tables /\ managerId \in Charts
        /\ IsClosureOf(closure, managerId)
    BY DEF Inv, TypeOK, ClosureOK, Charts
  <2>2. d = IF s = u THEN 0 ELSE closure[s][u]
    BY <2>1, ClosureIsDistance
  <2>3. /\ closure[s][u] \in Nat \cup {-1}
        /\ closure[s][s] \in {0, -1}
        /\ closure[s][u] = 0 => s = u
    BY <2>1 DEF Tables, IsClosureOf, SelfRows, PathsCompose, NoRow
  <2>4. GetRelationship(closure, s, u)
          = {Classify(s, u, closure[s][u], managerId[s], managerId[u])}
    BY <2>1, DirectManagerIdsIs DEF GetRelationship
  <2>5. ChartRelationship(managerId, s, u)
          = Classify(s, u, closure[s][u], managerId[s], managerId[u])
    <3> HIDE DEF d
    <3> QED
      BY <2>2, <2>3 DEF ChartRelationship, Classify, d
  <2>6. IsDirectManager(closure, s, u) <=> managerId[u] = s
    BY <2>1 DEF IsDirectManager, IsClosureOf, DirectRows
  <2>7. closure[s][u] >= 1 <=> d >= 1
    <3> HIDE DEF d
    <3> QED
      BY <2>2, <2>3
  <2>8. <<s, d>> \in GetAncestors(closure, u) <=> d >= 1
    <3>1. <<s, d>> \in GetAncestors(closure, u)
            <=> d = closure[s][u] /\ closure[s][u] >= 1
      BY DEF GetAncestors
    <3> HIDE DEF d
    <3> QED
      BY <3>1, <2>2, <2>3
  <2>9. <<u, d>> \in GetDescendants(closure, s) <=> d >= 1
    <3>1. <<u, d>> \in GetDescendants(closure, s)
            <=> d = closure[s][u] /\ closure[s][u] >= 1
      BY DEF GetDescendants
    <3> HIDE DEF d
    <3> QED
      BY <3>1, <2>2, <2>3
  <2> QED
    BY <2>4, <2>5, <2>6, <2>7, <2>8, <2>9 DEF IsAncestor
<1> QED
  BY InvAlways, <1>1, PTL

(* skipDuplicates hides nothing: a row of the cross join whose key is taken *)
(* would join two users whose row deleteMany has just removed.              *)
THEOREM NothingIsSkipped == Spec => []NothingSkipped
<1>1. Inv => NothingSkipped
  <2> SUFFICES ASSUME Inv, NEW u \in Users, NEW m \in Users, u # m,
                      closure[u][m] = NoRow,
                      NEW a \in Users, NEW d \in Users,
                      closure[a][m] # NoRow, closure[u][d] # NoRow
               PROVE  a # u /\ (closure[a][d] # NoRow => closure[a][u] # NoRow)
    BY DEF NothingSkipped, WouldCycle, Detach, OldAncestors, Ids, SuperTree,
           Subtree, CrossJoin, NoRow
  <2>1. \A x, y \in Users : closure[x][y] \in Nat \cup {-1}
    BY DEF Inv, TypeOK, Tables, NoRow
  <2>2. PathsCompose(closure) /\ AncestorsChain(closure)
    BY DEF Inv, ClosureOK, IsClosureOf
  (* were a below u, u would be above m *)
  <2>3. closure[u][a] = NoRow
    BY <2>1, <2>2 DEF PathsCompose, NoRow
  <2>4. ASSUME closure[a][d] # NoRow
        PROVE  closure[a][u] # NoRow
    <3>1. ~ (closure[u][d] >= closure[a][d])
      BY <2>1, <2>2, <2>3, <2>4 DEF AncestorsChain, NoRow
    <3>2. closure[a][d] >= closure[u][d]
      BY <3>1, <2>1
    <3>3. closure[a][u] = closure[a][d] - closure[u][d]
      BY <3>2, <2>2 DEF AncestorsChain
    <3> QED
      BY <3>2, <3>3, <2>1 DEF NoRow
  <2> QED
    BY <2>4
<1> QED
  BY InvAlways, <1>1, PTL

(* The rows of an accepted assignManager, told by the table it found.       *)
LEMMA CommitManagerMoves ==
  ASSUME TypeOK, ClosureOK, NEW u \in Users, NEW m \in Users,
         CommitManager(u, m), NEW a \in Users, NEW d \in Users
  PROVE  LET Inside(x) == x = u \/ closure[u][x] # NoRow
         IN  /\ Inside(a) = Inside(d) /\ a # d
                  => closure'[a][d] = closure[a][d]
             /\ Inside(a) /\ ~ Inside(d) => closure'[a][d] = NoRow
             /\ ~ Inside(a) /\ Inside(d) =>
                  closure'[a][d] = IF closure'[a][u] = NoRow THEN NoRow
                                   ELSE closure'[a][u]
                                        + (IF d = u THEN 0 ELSE closure[u][d])
<1> DEFINE nodes == AddNode(AddNode(closure, u), m)
           Inside(x) == x = u \/ closure[u][x] # NoRow
<1>1. /\ u # m /\ nodes[u][m] = NoRow
      /\ closure' = Reparent(nodes, u, m)
  BY DEF CommitManager, WouldCycle
<1>2. closure \in Tables /\ managerId \in Charts
  BY DEF TypeOK, Charts
<1>3. /\ nodes \in Tables /\ IsClosureOf(nodes, managerId)
      /\ nodes[u][u] = 0 /\ nodes[m][m] = 0
  BY <1>2, BothNodes DEF ClosureOK
<1>4. \A x, y \in Users : x # y => nodes[x][y] = closure[x][y]
  BY DEF AddNode, CreateMany, EmptyTable, NoRow
<1> HIDE DEF nodes
<1>5. \A x, y \in Users :
        closure'[x][y] = IF nodes[u][y] = NoRow \/ nodes[u][x] # NoRow
                         THEN nodes[x][y]
                         ELSE IF nodes[x][m] = NoRow THEN NoRow
                         ELSE nodes[x][m] + nodes[u][y] + 1
  BY <1>1, <1>2, <1>3, ReparentRows
<1>6. \A x \in Users : Inside(x) <=> nodes[u][x] # NoRow
  BY <1>3, <1>4 DEF NoRow
<1>7. \A x, y \in Users : nodes[x][y] \in Nat \cup {-1}
  BY <1>3 DEF Tables, NoRow
<1>8. ASSUME Inside(a) <=> Inside(d), a # d
      PROVE  closure'[a][d] = closure[a][d]
  BY <1>4, <1>5, <1>6, <1>8
<1>9. ASSUME Inside(a), ~ Inside(d)
      PROVE  closure'[a][d] = NoRow
  <2>1. closure'[a][d] = nodes[a][d] /\ nodes[u][a] # NoRow
    BY <1>5, <1>6, <1>9
  <2>2. nodes[u][d] = NoRow
    BY <1>6, <1>9
  <2> QED
    BY <2>1, <2>2, <1>3, <1>7 DEF IsClosureOf, PathsCompose, NoRow
<1>10. ASSUME ~ Inside(a), Inside(d)
       PROVE  closure'[a][d] = IF closure'[a][u] = NoRow THEN NoRow
                               ELSE closure'[a][u]
                                    + (IF d = u THEN 0 ELSE closure[u][d])
  <2>1. nodes[u][a] = NoRow /\ nodes[u][d] # NoRow
    BY <1>6, <1>10
  <2>2. nodes[u][d] = IF d = u THEN 0 ELSE closure[u][d]
    BY <1>3, <1>4
  <2>3. /\ closure'[a][d] = IF nodes[a][m] = NoRow THEN NoRow
                            ELSE nodes[a][m] + nodes[u][d] + 1
        /\ closure'[a][u] = IF nodes[a][m] = NoRow THEN NoRow
                            ELSE nodes[a][m] + 1
    BY <2>1, <1>3, <1>5, <1>7 DEF NoRow
  <2> QED
    BY <2>2, <2>3, <1>7 DEF NoRow
<1> QED
  BY <1>8, <1>9, <1>10

(* A re-parenting moves the subtree of the user as one piece.               *)
THEOREM SubtreeAlwaysMovesAsOnePiece == Spec => SubtreeMovesAsOnePiece
<1> DEFINE Inside(u, x) == x = u \/ closure[u][x] # NoRow
           Moves(u) ==
             \A a, d \in Users :
               /\ Inside(u, a) = Inside(u, d) /\ a # d
                    => closure'[a][d] = closure[a][d]
               /\ Inside(u, a) /\ ~ Inside(u, d) => closure'[a][d] = NoRow
               /\ ~ Inside(u, a) /\ Inside(u, d) =>
                    closure'[a][d] = IF closure'[a][u] = NoRow THEN NoRow
                                     ELSE closure'[a][u]
                                          + (IF d = u THEN 0 ELSE closure[u][d])
<1>1. ASSUME Inv, [Next]_vars, NEW u \in Users, managerId'[u] # managerId[u]
      PROVE  Moves(u)
  <2>1. \E m \in Users : CommitManager(u, m)
    <3>1. ASSUME NEW v \in Users, NEW m, CommitManager(v, m)
          PROVE  v = u
      BY <1>1, <3>1 DEF CommitManager, Inv, TypeOK
    <3>2. ASSUME NEW v \in Users, AttachNewUser(v)
          PROVE  CommitManager(v, call[v].manager) /\ call[v].manager \in Users
      BY <3>2, <1>1, ForeignAssumption
         DEF AttachNewUser, CommitManager, Referable, Inv, TypeOK
    <3>3. CASE \E v \in Users : AttachNewUser(v)
      BY <3>1, <3>2, <3>3
    <3>4. CASE \E v, m \in Users : AssignManager(v, m)
      BY <3>1, <3>4 DEF AssignManager
    <3>5. managerId' # managerId
      BY <1>1
    <3> QED
      BY <1>1, <3>3, <3>4, <3>5
         DEF Next, InsertUser, RegisterNode, AbandonCreate, vars
  <2>2. PICK m \in Users : CommitManager(u, m)
    BY <2>1
  <2>3. TypeOK /\ ClosureOK
    BY <1>1 DEF Inv
  <2> QED
    BY <2>2, <2>3, CommitManagerMoves
<1>2. Inv /\ [Next]_vars => [\A u \in Users :
                               managerId'[u] # managerId[u] => Moves(u)]_vars
  BY <1>1
<1> HIDE DEF Moves
<1>3. Spec => [][\A u \in Users :
                  managerId'[u] # managerId[u] => Moves(u)]_vars
  BY <1>2, InvAlways, PTL DEF Spec
<1> QED
  BY <1>3 DEF SubtreeMovesAsOnePiece, Moves

(* Hierarchy implements OrgChart: whatever the table goes through, a step   *)
(* either leaves the chart alone, adds a user, or assigns a manager and     *)
(* leaves a forest.                                                         *)
THEOREM Implementation == Spec => ImplementsOrgChart
<1>1. Init => Chart!ChartInit
  BY DEF Init, Chart!ChartInit
<1>2. Inv /\ Inv' /\ [Next]_vars => [Chart!ChartNext]_(Chart!chartVars)
  <2> SUFFICES ASSUME Inv, Inv', [Next]_vars
               PROVE  Chart!ChartNext \/ UNCHANGED <<users, managerId>>
    BY DEF Chart!chartVars
  <2>1. Forest(managerId')
    <3>1. closure' \in Tables /\ managerId' \in Charts
          /\ IsClosureOf(closure', managerId')
      BY DEF Inv, TypeOK, ClosureOK, Charts
    <3> QED
      BY <3>1, ClosureIsForest
  <2>2. ASSUME NEW u \in Users, NEW m \in Users \cup {NoUser}, InsertUser(u, m)
        PROVE  Chart!Join(u)
    BY <2>2 DEF InsertUser, Referable, Chart!Join
  <2>3. ASSUME NEW u \in Users, AttachNewUser(u)
        PROVE  \E m \in Users : Chart!Assign(u, m)
    <3>1. u \in users /\ call[u].manager \in Users
      BY <2>3, ForeignAssumption
         DEF AttachNewUser, CommitManager, Referable, Inv, TypeOK,
             ManagedAreMembers, Done
    <3> QED
      BY <2>1, <2>3, <3>1 DEF AttachNewUser, CommitManager, Chart!Assign, Chart!Forest, Forest
  <2>4. ASSUME NEW u \in Users, NEW m \in Users, AssignManager(u, m)
        PROVE  Chart!Assign(u, m)
    BY <2>1, <2>4 DEF AssignManager, CommitManager, Chart!Assign, Chart!Forest, Forest
  <2>5. CASE \E u \in Users : RegisterNode(u) \/ AbandonCreate(u)
    BY <2>5 DEF RegisterNode, AbandonCreate
  <2>6. CASE UNCHANGED vars
    BY <2>6 DEF vars
  <2> QED
    BY <2>2, <2>3, <2>4, <2>5, <2>6 DEF Next, Chart!ChartNext
<1> QED
  BY <1>1, <1>2, InvAlways, PTL DEF Spec, ImplementsOrgChart, Chart!ChartSpec
-----------------------------------------------------------------------------
(***************************************************************************)
(* HierarchyTx.  Two re-parentings whose users are apart change disjoint    *)
(* sets of rows: no row one of them reads or replaces is replaced by the    *)
(* other.  So a transaction, wherever it is, sees the table that the        *)
(* committed one would be had it run alone from now on.                     *)
(***************************************************************************)

(* The view of a transaction on the table whose own writes are own.         *)
ViewOf(own, t) ==
  [a \in Users |-> [d \in Users |->
     IF own[a][d] = Untouched THEN t[a][d] ELSE own[a][d]]]

(* u is x or above x, and at which distance.                                *)
Over(t, u, x) == u = x \/ t[u][x] # NoRow

Depth(t, u, x) == IF u = x THEN 0 ELSE t[u][x]

(* The rows a re-parenting of u replaces: into its subtree from outside.    *)
Moved(t, u, a, d) == Over(t, u, d) /\ ~ Over(t, u, a)

(* Neither re-parenting touches the chains of the other.                    *)
Apart(t, u, m, v, n) ==
  ~ (Over(t, u, v) \/ Over(t, u, n) \/ Over(t, v, u) \/ Over(t, v, m))

(* A transaction that has come to pc sees the committed table t with the    *)
(* nodes it has added and the rows it has replaced.                         *)
Registered(pc, u, m, a) ==
  \/ a = u /\ pc # "addUser"
  \/ a = m /\ pc \notin {"addUser", "addManager"}

RowAt(pc, t, u, m, a, d) ==
  IF a = d /\ Registered(pc, u, m, a) THEN 0
  ELSE IF Moved(t, u, a, d) /\ pc = "insert" THEN NoRow
  ELSE IF Moved(t, u, a, d) /\ pc = "commit"
       THEN IF Over(t, a, m) THEN Depth(t, a, m) + Depth(t, u, d) + 1 ELSE NoRow
  ELSE t[a][d]

(* What the statements so far have read is still so, and what they have     *)
(* written is theirs.                                                       *)
Undisturbed(r, t) ==
  LET u == r.user
      m == r.manager
  IN  /\ u \in Users /\ m \in Users /\ u # m
      /\ \A a, d \in Users : ViewOf(r.own, t)[a][d] = RowAt(r.pc, t, u, m, a, d)
      /\ \A a, d \in Users : r.own[a][d] # Untouched =>
           \/ a = d /\ a \in {u, m} /\ r.own[a][d] = 0
           \/ Moved(t, u, a, d)
      /\ r.pc \notin {"addUser", "addManager", "checkCycle"} => t[u][m] = NoRow
      /\ r.pc \in {"superTree", "oldAncestors", "scan", "delete", "insert"} =>
           \A d \in Users : r.sub[d] = Depth(t, u, d)
      /\ r.pc \in {"oldAncestors", "scan", "delete", "insert"} =>
           \A a \in Users : r.sup[a] = Depth(t, a, m)
      /\ r.pc = "scan" =>
           \A a \in Users : a \in r.old <=> a # u /\ t[a][u] # NoRow
      /\ r.pc = "delete" =>
           \A a, d \in Users : <<a, d>> \in r.target
                                <=> a # u /\ t[a][u] # NoRow /\ Over(t, u, d)
      /\ \A a, d \in Users : <<a, d>> \in r.target => Over(t, u, d)

(* s is what the commit of the re-parenting of u under m makes of t.        *)
Reparented(s, t, u, m) ==
  \A a, d \in Users : s[a][d] = RowAt("commit", t, u, m, a, d)

(* What a commit leaves of another transaction: rows it deleted are gone    *)
(* for a delete that had found them.                                        *)
LeftOf(s, r, taken) ==
  /\ s.pc = r.pc /\ s.user = r.user /\ s.manager = r.manager
  /\ s.sub = r.sub /\ s.sup = r.sup /\ s.old = r.old /\ s.own = r.own
  /\ s.target = r.target \/ s.target = r.target \ taken

Open(w) == tx[w].pc # "idle"

Atomic ==
  /\ ClosureOK
  /\ \A w \in Writers : Open(w) => Undisturbed(tx[w], closure)
  /\ \A v, w \in Writers : v # w /\ Open(v) /\ Open(w) =>
       Apart(closure, tx[w].user, tx[w].manager, tx[v].user, tx[v].manager)
(* A transaction, whatever the other transactions do.                       *)
Stages == {"idle", "addUser", "addManager", "checkCycle", "subtree",
           "superTree", "oldAncestors", "scan", "delete", "insert", "commit"}

Trees == [Users -> Nat \cup {NoRow}]

Writes == [Users -> [Users -> Nat \cup {NoRow, Untouched}]]

Transactions ==
  [pc : Stages, user : Users \cup {NoUser}, manager : Users \cup {NoUser},
   sub : Trees, sup : Trees, old : SUBSET Users,
   target : SUBSET (Users \X Users), own : Writes]

(* Written, as a function of the own writes and the committed table.        *)
WrittenTo(own, t, v) ==
  [a \in Users |-> [d \in Users |->
     IF v[a][d] = ViewOf(own, t)[a][d] THEN own[a][d] ELSE v[a][d]]]


-----------------------------------------------------------------------------
(* A re-parenting that touches neither the user nor its chains.             *)
LEMMA Disjoint ==
  ASSUME NEW t \in Tables, NEW chart \in Charts, IsClosureOf(t, chart),
         NEW u \in Users, NEW m \in Users, NEW v \in Users, NEW n \in Users,
         Apart(t, u, m, v, n), NEW x \in Users
  PROVE  ~ (Over(t, u, x) /\ Over(t, v, x))
<1>1. \A a, d \in Users : t[a][d] \in Nat \cup {-1}
  BY DEF Tables, NoRow
<1>2. t[u][v] = NoRow /\ t[v][u] = NoRow /\ u # v
  BY DEF Apart, Over
<1>3. AncestorsChain(t)
  BY DEF IsClosureOf
<1>4. ASSUME t[u][x] # NoRow, t[v][x] # NoRow
      PROVE  FALSE
  <2>1. t[u][x] >= t[v][x] => t[u][v] = t[u][x] - t[v][x]
    BY <1>3, <1>4 DEF AncestorsChain
  <2>2. t[v][x] >= t[u][x] => t[v][u] = t[v][x] - t[u][x]
    BY <1>3, <1>4 DEF AncestorsChain
  <2> QED
    BY <2>1, <2>2, <1>1, <1>2, <1>4 DEF NoRow
<1> QED
  BY <1>2, <1>4 DEF Over

(* What the commit of the one leaves of the rows the other has seen.        *)
LEMMA CommitBeside ==
  ASSUME NEW t \in Tables, NEW chart \in Charts, IsClosureOf(t, chart),
         NEW u \in Users, NEW m \in Users, NEW v \in Users, NEW n \in Users,
         u # m, v # n, Apart(t, u, m, v, n),
         NEW s \in Tables, Reparented(s, t, v, n)
  PROVE  /\ \A x \in Users : Over(s, u, x) <=> Over(t, u, x)
         /\ \A x \in Users : Depth(s, u, x) = Depth(t, u, x)
         /\ \A a \in Users : Depth(s, a, m) = Depth(t, a, m)
         /\ \A a \in Users : Depth(s, a, u) = Depth(t, a, u)
         /\ \A a \in Users : Over(s, a, m) <=> Over(t, a, m)
         /\ \A a, d \in Users : Moved(s, u, a, d) <=> Moved(t, u, a, d)
         /\ \A a, d \in Users : Moved(t, u, a, d) => s[a][d] = t[a][d]
         /\ \A a \in Users : t[a][a] = 0 => s[a][a] = 0
<1>1. \A x \in Users : ~ (Over(t, u, x) /\ Over(t, v, x))
  BY Disjoint
<1>2. \A a, d \in Users : a # d =>
        s[a][d] = IF Moved(t, v, a, d)
                  THEN IF Over(t, a, n) THEN Depth(t, a, n) + Depth(t, v, d) + 1
                       ELSE NoRow
                  ELSE t[a][d]
  BY DEF Reparented, RowAt
<1>3. \A a \in Users : s[a][a] = 0 \/ s[a][a] = t[a][a]
  BY DEF Reparented, RowAt, Moved, Registered
<1>4. ~ Over(t, u, v) /\ ~ Over(t, u, n) /\ ~ Over(t, v, u) /\ ~ Over(t, v, m)
  BY DEF Apart
<1>5. \A x \in Users : x # u => s[u][x] = t[u][x]
  <2> SUFFICES ASSUME NEW x \in Users, x # u, Moved(t, v, u, x)
               PROVE  s[u][x] = t[u][x]
    BY <1>2
  <2>1. s[u][x] = NoRow
    BY <1>2, <1>4
  <2>2. t[u][x] = NoRow
    BY <1>1 DEF Moved, Over
  <2> QED
    BY <2>1, <2>2
<1>6. \A a \in Users : /\ a # m => s[a][m] = t[a][m]
                       /\ a # u => s[a][u] = t[a][u]
  BY <1>2, <1>4 DEF Moved
<1>7. \A x \in Users : /\ Over(s, u, x) <=> Over(t, u, x)
                       /\ Over(s, x, m) <=> Over(t, x, m)
                       /\ Depth(s, u, x) = Depth(t, u, x)
                       /\ Depth(s, x, m) = Depth(t, x, m)
                       /\ Depth(s, x, u) = Depth(t, x, u)
  BY <1>5, <1>6 DEF Over, Depth
<1>8. \A a, d \in Users : Moved(s, u, a, d) <=> Moved(t, u, a, d)
  BY <1>7 DEF Moved
<1>9. \A a, d \in Users : Moved(t, u, a, d) => s[a][d] = t[a][d]
  <2> SUFFICES ASSUME NEW a \in Users, NEW d \in Users, Moved(t, u, a, d)
               PROVE  s[a][d] = t[a][d]
    OBVIOUS
  <2>1. a # d /\ ~ Over(t, v, d)
    BY <1>1 DEF Moved
  <2> QED
    BY <2>1, <1>2 DEF Moved
<1>10. \A a \in Users : t[a][a] = 0 => s[a][a] = 0
  BY <1>3
<1> QED
  BY <1>7, <1>8, <1>9, <1>10

(* So the other, wherever it is, goes on as if its commit had been there    *)
(* from the start.                                                          *)
LEMMA StaysUndisturbed ==
  ASSUME NEW t \in Tables, NEW chart \in Charts, IsClosureOf(t, chart),
         NEW r, Undisturbed(r, t), NEW v \in Users, NEW n \in Users, v # n,
         Apart(t, r.user, r.manager, v, n),
         NEW s \in Tables, Reparented(s, t, v, n),
         NEW taken, \A a, d \in Users : <<a, d>> \in taken => Over(t, v, d),
         NEW left, LeftOf(left, r, taken)
  PROVE  Undisturbed(left, s)
<1> DEFINE u == r.user
           m == r.manager
<1>1. /\ u \in Users /\ m \in Users /\ u # m
      /\ \A a, d \in Users : ViewOf(r.own, t)[a][d] = RowAt(r.pc, t, u, m, a, d)
      /\ \A a, d \in Users : r.own[a][d] # Untouched =>
           \/ a = d /\ a \in {u, m} /\ r.own[a][d] = 0
           \/ Moved(t, u, a, d)
      /\ \A a, d \in Users : <<a, d>> \in r.target => Over(t, u, d)
  BY DEF Undisturbed
<1>2. /\ \A x \in Users : Over(s, u, x) <=> Over(t, u, x)
      /\ \A x \in Users : Depth(s, u, x) = Depth(t, u, x)
      /\ \A a \in Users : Depth(s, a, m) = Depth(t, a, m)
      /\ \A a \in Users : Depth(s, a, u) = Depth(t, a, u)
      /\ \A a \in Users : Over(s, a, m) <=> Over(t, a, m)
      /\ \A a, d \in Users : Moved(s, u, a, d) <=> Moved(t, u, a, d)
      /\ \A a, d \in Users : Moved(t, u, a, d) => s[a][d] = t[a][d]
      /\ \A a \in Users : t[a][a] = 0 => s[a][a] = 0
  BY <1>1, CommitBeside
<1>3. \A a, d \in Users : <<a, d>> \in left.target <=> <<a, d>> \in r.target
  <2>1. \A d \in Users : ~ (Over(t, u, d) /\ Over(t, v, d))
    BY <1>1, Disjoint
  <2> QED
    BY <1>1, <2>1 DEF LeftOf
<1>4. \A a, d \in Users : ViewOf(r.own, s)[a][d] = RowAt(r.pc, s, u, m, a, d)
  <2> SUFFICES ASSUME NEW a \in Users, NEW d \in Users
               PROVE  (IF r.own[a][d] = Untouched THEN s[a][d] ELSE r.own[a][d])
                        = RowAt(r.pc, s, u, m, a, d)
    BY DEF ViewOf
  <2>1. (IF r.own[a][d] = Untouched THEN t[a][d] ELSE r.own[a][d])
          = RowAt(r.pc, t, u, m, a, d)
    BY <1>1 DEF ViewOf
  <2>2. CASE Moved(t, u, a, d)
    <3>1. RowAt(r.pc, s, u, m, a, d) = RowAt(r.pc, t, u, m, a, d)
      BY <1>1, <1>2, <2>2 DEF RowAt
    <3> QED
      BY <2>1, <2>2, <3>1, <1>2
  <2>3. CASE ~ Moved(t, u, a, d) /\ a # d
    BY <1>1, <1>2, <2>3 DEF RowAt
  <2>4. CASE a = d
    <3>1. ~ Moved(t, u, a, d) /\ ~ Moved(s, u, a, d)
      BY <2>4 DEF Moved
    <3>2. RowAt(r.pc, t, u, m, a, d)
            = IF Registered(r.pc, u, m, a) THEN 0 ELSE t[a][a]
      BY <2>4, <3>1 DEF RowAt
    <3>3. RowAt(r.pc, s, u, m, a, d)
            = IF Registered(r.pc, u, m, a) THEN 0 ELSE s[a][a]
      BY <2>4, <3>1 DEF RowAt
    <3>4. r.own[a][d] # Untouched => r.own[a][d] = 0
      BY <1>1, <3>1
    <3> QED
      BY <2>1, <2>4, <3>2, <3>3, <3>4, <1>2
  <2> QED
    BY <2>2, <2>3, <2>4
<1>5. \A a \in Users : a # u => s[a][u] = t[a][u]
  BY <1>2 DEF Depth
<1>6. s[u][m] = t[u][m]
  BY <1>1, <1>2 DEF Depth
<1> QED
  BY <1>1, <1>2, <1>3, <1>4, <1>5, <1>6 DEF Undisturbed, LeftOf
-----------------------------------------------------------------------------
(* The rows of the table once a node is added.                              *)
LEMMA NodeRows ==
  ASSUME NEW t \in Tables, NEW u \in Users
  PROVE  /\ AddNode(t, u) \in Tables
         /\ \A a, d \in Users :
              AddNode(t, u)[a][d] = IF t[a][d] = NoRow /\ a = u /\ d = u THEN 0
                                    ELSE t[a][d]
<1>1. \A a, d \in Users :
        AddNode(t, u)[a][d] = IF t[a][d] = NoRow /\ a = u /\ d = u THEN 0
                              ELSE t[a][d]
  BY DEF AddNode, CreateMany, EmptyTable
<1>2. AddNode(t, u) \in Tables
  BY DEF AddNode, CreateMany, EmptyTable, Tables, NoRow
<1> QED
  BY <1>1, <1>2

-----------------------------------------------------------------------------
(* A transaction sees a table; after a statement it sees the table that     *)
(* statement makes of it.                                                   *)
LEMMA ViewIsTable ==
  ASSUME NEW t \in Tables, NEW own \in Writes
  PROVE  /\ ViewOf(own, t) \in Tables
         /\ \A a, d \in Users :
              ViewOf(own, t)[a][d]
                = IF own[a][d] = Untouched THEN t[a][d] ELSE own[a][d]
<1>1. \A a, d \in Users :
        (IF own[a][d] = Untouched THEN t[a][d] ELSE own[a][d]) \in Nat \cup {NoRow}
  BY DEF Writes, Tables, Untouched
<1> QED
  BY <1>1 DEF ViewOf, Tables

(* What a statement writes is what the transaction sees next.               *)
LEMMA WrittenIsSeen ==
  ASSUME NEW t \in Tables, NEW own \in Writes, NEW v \in Tables
  PROVE  /\ WrittenTo(own, t, v) \in Writes
         /\ \A a, d \in Users :
              WrittenTo(own, t, v)[a][d]
                = IF v[a][d] = ViewOf(own, t)[a][d] THEN own[a][d] ELSE v[a][d]
         /\ \A a, d \in Users : ViewOf(WrittenTo(own, t, v), t)[a][d] = v[a][d]
<1> DEFINE new == WrittenTo(own, t, v)
<1>1. \A a, d \in Users :
        new[a][d] = IF v[a][d] = ViewOf(own, t)[a][d] THEN own[a][d] ELSE v[a][d]
  BY DEF WrittenTo
<1>2. \A a, d \in Users : v[a][d] \in Nat \cup {-1}
  BY DEF Tables, NoRow
<1>3. \A a, d \in Users : own[a][d] \in Nat \cup {-1, -2}
  BY DEF Writes, NoRow, Untouched
<1>4. new \in Writes
  BY <1>1, <1>2, <1>3 DEF Writes, WrittenTo, NoRow, Untouched
<1>5. \A a, d \in Users :
        ViewOf(new, t)[a][d] = IF new[a][d] = Untouched THEN t[a][d] ELSE new[a][d]
  BY <1>4, ViewIsTable
<1>6. \A a, d \in Users :
        ViewOf(own, t)[a][d] = IF own[a][d] = Untouched THEN t[a][d] ELSE own[a][d]
  BY ViewIsTable
<1>7. \A a, d \in Users : ViewOf(new, t)[a][d] = v[a][d]
  <2> SUFFICES ASSUME NEW a \in Users, NEW d \in Users
               PROVE  ViewOf(new, t)[a][d] = v[a][d]
    OBVIOUS
  <2> QED
    BY <1>1, <1>2, <1>5, <1>6 DEF Untouched
<1> QED
  BY <1>1, <1>4, <1>7

(* A statement that writes what the next stage expects, into rows that are  *)
(* the transaction's own.                                                   *)
LEMMA Wrote ==
  ASSUME NEW t \in Tables, NEW r \in Transactions, Undisturbed(r, t),
         NEW v \in Tables, NEW next,
         \A a, d \in Users : v[a][d] = RowAt(next, t, r.user, r.manager, a, d),
         \A a, d \in Users :
           \/ v[a][d] = ViewOf(r.own, t)[a][d]
           \/ a = d /\ a \in {r.user, r.manager} /\ v[a][d] = 0
           \/ Moved(t, r.user, a, d),
         NEW own, own = WrittenTo(r.own, t, v)
  PROVE  /\ own \in Writes
         /\ \A a, d \in Users :
              ViewOf(own, t)[a][d] = RowAt(next, t, r.user, r.manager, a, d)
         /\ \A a, d \in Users : own[a][d] # Untouched =>
              \/ a = d /\ a \in {r.user, r.manager} /\ own[a][d] = 0
              \/ Moved(t, r.user, a, d)
<1>1. r.own \in Writes
  BY DEF Transactions
<1>2. /\ own \in Writes
      /\ \A a, d \in Users :
           own[a][d] = IF v[a][d] = ViewOf(r.own, t)[a][d] THEN r.own[a][d]
                       ELSE v[a][d]
      /\ \A a, d \in Users : ViewOf(own, t)[a][d] = v[a][d]
  <2>1. /\ WrittenTo(r.own, t, v) \in Writes
        /\ \A a, d \in Users :
             WrittenTo(r.own, t, v)[a][d]
               = IF v[a][d] = ViewOf(r.own, t)[a][d] THEN r.own[a][d] ELSE v[a][d]
        /\ \A a, d \in Users : ViewOf(WrittenTo(r.own, t, v), t)[a][d] = v[a][d]
    BY ONLY <1>1, t \in Tables, v \in Tables, WrittenIsSeen
  <2> QED
    BY <2>1
<1>3. \A a, d \in Users : r.own[a][d] # Untouched =>
           \/ a = d /\ a \in {r.user, r.manager} /\ r.own[a][d] = 0
           \/ Moved(t, r.user, a, d)
  BY DEF Undisturbed
<1>4. ASSUME NEW a \in Users, NEW d \in Users, own[a][d] # Untouched
      PROVE  \/ a = d /\ a \in {r.user, r.manager} /\ own[a][d] = 0
             \/ Moved(t, r.user, a, d)
  BY <1>2, <1>3, <1>4
<1> QED
  BY <1>2, <1>4

(* What an undisturbed transaction sees.                                    *)
LEMMA SeesRows ==
  ASSUME NEW t \in Tables, NEW r \in Transactions, Undisturbed(r, t)
  PROVE  /\ ViewOf(r.own, t) \in Tables
         /\ \A a, d \in Users :
              ViewOf(r.own, t)[a][d] = RowAt(r.pc, t, r.user, r.manager, a, d)
         /\ r.user \in Users /\ r.manager \in Users /\ r.user # r.manager
<1>1. r.own \in Writes
  BY DEF Transactions
<1> QED
  BY <1>1, ViewIsTable DEF Undisturbed

(* The statements in their order, each on a committed table that is the     *)
(* closure of a chart: the node of the user, and of the manager.            *)
LEMMA AfterAddUser ==
  ASSUME NEW t \in Tables, NEW chart \in Charts, IsClosureOf(t, chart),
         NEW r \in Transactions, Undisturbed(r, t), r.pc = "addUser",
         NEW s, s.pc = "addManager", s.user = r.user, s.manager = r.manager,
         s.target = r.target,
         s.own = WrittenTo(r.own, t, AddNode(ViewOf(r.own, t), r.user))
  PROVE  Undisturbed(s, t)
<1> DEFINE u == r.user
           m == r.manager
           v == AddNode(ViewOf(r.own, t), u)
<1>1. /\ ViewOf(r.own, t) \in Tables
      /\ \A a, d \in Users : ViewOf(r.own, t)[a][d] = RowAt(r.pc, t, u, m, a, d)
      /\ u \in Users /\ m \in Users /\ u # m
  BY SeesRows
<1>2. v \in Tables /\ \A a, d \in Users :
        v[a][d] = IF ViewOf(r.own, t)[a][d] = NoRow /\ a = u /\ d = u THEN 0
                  ELSE ViewOf(r.own, t)[a][d]
  BY <1>1, NodeRows
<1>3. \A a, d \in Users : ViewOf(r.own, t)[a][d] = t[a][d]
  BY <1>1 DEF RowAt, Registered
<1>4. t[u][u] = NoRow \/ t[u][u] = 0
  BY <1>1 DEF IsClosureOf, SelfRows
<1>5. \A a, d \in Users : v[a][d] = RowAt("addManager", t, u, m, a, d)
  BY <1>2, <1>3, <1>4 DEF RowAt, Registered
<1>6. \A a, d \in Users : \/ v[a][d] = ViewOf(r.own, t)[a][d]
                          \/ a = d /\ a \in {u, m} /\ v[a][d] = 0
                          \/ Moved(t, u, a, d)
  BY <1>2
<1> HIDE DEF v
<1>7. /\ \A a, d \in Users :
           ViewOf(s.own, t)[a][d] = RowAt("addManager", t, u, m, a, d)
      /\ \A a, d \in Users : s.own[a][d] # Untouched =>
           \/ a = d /\ a \in {u, m} /\ s.own[a][d] = 0
           \/ Moved(t, u, a, d)
  <2>1. s.own = WrittenTo(r.own, t, v)
    BY DEF v
  <2> QED
    BY ONLY <2>1, <1>2, <1>5, <1>6, Wrote, t \in Tables, r \in Transactions,
            Undisturbed(r, t)
<1>8. \A a, d \in Users : <<a, d>> \in r.target => Over(t, u, d)
  BY DEF Undisturbed
<1> QED
  BY <1>1, <1>7, <1>8 DEF Undisturbed

(* The node of the manager.                                                 *)
LEMMA AfterAddManager ==
  ASSUME NEW t \in Tables, NEW chart \in Charts, IsClosureOf(t, chart),
         NEW r \in Transactions, Undisturbed(r, t), r.pc = "addManager",
         NEW s, s.pc = "checkCycle", s.user = r.user, s.manager = r.manager,
         s.target = r.target,
         s.own = WrittenTo(r.own, t, AddNode(ViewOf(r.own, t), r.manager))
  PROVE  Undisturbed(s, t)
<1> DEFINE u == r.user
           m == r.manager
           v == AddNode(ViewOf(r.own, t), m)
<1>1. /\ ViewOf(r.own, t) \in Tables
      /\ \A a, d \in Users : ViewOf(r.own, t)[a][d] = RowAt(r.pc, t, u, m, a, d)
      /\ u \in Users /\ m \in Users /\ u # m
  BY SeesRows
<1>2. v \in Tables /\ \A a, d \in Users :
        v[a][d] = IF ViewOf(r.own, t)[a][d] = NoRow /\ a = m /\ d = m THEN 0
                  ELSE ViewOf(r.own, t)[a][d]
  BY <1>1, NodeRows
<1>3. \A a, d \in Users :
        ViewOf(r.own, t)[a][d] = IF a = d /\ a = u THEN 0 ELSE t[a][d]
  BY <1>1 DEF RowAt, Registered
<1>4. t[m][m] = NoRow \/ t[m][m] = 0
  BY <1>1 DEF IsClosureOf, SelfRows
<1>5. \A a, d \in Users : v[a][d] = RowAt("checkCycle", t, u, m, a, d)
  BY <1>2, <1>3, <1>4 DEF RowAt, Registered
<1>6. \A a, d \in Users : \/ v[a][d] = ViewOf(r.own, t)[a][d]
                          \/ a = d /\ a \in {u, m} /\ v[a][d] = 0
                          \/ Moved(t, u, a, d)
  BY <1>2
<1> HIDE DEF v
<1>7. /\ \A a, d \in Users :
           ViewOf(s.own, t)[a][d] = RowAt("checkCycle", t, u, m, a, d)
      /\ \A a, d \in Users : s.own[a][d] # Untouched =>
           \/ a = d /\ a \in {u, m} /\ s.own[a][d] = 0
           \/ Moved(t, u, a, d)
  <2>1. s.own = WrittenTo(r.own, t, v)
    BY DEF v
  <2> QED
    BY ONLY <2>1, <1>2, <1>5, <1>6, Wrote, t \in Tables, r \in Transactions,
            Undisturbed(r, t)
<1>8. \A a, d \in Users : <<a, d>> \in r.target => Over(t, u, d)
  BY DEF Undisturbed
<1> QED
  BY <1>1, <1>7, <1>8 DEF Undisturbed

(* The statements that read.                                                *)
LEMMA AfterRead ==
  ASSUME NEW t \in Tables, NEW r \in Transactions, Undisturbed(r, t),
         r.pc \notin {"addUser", "addManager", "insert", "commit"},
         NEW s, s.user = r.user, s.manager = r.manager, s.own = r.own,
         s.pc \notin {"addUser", "addManager", "insert", "commit"}
  PROVE  \A a, d \in Users :
           /\ ViewOf(r.own, t)[a][d] = RowAt("subtree", t, r.user, r.manager, a, d)
           /\ ViewOf(s.own, t)[a][d] = RowAt(s.pc, t, r.user, r.manager, a, d)
           /\ a # d => ViewOf(r.own, t)[a][d] = t[a][d]
           /\ ViewOf(r.own, t)[r.user][d] = Depth(t, r.user, d)
           /\ ViewOf(r.own, t)[a][r.manager] = Depth(t, a, r.manager)
  BY SeesRows DEF RowAt, Registered, Depth

(* A check that passes has seen that the manager is not below the user.     *)
LEMMA AfterCheckCycle ==
  ASSUME NEW t \in Tables, NEW r \in Transactions, Undisturbed(r, t),
         r.pc = "checkCycle", ~ WouldCycle(ViewOf(r.own, t), r.user, r.manager),
         NEW s, s.pc = "subtree", s.user = r.user, s.manager = r.manager,
         s.target = r.target, s.own = r.own
  PROVE  Undisturbed(s, t)
<1>1. r.user \in Users /\ r.manager \in Users /\ r.user # r.manager
  BY DEF Undisturbed
<1>2. \A a, d \in Users :
        /\ ViewOf(s.own, t)[a][d] = RowAt(s.pc, t, r.user, r.manager, a, d)
        /\ a # d => ViewOf(r.own, t)[a][d] = t[a][d]
  BY AfterRead
<1>3. t[r.user][r.manager] = NoRow
  BY <1>1, <1>2 DEF WouldCycle
<1> QED
  BY <1>1, <1>2, <1>3 DEF Undisturbed

(* The subtree that is read is the committed one.                           *)
LEMMA AfterReadSubtree ==
  ASSUME NEW t \in Tables, NEW r \in Transactions, Undisturbed(r, t),
         r.pc = "subtree",
         NEW s, s.pc = "superTree", s.user = r.user, s.manager = r.manager,
         s.target = r.target, s.own = r.own,
         s.sub = Subtree(ViewOf(r.own, t), r.user)
  PROVE  Undisturbed(s, t)
<1>1. \A a, d \in Users :
        /\ ViewOf(s.own, t)[a][d] = RowAt(s.pc, t, r.user, r.manager, a, d)
        /\ ViewOf(r.own, t)[r.user][d] = Depth(t, r.user, d)
  BY AfterRead
<1>2. \A d \in Users : s.sub[d] = Depth(t, r.user, d)
  BY <1>1 DEF Subtree
<1> QED
  BY <1>1, <1>2 DEF Undisturbed

(* So are the new manager's ancestors.                                      *)
LEMMA AfterReadSuperTree ==
  ASSUME NEW t \in Tables, NEW r \in Transactions, Undisturbed(r, t),
         r.pc = "superTree",
         NEW s, s.pc = "oldAncestors", s.user = r.user, s.manager = r.manager,
         s.target = r.target, s.own = r.own, s.sub = r.sub,
         s.sup = SuperTree(ViewOf(r.own, t), r.manager)
  PROVE  Undisturbed(s, t)
<1>1. \A a, d \in Users :
        /\ ViewOf(s.own, t)[a][d] = RowAt(s.pc, t, r.user, r.manager, a, d)
        /\ ViewOf(r.own, t)[a][r.manager] = Depth(t, a, r.manager)
  BY AfterRead
<1>2. \A a \in Users : s.sup[a] = Depth(t, a, r.manager)
  BY <1>1 DEF SuperTree
<1> QED
  BY <1>1, <1>2 DEF Undisturbed

(* The rows a re-parenting replaces are those of the old ancestors.         *)
LEMMA MovedRows ==
  ASSUME NEW t \in Tables, NEW chart \in Charts, IsClosureOf(t, chart),
         NEW u \in Users, NEW a \in Users, NEW d \in Users
  PROVE  /\ a # u /\ t[a][u] # NoRow /\ Over(t, u, d) =>
              Moved(t, u, a, d) /\ t[a][d] # NoRow /\ a # d
         /\ Moved(t, u, a, d) /\ t[a][d] # NoRow => a # u /\ t[a][u] # NoRow
<1>1. \A x, y \in Users : t[x][y] \in Nat \cup {-1}
  BY DEF Tables, NoRow
<1>2. SelfRows(t) /\ PathsCompose(t) /\ AncestorsChain(t)
  BY DEF IsClosureOf
<1>3. ASSUME a # u, t[a][u] # NoRow, Over(t, u, d)
      PROVE  Moved(t, u, a, d) /\ t[a][d] # NoRow /\ a # d
  <2>1. t[a][a] = 0 /\ t[a][u] # 0
    BY <1>2, <1>3 DEF SelfRows
  <2>2. t[u][a] = NoRow
    <3> SUFFICES ASSUME t[u][a] # NoRow PROVE FALSE
      OBVIOUS
    <3>1. t[a][a] = t[a][u] + t[u][a]
      BY <1>2, <1>3 DEF PathsCompose
    <3> QED
      BY <3>1, <2>1, <1>1, <1>3 DEF NoRow
  <2>3. ~ Over(t, u, a)
    BY <2>2, <1>3 DEF Over
  <2>4. t[a][d] # NoRow
    <3>1. CASE u = d
      BY <3>1, <1>3
    <3>2. CASE t[u][d] # NoRow
      <4>1. t[a][d] = t[a][u] + t[u][d]
        BY <1>2, <1>3, <3>2 DEF PathsCompose
      <4> QED
        BY <4>1, <1>1, <1>3, <3>2 DEF NoRow
    <3> QED
      BY <3>1, <3>2, <1>3 DEF Over
  <2> QED
    BY <2>3, <2>4, <1>3 DEF Moved
<1>4. ASSUME Moved(t, u, a, d), t[a][d] # NoRow
      PROVE  a # u /\ t[a][u] # NoRow
  <2>1. a # u /\ t[u][a] = NoRow /\ (u = d \/ t[u][d] # NoRow)
    BY <1>4 DEF Moved, Over
  <2>2. CASE u = d
    BY <2>1, <2>2, <1>4
  <2>3. CASE t[u][d] # NoRow
    <3>1. t[a][d] >= t[u][d]
      <4>1. t[u][d] >= t[a][d] => t[u][a] = t[u][d] - t[a][d]
        BY <1>2, <1>4 DEF AncestorsChain
      <4> QED
        BY <4>1, <2>1, <2>3, <1>4, <1>1 DEF NoRow
    <3>2. t[a][u] = t[a][d] - t[u][d]
      BY <1>2, <2>3, <3>1 DEF AncestorsChain
    <3> QED
      BY <3>1, <3>2, <2>1, <2>3, <1>1 DEF NoRow
  <2> QED
    BY <2>1, <2>2, <2>3
<1> QED
  BY <1>3, <1>4

(* And the old ancestors; with none of them there is no row to delete.      *)
LEMMA AfterReadOldAncestors ==
  ASSUME NEW t \in Tables, NEW chart \in Charts, IsClosureOf(t, chart),
         NEW r \in Transactions, Undisturbed(r, t), r.pc = "oldAncestors",
         NEW s, s.user = r.user, s.manager = r.manager,
         s.target = r.target, s.own = r.own, s.sub = r.sub, s.sup = r.sup,
         s.old = OldAncestors(ViewOf(r.own, t), r.user),
         s.pc = IF s.old = {} THEN "insert" ELSE "scan"
  PROVE  Undisturbed(s, t)
<1> DEFINE u == r.user
           m == r.manager
<1>1. u \in Users /\ m \in Users /\ u # m
  BY DEF Undisturbed
<1>2. \A a, d \in Users :
        /\ ViewOf(r.own, t)[a][d] = RowAt("subtree", t, u, m, a, d)
        /\ a # d => ViewOf(r.own, t)[a][d] = t[a][d]
  BY AfterRead
<1>3. \A a \in Users : a \in s.old <=> a # u /\ t[a][u] # NoRow
  <2>1. s.old = {a \in Users : a # u /\ ViewOf(r.own, t)[a][u] # NoRow}
    BY <1>1 DEF OldAncestors, Ids, SuperTree
  <2> QED
    BY <2>1, <1>1, <1>2
<1>4. \A a, d \in Users : ViewOf(s.own, t)[a][d] = RowAt(s.pc, t, u, m, a, d)
  <2>1. CASE s.old # {}
    BY <2>1, <1>2 DEF RowAt, Registered
  <2>2. CASE s.old = {}
    <3> SUFFICES ASSUME NEW a \in Users, NEW d \in Users
                 PROVE  RowAt("subtree", t, u, m, a, d)
                          = RowAt("insert", t, u, m, a, d)
      BY <1>2, <2>2
    <3>1. Moved(t, u, a, d) => t[a][d] = NoRow
      BY <1>1, <1>3, <2>2, MovedRows
    <3> QED
      BY <3>1 DEF RowAt, Registered
  <2> QED
    BY <2>1, <2>2
<1> QED
  BY <1>1, <1>3, <1>4 DEF Undisturbed

(* The rows found for deletion are those of the old ancestors.              *)
LEMMA AfterScan ==
  ASSUME NEW t \in Tables, NEW chart \in Charts, IsClosureOf(t, chart),
         NEW r \in Transactions, Undisturbed(r, t), r.pc = "scan",
         NEW s, s.pc = "delete", s.user = r.user, s.manager = r.manager,
         s.own = r.own, s.sub = r.sub, s.sup = r.sup, s.old = r.old,
         s.target = {k \in Keys(ViewOf(r.own, t)) :
                       k[1] \in r.old /\ k[2] \in Ids(r.sub)}
  PROVE  Undisturbed(s, t)
<1> DEFINE u == r.user
           m == r.manager
<1>1. /\ u \in Users /\ m \in Users /\ u # m
      /\ \A d \in Users : r.sub[d] = Depth(t, u, d)
      /\ \A a \in Users : a \in r.old <=> a # u /\ t[a][u] # NoRow
  BY DEF Undisturbed
<1>2. \A a, d \in Users :
        /\ ViewOf(s.own, t)[a][d] = RowAt(s.pc, t, u, m, a, d)
        /\ a # d => ViewOf(r.own, t)[a][d] = t[a][d]
  BY AfterRead
<1>3. \A a, d \in Users : <<a, d>> \in s.target
                            <=> a # u /\ t[a][u] # NoRow /\ Over(t, u, d)
  <2> SUFFICES ASSUME NEW a \in Users, NEW d \in Users
               PROVE  <<a, d>> \in s.target
                        <=> a # u /\ t[a][u] # NoRow /\ Over(t, u, d)
    OBVIOUS
  <2>1. <<a, d>> \in s.target <=>
          ViewOf(r.own, t)[a][d] # NoRow /\ a \in r.old /\ r.sub[d] # NoRow
    BY DEF Keys, Ids
  <2>2. r.sub[d] # NoRow <=> Over(t, u, d)
    BY <1>1 DEF Depth, Over, NoRow
  <2>3. a # u /\ t[a][u] # NoRow /\ Over(t, u, d) =>
          ViewOf(r.own, t)[a][d] # NoRow
    BY <1>1, <1>2, MovedRows
  <2> QED
    BY <2>1, <2>2, <2>3, <1>1
<1>4. \A a, d \in Users : <<a, d>> \in s.target => Over(t, u, d)
  BY <1>3
<1> QED
  BY <1>1, <1>2, <1>3, <1>4 DEF Undisturbed

(* Once they are gone no row into the subtree from outside is left.         *)
LEMMA AfterDelete ==
  ASSUME NEW t \in Tables, NEW chart \in Charts, IsClosureOf(t, chart),
         NEW r \in Transactions, Undisturbed(r, t), r.pc = "delete",
         NEW kept, kept = [a \in Users |-> [d \in Users |->
                            IF <<a, d>> \in r.target THEN NoRow
                            ELSE ViewOf(r.own, t)[a][d]]],
         NEW s, s.pc = "insert", s.user = r.user, s.manager = r.manager,
         s.sub = r.sub, s.sup = r.sup, s.old = r.old, s.target = r.target,
         s.own = WrittenTo(r.own, t, kept)
  PROVE  Undisturbed(s, t)
<1> DEFINE u == r.user
           m == r.manager
<1>1. /\ u \in Users /\ m \in Users /\ u # m
      /\ \A a, d \in Users : <<a, d>> \in r.target
                                <=> a # u /\ t[a][u] # NoRow /\ Over(t, u, d)
  BY DEF Undisturbed
<1>2. /\ ViewOf(r.own, t) \in Tables
      /\ \A a, d \in Users : ViewOf(r.own, t)[a][d] = RowAt(r.pc, t, u, m, a, d)
  BY SeesRows
<1>3. /\ kept \in Tables
      /\ \A a, d \in Users : kept[a][d] = IF <<a, d>> \in r.target THEN NoRow
                                          ELSE ViewOf(r.own, t)[a][d]
  BY <1>2 DEF Tables, NoRow
<1>4. ASSUME NEW a \in Users, NEW d \in Users
      PROVE  /\ kept[a][d] = RowAt("insert", t, u, m, a, d)
             /\ \/ kept[a][d] = ViewOf(r.own, t)[a][d]
                \/ a = d /\ a \in {u, m} /\ kept[a][d] = 0
                \/ Moved(t, u, a, d)
  <2>1. <<a, d>> \in r.target => Moved(t, u, a, d) /\ a # d
    BY <1>1, MovedRows
  <2>2. Moved(t, u, a, d) /\ <<a, d>> \notin r.target => t[a][d] = NoRow
    <3>1. Moved(t, u, a, d) /\ t[a][d] # NoRow => a # u /\ t[a][u] # NoRow
      BY <1>1, MovedRows
    <3> QED
      BY <3>1, <1>1 DEF Moved
  <2>3. Moved(t, u, a, d) => a # d
    BY DEF Moved
  <2>4. kept[a][d] = RowAt("insert", t, u, m, a, d)
    BY <1>2, <1>3, <2>1, <2>2, <2>3 DEF RowAt, Registered
  <2> QED
    BY <1>3, <2>1, <2>4
<1>5. /\ \A a, d \in Users :
           ViewOf(s.own, t)[a][d] = RowAt("insert", t, u, m, a, d)
      /\ \A a, d \in Users : s.own[a][d] # Untouched =>
           \/ a = d /\ a \in {u, m} /\ s.own[a][d] = 0
           \/ Moved(t, u, a, d)
  <2>1. \A a, d \in Users : kept[a][d] = RowAt("insert", t, u, m, a, d)
    BY <1>4
  <2>2. \A a, d \in Users : \/ kept[a][d] = ViewOf(r.own, t)[a][d]
                            \/ a = d /\ a \in {u, m} /\ kept[a][d] = 0
                            \/ Moved(t, u, a, d)
    BY <1>4
  <2>3. kept \in Tables
    BY <1>3
  <2>4. s.own = WrittenTo(r.own, t, kept)
    OBVIOUS
  <2> QED
    BY ONLY <2>1, <2>2, <2>3, <2>4, Wrote, t \in Tables, r \in Transactions,
            Undisturbed(r, t)
<1>6. \A a, d \in Users : <<a, d>> \in r.target => Over(t, u, d)
  BY <1>1
<1>7. /\ t[u][m] = NoRow
      /\ \A d \in Users : r.sub[d] = Depth(t, u, d)
      /\ \A a \in Users : r.sup[a] = Depth(t, a, m)
  BY DEF Undisturbed
<1> QED
  BY <1>1, <1>5, <1>6, <1>7 DEF Undisturbed

(* The rows the cross join inserts are all free.                            *)
LEMMA AfterInsert ==
  ASSUME NEW t \in Tables, NEW chart \in Charts, IsClosureOf(t, chart),
         NEW r \in Transactions, Undisturbed(r, t), r.pc = "insert",
         NEW s, s.pc = "commit", s.user = r.user, s.manager = r.manager,
         s.target = r.target,
         s.own = WrittenTo(r.own, t,
                   CreateMany(ViewOf(r.own, t), CrossJoin(r.sup, r.sub)))
  PROVE  Undisturbed(s, t)
<1> DEFINE u == r.user
           m == r.manager
           v == CreateMany(ViewOf(r.own, t), CrossJoin(r.sup, r.sub))
<1>1. /\ u \in Users /\ m \in Users /\ u # m
      /\ t[u][m] = NoRow
      /\ \A d \in Users : r.sub[d] = Depth(t, u, d)
      /\ \A a \in Users : r.sup[a] = Depth(t, a, m)
      /\ \A a, d \in Users : <<a, d>> \in r.target => Over(t, u, d)
  BY DEF Undisturbed
<1>2. /\ ViewOf(r.own, t) \in Tables
      /\ \A a, d \in Users : ViewOf(r.own, t)[a][d] = RowAt(r.pc, t, u, m, a, d)
  BY SeesRows
<1>3. \A a, d \in Users : t[a][d] \in Nat \cup {-1}
  BY DEF Tables, NoRow
<1>4. \A a, d \in Users :
        /\ Depth(t, a, d) \in Nat \cup {-1}
        /\ Depth(t, a, d) # NoRow <=> Over(t, a, d)
  BY <1>3 DEF Depth, Over, NoRow
<1>5. \A a, d \in Users :
        v[a][d] = IF ViewOf(r.own, t)[a][d] # NoRow THEN ViewOf(r.own, t)[a][d]
                  ELSE IF Over(t, a, m) /\ Over(t, u, d)
                  THEN Depth(t, a, m) + Depth(t, u, d) + 1 ELSE NoRow
  BY <1>1, <1>4 DEF CreateMany, CrossJoin
<1>6. v \in Tables
  <2>1. \A a, d \in Users : ViewOf(r.own, t)[a][d] \in Nat \cup {-1}
    BY <1>2 DEF Tables, NoRow
  <2>2. \A a, d \in Users : v[a][d] \in Nat \cup {NoRow}
    BY <2>1, <1>1, <1>4, <1>5 DEF NoRow
  <2>3. v = [a \in Users |-> [d \in Users |-> v[a][d]]]
    BY DEF CreateMany
  <2> HIDE DEF v
  <2> QED
    BY <2>2, <2>3 DEF Tables
<1>7. ASSUME NEW a \in Users, NEW d \in Users
      PROVE  /\ v[a][d] = RowAt("commit", t, u, m, a, d)
             /\ \/ v[a][d] = ViewOf(r.own, t)[a][d]
                \/ a = d /\ a \in {u, m} /\ v[a][d] = 0
                \/ Moved(t, u, a, d)
  <2>1. Over(t, u, a) => ~ Over(t, a, m)
    <3> SUFFICES ASSUME Over(t, u, a), Over(t, a, m) PROVE FALSE
      OBVIOUS
    <3>1. u # a /\ a # m /\ t[u][a] # NoRow /\ t[a][m] # NoRow
      BY <1>1 DEF Over
    <3>2. t[u][m] = t[u][a] + t[a][m]
      BY <3>1, <1>1 DEF IsClosureOf, PathsCompose
    <3> QED
      BY <3>1, <3>2, <1>1, <1>3 DEF NoRow
  <2>2. Over(t, u, d) /\ Over(t, a, m) => Moved(t, u, a, d)
    BY <2>1 DEF Moved
  <2>3. CASE Moved(t, u, a, d)
    <3>1. a # d /\ Over(t, u, d) /\ ViewOf(r.own, t)[a][d] = NoRow
      BY <1>2, <2>3 DEF Moved, RowAt
    <3> HIDE DEF v
    <3> QED
      BY <1>5, <2>3, <3>1 DEF RowAt
  <2>4. CASE ~ Moved(t, u, a, d)
    <3>1. v[a][d] = ViewOf(r.own, t)[a][d]
      BY <1>5, <2>2, <2>4
    <3>2. RowAt("commit", t, u, m, a, d) = RowAt("insert", t, u, m, a, d)
      BY <2>4 DEF RowAt, Registered
    <3> HIDE DEF v
    <3> QED
      BY <3>1, <3>2, <1>2
  <2> QED
    BY <2>3, <2>4
<1>8. s.own = WrittenTo(r.own, t, v)
  OBVIOUS
<1> HIDE DEF v
<1>9. /\ \A a, d \in Users :
           ViewOf(s.own, t)[a][d] = RowAt("commit", t, u, m, a, d)
      /\ \A a, d \in Users : s.own[a][d] # Untouched =>
           \/ a = d /\ a \in {u, m} /\ s.own[a][d] = 0
           \/ Moved(t, u, a, d)
  BY <1>6, <1>7, <1>8, Wrote
<1> QED
  BY <1>1, <1>9 DEF Undisturbed

(* What commits is what the whole call leaves when it runs alone.           *)
LEMMA CommitIsReparent ==
  ASSUME NEW t \in Tables, NEW chart \in Charts, IsClosureOf(t, chart),
         NEW r \in Transactions, Undisturbed(r, t), r.pc = "commit"
  PROVE  LET nodes == AddNode(AddNode(t, r.user), r.manager)
         IN  /\ ~ WouldCycle(nodes, r.user, r.manager)
             /\ ViewOf(r.own, t) = Reparent(nodes, r.user, r.manager)
<1> DEFINE u == r.user
           m == r.manager
           nodes == AddNode(AddNode(t, u), m)
           v == ViewOf(r.own, t)
<1>1. /\ u \in Users /\ m \in Users /\ u # m
      /\ t[u][m] = NoRow
  BY DEF Undisturbed
<1>2. /\ v \in Tables
      /\ \A a, d \in Users : v[a][d] = RowAt("commit", t, u, m, a, d)
  BY SeesRows
<1>3. /\ nodes \in Tables
      /\ IsClosureOf(nodes, chart)
      /\ nodes[u][u] = 0 /\ nodes[m][m] = 0
      /\ nodes[u][m] = NoRow
  BY <1>1, BothNodes
<1>4. \A a, d \in Users : nodes[a][d] =
        IF t[a][d] = NoRow /\ a = d /\ a \in {u, m} THEN 0 ELSE t[a][d]
  <2>1. AddNode(t, u) \in Tables
    BY <1>1, NodeRows
  <2>2. \A a, d \in Users :
          nodes[a][d] = IF AddNode(t, u)[a][d] = NoRow /\ a = m /\ d = m THEN 0
                        ELSE AddNode(t, u)[a][d]
    BY <2>1, <1>1, NodeRows
  <2>3. \A a, d \in Users :
          AddNode(t, u)[a][d] = IF t[a][d] = NoRow /\ a = u /\ d = u THEN 0
                                ELSE t[a][d]
    BY <1>1, NodeRows
  <2> HIDE DEF nodes
  <2> QED
    BY <2>2, <2>3
<1> HIDE DEF nodes
<1>5. /\ Reparent(nodes, u, m) \in Tables
      /\ \A a, d \in Users :
           Reparent(nodes, u, m)[a][d] =
             IF nodes[u][d] = NoRow \/ nodes[u][a] # NoRow THEN nodes[a][d]
             ELSE IF nodes[a][m] = NoRow THEN NoRow
             ELSE nodes[a][m] + nodes[u][d] + 1
  BY <1>1, <1>3, ReparentRows
<1>6. \A x \in Users : /\ nodes[u][x] # NoRow <=> Over(t, u, x)
                       /\ nodes[x][m] # NoRow <=> Over(t, x, m)
  BY <1>1, <1>4 DEF Over, NoRow
<1>7. t[u][u] \in {0, NoRow} /\ t[m][m] \in {0, NoRow}
  BY <1>1 DEF IsClosureOf, SelfRows
<1>8. \A x \in Users : /\ nodes[u][x] = Depth(t, u, x)
                       /\ nodes[x][m] = Depth(t, x, m)
  BY <1>1, <1>4, <1>7 DEF Depth, NoRow
<1>9. ASSUME NEW a \in Users, NEW d \in Users
      PROVE  v[a][d] = Reparent(nodes, u, m)[a][d]
  <2>1. CASE Moved(t, u, a, d)
    <3>1. a # d /\ nodes[u][d] # NoRow /\ nodes[u][a] = NoRow
      BY <2>1, <1>6 DEF Moved
    <3>2. v[a][d] = IF Over(t, a, m) THEN Depth(t, a, m) + Depth(t, u, d) + 1
                    ELSE NoRow
      BY <1>2, <2>1, <3>1 DEF RowAt
    <3>3. Reparent(nodes, u, m)[a][d] =
             IF nodes[a][m] = NoRow THEN NoRow
             ELSE nodes[a][m] + nodes[u][d] + 1
      BY <1>5, <3>1
    <3> QED
      BY <3>2, <3>3, <1>6, <1>8
  <2>2. CASE ~ Moved(t, u, a, d)
    <3>1. nodes[u][d] = NoRow \/ nodes[u][a] # NoRow
      BY <2>2, <1>6 DEF Moved
    <3>2. Reparent(nodes, u, m)[a][d] = nodes[a][d]
      BY <1>5, <3>1
    <3>3. v[a][d] = IF a = d /\ a \in {u, m} THEN 0 ELSE t[a][d]
      BY <1>2, <2>2 DEF RowAt, Registered
    <3>4. nodes[a][d] = IF a = d /\ a \in {u, m} THEN 0 ELSE t[a][d]
      BY <1>4, <1>7
    <3> QED
      BY <3>2, <3>3, <3>4
  <2> QED
    BY <2>1, <2>2
<1> HIDE DEF v
<1>10. v = Reparent(nodes, u, m)
  <2> DEFINE w == Reparent(nodes, u, m)
  <2> HIDE DEF w
  <2>1. w \in [Users -> [Users -> Nat \cup {NoRow}]]
    BY <1>5 DEF w, Tables
  <2>2. v \in [Users -> [Users -> Nat \cup {NoRow}]]
    BY <1>2 DEF Tables
  <2>3. \A a \in Users : v[a] = w[a]
    <3> TAKE a \in Users
    <3>1. v[a] \in [Users -> Nat \cup {NoRow}] /\ w[a] \in [Users -> Nat \cup {NoRow}]
      BY <2>1, <2>2
    <3>2. \A d \in Users : v[a][d] = w[a][d]
      BY <1>9 DEF w
    <3> QED
      BY <3>1, <3>2
  <2>4. v = w
    BY <2>1, <2>2, <2>3
  <2> QED
    BY <2>4 DEF w
<1> QED
  BY <1>3, <1>10 DEF WouldCycle, nodes, v

-----------------------------------------------------------------------------
Answers == {"", "SELF", "DIRECT_MANAGER", "ANCESTOR", "SIBLING", "NONE"}

Questions ==
  [pc : {"idle", "managers", "answered"},
   subject : Users \cup {NoUser}, target : Users \cup {NoUser},
   known : [{"subject", "target"} -> SUBSET (Users \cup {NoUser})],
   answer : Answers, held : SUBSET Answers, commits : Nat]

(* The types of all the variables; a transaction is open on two users.      *)
TxTyped ==
  /\ TypeOK
  /\ users = Users
  /\ call = [u \in Users |-> Done]
  /\ tx \in [Writers -> Transactions]
  /\ \A w \in Writers : tx[w].pc = "idle" => tx[w] = Idle
  /\ \A w \in Writers : tx[w].pc # "idle" => tx[w].user \in Users /\ tx[w].manager \in Users
  /\ calls \in [Writers -> 0 .. MaxCalls]
  /\ query \in [Readers -> Questions]
  /\ related \in BOOLEAN

-----------------------------------------------------------------------------
(* A transaction that is not open, and what an open one sees.               *)
LEMMA IdleIsTyped == Idle \in Transactions /\ Idle.pc = "idle"
<1>1. NoTree \in Trees
  BY DEF NoTree, Trees
<1>2. [a \in Users |-> [d \in Users |-> Untouched]] \in Writes
  BY DEF Writes
<1> QED
  BY <1>1, <1>2 DEF Idle, Transactions, Stages

(* View and Written are ViewOf and WrittenTo.                               *)
LEMMA ViewTyped ==
  ASSUME closure \in Tables, tx \in [Writers -> Transactions], NEW w \in Writers
  PROVE  /\ View(w) = ViewOf(tx[w].own, closure)
         /\ View(w) \in Tables
         /\ \A t \in Tables : /\ Written(w, t) = WrittenTo(tx[w].own, closure, t)
                              /\ Written(w, t) \in Writes
<1>1. tx[w].own \in Writes
  BY DEF Transactions
<1>2. View(w) = ViewOf(tx[w].own, closure)
  BY DEF View, ViewOf
<1>3. View(w) \in Tables
  BY <1>1, <1>2, ViewIsTable
<1>4. ASSUME NEW t \in Tables
      PROVE  /\ Written(w, t) = WrittenTo(tx[w].own, closure, t)
             /\ Written(w, t) \in Writes
  <2>1. Written(w, t) = WrittenTo(tx[w].own, closure, t)
    BY <1>2 DEF Written, WrittenTo
  <2> QED
    BY <2>1, <1>1, WrittenIsSeen
<1> QED
  BY <1>2, <1>3, <1>4

(* One statement of an open transaction other than its commit: its record   *)
(* is still a transaction on the same two users, undisturbed if it was so,  *)
(* and the committed rows are as before.                                    *)
Statement(w) ==
  /\ tx' = [tx EXCEPT ![w] = tx'[w]]
  /\ tx'[w] \in Transactions
  /\ \/ tx'[w] = Idle
     \/ /\ tx'[w].pc # "idle"
        /\ tx'[w].user = tx[w].user
        /\ tx'[w].manager = tx[w].manager
        /\ ClosureOK /\ Undisturbed(tx[w], closure) => Undisturbed(tx'[w], closure)
  /\ UNCHANGED <<vars, calls, query, related>>

(* Every step of a writer but its commit is such a statement.               *)
LEMMA EveryStatement ==
  ASSUME TxTyped, NEW w \in Writers, WriterStep(w), ~ Commit(w)
  PROVE  Statement(w) /\ tx[w].pc # "idle"
<1> DEFINE r == tx[w]
<1>1. /\ r \in Transactions /\ closure \in Tables /\ managerId \in Charts
      /\ tx \in [Writers -> Transactions]
      /\ r.pc # "idle" => r.user \in Users /\ r.manager \in Users
      /\ ClosureOK <=> IsClosureOf(closure, managerId)
  BY DEF TxTyped, TypeOK, Charts, ClosureOK
<1>2. /\ View(w) = ViewOf(r.own, closure)
      /\ View(w) \in Tables
      /\ \A t \in Tables : /\ Written(w, t) = WrittenTo(r.own, closure, t)
                           /\ Written(w, t) \in Writes
  BY <1>1, ViewTyped
<1>3. ASSUME NEW s \in Transactions,
             s = Idle \/ /\ s.pc # "idle"
                         /\ s.user = r.user
                         /\ s.manager = r.manager
                         /\ ClosureOK /\ Undisturbed(r, closure) => Undisturbed(s, closure),
             tx' = [tx EXCEPT ![w] = s],
             UNCHANGED <<vars, calls, query, related>>
      PROVE  Statement(w)
  <2>1. tx'[w] = s
    BY <1>1, <1>3
  <2> QED
    BY <1>3, <2>1 DEF Statement
<1> HIDE DEF r
<1>4. CASE RegisterUser(w)
  <2> DEFINE own == Written(w, AddNode(View(w), r.user))
             s == [[r EXCEPT !.own = own] EXCEPT !.pc = "addManager"]
  <2>1. /\ r.pc = "addUser" /\ tx' = [tx EXCEPT ![w] = s]
        /\ UNCHANGED <<vars, calls, query, related>>
    BY <1>4 DEF RegisterUser, Proceed, r
  <2>2. r.user \in Users
    BY <2>1, <1>1
  <2>3. own \in Writes
    BY <1>2, <2>2, NodeRows
  <2> HIDE DEF own
  <2>4. /\ s \in Transactions
        /\ s.pc = "addManager" /\ s.user = r.user /\ s.manager = r.manager
        /\ s.own = own
        /\ s.sub = r.sub
        /\ s.sup = r.sup
        /\ s.old = r.old
        /\ s.target = r.target
    BY <2>3, <1>1 DEF Transactions, Stages
  <2> HIDE DEF s
  <2>5. ASSUME ClosureOK, Undisturbed(r, closure)
        PROVE  Undisturbed(s, closure)
    <3>1. own = WrittenTo(r.own, closure, AddNode(ViewOf(r.own, closure), r.user))
      BY <1>2, <2>2, NodeRows DEF own
    <3> QED
      BY <3>1, <1>1, <2>1, <2>4, <2>5, AfterAddUser
  <2> QED
    BY <2>1, <2>4, <2>5, <1>3 DEF r
<1>5. CASE RegisterManager(w)
  <2> DEFINE own == Written(w, AddNode(View(w), r.manager))
             s == [[r EXCEPT !.own = own] EXCEPT !.pc = "checkCycle"]
  <2>1. /\ r.pc = "addManager" /\ tx' = [tx EXCEPT ![w] = s]
        /\ UNCHANGED <<vars, calls, query, related>>
    BY <1>5 DEF RegisterManager, Proceed, r
  <2>2. r.manager \in Users
    BY <2>1, <1>1
  <2>3. own \in Writes
    BY <1>2, <2>2, NodeRows
  <2> HIDE DEF own
  <2>4. /\ s \in Transactions
        /\ s.pc = "checkCycle" /\ s.user = r.user /\ s.manager = r.manager
        /\ s.own = own
        /\ s.sub = r.sub
        /\ s.sup = r.sup
        /\ s.old = r.old
        /\ s.target = r.target
    BY <2>3, <1>1 DEF Transactions, Stages
  <2> HIDE DEF s
  <2>5. ASSUME ClosureOK, Undisturbed(r, closure)
        PROVE  Undisturbed(s, closure)
    <3>1. own = WrittenTo(r.own, closure, AddNode(ViewOf(r.own, closure), r.manager))
      BY <1>2, <2>2, NodeRows DEF own
    <3> QED
      BY <3>1, <1>1, <2>1, <2>4, <2>5, AfterAddManager
  <2> QED
    BY <2>1, <2>4, <2>5, <1>3 DEF r
<1>6. CASE CheckCycle(w)
  <2> DEFINE s == [r EXCEPT !.pc = "subtree"]
  <2>1. /\ r.pc = "checkCycle" /\ tx' = [tx EXCEPT ![w] = s]
        /\ ~ WouldCycle(ViewOf(r.own, closure), r.user, r.manager)
        /\ UNCHANGED <<vars, calls, query, related>>
    BY <1>6, <1>2 DEF CheckCycle, Proceed, r
  <2>2. /\ s \in Transactions
        /\ s.pc = "subtree" /\ s.user = r.user /\ s.manager = r.manager
        /\ s.own = r.own
        /\ s.target = r.target
    BY <1>1 DEF Transactions, Stages
  <2> HIDE DEF s
  <2>3. Undisturbed(r, closure) => Undisturbed(s, closure)
    BY <1>1, <2>1, <2>2, AfterCheckCycle
  <2> QED
    BY <2>1, <2>2, <2>3, <1>3 DEF r
<1>7. CASE RejectCycle(w)
  <2> DEFINE s == [Idle EXCEPT !.pc = "idle"]
  <2>1. /\ r.pc = "checkCycle" /\ tx' = [tx EXCEPT ![w] = s]
        /\ UNCHANGED <<vars, calls, query, related>>
    BY <1>7 DEF RejectCycle, Proceed, r
  <2>2. s = Idle
    BY DEF Idle
  <2> HIDE DEF s
  <2> QED
    BY <2>1, <2>2, <1>3, IdleIsTyped DEF r
<1>8. CASE ReadSubtree(w)
  <2> DEFINE sub == Subtree(View(w), r.user)
             s == [[r EXCEPT !.sub = sub] EXCEPT !.pc = "superTree"]
  <2>1. /\ r.pc = "subtree" /\ tx' = [tx EXCEPT ![w] = s]
        /\ UNCHANGED <<vars, calls, query, related>>
    BY <1>8 DEF ReadSubtree, Proceed, r
  <2>2. r.user \in Users
    BY <2>1, <1>1
  <2>3. sub \in Trees
    BY <1>2, <2>2 DEF Trees, Tables, Subtree
  <2> HIDE DEF sub
  <2>4. /\ s \in Transactions
        /\ s.pc = "superTree" /\ s.user = r.user /\ s.manager = r.manager
        /\ s.own = r.own
        /\ s.sub = sub
        /\ s.sup = r.sup
        /\ s.old = r.old
        /\ s.target = r.target
    BY <2>3, <1>1 DEF Transactions, Stages
  <2> HIDE DEF s
  <2>5. ASSUME ClosureOK, Undisturbed(r, closure)
        PROVE  Undisturbed(s, closure)
    <3>1. sub = Subtree(ViewOf(r.own, closure), r.user)
      BY <1>2, <2>2, <2>3 DEF sub
    <3> QED
      BY <3>1, <1>1, <2>1, <2>4, <2>5, AfterReadSubtree
  <2> QED
    BY <2>1, <2>4, <2>5, <1>3 DEF r
<1>9. CASE ReadSuperTree(w)
  <2> DEFINE sup == SuperTree(View(w), r.manager)
             s == [[r EXCEPT !.sup = sup] EXCEPT !.pc = "oldAncestors"]
  <2>1. /\ r.pc = "superTree" /\ tx' = [tx EXCEPT ![w] = s]
        /\ UNCHANGED <<vars, calls, query, related>>
    BY <1>9 DEF ReadSuperTree, Proceed, r
  <2>2. r.manager \in Users
    BY <2>1, <1>1
  <2>3. sup \in Trees
    BY <1>2, <2>2 DEF Trees, Tables, SuperTree
  <2> HIDE DEF sup
  <2>4. /\ s \in Transactions
        /\ s.pc = "oldAncestors" /\ s.user = r.user /\ s.manager = r.manager
        /\ s.own = r.own
        /\ s.sub = r.sub
        /\ s.sup = sup
        /\ s.old = r.old
        /\ s.target = r.target
    BY <2>3, <1>1 DEF Transactions, Stages
  <2> HIDE DEF s
  <2>5. ASSUME ClosureOK, Undisturbed(r, closure)
        PROVE  Undisturbed(s, closure)
    <3>1. sup = SuperTree(ViewOf(r.own, closure), r.manager)
      BY <1>2, <2>2, <2>3 DEF sup
    <3> QED
      BY <3>1, <1>1, <2>1, <2>4, <2>5, AfterReadSuperTree
  <2> QED
    BY <2>1, <2>4, <2>5, <1>3 DEF r
<1>10. CASE ReadOldAncestors(w)
  <2> DEFINE old == OldAncestors(View(w), r.user)
             next == IF old = {} THEN "insert" ELSE "scan"
             s == [[r EXCEPT !.old = old] EXCEPT !.pc = next]
  <2>1. /\ r.pc = "oldAncestors" /\ tx' = [tx EXCEPT ![w] = s]
        /\ UNCHANGED <<vars, calls, query, related>>
    BY <1>10 DEF ReadOldAncestors, Proceed, r
  <2>2. old \in SUBSET Users
    BY DEF OldAncestors, Ids
  <2>3. old \in SUBSET Users /\ next \in Stages /\ next # "idle"
    BY <2>2 DEF Stages
  <2> HIDE DEF old, next
  <2>4. /\ s \in Transactions
        /\ s.pc = next /\ s.user = r.user /\ s.manager = r.manager
        /\ s.own = r.own
        /\ s.sub = r.sub
        /\ s.sup = r.sup
        /\ s.old = old
        /\ s.target = r.target
    BY <2>3, <1>1 DEF Transactions, Stages
  <2> HIDE DEF s
  <2>5. ASSUME ClosureOK, Undisturbed(r, closure)
        PROVE  Undisturbed(s, closure)
    <3>1. old = OldAncestors(ViewOf(r.own, closure), r.user)
          /\ next = IF old = {} THEN "insert" ELSE "scan"
      BY <1>2, <2>2, <2>3 DEF old, next
    <3> QED
      BY <3>1, <1>1, <2>1, <2>4, <2>5, AfterReadOldAncestors
  <2> QED
    BY <2>1, <2>3, <2>4, <2>5, <1>3 DEF r
<1>11. CASE ScanDoomedRows(w)
  <2> DEFINE rows == {k \in Keys(View(w)) : k[1] \in r.old /\ k[2] \in Ids(r.sub)}
             s == [[r EXCEPT !.target = rows] EXCEPT !.pc = "delete"]
  <2>1. /\ r.pc = "scan" /\ tx' = [tx EXCEPT ![w] = s]
        /\ UNCHANGED <<vars, calls, query, related>>
    BY <1>11 DEF ScanDoomedRows, Proceed, r
  <2>3. rows \in SUBSET (Users \X Users)
    BY DEF Keys
  <2> HIDE DEF rows
  <2>4. /\ s \in Transactions
        /\ s.pc = "delete" /\ s.user = r.user /\ s.manager = r.manager
        /\ s.own = r.own
        /\ s.sub = r.sub
        /\ s.sup = r.sup
        /\ s.old = r.old
        /\ s.target = rows
    BY <2>3, <1>1 DEF Transactions, Stages
  <2> HIDE DEF s
  <2>5. ASSUME ClosureOK, Undisturbed(r, closure)
        PROVE  Undisturbed(s, closure)
    <3>1. rows = {k \in Keys(ViewOf(r.own, closure)) :
                      k[1] \in r.old /\ k[2] \in Ids(r.sub)}
      BY <1>2, <2>3 DEF rows
    <3> QED
      BY <3>1, <1>1, <2>1, <2>4, <2>5, AfterScan
  <2> QED
    BY <2>1, <2>4, <2>5, <1>3 DEF r
<1>12. CASE DeleteRows(w)
  <2> DEFINE kept == [a \in Users |-> [d \in Users |->
                        IF <<a, d>> \in r.target THEN NoRow ELSE View(w)[a][d]]]
             own == Written(w, kept)
             s == [[r EXCEPT !.own = own] EXCEPT !.pc = "insert"]
  <2>1. /\ r.pc = "delete" /\ tx' = [tx EXCEPT ![w] = s]
        /\ UNCHANGED <<vars, calls, query, related>>
    BY <1>12 DEF DeleteRows, Proceed, r
  <2>2. /\ kept \in Tables
        /\ kept = [a \in Users |-> [d \in Users |->
                     IF <<a, d>> \in r.target THEN NoRow
                     ELSE ViewOf(r.own, closure)[a][d]]]
    BY <1>2 DEF Tables
  <2> HIDE DEF kept
  <2>3. own \in Writes
    BY <1>2, <2>2
  <2> HIDE DEF own
  <2>4. /\ s \in Transactions
        /\ s.pc = "insert" /\ s.user = r.user /\ s.manager = r.manager
        /\ s.own = own
        /\ s.sub = r.sub
        /\ s.sup = r.sup
        /\ s.old = r.old
        /\ s.target = r.target
    BY <2>3, <1>1 DEF Transactions, Stages
  <2> HIDE DEF s
  <2>5. ASSUME ClosureOK, Undisturbed(r, closure)
        PROVE  Undisturbed(s, closure)
    <3>1. own = WrittenTo(r.own, closure, kept)
      BY <1>2, <2>2, <2>3 DEF own
    <3> QED
      BY <3>1, <1>1, <2>1, <2>2, <2>4, <2>5, AfterDelete
  <2> QED
    BY <2>1, <2>4, <2>5, <1>3 DEF r
<1>13. CASE InsertRows(w)
  <2> DEFINE rows == CreateMany(View(w), CrossJoin(r.sup, r.sub))
             own == Written(w, rows)
             s == [[r EXCEPT !.own = own] EXCEPT !.pc = "commit"]
  <2>1. /\ r.pc = "insert" /\ tx' = [tx EXCEPT ![w] = s]
        /\ UNCHANGED <<vars, calls, query, related>>
    BY <1>13 DEF InsertRows, Proceed, r
  <2>2. rows \in Tables
    <3> DEFINE join == CrossJoin(r.sup, r.sub)
               seen == View(w)
    <3>1. \A a \in Users : r.sup[a] \in Nat \cup {-1} /\ r.sub[a] \in Nat \cup {-1}
      BY <1>1 DEF Transactions, Trees, NoRow
    <3>2. \A a, d \in Users : join[a][d] \in Nat \cup {-1}
      BY <3>1 DEF CrossJoin, NoRow
    <3>3. \A a, d \in Users : seen[a][d] \in Nat \cup {-1}
      BY <1>2 DEF Tables, NoRow
    <3> HIDE DEF join, seen
    <3>4. \A a, d \in Users : (IF seen[a][d] = NoRow THEN join[a][d] ELSE seen[a][d])
                                \in Nat \cup {NoRow}
      BY <3>2, <3>3 DEF NoRow
    <3>5. CreateMany(seen, join) \in Tables
      BY <3>4 DEF CreateMany, Tables
    <3> QED
      BY <3>5 DEF join, seen
  <2>6. rows = CreateMany(ViewOf(r.own, closure), CrossJoin(r.sup, r.sub))
    BY <1>2
  <2> HIDE DEF rows
  <2>3. own \in Writes
    BY <1>2, <2>2
  <2> HIDE DEF own
  <2>4. /\ s \in Transactions
        /\ s.pc = "commit" /\ s.user = r.user /\ s.manager = r.manager
        /\ s.own = own
        /\ s.sub = r.sub
        /\ s.sup = r.sup
        /\ s.old = r.old
        /\ s.target = r.target
    BY <2>3, <1>1 DEF Transactions, Stages
  <2> HIDE DEF s
  <2>5. ASSUME ClosureOK, Undisturbed(r, closure)
        PROVE  Undisturbed(s, closure)
    <3>1. own = WrittenTo(r.own, closure, rows)
      BY <1>2, <2>2, <2>3 DEF own
    <3> QED
      BY <3>1, <1>1, <2>1, <2>4, <2>5, <2>6, AfterInsert
  <2> QED
    BY <2>1, <2>4, <2>5, <1>3 DEF r
<1> QED
  BY <1>4, <1>5, <1>6, <1>7, <1>8, <1>9, <1>10, <1>11, <1>12, <1>13 DEF WriterStep

-----------------------------------------------------------------------------
(* A call opens its transaction on two users; the others are as they were.  *)
LEMMA BeginOpens ==
  ASSUME TxTyped, NEW w \in Writers, NEW u \in Users, NEW m \in Users,
         Begin(w, u, m)
  PROVE  \E s \in Transactions :
           /\ tx' = [tx EXCEPT ![w] = s]
           /\ s.pc = "addUser" /\ s.user = u /\ s.manager = m
           /\ s.target = {} /\ s.own = Idle.own
<1> DEFINE s == [Idle EXCEPT !.pc = "addUser", !.user = u, !.manager = m]
<1>1. /\ s \in Transactions /\ s.pc = "addUser" /\ s.user = u /\ s.manager = m
      /\ s.target = Idle.target /\ s.own = Idle.own
  <2> DEFINE r == Idle
  <2>1. r \in Transactions
    BY IdleIsTyped
  <2> HIDE DEF r
  <2>2. LET x == [r EXCEPT !.pc = "addUser", !.user = u, !.manager = m]
        IN  /\ x \in Transactions /\ x.pc = "addUser" /\ x.user = u /\ x.manager = m
            /\ x.target = r.target /\ x.own = r.own
    BY <2>1 DEF Transactions, Stages
  <2> QED
    BY <2>2 DEF r
<1>2. Idle.target = {}
  BY DEF Idle
<1>3. tx' = [tx EXCEPT ![w] = s]
  <2>1. tx[w] = Idle /\ tx \in [Writers -> Transactions]
    BY DEF Begin, TxTyped
  <2>2. tx' = [tx EXCEPT ![w] = [tx[w] EXCEPT !.pc = "addUser", !.user = u,
                                              !.manager = m]]
    BY DEF Begin
  <2> QED
    BY <2>1, <2>2
<1> HIDE DEF s
<1> QED
  BY <1>1, <1>2, <1>3

(* What the classification answers are.                                     *)
LEMMA RelationshipsAreAnswers ==
  ASSUME NEW t, NEW s, NEW u
  PROVE  /\ GetRelationship(t, s, u) \in SUBSET Answers
         /\ \A depth, sm, um : Classify(s, u, depth, sm, um) \in Answers
<1>1. \A depth, sm, um : Classify(s, u, depth, sm, um) \in Answers
  BY DEF Classify, Answers
<1> QED
  BY <1>1 DEF GetRelationship

(* The types of the steps of a question.                                    *)
LEMMA QuestionIsTyped == NotAsked \in Questions
<1> DEFINE known == [end \in {"subject", "target"} |-> {}]
<1>1. known \in [{"subject", "target"} -> SUBSET (Users \cup {NoUser})]
  OBVIOUS
<1>2. "" \in Answers /\ {} \in SUBSET Answers
  BY DEF Answers
<1>3. NotAsked = [pc |-> "idle", subject |-> NoUser, target |-> NoUser,
                  known |-> known, answer |-> "", held |-> {}, commits |-> 0]
  BY DEF NotAsked
<1> HIDE DEF known
<1> QED
  BY <1>1, <1>2, <1>3 DEF Questions

(* The first read.                                                          *)
LEMMA AskTyped ==
  ASSUME TxTyped, NEW r \in Readers, NEW s \in Users, NEW u \in Users,
         Ask(r, s, u)
  PROVE  query' \in [Readers -> Questions]
<1> DEFINE held == GetRelationship(closure, s, u)
           answer == Classify(s, u, closure[s][u], NoUser, NoUser)
           asked == [NotAsked EXCEPT !.subject = s, !.target = u, !.held = held]
           one == [asked EXCEPT !.pc = "answered", !.answer = answer]
           two == [asked EXCEPT !.pc = "managers"]
<1>1. held \in SUBSET Answers /\ answer \in Answers
  BY RelationshipsAreAnswers
<1>2. query' = [query EXCEPT ![r] = IF closure[s][u] >= 1 THEN one ELSE two]
  BY DEF Ask
<1> HIDE DEF held, answer
<1>3. asked \in Questions
  <2> DEFINE q == NotAsked
  <2>1. q \in Questions
    BY QuestionIsTyped
  <2> HIDE DEF q
  <2>2. [q EXCEPT !.subject = s, !.target = u, !.held = held] \in Questions
    BY <1>1, <2>1 DEF Questions
  <2> QED
    BY <2>2 DEF q
<1> HIDE DEF asked
<1>4. one \in Questions
  BY <1>1, <1>3 DEF Questions
<1>5. two \in Questions
  BY <1>3 DEF Questions
<1> HIDE DEF one, two
<1> QED
  BY <1>2, <1>4, <1>5 DEF TxTyped

(* The reads of the managers.                                               *)
LEMMA ReadManagerTyped ==
  ASSUME TxTyped, NEW r \in Readers, NEW end \in {"subject", "target"},
         ReadManager(r, end)
  PROVE  query' \in [Readers -> Questions]
<1> DEFINE q == query[r]
           other == IF end = "subject" THEN "target" ELSE "subject"
<1>1. q \in Questions /\ query \in [Readers -> Questions]
  BY DEF TxTyped
<1>2. PICK m \in DirectManagerIds(closure, q[end]) :
        query' = [query EXCEPT ![r] =
          IF q.known[other] = {}
          THEN [q EXCEPT !.known[end] = {m}]
          ELSE [q EXCEPT !.pc = "answered",
                  !.known[end] = {m},
                  !.answer =
                    IF q.known[other] = {m} /\ m # NoUser
                    THEN "SIBLING" ELSE "NONE"]]
  BY DEF ReadManager
<1>3. m \in Users \cup {NoUser}
  BY DEF DirectManagerIds
<1> DEFINE known == [q.known EXCEPT ![end] = {m}]
           answer == IF q.known[other] = {m} /\ m # NoUser
                     THEN "SIBLING" ELSE "NONE"
           one == [q EXCEPT !.known = known]
           two == [q EXCEPT !.pc = "answered", !.known = known, !.answer = answer]
<1>4. q.known \in [{"subject", "target"} -> SUBSET (Users \cup {NoUser})]
  BY <1>1 DEF Questions
<1>5. query' = [query EXCEPT ![r] = IF q.known[other] = {} THEN one ELSE two]
  BY <1>2
<1> HIDE DEF q, other
<1>6. known \in [{"subject", "target"} -> SUBSET (Users \cup {NoUser})]
  BY <1>3, <1>4
<1>7. answer \in Answers
  BY DEF Answers
<1> HIDE DEF known, answer
<1>8. one \in Questions
  BY <1>1, <1>6 DEF Questions
<1>9. two \in Questions
  BY <1>1, <1>6, <1>7 DEF Questions
<1> HIDE DEF one, two
<1> QED
  BY <1>1, <1>5, <1>8, <1>9

(* What a commit leaves of the other transactions.                          *)
LEMMA CommitTyped ==
  ASSUME TxTyped, NEW w \in Writers, Commit(w)
  PROVE  /\ closure' \in Tables /\ managerId' \in Charts
         /\ tx' \in [Writers -> Transactions]
         /\ tx'[w] = Idle
         /\ \A v \in Writers \ {w} :
              /\ LeftOf(tx'[v], tx[v], tx[w].target)
              /\ tx[v].pc = "idle" => tx'[v] = tx[v]
         /\ query' \in [Readers -> Questions]
<1>1. /\ closure \in Tables /\ managerId \in Charts
      /\ tx \in [Writers -> Transactions]
      /\ query \in [Readers -> Questions]
      /\ tx[w].user \in Users /\ tx[w].manager \in Users
  BY DEF TxTyped, TypeOK, Charts, Commit
<1>2. closure' \in Tables
  BY <1>1, ViewTyped DEF Commit
<1>3. managerId' \in Charts
  BY <1>1 DEF Commit, Charts
<1>4. tx' = [v \in Writers |->
              IF v = w THEN Idle
              ELSE IF tx[v].pc = "delete"
                   THEN [tx[v] EXCEPT !.target = @ \ tx[w].target]
                   ELSE tx[v]]
  BY DEF Commit
<1>5. ASSUME NEW v \in Writers \ {w}
      PROVE  /\ tx'[v] \in Transactions
             /\ LeftOf(tx'[v], tx[v], tx[w].target)
             /\ tx[v].pc = "idle" => tx'[v] = tx[v]
  <2> DEFINE r == tx[v]
             taken == tx[w].target
             left == [r EXCEPT !.target = r.target \ taken]
  <2>1. r \in Transactions
    BY <1>1
  <2>2. tx'[v] = IF r.pc = "delete" THEN left ELSE r
    BY <1>4
  <2> HIDE DEF r, taken
  <2>3. /\ left \in Transactions
        /\ left.pc = r.pc /\ left.user = r.user /\ left.manager = r.manager
        /\ left.sub = r.sub /\ left.sup = r.sup /\ left.old = r.old
        /\ left.own = r.own /\ left.target = r.target \ taken
    BY <2>1 DEF Transactions
  <2> HIDE DEF left
  <2> QED
    BY <2>1, <2>2, <2>3 DEF r, taken, LeftOf
<1>6. tx'[w] = Idle /\ Idle \in Transactions
  BY <1>4, IdleIsTyped
<1>7. tx' \in [Writers -> Transactions]
  <2>1. \A v \in Writers : tx'[v] \in Transactions
    BY <1>5, <1>6
  <2>2. tx' = [v \in Writers |-> tx'[v]]
    BY <1>4
  <2> QED
    BY <2>1, <2>2
<1>8. query' \in [Readers -> Questions]
  <2> DEFINE Holds(r) == query[r].held
                           \cup GetRelationship(View(w), query[r].subject, query[r].target)
             after(r) == [query[r] EXCEPT !.held = Holds(r),
                                          !.commits = query[r].commits + 1]
  <2>1. query' = [r \in Readers |-> IF query[r].pc = "managers" THEN after(r)
                                    ELSE query[r]]
    BY DEF Commit
  <2>2. ASSUME NEW r \in Readers PROVE after(r) \in Questions
    <3> DEFINE q == query[r]
               held == Holds(r)
    <3>1. q \in Questions
      BY <1>1
    <3>2. held \in SUBSET Answers
      <4>1. q.held \in SUBSET Answers
        BY <3>1 DEF Questions
      <4> QED
        BY <4>1, RelationshipsAreAnswers
    <3> HIDE DEF q, held
    <3> DEFINE n == q.commits + 1
    <3>3. n \in Nat
      BY <3>1 DEF Questions
    <3> HIDE DEF n
    <3>4. [q EXCEPT !.held = held, !.commits = n] \in Questions
      BY <3>1, <3>2, <3>3 DEF Questions
    <3> QED
      BY <3>4 DEF q, held, n
  <2> HIDE DEF after
  <2> QED
    BY <2>1, <2>2, <1>1
<1> QED
  BY <1>2, <1>3, <1>5, <1>6, <1>7, <1>8

-----------------------------------------------------------------------------
(* The types hold from the start and after every step.                      *)
LEMMA TxInitTyped == TxInit => TxTyped /\ ClosureOK /\ ~ related
<1> SUFFICES ASSUME TxInit PROVE TxTyped /\ ClosureOK /\ ~ related
  OBVIOUS
<1>1. managerId \in Charts /\ Forest(managerId)
  BY DEF TxInit
<1>2. PICK nodes \in SUBSET Users :
        /\ \A u \in Users : managerId[u] # NoUser => {u, managerId[u]} \subseteq nodes
        /\ closure = [a \in Users |-> [d \in Users |->
                        IF a = d /\ a \notin nodes THEN NoRow
                        ELSE Distance(managerId)[a][d]]]
  BY DEF TxInit
<1>3. closure \in Tables /\ IsClosureOf(closure, managerId)
  BY <1>1, <1>2, DistanceIsClosure
<1>4. TypeOK
  BY <1>1, <1>3 DEF TypeOK, TxInit, Charts, Call, Done
<1>5. tx \in [Writers -> Transactions] /\ \A w \in Writers : tx[w] = Idle
  BY IdleIsTyped DEF TxInit
<1>6. calls \in [Writers -> 0 .. MaxCalls]
  BY MaxCallsAssumption DEF TxInit
<1>7. query \in [Readers -> Questions]
  BY QuestionIsTyped DEF TxInit
<1>8. users = Users /\ call = [u \in Users |-> Done] /\ related = FALSE
  BY DEF TxInit
<1> QED
  BY <1>3, <1>4, <1>5, <1>6, <1>7, <1>8, IdleIsTyped DEF TxTyped, ClosureOK

(* Replacing one transaction keeps the types.                               *)
LEMMA OneTransactionTyped ==
  ASSUME TxTyped, NEW w \in Writers,
         tx' = [tx EXCEPT ![w] = tx'[w]], tx'[w] \in Transactions,
         \/ tx'[w] = Idle
         \/ tx'[w].pc # "idle" /\ tx'[w].user \in Users /\ tx'[w].manager \in Users,
         UNCHANGED <<vars, query>>,
         calls' \in [Writers -> 0 .. MaxCalls], related' \in BOOLEAN
  PROVE  TxTyped'
<1>1. tx' \in [Writers -> Transactions]
  BY DEF TxTyped
<1>2. \A v \in Writers \ {w} : tx'[v] = tx[v]
  BY DEF TxTyped
<1>3. \A v \in Writers :
        /\ tx'[v].pc = "idle" => tx'[v] = Idle
        /\ tx'[v].pc # "idle" => tx'[v].user \in Users /\ tx'[v].manager \in Users
  BY <1>2, IdleIsTyped DEF TxTyped
<1>4. TypeOK'
  BY DEF TxTyped, TypeOK, vars
<1>5. users' = Users /\ call' = [u \in Users |-> Done] /\ query' \in [Readers -> Questions]
  BY DEF TxTyped, vars
<1> QED
  BY <1>1, <1>3, <1>4, <1>5 DEF TxTyped

(* Every step keeps the types.                                              *)
LEMMA TxStepTyped == TxTyped /\ [TxNext]_txVars => TxTyped'
<1> SUFFICES ASSUME TxTyped, [TxNext]_txVars PROVE TxTyped'
  OBVIOUS
<1>1. ASSUME NEW w \in Writers, NEW u \in Users, NEW m \in Users, Begin(w, u, m)
      PROVE  TxTyped'
  <2>1. PICK s \in Transactions :
           tx' = [tx EXCEPT ![w] = s] /\ s.pc = "addUser" /\ s.user = u /\ s.manager = m
    BY <1>1, BeginOpens
  <2>2. calls' \in [Writers -> 0 .. MaxCalls]
    BY <1>1, MaxCallsAssumption DEF TxTyped, Begin
  <2>3. related' \in BOOLEAN /\ UNCHANGED <<vars, query>>
    BY <1>1 DEF TxTyped, Begin
  <2>4. tx'[w] = s
    BY <2>1 DEF TxTyped
  <2> QED
    BY <2>1, <2>2, <2>3, <2>4, OneTransactionTyped
<1>2. ASSUME NEW w \in Writers, WriterStep(w), ~ Commit(w)
      PROVE  TxTyped'
  <2>1. Statement(w) /\ tx[w].pc # "idle"
    BY <1>2, EveryStatement
  <2>2. /\ tx' = [tx EXCEPT ![w] = tx'[w]] /\ tx'[w] \in Transactions
        /\ UNCHANGED <<vars, calls, query, related>>
        /\ \/ tx'[w] = Idle
           \/ /\ tx'[w].pc # "idle" /\ tx'[w].user = tx[w].user
              /\ tx'[w].manager = tx[w].manager
    BY <2>1 DEF Statement
  <2>3. tx[w].user \in Users /\ tx[w].manager \in Users
        /\ calls \in [Writers -> 0 .. MaxCalls] /\ related \in BOOLEAN
    BY <2>1 DEF TxTyped
  <2> QED
    BY <2>2, <2>3, OneTransactionTyped
<1>3. ASSUME NEW w \in Writers, Commit(w)
      PROVE  TxTyped'
  <2>1. /\ closure' \in Tables /\ managerId' \in Charts
        /\ tx' \in [Writers -> Transactions]
        /\ tx'[w] = Idle
        /\ \A v \in Writers \ {w} :
             /\ tx'[v].pc = tx[v].pc /\ tx'[v].user = tx[v].user
             /\ tx'[v].manager = tx[v].manager
             /\ tx[v].pc = "idle" => tx'[v] = tx[v]
        /\ query' \in [Readers -> Questions]
    BY <1>3, CommitTyped DEF LeftOf
  <2>2. \A v \in Writers :
          /\ tx'[v].pc = "idle" => tx'[v] = Idle
          /\ tx'[v].pc # "idle" => tx'[v].user \in Users /\ tx'[v].manager \in Users
    BY <2>1, IdleIsTyped DEF TxTyped
  <2>3. UNCHANGED <<users, call, calls, related>>
    BY <1>3 DEF Commit
  <2>4. TypeOK'
    BY <2>1, <2>3 DEF TxTyped, TypeOK, Charts
  <2> QED
    BY <2>1, <2>2, <2>3, <2>4 DEF TxTyped
<1>4. ASSUME NEW w \in Writers, Crash(w) \/ BreakDeadlock(w)
      PROVE  TxTyped'
  <2>1. tx' = [tx EXCEPT ![w] = Idle] /\ UNCHANGED <<vars, calls, query, related>>
    BY <1>4 DEF Crash, BreakDeadlock
  <2>2. calls \in [Writers -> 0 .. MaxCalls] /\ related \in BOOLEAN
    BY DEF TxTyped
  <2>3. tx'[w] = Idle
    BY <2>1 DEF TxTyped
  <2> QED
    BY <2>1, <2>2, <2>3, IdleIsTyped, OneTransactionTyped
<1>5. ASSUME query' \in [Readers -> Questions], UNCHANGED <<vars, tx, calls, related>>
      PROVE  TxTyped'
  BY <1>5 DEF TxTyped, TypeOK, vars
<1>6. ASSUME NEW r \in Readers, NEW s \in Users, NEW u \in Users, Ask(r, s, u)
      PROVE  TxTyped'
  BY <1>5, <1>6, AskTyped DEF Ask
<1>7. ASSUME NEW r \in Readers, NEW end \in {"subject", "target"}, ReadManager(r, end)
      PROVE  TxTyped'
  <2>1. query' \in [Readers -> Questions]
    BY <1>7, ReadManagerTyped
  <2>2. UNCHANGED <<vars, tx, calls, related>>
    BY <1>7 DEF ReadManager
  <2> QED
    BY <2>1, <2>2, <1>5
<1>8. CASE UNCHANGED txVars
  BY <1>8, <1>5 DEF txVars, TxTyped
<1> QED
  BY <1>1, <1>2, <1>3, <1>4, <1>6, <1>7, <1>8 DEF TxNext

-----------------------------------------------------------------------------
(* Apart is mutual.                                                         *)
LEMMA ApartIsMutual ==
  ASSUME NEW t, NEW u, NEW m, NEW v, NEW n, Apart(t, u, m, v, n)
  PROVE  Apart(t, v, n, u, m)
BY DEF Apart

(* Replacing one transaction by an undisturbed one apart from the others.   *)
LEMMA OneTransactionAtomic ==
  ASSUME TxTyped, Atomic, NEW w \in Writers,
         tx' = [tx EXCEPT ![w] = tx'[w]], UNCHANGED vars,
         tx'[w].pc # "idle" =>
           /\ Undisturbed(tx'[w], closure)
           /\ \A v \in Writers \ {w} : Open(v) =>
                Apart(closure, tx'[w].user, tx'[w].manager,
                      tx[v].user, tx[v].manager)
  PROVE  Atomic'
<1>1. closure' = closure /\ managerId' = managerId
  BY DEF vars
<1>2. \A v \in Writers \ {w} : tx'[v] = tx[v]
  BY DEF TxTyped
<1>3. ClosureOK'
  BY <1>1 DEF Atomic, ClosureOK
<1>4. ASSUME NEW v \in Writers, Open(v)'
      PROVE  Undisturbed(tx'[v], closure')
  BY <1>1, <1>2, <1>4 DEF Atomic, Open
<1>5. ASSUME NEW v \in Writers, NEW x \in Writers, v # x, Open(v)', Open(x)'
      PROVE  Apart(closure', tx'[x].user, tx'[x].manager,
                   tx'[v].user, tx'[v].manager)
  <2>1. CASE v # w /\ x # w
    BY <1>1, <1>2, <1>5, <2>1 DEF Atomic, Open
  <2>2. CASE x = w
    BY <1>1, <1>2, <1>5, <2>2 DEF Open
  <2>3. CASE v = w
    <3>1. Apart(closure, tx'[v].user, tx'[v].manager, tx'[x].user, tx'[x].manager)
      BY <1>2, <1>5, <2>3 DEF Open
    <3> QED
      BY <3>1, <1>1, ApartIsMutual
  <2> QED
    BY <2>1, <2>2, <2>3
<1> QED
  BY <1>3, <1>4, <1>5 DEF Atomic

(* A call that opens is undisturbed.                                        *)
LEMMA OpensUndisturbed ==
  ASSUME NEW t \in Tables, NEW u \in Users, NEW m \in Users, u # m,
         NEW s, s.pc = "addUser", s.user = u, s.manager = m, s.target = {},
         s.own = Idle.own
  PROVE  Undisturbed(s, t)
<1>1. \A a, d \in Users : s.own[a][d] = Untouched
  BY DEF Idle
<1>2. \A a, d \in Users : ViewOf(s.own, t)[a][d] = RowAt("addUser", t, u, m, a, d)
  BY <1>1 DEF ViewOf, RowAt, Registered
<1> QED
  BY <1>1, <1>2 DEF Undisturbed

(* What commits is an AssignManager, and the others go on.                  *)
LEMMA CommitIsAtomic ==
  ASSUME TxTyped, Atomic, NEW w \in Writers, Commit(w)
  PROVE  /\ \E u, m \in Users : AssignManager(u, m)
         /\ Atomic'
<1> DEFINE u == tx[w].user
           m == tx[w].manager
<1>1. /\ closure \in Tables /\ managerId \in Charts /\ users = Users
      /\ tx \in [Writers -> Transactions]
      /\ IsClosureOf(closure, managerId)
  BY DEF TxTyped, TypeOK, Charts, Atomic, ClosureOK
<1>2. tx[w].pc = "commit" /\ Undisturbed(tx[w], closure) /\ tx[w] \in Transactions
  BY <1>1 DEF Commit, Atomic, Open
<1>3. /\ u \in Users /\ m \in Users /\ u # m
      /\ closure[u][m] = NoRow
      /\ \A a, d \in Users : <<a, d>> \in tx[w].target => Over(closure, u, d)
  BY <1>2 DEF Undisturbed
<1>4. /\ closure' = ViewOf(tx[w].own, closure)
      /\ managerId' = [managerId EXCEPT ![u] = m]
  BY <1>1, ViewTyped DEF Commit
<1>5. AssignManager(u, m)
  <2>1. /\ ~ WouldCycle(AddNode(AddNode(closure, u), m), u, m)
        /\ closure' = Reparent(AddNode(AddNode(closure, u), m), u, m)
    BY <1>1, <1>2, <1>4, CommitIsReparent
  <2>2. UNCHANGED <<users, call>>
    BY DEF Commit
  <2> HIDE DEF u, m
  <2> QED
    BY <1>1, <1>3, <1>4, <2>1, <2>2 DEF AssignManager, CommitManager, Referable
<1>6. closure' \in Tables /\ IsClosureOf(closure', managerId')
  <2>1. CommitManager(u, m)
    BY <1>5 DEF AssignManager
  <2> HIDE DEF u, m
  <2> QED
    BY <1>1, <1>3, <2>1, CommitManagerClosure DEF TxTyped, Atomic
<1>7. Reparented(closure', closure, u, m)
  BY <1>1, <1>2, <1>4, SeesRows DEF Reparented
<1>8. /\ tx'[w] = Idle
      /\ \A v \in Writers \ {w} : LeftOf(tx'[v], tx[v], tx[w].target)
  BY CommitTyped
<1>9. \A v \in Writers : Open(v)' => v # w /\ Open(v)
  BY <1>8, IdleIsTyped DEF Open, LeftOf
<1>10. ASSUME NEW v \in Writers, Open(v)'
       PROVE  /\ Undisturbed(tx'[v], closure')
              /\ tx'[v].user \in Users
              /\ tx'[v].user = tx[v].user /\ tx'[v].manager = tx[v].manager
              /\ \A x \in Users : Over(closure', tx[v].user, x)
                                    <=> Over(closure, tx[v].user, x)
  <2>1. v # w /\ Open(v)
    BY <1>9, <1>10
  <2>2. Undisturbed(tx[v], closure)
    BY <2>1 DEF Atomic
  <2>3. Apart(closure, tx[v].user, tx[v].manager, u, m)
    BY <2>1, <1>2 DEF Atomic, Open
  <2>4. tx[v].user \in Users /\ tx[v].manager \in Users /\ tx[v].user # tx[v].manager
    BY <2>2 DEF Undisturbed
  <2>5. \A x \in Users : Over(closure', tx[v].user, x) <=> Over(closure, tx[v].user, x)
    <3> DEFINE y == tx[v].user
               n == tx[v].manager
    <3> HIDE DEF u, m, y, n
    <3>1. y \in Users /\ n \in Users /\ y # n /\ Apart(closure, y, n, u, m)
      BY <2>3, <2>4 DEF y, n
    <3>2. \A x \in Users : Over(closure', y, x) <=> Over(closure, y, x)
      BY <3>1, <1>1, <1>3, <1>6, <1>7, CommitBeside
    <3> QED
      BY <3>2 DEF y
  <2>6. Undisturbed(tx'[v], closure')
    <3>1. /\ LeftOf(tx'[v], tx[v], tx[w].target)
          /\ Apart(closure, tx[v].user, tx[v].manager, u, m)
          /\ Undisturbed(tx[v], closure)
      BY <1>8, <2>1, <2>2, <2>3
    <3> HIDE DEF u, m
    <3> QED
      BY <3>1, <1>1, <1>3, <1>6, <1>7, StaysUndisturbed
  <2>7. tx'[v].user = tx[v].user /\ tx'[v].manager = tx[v].manager
    BY <2>1, <1>8 DEF LeftOf
  <2> QED
    BY <2>4, <2>5, <2>6, <2>7
<1>11. ASSUME NEW v \in Writers, NEW x \in Writers, v # x, Open(v)', Open(x)'
       PROVE  Apart(closure', tx'[x].user, tx'[x].manager,
                    tx'[v].user, tx'[v].manager)
  <2>1. Apart(closure, tx[x].user, tx[x].manager, tx[v].user, tx[v].manager)
    BY <1>9, <1>11 DEF Atomic
  <2>2. /\ tx[v].user \in Users /\ tx[v].manager \in Users
        /\ tx[x].user \in Users /\ tx[x].manager \in Users
    BY <1>9, <1>11 DEF Atomic, Undisturbed
  <2>3. Apart(closure', tx[x].user, tx[x].manager, tx[v].user, tx[v].manager)
    BY <2>1, <2>2, <1>10, <1>11 DEF Apart
  <2> QED
    BY <2>3, <1>10, <1>11
<1> QED
  BY <1>3, <1>5, <1>6, <1>10, <1>11 DEF Atomic, ClosureOK

(* The inductive invariant.                                                 *)
TxInv == TxTyped /\ (~ related => Atomic)

(* It holds initially.                                                      *)
LEMMA TxInitInv == TxInit => TxInv
<1> SUFFICES ASSUME TxInit PROVE TxInv
  OBVIOUS
<1>1. TxTyped /\ ClosureOK /\ ~ related
  BY TxInitTyped
<1>2. \A w \in Writers : ~ Open(w)
  BY IdleIsTyped DEF TxInit, Open
<1> QED
  BY <1>1, <1>2 DEF TxInv, Atomic

(* Every step keeps it: a statement is that of an undisturbed transaction,  *)
(* a commit is an AssignManager beside which the others stay undisturbed.   *)
LEMMA TxStepInv == TxInv /\ [TxNext]_txVars => TxInv'
<1> SUFFICES ASSUME TxInv, [TxNext]_txVars PROVE TxInv'
  OBVIOUS
<1>1. TxTyped /\ TxTyped'
  BY TxStepTyped DEF TxInv
<1> SUFFICES ASSUME ~ related' PROVE Atomic'
  BY <1>1 DEF TxInv
<1>2. ASSUME ~ related PROVE Atomic
  BY <1>2 DEF TxInv
<1>3. ASSUME NEW w \in Writers, NEW u \in Users, NEW m \in Users, Begin(w, u, m)
      PROVE  Atomic'
  <2>1. PICK s \in Transactions :
          /\ tx' = [tx EXCEPT ![w] = s]
          /\ s.pc = "addUser" /\ s.user = u /\ s.manager = m
          /\ s.target = {} /\ s.own = Idle.own
    BY <1>1, <1>3, BeginOpens
  <2>2. tx'[w] = s /\ closure \in Tables /\ u # m
    BY <1>1, <1>3, <2>1 DEF TxTyped, TypeOK, Begin
  <2>3. Undisturbed(s, closure)
    BY <2>1, <2>2, OpensUndisturbed
  <2>4. /\ ~ related
        /\ \A v \in Writers \ {w} :
             tx[v] # Idle => ~ Touches(u, m, tx[v].user, tx[v].manager)
    BY <1>3 DEF Begin
  <2>5. ASSUME NEW v \in Writers \ {w}, Open(v)
        PROVE  Apart(closure, u, m, tx[v].user, tx[v].manager)
    <3>1. tx[v] # Idle
      BY <2>5, IdleIsTyped DEF Open
    <3> QED
      BY <3>1, <2>4 DEF Touches, AtOrAbove, Apart, Over
  <2>6. UNCHANGED vars
    BY <1>3 DEF Begin
  <2> QED
    BY <1>1, <1>2, <2>1, <2>2, <2>3, <2>4, <2>5, <2>6, OneTransactionAtomic
<1>4. ASSUME NEW w \in Writers, WriterStep(w), ~ Commit(w)
      PROVE  Atomic'
  <2>1. Statement(w) /\ tx[w].pc # "idle"
    BY <1>1, <1>4, EveryStatement
  <2>2. /\ tx' = [tx EXCEPT ![w] = tx'[w]]
        /\ UNCHANGED <<vars, calls, query, related>>
    BY <2>1 DEF Statement
  <2>3. Atomic
    BY <1>2, <2>2
  <2>4. ClosureOK /\ Undisturbed(tx[w], closure)
    BY <2>1, <2>3 DEF Atomic, Open
  <2>5. tx'[w].pc # "idle" => /\ tx'[w].user = tx[w].user
                              /\ tx'[w].manager = tx[w].manager
                              /\ Undisturbed(tx'[w], closure)
    BY <2>1, <2>4, IdleIsTyped DEF Statement
  <2>6. \A v \in Writers \ {w} : Open(v) =>
          Apart(closure, tx[w].user, tx[w].manager, tx[v].user, tx[v].manager)
    BY <2>1, <2>3 DEF Atomic, Open
  <2> QED
    BY <1>1, <2>2, <2>3, <2>5, <2>6, OneTransactionAtomic
<1>5. ASSUME NEW w \in Writers, Commit(w)
      PROVE  Atomic'
  BY <1>1, <1>2, <1>5, CommitIsAtomic DEF Commit
<1>6. ASSUME NEW w \in Writers, Crash(w) \/ BreakDeadlock(w)
      PROVE  Atomic'
  <2>1. tx' = [tx EXCEPT ![w] = Idle] /\ UNCHANGED <<vars, calls, query, related>>
    BY <1>6 DEF Crash, BreakDeadlock
  <2>2. tx'[w] = Idle
    BY <1>1, <2>1 DEF TxTyped
  <2> QED
    BY <1>1, <1>2, <2>1, <2>2, IdleIsTyped, OneTransactionAtomic
<1>7. ASSUME UNCHANGED <<vars, tx, calls, related>>
      PROVE  Atomic'
  BY <1>2, <1>7 DEF Atomic, ClosureOK, Open, vars
<1> QED
  BY <1>3, <1>4, <1>5, <1>6, <1>7
  DEF TxNext, Ask, ReadManager, txVars

(* The invariant of the interleaved transactions.                           *)
THEOREM TxInvAlways == TxSpec => []TxInv
BY TxInitInv, TxStepInv, PTL DEF TxSpec

(* The types, whatever the transactions do to each other: what one sees of  *)
(* the table is a table, and an idle writer holds nothing.                  *)
THEOREM TxTypeCorrect == TxSpec => []TxTypeOK
<1>1. TxInv => TxTypeOK
  <2> SUFFICES ASSUME TxTyped PROVE TxTypeOK
    BY DEF TxInv
  <2>1. ASSUME NEW w \in Writers
        PROVE  /\ tx[w].pc \in Stages
               /\ tx[w].pc = "idle" => tx[w] = Idle
               /\ View(w) \in Tables
               /\ calls[w] \in 0 .. MaxCalls
    <3>1. tx[w].pc \in Stages
      BY DEF TxTyped, Transactions
    <3>2. View(w) \in Tables
      BY ViewTyped DEF TxTyped, TypeOK
    <3> QED
      BY <3>1, <3>2 DEF TxTyped
  <2>2. ASSUME NEW r \in Readers
        PROVE  query[r].pc \in {"idle", "managers", "answered"}
    BY DEF TxTyped, Questions
  <2> QED
    BY <2>1, <2>2 DEF TxTypeOK, Stages, TxTyped
<1> QED
  BY <1>1, TxInvAlways, PTL

(* As long as no two open transactions touched each other, the tables       *)
(* change only by whole AssignManager steps, at the commits.                *)
THEOREM UnrelatedCallsAreAlwaysAtomic == TxSpec => UnrelatedCallsAreAtomic
<1>1. TxInv /\ [TxNext]_txVars =>
        [related \/ \E u, m \in Users : AssignManager(u, m)]_<<closure, managerId>>
  <2> SUFFICES ASSUME TxInv, [TxNext]_txVars, ~ related
               PROVE  \/ \E u, m \in Users : AssignManager(u, m)
                      \/ closure' = closure /\ managerId' = managerId
    OBVIOUS
  <2>1. TxTyped /\ Atomic
    BY DEF TxInv
  <2>2. ASSUME NEW w \in Writers, Commit(w)
        PROVE  \E u, m \in Users : AssignManager(u, m)
    BY <2>1, <2>2, CommitIsAtomic
  <2>3. ASSUME NEW w \in Writers, WriterStep(w), ~ Commit(w)
        PROVE  closure' = closure /\ managerId' = managerId
    BY <2>1, <2>3, EveryStatement DEF Statement, vars
  <2> QED
    BY <2>2, <2>3
    DEF TxNext, Begin, Crash, BreakDeadlock, Ask, ReadManager, txVars, vars
<1> QED
  BY <1>1, TxInvAlways, PTL DEF TxSpec, UnrelatedCallsAreAtomic

OtherEnd(end) == IF end = "subject" THEN "target" ELSE "subject"

End(q, end) == IF end = "subject" THEN q.subject ELSE q.target

(* A question between its reads, on the table t of the chart: what holds    *)
(* now is held; until something commits what has been read is still so; and *)
(* until a second commit, a manager that was read for one user and is now   *)
(* the other's has been the manager of both.                                *)
Asking(q, t, chart) ==
  /\ q.subject \in Users /\ q.target \in Users /\ q.subject # q.target
  /\ GetRelationship(t, q.subject, q.target) \subseteq q.held
  /\ q.commits = 0 => t[q.subject][q.target] < 1
  /\ \A end \in {"subject", "target"}, m \in Users \cup {NoUser} :
       q.known[end] = {m} =>
         /\ q.commits = 0 => chart[End(q, end)] = m
         /\ q.commits <= 1 /\ m # NoUser /\ chart[End(q, OtherEnd(end))] = m =>
              "SIBLING" \in q.held
  /\ \A end \in {"subject", "target"} :
       q.known[end] # {} => /\ q.known[OtherEnd(end)] = {}
                            /\ \E m \in Users \cup {NoUser} : q.known[end] = {m}

(* An answer given.                                                         *)
Accounted(q) ==
  \/ q.answer \in q.held
  \/ q.answer = "NONE" /\ q.commits >= 1
  \/ q.answer = "SIBLING" /\ q.commits >= 2

Explained ==
  \A r \in Readers : /\ query[r].pc = "managers" => Asking(query[r], closure, managerId)
                     /\ query[r].pc = "answered" => Accounted(query[r])

(* No order of statements, commits, crashes and rollbacks makes the table   *)
(* inconsistent or the chart cyclic before two transactions that touch each *)
(* other are open together.                                                 *)
THEOREM ConsistentUntilRelated == TxSpec => [](~ related => ClosureOK /\ NoCycle)
<1>1. TxInv => (~ related => ClosureOK /\ NoCycle)
  <2> SUFFICES ASSUME TxInv, ~ related PROVE ClosureOK /\ NoCycle
    OBVIOUS
  <2>1. closure \in Tables /\ managerId \in Charts /\ IsClosureOf(closure, managerId)
    BY DEF TxInv, TxTyped, TypeOK, Charts, Atomic, ClosureOK
  <2> QED
    BY <2>1, ClosureIsForest DEF ClosureOK, NoCycle
<1> QED
  BY <1>1, TxInvAlways, PTL

-----------------------------------------------------------------------------
(* Of two users with the same manager neither is above the other.           *)
LEMMA SiblingsAreNotAbove ==
  ASSUME NEW t \in Tables, NEW chart \in Charts, IsClosureOf(t, chart),
         NEW s \in Users, NEW u \in Users, NEW m \in Users,
         s # u, chart[s] = m, chart[u] = m
  PROVE  /\ t[s][u] < 1
         /\ GetRelationship(t, s, u) = {"SIBLING"}
<1>1. \A a, d \in Users : t[a][d] \in Nat \cup {-1}
  BY DEF Tables, NoRow
<1>2. /\ SelfRows(t) /\ PathsCompose(t) /\ AncestorsChain(t)
      /\ t[m][s] = 1 /\ t[m][u] = 1
  BY DEF IsClosureOf, DirectRows
<1>3. ASSUME t[s][u] >= 1 PROVE FALSE
  <2>1. t[s][m] = t[s][u] - 1
    BY <1>2, <1>3, <1>1 DEF AncestorsChain, NoRow
  <2>2. t[s][s] = t[s][m] + t[m][s]
    BY <1>1, <1>2, <1>3, <2>1 DEF PathsCompose, NoRow
  <2>3. t[s][s] = 0
    BY <1>2 DEF SelfRows, NoRow
  <2> QED
    BY <2>1, <2>2, <2>3, <1>1, <1>2, <1>3
<1>4. t[s][u] < 1
  BY <1>1, <1>3
<1>5. m # NoUser
  BY ClosureAssumption
<1>6. Classify(s, u, t[s][u], m, m) = "SIBLING"
  BY <1>1, <1>4, <1>5 DEF Classify
<1> QED
  BY <1>4, <1>6, OneRelationship

(* The first question: the row answers it, or leaves it to the managers.    *)
LEMMA AskExplained ==
  ASSUME TxTyped, ClosureOK, NEW r \in Readers, NEW s \in Users, NEW u \in Users,
         Ask(r, s, u)
  PROVE  /\ query' = [query EXCEPT ![r] = query'[r]]
         /\ query'[r].pc = "managers" => Asking(query'[r], closure, managerId)
         /\ query'[r].pc = "answered" => Accounted(query'[r])
<1> DEFINE held == GetRelationship(closure, s, u)
           answer == Classify(s, u, closure[s][u], NoUser, NoUser)
           asked == [NotAsked EXCEPT !.subject = s, !.target = u, !.held = held]
           one == [asked EXCEPT !.pc = "answered", !.answer = answer]
           two == [asked EXCEPT !.pc = "managers"]
<1>1. /\ closure \in Tables /\ managerId \in Charts /\ IsClosureOf(closure, managerId)
      /\ query \in [Readers -> Questions]
      /\ closure[s][u] \in Nat \cup {-1}
  BY DEF TxTyped, TypeOK, Charts, ClosureOK, Tables, NoRow
<1>2. /\ query' = [query EXCEPT ![r] = IF closure[s][u] >= 1 THEN one ELSE two]
      /\ s # u
  BY DEF Ask
<1>3. held = {Classify(s, u, closure[s][u], managerId[s], managerId[u])}
  BY <1>1, OneRelationship
<1>4. closure[s][u] >= 1 => answer \in held
  BY <1>1, <1>2, <1>3 DEF Classify
<1> HIDE DEF held, answer
<1>5. /\ one.pc = "answered" /\ one.answer = answer /\ one.held = held
  BY DEF NotAsked
<1>6. /\ two.pc = "managers" /\ two.subject = s /\ two.target = u
      /\ two.held = held
      /\ \A end \in {"subject", "target"} : two.known[end] = {}
  BY DEF NotAsked
<1> HIDE DEF one, two
<1>7. query'[r] = IF closure[s][u] >= 1 THEN one ELSE two
  BY <1>1, <1>2
<1>8. CASE closure[s][u] >= 1
  <2>1. query'[r] = one
    BY <1>7, <1>8
  <2> QED
    BY <2>1, <1>2, <1>4, <1>5, <1>7, <1>8 DEF Accounted
<1>9. CASE ~ closure[s][u] >= 1
  <2>1. query'[r] = two /\ closure[s][u] < 1
    BY <1>1, <1>7, <1>9
  <2>2. Asking(two, closure, managerId)
    BY <2>1, <1>2, <1>6 DEF Asking, held
  <2> QED
    BY <2>1, <2>2, <1>2, <1>6, <1>7
<1> QED
  BY <1>8, <1>9

(* A read of a direct manager.                                              *)
LEMMA ReadExplained ==
  ASSUME TxTyped, ClosureOK, NEW r \in Readers, NEW end \in {"subject", "target"},
         ReadManager(r, end), Asking(query[r], closure, managerId)
  PROVE  /\ query' = [query EXCEPT ![r] = query'[r]]
         /\ query'[r].pc = "managers" => Asking(query'[r], closure, managerId)
         /\ query'[r].pc = "answered" => Accounted(query'[r])
<1> DEFINE q == query[r]
           other == OtherEnd(end)
           x == End(q, end)
           y == End(q, other)
           m == managerId[x]
           n == managerId[y]
<1>1. /\ closure \in Tables /\ managerId \in Charts /\ IsClosureOf(closure, managerId)
      /\ query \in [Readers -> Questions] /\ q \in Questions
  BY DEF TxTyped, TypeOK, Charts, ClosureOK
<1>2. /\ q.subject \in Users /\ q.target \in Users /\ q.subject # q.target
      /\ GetRelationship(closure, q.subject, q.target) \subseteq q.held
      /\ q.commits = 0 => closure[q.subject][q.target] < 1
  BY DEF Asking
<1>3. /\ x \in Users /\ y \in Users /\ x # y /\ {x, y} = {q.subject, q.target}
      /\ m \in Users \cup {NoUser} /\ n \in Users \cup {NoUser}
      /\ other \in {"subject", "target"} /\ OtherEnd(other) = end /\ other # end
  BY <1>1, <1>2 DEF End, OtherEnd, Charts
<1>4. DirectManagerIds(closure, q[end]) = {m}
  <2>1. q[end] = x
    BY DEF End
  <2> QED
    BY <2>1, <1>1, <1>3, DirectManagerIdsIs
<1> DEFINE known == [q.known EXCEPT ![end] = {m}]
           answer == IF q.known[other] = {m} /\ m # NoUser
                     THEN "SIBLING" ELSE "NONE"
           one == [q EXCEPT !.known = known]
           two == [q EXCEPT !.pc = "answered", !.known = known, !.answer = answer]
<1>5. /\ q.pc = "managers"
      /\ q.known[end] = {}
      /\ query' = [query EXCEPT ![r] = IF q.known[other] = {} THEN one ELSE two]
  <2>1. PICK k \in DirectManagerIds(closure, q[end]) :
          query' = [query EXCEPT ![r] =
             IF q.known[other] = {}
             THEN [q EXCEPT !.known[end] = {k}]
             ELSE [q EXCEPT !.pc = "answered",
                     !.known[end] = {k},
                     !.answer =
                       IF q.known[other] = {k} /\ k # NoUser
                       THEN "SIBLING" ELSE "NONE"]]
    BY DEF ReadManager, OtherEnd
  <2>2. k = m
    BY <2>1, <1>4
  <2>3. q.pc = "managers" /\ q.known[end] = {}
    BY DEF ReadManager
  <2> QED
    BY <2>1, <2>2, <2>3
<1>6. query'[r] = IF q.known[other] = {} THEN one ELSE two
  BY <1>1, <1>5
<1>7. /\ known[end] = {m} /\ known[other] = q.known[other]
  BY <1>1, <1>3 DEF Questions
<1>8. /\ one.pc = "managers" /\ one.subject = q.subject /\ one.target = q.target
      /\ one.held = q.held /\ one.commits = q.commits /\ one.known = known
      /\ two.pc = "answered" /\ two.held = q.held /\ two.commits = q.commits
      /\ two.answer = answer
  <2> HIDE DEF q, known, answer
  <2> QED
    BY <1>1, <1>5 DEF Questions
<1>9. q.commits \in Nat
  BY <1>1 DEF Questions
(* Siblings now are siblings that were seen to hold. *)
<1>10. m = n /\ m # NoUser => "SIBLING" \in q.held
  <2> SUFFICES ASSUME m = n, m # NoUser PROVE "SIBLING" \in q.held
    OBVIOUS
  <2>1. managerId[q.subject] = m /\ managerId[q.target] = m /\ m \in Users
    BY <1>3
  <2>2. GetRelationship(closure, q.subject, q.target) = {"SIBLING"}
    <3> HIDE DEF m, q
    <3> QED
      BY <2>1, <1>1, <1>2, SiblingsAreNotAbove
  <2> QED
    BY <2>2, <1>2
<1>11. CASE q.known[other] = {}
  <2>1. query'[r] = one
    BY <1>6, <1>11
  <2>2. End(one, end) = x /\ End(one, other) = y
    BY <1>8 DEF End
  <2>3. ASSUME NEW e \in {"subject", "target"}, NEW k \in Users \cup {NoUser},
               one.known[e] = {k}
        PROVE  /\ one.commits = 0 => managerId[End(one, e)] = k
               /\ one.commits <= 1 /\ k # NoUser /\ managerId[End(one, OtherEnd(e))] = k =>
                    "SIBLING" \in one.held
    <3>1. e = end /\ k = m
      BY <2>3, <1>3, <1>7, <1>8, <1>11
    <3> QED
      BY <3>1, <2>2, <1>8, <1>10
  <2>4. ASSUME NEW e \in {"subject", "target"}, one.known[e] # {}
        PROVE  /\ one.known[OtherEnd(e)] = {}
               /\ \E k \in Users \cup {NoUser} : one.known[e] = {k}
    <3>1. e = end
      BY <2>4, <1>3, <1>7, <1>8, <1>11
    <3> QED
      BY <3>1, <1>3, <1>7, <1>8, <1>11
  <2>5. Asking(one, closure, managerId)
    <3> HIDE DEF one
    <3> QED
      BY <2>3, <2>4, <1>2, <1>8 DEF Asking
  <2> HIDE DEF one
  <2> QED
    BY <2>1, <2>5, <1>5, <1>6, <1>8, <1>11
<1>12. CASE q.known[other] # {}
  <2>1. PICK k \in Users \cup {NoUser} : q.known[other] = {k}
    BY <1>3, <1>12 DEF Asking
  <2>2. /\ q.commits = 0 => n = k
        /\ q.commits <= 1 /\ k # NoUser /\ m = k => "SIBLING" \in q.held
    BY <2>1, <1>3 DEF Asking
  <2>3. answer = "SIBLING" => q.commits >= 2 \/ "SIBLING" \in q.held
    BY <2>1, <2>2, <1>9
  <2>4. answer = "NONE" /\ q.commits = 0 => "NONE" \in q.held
    <3> SUFFICES ASSUME m # k \/ m = NoUser, q.commits = 0
                 PROVE  "NONE" \in q.held
      BY <2>1
    <3>1. n = k /\ closure[q.subject][q.target] < 1
      BY <2>2, <1>2
    <3>2. managerId[q.subject] # managerId[q.target] \/ managerId[q.subject] = NoUser
      BY <3>1, <1>3
    <3>3. Classify(q.subject, q.target, closure[q.subject][q.target],
                   managerId[q.subject], managerId[q.target]) = "NONE"
      <4>1. closure[q.subject][q.target] \in Nat \cup {-1}
        BY <1>1, <1>2 DEF Tables, NoRow
      <4> QED
        BY <4>1, <3>1, <3>2, <1>2 DEF Classify
    <3>4. GetRelationship(closure, q.subject, q.target) = {"NONE"}
      <4> HIDE DEF q
      <4> QED
        BY <3>3, <1>1, <1>2, OneRelationship
    <3> QED
      BY <3>4, <1>2
  <2>5. answer \in {"SIBLING", "NONE"}
    OBVIOUS
  <2>6. query'[r] = two
    BY <1>6, <1>12
  <2> HIDE DEF answer, two
  <2>7. Accounted(two)
    BY <2>3, <2>4, <2>5, <1>8, <1>9 DEF Accounted
  <2> QED
    BY <2>6, <2>7, <1>5, <1>6, <1>8, <1>12
<1> QED
  BY <1>11, <1>12

(* A commit between the reads of a question.                                *)
LEMMA CommitExplained ==
  ASSUME NEW t \in Tables, NEW chart \in Charts, IsClosureOf(t, chart),
         NEW q \in Questions, Asking(q, t, chart),
         NEW u \in Users, NEW m \in Users,
         NEW after \in Tables, NEW reparented \in Charts,
         reparented = [chart EXCEPT ![u] = m], IsClosureOf(after, reparented),
         NEW p, p.subject = q.subject, p.target = q.target, p.known = q.known,
         p.commits = q.commits + 1,
         p.held = q.held \cup GetRelationship(after, q.subject, q.target)
  PROVE  Asking(p, after, reparented)
<1>1. /\ q.subject \in Users /\ q.target \in Users /\ q.subject # q.target
      /\ q.commits \in Nat
      /\ GetRelationship(t, q.subject, q.target) \subseteq q.held
  BY DEF Asking, Questions
<1>2. p.commits > 0
  BY <1>1
<1>3. ASSUME NEW end \in {"subject", "target"}, NEW k \in Users \cup {NoUser},
             p.known[end] = {k}, p.commits <= 1, k # NoUser,
             reparented[End(p, OtherEnd(end))] = k
      PROVE  "SIBLING" \in p.held
  <2> DEFINE x == End(q, end)
             y == End(q, OtherEnd(end))
  <2>1. /\ x \in Users /\ y \in Users /\ x # y /\ {x, y} = {q.subject, q.target}
        /\ End(p, OtherEnd(end)) = y
    BY <1>1 DEF End, OtherEnd
  <2>2. q.commits = 0 /\ k \in Users
    BY <1>1, <1>3
  <2>3. /\ chart[x] = k
        /\ chart[y] = k => "SIBLING" \in q.held
    BY <1>3, <2>2 DEF Asking
  <2>4. CASE chart[y] = k
    BY <2>3, <2>4
  <2>5. CASE chart[y] # k
    <3>1. y = u /\ reparented[y] = k
      BY <1>3, <2>1, <2>5 DEF Charts
    <3>2. reparented[x] = k
      BY <2>1, <2>3, <3>1 DEF Charts
    <3>3. reparented[q.subject] = k /\ reparented[q.target] = k
      BY <3>1, <3>2, <2>1
    <3>4. GetRelationship(after, q.subject, q.target) = {"SIBLING"}
      <4> DEFINE a == q.subject
                 d == q.target
      <4>1. a \in Users /\ d \in Users /\ a # d /\ k \in Users
            /\ reparented[a] = k /\ reparented[d] = k
        BY <3>3, <2>2, <1>1
      <4> HIDE DEF a, d
      <4>2. GetRelationship(after, a, d) = {"SIBLING"}
        BY <4>1, SiblingsAreNotAbove
      <4> QED
        BY <4>2 DEF a, d
    <3> QED
      BY <3>4
  <2> QED
    BY <2>4, <2>5
<1>4. \A end \in {"subject", "target"} :
        q.known[end] # {} => /\ q.known[OtherEnd(end)] = {}
                             /\ \E k \in Users \cup {NoUser} : q.known[end] = {k}
  BY DEF Asking
<1> QED
  BY <1>1, <1>2, <1>3, <1>4 DEF Asking

(* A commit leaves every question explained.                                *)
LEMMA CommitKeepsExplained ==
  ASSUME TxTyped, Atomic, Explained, NEW w \in Writers, Commit(w)
  PROVE  Explained'
<1>1. PICK u \in Users, m \in Users : AssignManager(u, m)
  BY CommitIsAtomic
<1>2. CommitManager(u, m) /\ TypeOK /\ ClosureOK
  BY <1>1 DEF AssignManager, TxTyped, Atomic
<1>3. /\ closure \in Tables /\ managerId \in Charts /\ IsClosureOf(closure, managerId)
      /\ closure' \in Tables /\ IsClosureOf(closure', managerId')
      /\ managerId' = [managerId EXCEPT ![u] = m]
      /\ managerId' \in Charts
  BY <1>2, CommitManagerClosure DEF TypeOK, ClosureOK, Charts
<1>4. query \in [Readers -> Questions]
  BY DEF TxTyped
<1>5. query' = [r \in Readers |->
                 IF query[r].pc = "managers"
                 THEN [query[r] EXCEPT
                         !.held = @ \cup GetRelationship(closure',
                                           query[r].subject, query[r].target),
                         !.commits = @ + 1]
                 ELSE query[r]]
  BY DEF Commit
<1>6. ASSUME NEW r \in Readers
      PROVE  /\ query'[r].pc = "managers" => Asking(query'[r], closure', managerId')
             /\ query'[r].pc = "answered" => Accounted(query'[r])
  <2>1. CASE query[r].pc # "managers"
    BY <1>5, <2>1 DEF Explained
  <2>2. CASE query[r].pc = "managers"
    <3> DEFINE q == query[r]
               held == q.held \cup GetRelationship(closure', q.subject, q.target)
               n == q.commits + 1
               p == [q EXCEPT !.held = held, !.commits = n]
    <3>1. q \in Questions /\ Asking(q, closure, managerId)
      BY <1>4, <2>2 DEF Explained
    <3>2. query'[r] = p
      BY <1>5, <2>2
    <3>3. held = q.held \cup GetRelationship(closure', q.subject, q.target)
          /\ n = q.commits + 1 /\ q.pc = "managers"
      BY <2>2
    <3> HIDE DEF q, held, n
    <3>4. /\ p.pc = q.pc /\ p.subject = q.subject /\ p.target = q.target
          /\ p.known = q.known /\ p.commits = n /\ p.held = held
      BY <3>1 DEF Questions
    <3> HIDE DEF p
    <3>5. Asking(p, closure', managerId')
      BY <3>1, <3>3, <3>4, <1>3, CommitExplained
    <3> QED
      BY <3>2, <3>3, <3>4, <3>5
  <2> QED
    BY <2>1, <2>2
<1> QED
  BY <1>6 DEF Explained

(* The inductive invariant, with the questions.                             *)
LEMMA ExplainedStep ==
  TxInv /\ (~ related => Explained) /\ [TxNext]_txVars
    => (~ related => Explained)'
<1> SUFFICES ASSUME TxInv, ~ related => Explained, [TxNext]_txVars, ~ related'
             PROVE  Explained'
  OBVIOUS
<1>1. TxTyped
  BY DEF TxInv
<1>2. ASSUME ~ related PROVE Atomic /\ ClosureOK /\ Explained
  BY <1>2 DEF TxInv, Atomic
<1>3. ASSUME UNCHANGED <<closure, managerId, query>>, ~ related
      PROVE  Explained'
  BY <1>2, <1>3 DEF Explained
<1>4. ASSUME NEW w \in Writers, NEW u \in Users, NEW m \in Users, Begin(w, u, m)
      PROVE  Explained'
  BY <1>3, <1>4 DEF Begin, vars
<1>5. ASSUME NEW w \in Writers, WriterStep(w), ~ Commit(w)
      PROVE  Explained'
  BY <1>1, <1>3, <1>5, EveryStatement DEF Statement, vars
<1>6. ASSUME NEW w \in Writers, Commit(w)
      PROVE  Explained'
  <2>1. ~ related
    BY <1>6 DEF Commit
  <2> QED
    BY <2>1, <1>1, <1>2, <1>6, CommitKeepsExplained
<1>7. ASSUME NEW w \in Writers, Crash(w) \/ BreakDeadlock(w)
      PROVE  Explained'
  BY <1>3, <1>7 DEF Crash, BreakDeadlock, vars
<1>8. ASSUME NEW r \in Readers, query' = [query EXCEPT ![r] = query'[r]],
             UNCHANGED <<vars, tx, calls, related>>,
             query'[r].pc = "managers" => Asking(query'[r], closure, managerId),
             query'[r].pc = "answered" => Accounted(query'[r])
      PROVE  Explained'
  <2>1. closure' = closure /\ managerId' = managerId /\ ~ related
    BY <1>8 DEF vars
  <2>2. \A x \in Readers \ {r} : query'[x] = query[x]
    BY <1>1, <1>8 DEF TxTyped
  <2> QED
    BY <2>1, <2>2, <1>2, <1>8 DEF Explained
<1>9. ASSUME NEW r \in Readers, NEW s \in Users, NEW u \in Users, Ask(r, s, u)
      PROVE  Explained'
  <2>1. ~ related /\ UNCHANGED <<vars, tx, calls, related>>
    BY <1>9 DEF Ask
  <2> QED
    BY <2>1, <1>1, <1>2, <1>8, <1>9, AskExplained
<1>10. ASSUME NEW r \in Readers, NEW end \in {"subject", "target"}, ReadManager(r, end)
       PROVE  Explained'
  <2>1. ~ related /\ UNCHANGED <<vars, tx, calls, related>> /\ query[r].pc = "managers"
    BY <1>10 DEF ReadManager
  <2>2. Asking(query[r], closure, managerId)
    BY <2>1, <1>2 DEF Explained
  <2> QED
    BY <2>1, <2>2, <1>1, <1>2, <1>8, <1>10, ReadExplained
<1>11. CASE UNCHANGED txVars
  BY <1>3, <1>11 DEF txVars, vars
<1> QED
  BY <1>4, <1>5, <1>6, <1>7, <1>9, <1>10, <1>11 DEF TxNext

(* What an answer says held at some moment of the call, or re-parentings    *)
(* committed during it: one for a NONE, two for a SIBLING.                  *)
THEOREM AnswersAreExplained == TxSpec => []AnswersExplained
<1>1. TxInit => (~ related => Explained)
  <2>1. NotAsked.pc = "idle"
    BY DEF NotAsked
  <2>2. TxInit => \A r \in Readers : query[r] = NotAsked
    BY DEF TxInit
  <2> QED
    BY <2>1, <2>2 DEF Explained
<1>2. (~ related => Explained) => AnswersExplained
  BY DEF Explained, Accounted, AnswersExplained, Answered
<1> QED
  BY <1>1, <1>2, ExplainedStep, TxInvAlways, PTL DEF TxSpec
=============================================================================
