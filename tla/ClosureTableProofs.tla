------------------------- MODULE ClosureTableProofs -------------------------
(***************************************************************************)
(* Lemmas about charts and closure tables, for any finite set of users: what *)
(* the table operations preserve, that the closure of a chart exists exactly *)
(* when the chart is a forest, and that its rows are the distances one would *)
(* count climbing the chart.                                                 *)
(***************************************************************************)
EXTENDS ClosureTable, TLAPS, FiniteSetTheorems, WellFoundedInduction

-----------------------------------------------------------------------------
(* addNode keeps a closure a closure, and makes the user a node. *)
LEMMA AddNodeClosure ==
  ASSUME NEW t \in Tables, NEW chart \in Charts, NEW u \in Users,
         IsClosureOf(t, chart)
  PROVE  /\ AddNode(t, u) \in Tables
         /\ IsClosureOf(AddNode(t, u), chart)
         /\ AddNode(t, u)[u][u] = 0
         /\ \A a, d \in Users : t[a][d] # NoRow => AddNode(t, u)[a][d] = t[a][d]
<1> DEFINE n == AddNode(t, u)
<1>1. \A a, d \in Users :
        n[a][d] = IF t[a][d] = NoRow /\ a = u /\ d = u THEN 0 ELSE t[a][d]
  BY DEF AddNode, CreateMany, EmptyTable, Tables
<1>2. n \in Tables
  BY DEF AddNode, CreateMany, EmptyTable, Tables, NoRow
<1>3. \A a, d \in Users : t[a][d] \in Nat \cup {-1}
  BY DEF Tables, NoRow
<1>4. n[u][u] = 0
  BY <1>1, <1>3 DEF IsClosureOf, SelfRows, NoRow
<1> HIDE DEF n
<1>5. SelfRows(n)
  BY <1>1, <1>3 DEF IsClosureOf, SelfRows, NoRow
<1>6. PathsCompose(n)
  BY <1>1, <1>3 DEF IsClosureOf, SelfRows, PathsCompose, NoRow
<1>7. AncestorsChain(n)
  BY <1>1, <1>3 DEF IsClosureOf, SelfRows, AncestorsChain, NoRow
<1>8. DirectRows(n, chart)
  BY <1>1, <1>3 DEF IsClosureOf, DirectRows, NoRow
<1>9. NoGaps(n, chart)
  BY <1>1, <1>3 DEF IsClosureOf, NoGaps, NoRow
<1> QED
  BY <1>1, <1>2, <1>4, <1>5, <1>6, <1>7, <1>8, <1>9 DEF IsClosureOf, n

(* The rows an accepted assignManager leaves: those from outside into the   *)
(* subtree of u are replaced by the ones through m, the others stay.        *)
LEMMA ReparentRows ==
  ASSUME NEW t \in Tables, NEW chart \in Charts, IsClosureOf(t, chart),
         NEW u \in Users, NEW m \in Users, u # m,
         t[u][u] = 0, t[m][m] = 0, t[u][m] = NoRow
  PROVE  /\ Reparent(t, u, m) \in Tables
         /\ \A a, d \in Users :
              Reparent(t, u, m)[a][d] =
                IF t[u][d] = NoRow \/ t[u][a] # NoRow THEN t[a][d]
                ELSE IF t[a][m] = NoRow THEN NoRow
                ELSE t[a][m] + t[u][d] + 1
<1> DEFINE kept == Detach(t, OldAncestors(t, u), Ids(Subtree(t, u)))
           rows == CrossJoin(SuperTree(t, m), Subtree(t, u))
<1>1. \A a, d \in Users : t[a][d] \in Nat \cup {-1}
  BY DEF Tables, NoRow
<1>2. \A a, d \in Users :
        kept[a][d] = IF a # u /\ t[a][u] # NoRow /\ t[u][d] # NoRow
                     THEN NoRow ELSE t[a][d]
  BY DEF Detach, OldAncestors, Ids, SuperTree, Subtree
<1>3. \A a, d \in Users :
        rows[a][d] = IF t[a][m] # NoRow /\ t[u][d] # NoRow
                     THEN t[a][m] + t[u][d] + 1 ELSE NoRow
  BY DEF CrossJoin, SuperTree, Subtree
<1>4. Reparent(t, u, m)
        = [a \in Users |-> [d \in Users |->
             IF kept[a][d] = NoRow THEN rows[a][d] ELSE kept[a][d]]]
  BY DEF Reparent, CreateMany
<1> HIDE DEF kept, rows
<1>5. \A a, d \in Users :
        Reparent(t, u, m)[a][d]
          = IF kept[a][d] = NoRow THEN rows[a][d] ELSE kept[a][d]
  BY <1>4
<1>6. Reparent(t, u, m) \in Tables
  BY <1>1, <1>2, <1>3, <1>4 DEF Tables, NoRow
<1>7. ASSUME NEW a \in Users, NEW d \in Users
      PROVE  Reparent(t, u, m)[a][d] =
                IF t[u][d] = NoRow \/ t[u][a] # NoRow THEN t[a][d]
                ELSE IF t[a][m] = NoRow THEN NoRow
                ELSE t[a][m] + t[u][d] + 1
  <2>1. CASE t[u][d] = NoRow
    BY <2>1, <1>2, <1>3, <1>5
  <2>2. CASE t[u][d] # NoRow /\ t[u][a] # NoRow
    (* a is in the subtree, so it is neither above m nor an old ancestor *)
    <3>1. t[a][m] = NoRow
      BY <2>2, <1>1 DEF IsClosureOf, PathsCompose, NoRow
    <3>2. a = u \/ t[a][u] = NoRow
      BY <2>2, <1>1 DEF IsClosureOf, PathsCompose, SelfRows, NoRow
    <3> QED
      BY <2>2, <3>1, <3>2, <1>2, <1>3, <1>5
  <2>3. CASE t[u][d] # NoRow /\ t[u][a] = NoRow
    (* a is outside: a row from a to d made it an old ancestor of u *)
    <3>1. t[a][d] # NoRow => a # u /\ t[a][u] # NoRow
      BY <2>3, <1>1 DEF IsClosureOf, AncestorsChain, NoRow
    <3>2. kept[a][d] = NoRow
      BY <2>3, <3>1, <1>2
    <3> QED
      BY <2>3, <3>2, <1>3, <1>5
  <2> QED
    BY <2>1, <2>2, <2>3
<1> QED
  BY <1>6, <1>7

(* An accepted assignManager leaves the closure of the changed chart.       *)
LEMMA ReparentClosure ==
  ASSUME NEW t \in Tables, NEW chart \in Charts, IsClosureOf(t, chart),
         NEW u \in Users, NEW m \in Users, u # m,
         t[u][u] = 0, t[m][m] = 0, t[u][m] = NoRow
  PROVE  /\ Reparent(t, u, m) \in Tables
         /\ IsClosureOf(Reparent(t, u, m), [chart EXCEPT ![u] = m])
<1> DEFINE r == Reparent(t, u, m)
           c == [chart EXCEPT ![u] = m]
<1>1. \A a, d \in Users : t[a][d] \in Nat \cup {-1}
  BY DEF Tables, NoRow
<1>2. /\ r \in Tables
      /\ \A a, d \in Users :
              r[a][d] = IF t[u][d] = NoRow \/ t[u][a] # NoRow THEN t[a][d]
                        ELSE IF t[a][m] = NoRow THEN NoRow
                        ELSE t[a][m] + t[u][d] + 1
  BY ReparentRows
<1>3. \A x \in Users : c[x] = IF x = u THEN m ELSE chart[x]
  BY DEF Charts
<1> HIDE DEF r, c
<1>4. /\ SelfRows(t) /\ PathsCompose(t) /\ AncestorsChain(t)
      /\ DirectRows(t, chart) /\ NoGaps(t, chart)
  BY DEF IsClosureOf
<1>5. SelfRows(r)
  BY <1>1, <1>2, <1>4 DEF SelfRows, NoRow
<1>6. PathsCompose(r)
  <2> SUFFICES ASSUME NEW a \in Users, NEW b \in Users, NEW d \in Users,
                      r[a][b] # NoRow, r[b][d] # NoRow
               PROVE  r[a][d] = r[a][b] + r[b][d]
    BY DEF PathsCompose
  <2>1. CASE t[u][a] # NoRow
    BY <2>1, <1>1, <1>2, <1>4 DEF SelfRows, PathsCompose, NoRow
  <2>2. CASE t[u][a] = NoRow /\ t[u][d] = NoRow
    BY <2>2, <1>1, <1>2, <1>4 DEF SelfRows, PathsCompose, NoRow
  <2>3. CASE t[u][a] = NoRow /\ t[u][d] # NoRow /\ t[u][b] = NoRow
    BY <2>3, <1>1, <1>2, <1>4 DEF SelfRows, PathsCompose, NoRow
  <2>4. CASE t[u][a] = NoRow /\ t[u][d] # NoRow /\ t[u][b] # NoRow
    BY <2>4, <1>1, <1>2, <1>4 DEF SelfRows, PathsCompose, NoRow
  <2> QED
    BY <2>1, <2>2, <2>3, <2>4
<1>7. AncestorsChain(r)
  <2> SUFFICES ASSUME NEW a \in Users, NEW b \in Users, NEW d \in Users,
                      r[b][d] # NoRow, r[a][d] >= r[b][d]
               PROVE  r[a][b] = r[a][d] - r[b][d]
    BY DEF AncestorsChain
  <2>1. /\ t[a][b] \in Nat \cup {-1} /\ t[a][d] \in Nat \cup {-1}
        /\ t[b][d] \in Nat \cup {-1} /\ t[u][a] \in Nat \cup {-1}
        /\ t[u][b] \in Nat \cup {-1} /\ t[u][d] \in Nat \cup {-1}
        /\ t[a][m] \in Nat \cup {-1} /\ t[b][m] \in Nat \cup {-1}
        /\ t[a][u] \in Nat \cup {-1} /\ t[b][u] \in Nat \cup {-1}
    BY <1>1
  <2>2. /\ r[a][d] = IF t[u][d] = NoRow \/ t[u][a] # NoRow THEN t[a][d]
                     ELSE IF t[a][m] = NoRow THEN NoRow
                     ELSE t[a][m] + t[u][d] + 1
        /\ r[b][d] = IF t[u][d] = NoRow \/ t[u][b] # NoRow THEN t[b][d]
                     ELSE IF t[b][m] = NoRow THEN NoRow
                     ELSE t[b][m] + t[u][d] + 1
        /\ r[a][b] = IF t[u][b] = NoRow \/ t[u][a] # NoRow THEN t[a][b]
                     ELSE IF t[a][m] = NoRow THEN NoRow
                     ELSE t[a][m] + t[u][b] + 1
    BY <1>2
  <2>3. \A x, y, z \in Users :
          t[y][z] # NoRow /\ t[x][z] >= t[y][z] => t[x][y] = t[x][z] - t[y][z]
    BY <1>4 DEF AncestorsChain
  <2>4. \A x, y, z \in Users :
          t[x][y] # NoRow /\ t[y][z] # NoRow => t[x][z] = t[x][y] + t[y][z]
    BY <1>4 DEF PathsCompose
  <2>5. CASE t[u][d] = NoRow
    <3>1. /\ r[a][d] = t[a][d]
          /\ r[b][d] = t[b][d]
      BY <2>5, <2>2
    <3>2. t[u][b] = NoRow
      <4>1. t[u][b] # NoRow => t[u][d] = t[u][b] + t[b][d]
        BY <3>1, <2>4
      <4> QED
        BY <4>1, <3>1, <2>1, <2>5 DEF NoRow
    <3>3. r[a][b] = t[a][b]
      BY <3>2, <2>2
    <3>4. t[a][b] = t[a][d] - t[b][d]
      BY <3>1, <2>3
    <3> QED
      BY <3>1, <3>3, <3>4
  <2>6. CASE t[u][d] # NoRow /\ t[u][a] # NoRow /\ t[u][b] # NoRow
    BY <2>6, <2>2, <2>3
  <2>7. CASE t[u][d] # NoRow /\ t[u][a] # NoRow /\ t[u][b] = NoRow
    (* a is in the subtree and b is above u, so a cannot be the farther *)
    <3>1. t[a][d] <= t[u][d]
      <4>1. t[a][d] > t[u][d] => t[a][u] = t[a][d] - t[u][d]
        BY <2>3, <2>1, <2>7
      <4>2. t[a][u] # NoRow => t[a][u] + t[u][a] = t[a][a] /\ t[a][a] = 0
        BY <2>4, <2>7, <1>4 DEF SelfRows
      <4> QED
        BY <4>1, <4>2, <2>1, <2>7 DEF NoRow
    <3> QED
      BY <3>1, <2>7, <2>1, <2>2 DEF NoRow
  <2>8. CASE t[u][d] # NoRow /\ t[u][a] = NoRow /\ t[u][b] # NoRow
    (* both depths go through u: b is t[u][b] levels below it *)
    <3>1. t[b][d] # NoRow /\ t[u][d] = t[u][b] + t[b][d]
      BY <2>8, <2>2, <2>4
    <3> QED
      BY <3>1, <2>8, <2>1, <2>2 DEF NoRow
  <2>9. CASE t[u][d] # NoRow /\ t[u][a] = NoRow /\ t[u][b] = NoRow
    <3>1. t[b][m] # NoRow /\ t[a][m] >= t[b][m]
      BY <2>9, <2>1, <2>2 DEF NoRow
    <3>2. t[a][b] = t[a][m] - t[b][m]
      BY <3>1, <2>3
    <3> QED
      BY <3>1, <3>2, <2>9, <2>1, <2>2 DEF NoRow
  <2> QED
    BY <2>5, <2>6, <2>7, <2>8, <2>9
<1>8. DirectRows(r, c)
  <2> SUFFICES ASSUME NEW a \in Users, NEW d \in Users
               PROVE  r[a][d] = 1 <=> c[d] = a
    BY DEF DirectRows
  <2>1. r[a][d] = IF t[u][d] = NoRow \/ t[u][a] # NoRow THEN t[a][d]
                  ELSE IF t[a][m] = NoRow THEN NoRow
                  ELSE t[a][m] + t[u][d] + 1
    BY <1>2
  <2>2. t[a][d] = 1 <=> chart[d] = a
    BY <1>4 DEF DirectRows
  <2>3. /\ t[a][d] \in Nat \cup {-1} /\ t[a][m] \in Nat \cup {-1}
        /\ t[u][d] \in Nat \cup {-1} /\ t[u][a] \in Nat \cup {-1}
    BY <1>1
  <2>4. CASE d = u
    <3>1. t[u][a] # NoRow => t[a][u] < 1
      BY <1>1, <1>4 DEF SelfRows, PathsCompose, NoRow
    <3>2. t[a][m] = 0 <=> a = m
      BY <1>4 DEF SelfRows, NoRow
    <3> QED
      BY <2>1, <2>3, <2>4, <3>1, <3>2, <1>3 DEF NoRow
  <2>5. CASE d # u /\ (t[u][d] = NoRow \/ t[u][a] # NoRow)
    BY <2>1, <2>2, <2>5, <1>3
  <2>6. CASE d # u /\ t[u][d] # NoRow /\ t[u][a] = NoRow
    (* d is at least one level below u, and its own manager is u or below *)
    <3>1. t[u][d] >= 1
      BY <2>3, <2>6, <1>4 DEF SelfRows, NoRow
    <3>2. t[a][d] # 1
      BY <3>1, <2>6, <1>4, <1>1 DEF AncestorsChain, NoRow
    <3> QED
      BY <2>1, <2>2, <2>3, <2>6, <3>1, <3>2, <1>3 DEF NoRow
  <2> QED
    BY <2>4, <2>5, <2>6
<1>9. NoGaps(r, c)
  BY <1>1, <1>2, <1>3, <1>4, ClosureAssumption
     DEF NoGaps, DirectRows, SelfRows, NoRow
<1> QED
  BY <1>2, <1>5, <1>6, <1>7, <1>8, <1>9 DEF IsClosureOf, r, c

-----------------------------------------------------------------------------
(* A set of numbers that has no smallest element is empty. *)
LEMMA SmallestElement ==
  ASSUME NEW S, S \subseteq Nat, S # {}
  PROVE  \E n \in S : \A k \in S : ~ (k < n)
<1>1. PICK n \in S : \A k \in S : <<k, n>> \notin OpToRel(<, Nat)
  BY WFMin, NatLessThanWellFounded
<1> QED
  BY <1>1 DEF OpToRel

(* The users above x, x included when it is a node.                         *)
AboveOf(t, x) == {a \in Users : t[a][x] # NoRow}

LEMMA AboveIsFinite ==
  ASSUME NEW t, NEW x
  PROVE  /\ Cardinality(AboveOf(t, x)) \in Nat
         /\ Cardinality(AboveOf(t, x)) <= Cardinality(Users)
<1>1. IsFiniteSet(Users) /\ AboveOf(t, x) \in SUBSET Users
  BY ClosureAssumption DEF AboveOf
<1>2. IsFiniteSet(AboveOf(t, x)) /\ Cardinality(AboveOf(t, x)) <= Cardinality(Users)
  BY <1>1, FS_Subset
<1> QED
  BY <1>2, FS_CardinalityType

(* A manager has fewer users above it than the one who reports to it.       *)
LEMMA FewerAboveManager ==
  ASSUME NEW t \in Tables, NEW chart \in Charts, IsClosureOf(t, chart),
         NEW x \in Users, chart[x] \in Users
  PROVE  Cardinality(AboveOf(t, chart[x])) < Cardinality(AboveOf(t, x))
<1> DEFINE m == chart[x]
<1>1. \A a, d \in Users : t[a][d] \in Nat \cup {-1}
  BY DEF Tables, NoRow
<1>2. /\ SelfRows(t) /\ PathsCompose(t) /\ DirectRows(t, chart)
  BY DEF IsClosureOf
<1>3. m \in Users /\ t[m][x] = 1
  BY <1>2 DEF DirectRows
<1>4. t[x][x] = 0
  BY <1>3, <1>2 DEF SelfRows, NoRow
<1>5. t[x][m] = NoRow
  BY <1>3, <1>4, <1>1, <1>2 DEF PathsCompose, NoRow
<1>6. \A a \in Users : t[a][m] # NoRow => t[a][x] # NoRow
  BY <1>3, <1>1, <1>2 DEF PathsCompose, NoRow
<1>7. AboveOf(t, m) \in SUBSET AboveOf(t, x) /\ AboveOf(t, m) # AboveOf(t, x)
  BY <1>4, <1>5, <1>6 DEF NoRow, AboveOf
<1>8. IsFiniteSet(AboveOf(t, x))
  BY ClosureAssumption, FS_Subset DEF AboveOf
<1>9. /\ Cardinality(AboveOf(t, m)) <= Cardinality(AboveOf(t, x))
      /\ Cardinality(AboveOf(t, m)) # Cardinality(AboveOf(t, x))
  BY <1>7, <1>8, FS_Subset
<1> QED
  BY <1>9, AboveIsFinite

(* A chart that has a closure is a forest: in a group, a user with the      *)
(* fewest users above reports to nobody of the group.                       *)
LEMMA ClosureIsForest ==
  ASSUME NEW t \in Tables, NEW chart \in Charts, IsClosureOf(t, chart)
  PROVE  Forest(chart)
<1> SUFFICES ASSUME NEW group \in SUBSET Users, group # {}
             PROVE  \E u \in group : chart[u] \notin group
  BY DEF Forest
<1> DEFINE Size(x) == Cardinality(AboveOf(t, x))
           sizes == {Size(x) : x \in group}
<1>1. PICK x \in group : \A y \in group : ~ (Size(y) < Size(x))
  <2>1. sizes \subseteq Nat /\ sizes # {}
    BY AboveIsFinite
  <2>2. PICK n \in sizes : \A k \in sizes : ~ (k < n)
    <3> HIDE DEF sizes
    <3> QED
      BY <2>1, SmallestElement
  <2> QED
    BY <2>2
<1>2. ASSUME chart[x] \in group
      PROVE  FALSE
  BY <1>1, <1>2, FewerAboveManager
<1> QED
  BY <1>2

(* When u is above m, making m the manager of u closes a cycle: the users   *)
(* on the path from u down to m report to one another.                      *)
LEMMA CycleIsNoForest ==
  ASSUME NEW t \in Tables, NEW chart \in Charts, IsClosureOf(t, chart),
         NEW u \in Users, NEW m \in Users, t[u][m] # NoRow
  PROVE  ~ Forest([chart EXCEPT ![u] = m])
<1> DEFINE c == [chart EXCEPT ![u] = m]
           path == {x \in Users : t[u][x] # NoRow /\ t[x][m] # NoRow}
<1>1. \A a, d \in Users : t[a][d] \in Nat \cup {-1}
  BY DEF Tables, NoRow
<1>2. /\ SelfRows(t) /\ PathsCompose(t) /\ AncestorsChain(t)
      /\ DirectRows(t, chart) /\ NoGaps(t, chart)
  BY DEF IsClosureOf
<1>3. u \in path /\ m \in path
  BY <1>2 DEF SelfRows, NoRow
<1>4. ASSUME NEW x \in path
      PROVE  c[x] \in path
  <2>1. CASE x = u
    BY <2>1, <1>3 DEF Charts
  <2>2. CASE x # u
    <3> DEFINE p == chart[x]
    <3>1. t[u][x] >= 1
      BY <2>2, <1>1, <1>2 DEF SelfRows, NoRow
    <3>2. p \in Users /\ t[p][x] = 1
      BY <3>1, <1>2 DEF NoGaps, DirectRows, Charts
    <3>3. t[u][p] # NoRow
      <4>1. t[p][x] # NoRow /\ t[u][x] >= t[p][x]
        BY <3>1, <3>2 DEF NoRow
      <4>2. t[u][p] = t[u][x] - t[p][x]
        BY <4>1, <3>2, <1>2 DEF AncestorsChain
      <4>3. t[u][x] \in Nat \cup {-1}
        BY <1>1
      <4> QED
        BY <4>2, <4>3, <3>1, <3>2 DEF NoRow
    <3>4. t[p][m] # NoRow
      BY <3>2, <1>1, <1>2 DEF PathsCompose, NoRow
    <3> QED
      BY <2>2, <3>2, <3>3, <3>4 DEF Charts
  <2> QED
    BY <2>1, <2>2
<1> QED
  BY <1>3, <1>4 DEF Forest

-----------------------------------------------------------------------------
(* Registering both nodes first, as assignManager does. *)
LEMMA BothNodes ==
  ASSUME NEW t \in Tables, NEW chart \in Charts, IsClosureOf(t, chart),
         NEW u \in Users, NEW m \in Users
  PROVE  LET nodes == AddNode(AddNode(t, u), m)
         IN  /\ nodes \in Tables
             /\ IsClosureOf(nodes, chart)
             /\ nodes[u][u] = 0 /\ nodes[m][m] = 0
             /\ u # m => nodes[u][m] = t[u][m]
<1>1. /\ AddNode(t, u) \in Tables
      /\ IsClosureOf(AddNode(t, u), chart)
      /\ AddNode(t, u)[u][u] = 0
  BY AddNodeClosure
<1>2. /\ AddNode(AddNode(t, u), m) \in Tables
      /\ IsClosureOf(AddNode(AddNode(t, u), m), chart)
      /\ AddNode(AddNode(t, u), m)[m][m] = 0
      /\ AddNode(AddNode(t, u), m)[u][u] = 0
  BY <1>1, AddNodeClosure DEF NoRow
<1>3. u # m => AddNode(AddNode(t, u), m)[u][m] = t[u][m]
  BY DEF AddNode, CreateMany, EmptyTable, NoRow
<1> QED
  BY <1>2, <1>3

-----------------------------------------------------------------------------
(* One level of the climb. *)
Up(chart, below) ==
  [u \in Users |-> IF below[u] = NoUser THEN NoUser ELSE chart[below[u]]]

Self == [u \in Users |-> u]

IsClimb(chart, n, f) ==
  f = [k \in 0 .. n |-> IF k = 0 THEN Self ELSE Up(chart, f[k - 1])]

(* The climb is defined for every number of levels, by induction on it.    *)
LEMMA ClimbExists ==
  ASSUME NEW chart, NEW n \in Nat
  PROVE  \E f : IsClimb(chart, n, f)
<1> DEFINE Bad == {k \in Nat : ~ \E f : IsClimb(chart, k, f)}
<1>1. SUFFICES ASSUME Bad # {} PROVE FALSE
  OBVIOUS
<1>2. PICK k \in Bad : \A j \in Bad : ~ (j < k)
  <2> HIDE DEF Bad
  <2> QED
    BY <1>1, SmallestElement DEF Bad
<1>3. k # 0
  <2>1. IsClimb(chart, 0, [j \in 0 .. 0 |-> Self])
    BY DEF IsClimb
  <2> QED
    BY <2>1, <1>2
<1>4. k \in Nat /\ k - 1 \in Nat /\ k - 1 \notin Bad
  BY <1>2, <1>3
<1>5. PICK f : IsClimb(chart, k - 1, f)
  BY <1>4
<1> DEFINE g == [j \in 0 .. k |-> IF j < k THEN f[j] ELSE Up(chart, f[k - 1])]
<1>6. IsClimb(chart, k, g)
  <2>1. \A j \in 0 .. k - 1 : f[j] = IF j = 0 THEN Self ELSE Up(chart, f[j - 1])
    BY <1>5 DEF IsClimb
  <2>2. ASSUME NEW j \in 0 .. k
        PROVE  g[j] = IF j = 0 THEN Self ELSE Up(chart, g[j - 1])
    <3>1. CASE j < k
      BY <3>1, <2>1, <1>4
    <3>2. CASE j = k
      BY <3>2, <1>4
    <3> QED
      BY <3>1, <3>2, <1>4
  <2> QED
    BY <2>2 DEF IsClimb
<1> QED
  BY <1>2, <1>6

(* ManagerAt is that climb: it starts at the user and goes one level up at a *)
(* time.                                                                    *)
LEMMA ManagerAtIsClimb ==
  ASSUME NEW chart
  PROVE  LET at == ManagerAt(chart)
         IN  /\ DOMAIN at = 0 .. Cardinality(Users)
             /\ at[0] = Self
             /\ \A k \in 1 .. Cardinality(Users) : at[k] = Up(chart, at[k - 1])
<1> DEFINE at == ManagerAt(chart)
           N == Cardinality(Users)
<1>1. N \in Nat
  BY ClosureAssumption, FS_CardinalityType
<1>2. at = CHOOSE f : IsClimb(chart, N, f)
  BY DEF ManagerAt, IsClimb, Self, Up
<1> HIDE DEF at, N
<1>3. IsClimb(chart, N, at)
  BY <1>1, <1>2, ClimbExists
<1> QED
  BY <1>1, <1>3 DEF IsClimb, at, N

-----------------------------------------------------------------------------
(* Between a user and someone k + 1 levels above it is one who reports to   *)
(* the latter.                                                              *)
LEMMA LevelBelow ==
  ASSUME NEW t \in Tables, NEW chart \in Charts, IsClosureOf(t, chart),
         NEW k \in Nat, NEW a \in Users, NEW d \in Users, t[a][d] = k + 1, k >= 1
  PROVE  \E b \in Users : t[b][d] = k /\ chart[b] = a
<1>1. \A x, y \in Users : t[x][y] \in Nat \cup {-1}
  BY DEF Tables, NoRow
<1>2. /\ PathsCompose(t) /\ AncestorsChain(t)
      /\ DirectRows(t, chart) /\ NoGaps(t, chart)
  BY DEF IsClosureOf
<1> DEFINE Skipped(n, x, y) == /\ n >= 1 /\ t[x][y] = n + 1
                               /\ \A b \in Users : t[b][y] # n
           Bad == {n \in Nat : \E x, y \in Users : Skipped(n, x, y)}
<1>3. Bad = {}
  <2>1. SUFFICES ASSUME Bad # {} PROVE FALSE
    OBVIOUS
  <2>2. PICK n \in Bad : \A j \in Bad : ~ (j < n)
    <3> HIDE DEF Bad
    <3> QED
      BY <2>1, SmallestElement DEF Bad
  <2>3. PICK x \in Users, y \in Users : Skipped(n, x, y)
    BY <2>2
  <2> DEFINE p == chart[y]
  <2>4. p \in Users /\ t[p][y] = 1
    BY <2>3, <1>2 DEF NoGaps, DirectRows, Charts
  <2>5. n - 1 \in Nat /\ n - 1 >= 1 /\ t[x][p] = (n - 1) + 1
    <3>1. n # 1
      BY <2>3, <2>4
    <3>2. t[x][p] = t[x][y] - 1
      BY <2>3, <2>4, <1>2 DEF AncestorsChain, NoRow
    <3> QED
      BY <3>1, <3>2, <2>3
  <2>6. PICK b \in Users : t[b][p] = n - 1
    BY <2>2, <2>4, <2>5
  <2>7. t[b][y] = n
    BY <2>4, <2>5, <2>6, <1>2 DEF PathsCompose, NoRow
  <2> QED
    BY <2>3, <2>7
<1>4. PICK b \in Users : t[b][d] = k
  BY <1>3
<1>5. t[a][b] = 1
  BY <1>4, <1>2 DEF AncestorsChain, NoRow
<1> QED
  BY <1>4, <1>5, <1>2 DEF DirectRows

(* No chain of managers is longer than the tenant has users.                *)
LEMMA DepthBound ==
  ASSUME NEW t \in Tables, NEW chart \in Charts, IsClosureOf(t, chart),
         NEW a \in Users, NEW d \in Users
  PROVE  t[a][d] < Cardinality(Users)
<1>1. \A x, y \in Users : t[x][y] \in Nat \cup {-1}
  BY DEF Tables, NoRow
<1>2. /\ SelfRows(t) /\ AncestorsChain(t)
      /\ DirectRows(t, chart) /\ NoGaps(t, chart)
  BY DEF IsClosureOf
<1>3. Cardinality(Users) \in Nat
  BY ClosureAssumption, FS_CardinalityType
<1> DEFINE TooDeep(n, x, y) ==
             t[x][y] = n /\ ~ (n < Cardinality(AboveOf(t, y)))
           Bad == {n \in Nat : \E x, y \in Users : TooDeep(n, x, y)}
<1>4. Bad = {}
  <2>1. SUFFICES ASSUME Bad # {} PROVE FALSE
    OBVIOUS
  <2>2. PICK n \in Bad : \A j \in Bad : ~ (j < n)
    <3> HIDE DEF Bad
    <3> QED
      BY <2>1, SmallestElement DEF Bad
  <2>3. PICK x \in Users, y \in Users : TooDeep(n, x, y)
    BY <2>2
  <2>4. Cardinality(AboveOf(t, y)) \in Nat
    BY AboveIsFinite
  <2>5. CASE n = 0
    <3>1. x \in AboveOf(t, y) /\ IsFiniteSet(AboveOf(t, y))
      BY <2>3, <2>5, ClosureAssumption, FS_Subset DEF AboveOf, NoRow
    <3>2. Cardinality(AboveOf(t, y)) # 0
      BY <3>1, FS_EmptySet
    <3> QED
      BY <2>3, <2>4, <2>5, <3>2
  <2>6. CASE n # 0
    <3> DEFINE p == chart[y]
    <3>1. p \in Users /\ t[p][y] = 1
      BY <2>3, <2>6, <1>2 DEF NoGaps, DirectRows, Charts
    <3>2. n - 1 \in Nat /\ t[x][p] = n - 1
      BY <2>3, <2>6, <3>1, <1>2 DEF AncestorsChain, NoRow
    <3>3. n - 1 < Cardinality(AboveOf(t, p))
      BY <2>2, <3>1, <3>2
    <3>4. Cardinality(AboveOf(t, p)) < Cardinality(AboveOf(t, y))
      BY <3>1, FewerAboveManager
    <3>5. Cardinality(AboveOf(t, p)) \in Nat
      BY AboveIsFinite
    <3> QED
      BY <2>3, <2>4, <3>2, <3>3, <3>4, <3>5
  <2> QED
    BY <2>5, <2>6
<1>5. CASE t[a][d] = NoRow
  BY <1>3, <1>5 DEF NoRow
<1>6. CASE t[a][d] # NoRow
  <2>1. t[a][d] \in Nat
    BY <1>1, <1>6 DEF NoRow
  <2>2. t[a][d] < Cardinality(AboveOf(t, d))
    BY <2>1, <1>4
  <2> QED
    BY <2>1, <2>2, <1>3, AboveIsFinite
<1> QED
  BY <1>5, <1>6

(* The climb meets the users of the rows, each at the level of its depth.   *)
LEMMA ClimbMeetsRows ==
  ASSUME NEW t \in Tables, NEW chart \in Charts, IsClosureOf(t, chart),
         NEW k \in 1 .. Cardinality(Users), NEW a \in Users, NEW d \in Users
  PROVE  ManagerAt(chart)[k][d] = a <=> t[a][d] = k
<1> DEFINE at == ManagerAt(chart)
           N == Cardinality(Users)
<1>1. \A x, y \in Users : t[x][y] \in Nat \cup {-1}
  BY DEF Tables, NoRow
<1>2. /\ PathsCompose(t) /\ AncestorsChain(t)
      /\ DirectRows(t, chart) /\ NoGaps(t, chart)
  BY DEF IsClosureOf
<1>3. N \in Nat
  BY ClosureAssumption, FS_CardinalityType
<1>4. /\ at[0] = Self
      /\ \A j \in 1 .. N : at[j] = Up(chart, at[j - 1])
  BY ManagerAtIsClimb
<1> HIDE DEF at, N
<1> DEFINE Right(j) == \A y \in Users :
                         /\ at[j][y] \in Users \cup {NoUser}
                         /\ \A x \in Users : at[j][y] = x <=> t[x][y] = j
           Bad == {j \in Nat : j \in 1 .. N /\ ~ Right(j)}
<1>5. Bad = {}
  <2>1. SUFFICES ASSUME Bad # {} PROVE FALSE
    OBVIOUS
  <2>2. PICK j \in Bad : \A i \in Bad : ~ (i < j)
    <3> HIDE DEF Bad
    <3> QED
      BY <2>1, SmallestElement DEF Bad
  <2>3. j \in 1 .. N /\ ~ Right(j)
    BY <2>2
  <2>4. CASE j = 1
    <3>1. at[1] = Up(chart, Self)
      <4>1. 1 \in 1 .. N /\ 1 - 1 = 0
        BY <2>3, <2>4
      <4> QED
        BY <4>1, <1>4
    <3>2. \A y \in Users : at[1][y] = chart[y]
      BY <3>1, ClosureAssumption DEF Up, Self
    <3> QED
      BY <2>3, <2>4, <3>2, <1>2 DEF DirectRows, Charts
  <2>5. CASE j # 1
    <3>1. j - 1 \in 1 .. N /\ j - 1 \in Nat
      BY <2>3, <2>5, <1>3
    <3>2. Right(j - 1)
      BY <2>2, <2>3, <3>1
    <3>3. ASSUME NEW y \in Users
          PROVE  /\ at[j][y] \in Users \cup {NoUser}
                 /\ \A x \in Users : at[j][y] = x <=> t[x][y] = j
      <4> DEFINE b == at[j - 1][y]
      <4>1. /\ b \in Users \cup {NoUser}
            /\ \A x \in Users : b = x <=> t[x][y] = j - 1
        BY <3>2
      <4>2. at[j][y] = IF b = NoUser THEN NoUser ELSE chart[b]
        BY <2>3, <1>4 DEF Up
      <4>3. CASE b = NoUser
        <5>1. ASSUME NEW x \in Users, t[x][y] = j
              PROVE  FALSE
          <6>1. t[x][y] = (j - 1) + 1 /\ j - 1 >= 1
            BY <5>1, <3>1
          <6>2. PICK z \in Users : t[z][y] = j - 1
            BY <3>1, <6>1, LevelBelow
          <6> QED
            BY <4>1, <4>3, <6>2, ClosureAssumption
        <5> QED
          BY <4>2, <4>3, <5>1, ClosureAssumption
      <4>4. CASE b \in Users
        <5>1. t[b][y] = j - 1 /\ j - 1 >= 1
          BY <4>1, <4>4, <3>1
        <5>2. at[j][y] = chart[b] /\ chart[b] \in Users \cup {NoUser}
          BY <4>2, <4>4, ClosureAssumption DEF Charts
        <5>3. ASSUME NEW x \in Users, chart[b] = x
              PROVE  t[x][y] = j
          BY <5>1, <5>3, <4>4, <3>1, <1>2 DEF DirectRows, PathsCompose, NoRow
        <5>4. ASSUME NEW x \in Users, t[x][y] = j
              PROVE  chart[b] = x
          <6>1. t[x][b] = t[x][y] - t[b][y]
            BY <5>1, <5>4, <4>4, <3>1, <1>2 DEF AncestorsChain, NoRow
          <6> QED
            BY <6>1, <5>1, <5>4, <4>4, <3>1, <1>2 DEF DirectRows
        <5> QED
          BY <5>2, <5>3, <5>4
      <4> QED
        BY <4>1, <4>3, <4>4
    <3> QED
      BY <3>3, <2>3
  <2> QED
    BY <2>4, <2>5
<1>6. k \in Nat /\ k \in 1 .. N
  BY <1>3 DEF N
<1> QED
  BY <1>5, <1>6 DEF at

(* A table that is the closure of a chart holds the distances on it.        *)
LEMMA ClosureIsDistance ==
  ASSUME NEW t \in Tables, NEW chart \in Charts, IsClosureOf(t, chart),
         NEW a \in Users, NEW d \in Users
  PROVE  Distance(chart)[a][d] = IF a = d THEN 0 ELSE t[a][d]
<1> DEFINE at == ManagerAt(chart)
           N == Cardinality(Users)
           Levels == {k \in DOMAIN at : at[k][d] = a}
<1>1. t[a][d] \in Nat \cup {-1} /\ t[a][d] < N /\ N \in Nat
  BY DepthBound, ClosureAssumption, FS_CardinalityType DEF Tables, NoRow
<1>2. DOMAIN at = 0 .. N /\ at[0] = Self
  BY ManagerAtIsClimb
<1>3. \A k \in 1 .. N : at[k][d] = a <=> t[a][d] = k
  BY ClimbMeetsRows
<1>4. Distance(chart)[a][d]
        = IF Levels = {} THEN -1
          ELSE CHOOSE k \in Levels : \A l \in Levels : k <= l
  BY DEF Distance
<1> HIDE DEF at, N
<1>5. CASE a = d
  <2>1. 0 \in Levels /\ \A l \in Levels : 0 <= l
    BY <1>1, <1>2, <1>5 DEF Self
  <2>2. \A k \in Levels : (\A l \in Levels : k <= l) => k = 0
    BY <2>1, <1>1, <1>2
  <2> HIDE DEF Levels
  <2> QED
    BY <1>4, <1>5, <2>1, <2>2
<1>6. CASE a # d
  <2>1. Levels = IF t[a][d] \in 1 .. N THEN {t[a][d]} ELSE {}
    <3>1. at[0][d] # a
      BY <1>2, <1>6 DEF Self
    <3> QED
      BY <3>1, <1>1, <1>2, <1>3
  <2>2. t[a][d] # 0
    BY <1>6 DEF IsClosureOf, SelfRows, NoRow
  <2> HIDE DEF Levels
  <2>3. CASE t[a][d] = -1
    BY <1>4, <1>6, <2>1, <2>3, <1>1
  <2>4. CASE t[a][d] # -1
    <3>1. Levels = {t[a][d]}
      BY <2>1, <2>2, <2>4, <1>1
    <3>2. (CHOOSE k \in Levels : \A l \in Levels : k <= l) = t[a][d]
      BY <3>1, <1>1
    <3> QED
      BY <1>4, <1>6, <3>1, <3>2
  <2> QED
    BY <2>3, <2>4
<1> QED
  BY <1>5, <1>6

(* Every forest has a closure: take its edges away and assign the managers  *)
(* again one by one.                                                        *)
LEMMA ForestHasClosure ==
  ASSUME NEW chart \in Charts, Forest(chart)
  PROVE  \E t \in Tables : IsClosureOf(t, chart)
<1> DEFINE Managed(c) == {x \in Users : c[x] # NoUser}
           Without(c) == ~ \E t \in Tables : IsClosureOf(t, c)
           Bad == {n \in Nat : \E c \in Charts :
                     Forest(c) /\ Without(c) /\ n = Cardinality(Managed(c))}
<1>1. \A c : IsFiniteSet(Managed(c)) /\ Cardinality(Managed(c)) \in Nat
  BY ClosureAssumption, FS_Subset, FS_CardinalityType
<1>2. SUFFICES ASSUME Bad # {} PROVE FALSE
  <2>1. ASSUME Without(chart)
        PROVE  Cardinality(Managed(chart)) \in Bad
    BY <2>1, <1>1
  <2> QED
    BY <2>1
<1>3. PICK n \in Bad : \A j \in Bad : ~ (j < n)
  <2> HIDE DEF Bad
  <2> QED
    BY <1>2, SmallestElement DEF Bad
<1>4. PICK c \in Charts :
        Forest(c) /\ Without(c) /\ n = Cardinality(Managed(c))
  BY <1>3
<1>5. CASE Managed(c) = {}
  <2>1. EmptyTable \in Tables
    BY DEF EmptyTable, Tables
  <2>2. IsClosureOf(EmptyTable, c)
    BY <1>5, ClosureAssumption
       DEF IsClosureOf, SelfRows, PathsCompose, AncestorsChain, DirectRows,
           NoGaps, EmptyTable, NoRow
  <2> QED
    BY <2>1, <2>2, <1>4
<1>6. CASE Managed(c) # {}
  <2>1. PICK u \in Users : c[u] # NoUser
    BY <1>6
  <2> DEFINE m == c[u]
             less == [c EXCEPT ![u] = NoUser]
  <2>2. m \in Users /\ less \in Charts /\ c = [less EXCEPT ![u] = m]
    BY <2>1, <1>4 DEF Charts
  <2>3. Forest(less)
    <3> SUFFICES ASSUME NEW group \in SUBSET Users, group # {}
                 PROVE  \E x \in group : less[x] \notin group
      BY DEF Forest
    <3>1. PICK x \in group : c[x] \notin group
      BY <1>4 DEF Forest
    <3> QED
      BY <3>1, <1>4, ClosureAssumption DEF Charts
  <2>4. Managed(less) = Managed(c) \ {u} /\ u \in Managed(c)
    BY <2>1, <1>4 DEF Charts
  <2> HIDE DEF less, Managed
  <2>5. Cardinality(Managed(less)) < n
    <3> DEFINE rest == Managed(less)
               all == Managed(c)
    <3>1. /\ IsFiniteSet(all) /\ Cardinality(all) \in Nat /\ u \in all
          /\ rest = all \ {u} /\ n = Cardinality(all)
      BY <2>4, <1>1, <1>4
    <3> HIDE DEF rest, all
    <3>2. Cardinality(rest) = Cardinality(all) - 1
      BY <3>1, FS_RemoveElement
    <3>3. Cardinality(rest) < n
      BY <3>1, <3>2
    <3> QED
      BY <3>3 DEF rest
  <2>6. PICK t \in Tables : IsClosureOf(t, less)
    <3>1. Cardinality(Managed(less)) \notin Bad
      BY <2>5, <1>3
    <3> QED
      BY <3>1, <2>2, <2>3, <1>1
  <2>7. u # m
    <3>1. {u} \in SUBSET Users /\ {u} # {}
      OBVIOUS
    <3>2. \E x \in {u} : c[x] \notin {u}
      BY <3>1, <1>4 DEF Forest
    <3> QED
      BY <3>2
  <2>8. t[u][m] = NoRow
    BY <2>2, <2>6, <1>4, CycleIsNoForest
  <2> DEFINE nodes == AddNode(AddNode(t, u), m)
  <2>9. /\ nodes \in Tables /\ IsClosureOf(nodes, less)
        /\ nodes[u][u] = 0 /\ nodes[m][m] = 0 /\ nodes[u][m] = NoRow
    BY <2>2, <2>6, <2>7, <2>8, BothNodes
  <2> HIDE DEF nodes, m
  <2>10. /\ Reparent(nodes, u, m) \in Tables
         /\ IsClosureOf(Reparent(nodes, u, m), c)
    BY <2>2, <2>7, <2>9, ReparentClosure
  <2> QED
    BY <2>10, <1>4
<1> QED
  BY <1>5, <1>6

(* The distances on a forest are a closure table, whichever of the users    *)
(* who stand alone have a row with themselves.                              *)
LEMMA DistanceIsClosure ==
  ASSUME NEW chart \in Charts, Forest(chart), NEW nodes \in SUBSET Users,
         \A x \in Users : chart[x] # NoUser => {x, chart[x]} \subseteq nodes,
         NEW t, t = [a \in Users |-> [d \in Users |->
                       IF a = d /\ a \notin nodes THEN NoRow
                       ELSE Distance(chart)[a][d]]]
  PROVE  t \in Tables /\ IsClosureOf(t, chart)
<1>1. PICK s \in Tables : IsClosureOf(s, chart)
  BY ForestHasClosure
<1>2. \A a, d \in Users : s[a][d] \in Nat \cup {-1}
  BY DEF Tables, NoRow
<1>3. \A a, d \in Users :
        t[a][d] = IF a # d THEN s[a][d]
                  ELSE IF a \in nodes THEN 0 ELSE -1
  BY <1>1, ClosureIsDistance DEF NoRow
<1>4. /\ SelfRows(s) /\ PathsCompose(s) /\ AncestorsChain(s)
      /\ DirectRows(s, chart) /\ NoGaps(s, chart)
  BY <1>1 DEF IsClosureOf
<1>5. t \in Tables
  <2>1. \A a, d \in Users : t[a][d] \in Nat \cup {NoRow}
    BY <1>2, <1>3 DEF NoRow
  <2>2. /\ DOMAIN t = Users /\ t = [a \in Users |-> t[a]]
        /\ \A a \in Users : t[a] = [d \in Users |-> t[a][d]]
    OBVIOUS
  <2> QED
    BY <2>1, <2>2 DEF Tables
<1>6. ASSUME NEW a \in Users, NEW d \in Users, a # d, s[a][d] # NoRow
      PROVE  a \in nodes /\ d \in nodes /\ s[a][d] >= 1
  <2>1. s[a][d] \in Nat /\ s[a][d] >= 1
    BY <1>2, <1>4, <1>6 DEF SelfRows, NoRow
  <2>2. chart[d] # NoUser /\ d \in nodes
    BY <2>1, <1>4 DEF NoGaps
  <2>3. \E b \in Users : chart[b] = a
    <3>1. CASE s[a][d] = 1
      BY <3>1, <1>4 DEF DirectRows
    <3>2. CASE s[a][d] # 1
      <4>1. s[a][d] - 1 \in Nat /\ s[a][d] - 1 >= 1
            /\ s[a][d] = (s[a][d] - 1) + 1
        BY <2>1, <3>2
      <4> QED
        BY <4>1, <1>1, LevelBelow
    <3> QED
      BY <3>1, <3>2
  <2>4. a \in nodes
    BY <2>3, ClosureAssumption
  <2> QED
    BY <2>1, <2>2, <2>4
<1>7. \A a \in Users : s[a][a] \in {0, -1}
  BY <1>2, <1>4 DEF SelfRows, PathsCompose, NoRow
<1>8. SelfRows(t)
  BY <1>2, <1>3, <1>6 DEF SelfRows, NoRow
<1>9. PathsCompose(t)
  <2> SUFFICES ASSUME NEW a \in Users, NEW b \in Users, NEW d \in Users,
                      t[a][b] # NoRow, t[b][d] # NoRow
               PROVE  t[a][d] = t[a][b] + t[b][d]
    BY DEF PathsCompose
  <2>1. CASE a = b \/ b = d
    BY <2>1, <1>2, <1>3 DEF NoRow
  <2>2. CASE a # b /\ b # d
    <3>1. s[a][b] # NoRow /\ s[b][d] # NoRow /\ s[a][b] >= 1 /\ s[b][d] >= 1
      BY <2>2, <1>3, <1>6
    <3>2. s[a][d] = s[a][b] + s[b][d]
      BY <3>1, <1>4 DEF PathsCompose
    <3>3. a # d
      BY <3>1, <3>2, <1>2, <1>7 DEF NoRow
    <3> QED
      BY <2>2, <3>2, <3>3, <1>3
  <2> QED
    BY <2>1, <2>2
<1>10. AncestorsChain(t)
  <2> SUFFICES ASSUME NEW a \in Users, NEW b \in Users, NEW d \in Users,
                      t[b][d] # NoRow, t[a][d] >= t[b][d]
               PROVE  t[a][b] = t[a][d] - t[b][d]
    BY DEF AncestorsChain
  <2>1. CASE b = d
    BY <2>1, <1>2, <1>3 DEF NoRow
  <2>2. CASE b # d
    <3>1. s[b][d] # NoRow /\ s[b][d] >= 1 /\ t[b][d] = s[b][d]
      BY <2>2, <1>3, <1>6
    <3>2. a # d /\ t[a][d] = s[a][d]
      BY <3>1, <1>2, <1>3 DEF NoRow
    <3>3. s[a][b] = s[a][d] - s[b][d]
      BY <3>1, <3>2, <1>4 DEF AncestorsChain
    <3>4. CASE a = b
      <4>1. b \in nodes
        BY <2>2, <3>1, <1>6
      <4> QED
        BY <3>1, <3>2, <3>4, <4>1, <1>2, <1>3 DEF NoRow
    <3> QED
      BY <3>1, <3>2, <3>3, <3>4, <1>3
  <2> QED
    BY <2>1, <2>2
<1>11. DirectRows(t, chart)
  <2>1. ASSUME NEW x \in Users
        PROVE  chart[x] # x
    BY <1>4, <1>7 DEF DirectRows
  <2> QED
    BY <2>1, <1>3, <1>4 DEF DirectRows
<1>12. NoGaps(t, chart)
  BY <1>3, <1>4 DEF NoGaps
<1> QED
  BY <1>5, <1>8, <1>9, <1>10, <1>11, <1>12 DEF IsClosureOf

(* What a direct manager is, read off a closure.                            *)
LEMMA DirectManagerIdsIs ==
  ASSUME NEW t \in Tables, NEW chart \in Charts, IsClosureOf(t, chart),
         NEW u \in Users
  PROVE  DirectManagerIds(t, u) = {chart[u]}
<1> DEFINE found == {m \in Users : t[m][u] = 1}
<1>1. found = IF chart[u] = NoUser THEN {} ELSE {chart[u]}
  BY ClosureAssumption DEF IsClosureOf, DirectRows, Charts
<1> QED
  BY <1>1 DEF DirectManagerIds

(* What a question answers on a consistent table.                           *)
LEMMA OneRelationship ==
  ASSUME NEW t \in Tables, NEW chart \in Charts, IsClosureOf(t, chart),
         NEW s \in Users, NEW u \in Users
  PROVE  GetRelationship(t, s, u) = {Classify(s, u, t[s][u], chart[s], chart[u])}
<1>1. DirectManagerIds(t, s) = {chart[s]} /\ DirectManagerIds(t, u) = {chart[u]}
  BY DirectManagerIdsIs
<1> QED
  BY <1>1 DEF GetRelationship
=============================================================================
