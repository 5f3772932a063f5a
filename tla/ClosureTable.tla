---------------------------- MODULE ClosureTable ----------------------------
(***************************************************************************)
(* The table OrganizationHierarchyClosure of one tenant, and the statements *)
(* hierarchy.service.ts runs on it.  The unique index on (tenant, ancestor, *)
(* descendant) makes the table a function: t[a][d] is the depth of the row  *)
(* whose ancestor is a and whose descendant is d, or NoRow.                 *)
(***************************************************************************)
EXTENDS ChartWalk

ASSUME ClosureAssumption == IsFiniteSet(Users) /\ NoUser \notin Users

NoRow == -1

Tables == [Users -> [Users -> Nat \cup {NoRow}]]

EmptyTable == [a \in Users |-> [d \in Users |-> NoRow]]

(* createMany(..., skipDuplicates): a row whose key is taken is skipped. *)
CreateMany(t, rows) ==
  [a \in Users |-> [d \in Users |->
     IF t[a][d] = NoRow THEN rows[a][d] ELSE t[a][d]]]

AddNode(t, u) == CreateMany(t, [EmptyTable EXCEPT ![u][u] = 0])

(* The two reads of (user id, depth) pairs, as functions of the user id. *)
(* Fault: the first level of reports moves without the levels below it. *)
SubtreeOneLevel(t, u) == [d \in Users |-> IF t[u][d] > 1 THEN NoRow ELSE t[u][d]]

Subtree(t, u)   == [d \in Users |-> t[u][d]]
SuperTree(t, m) == [a \in Users |-> t[a][m]]

Ids(tree) == {x \in Users : tree[x] # NoRow}

(* Fault: only the row of the direct manager is looked for. *)
OldAncestorsDirectOnly(t, u) == {a \in Users : t[a][u] = 1}

OldAncestors(t, u) == Ids(SuperTree(t, u)) \ {u}

(* Faults: the check looks for a direct report only; it looks upwards.      *)
WouldCycleDirectOnly(t, u, m) == t[u][m] = 1
WouldCycleUpwards(t, u, m)    == t[m][u] # NoRow

WouldCycle(t, u, m) == t[u][m] # NoRow

(* deleteMany: the rows from an old ancestor into the subtree. *)
Detach(t, old, sub) ==
  [a \in Users |-> [d \in Users |->
     IF a \in old /\ d \in sub THEN NoRow ELSE t[a][d]]]

(* Fault: the edge from the manager to the user is not counted. *)
CrossJoinWithoutEdge(sup, sub) ==
  [a \in Users |-> [d \in Users |->
     IF sup[a] # NoRow /\ sub[d] # NoRow THEN sup[a] + sub[d] ELSE NoRow]]

(* Every ancestor of the new manager with every user of the subtree. *)
CrossJoin(sup, sub) ==
  [a \in Users |-> [d \in Users |->
     IF sup[a] # NoRow /\ sub[d] # NoRow THEN sup[a] + sub[d] + 1 ELSE NoRow]]

(* The table an assignManager transaction leaves when it runs alone. *)
Reparent(t, u, m) ==
  LET sub == Subtree(t, u)
  IN  CreateMany(Detach(t, OldAncestors(t, u), Ids(sub)),
                 CrossJoin(SuperTree(t, m), sub))

-----------------------------------------------------------------------------
(* Queries.  directManagerId is a findFirst: with several depth-1 rows for  *)
(* one user any of them may be returned, hence a set of possible answers.   *)

IsDirectManager(t, s, u) == t[s][u] = 1
IsAncestor(t, s, u)      == t[s][u] >= 1

GetAncestors(t, u)   == {<<a, t[a][u]>> : a \in {x \in Users : t[x][u] >= 1}}
GetDescendants(t, u) == {<<d, t[u][d]>> : d \in {x \in Users : t[u][x] >= 1}}

DirectManagerIds(t, u) ==
  LET found == {m \in Users : t[m][u] = 1}
  IN  IF found = {} THEN {NoUser} ELSE found

(* Fault: two users without a manager are siblings. *)
ClassifyNullsEqual(s, u, depth, sm, um) ==
  CASE s = u                           -> "SELF"
    [] s # u /\ depth = 1              -> "DIRECT_MANAGER"
    [] s # u /\ depth > 1              -> "ANCESTOR"
    [] s # u /\ depth < 1 /\ sm = um   -> "SIBLING"
    [] OTHER                           -> "NONE"

(* The answer once the row (s, u) and the two direct managers are known. *)
Classify(s, u, depth, sm, um) ==
  CASE s = u                                -> "SELF"
    [] s # u /\ depth = 1                   -> "DIRECT_MANAGER"
    [] s # u /\ depth > 1                   -> "ANCESTOR"
    [] s # u /\ depth < 1 /\ sm = um /\ sm # NoUser -> "SIBLING"
    [] OTHER                                -> "NONE"

GetRelationship(t, s, u) ==
  {Classify(s, u, t[s][u], sm, um) :
     sm \in DirectManagerIds(t, s), um \in DirectManagerIds(t, u)}

-----------------------------------------------------------------------------
(* Both ends of a row are nodes, and only the row of a node with itself has *)
(* depth 0.                                                                 *)
SelfRows(t) ==
  \A a, d \in Users :
     t[a][d] # NoRow => /\ t[a][a] = 0
                        /\ t[d][d] = 0
                        /\ t[a][d] = 0 => a = d

(* Paths compose: whoever is above my ancestor is above me, at the sum of   *)
(* the depths.                                                              *)
PathsCompose(t) ==
  \A a, b, d \in Users :
     t[a][b] # NoRow /\ t[b][d] # NoRow => t[a][d] = t[a][b] + t[b][d]

(* The ancestors of a user form one chain: the farther is above the nearer. *)
AncestorsChain(t) ==
  \A a, b, d \in Users :
     t[b][d] # NoRow /\ t[a][d] >= t[b][d] => t[a][b] = t[a][d] - t[b][d]

(* A row of depth 1 is a managerId, and a managerId is a row of depth 1.    *)
DirectRows(t, chart) ==
  \A m, u \in Users : t[m][u] = 1 <=> chart[u] = m

(* Whoever has an ancestor has a manager, so no row skips a level.          *)
NoGaps(t, chart) ==
  \A a, d \in Users : t[a][d] >= 1 => chart[d] # NoUser

(* "keeping the closure table fully consistent" (hierarchy.service.ts):     *)
(* together the five parts say that the table is the reflexive transitive   *)
(* closure of the edges of the chart, with the right depths.                *)
IsClosureOf(t, chart) ==
  /\ SelfRows(t)
  /\ PathsCompose(t)
  /\ AncestorsChain(t)
  /\ DirectRows(t, chart)
  /\ NoGaps(t, chart)
=============================================================================
