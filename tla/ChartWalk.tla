----------------------------- MODULE ChartWalk -----------------------------
(***************************************************************************)
(* A chart maps every user to a manager or to NoUser.  What a chart means:  *)
(* when it is a forest, how many levels one user is above another, and how  *)
(* two users are related.  The code never walks a chart, it looks a row up; *)
(* these definitions are what its answers are compared with.                *)
(***************************************************************************)
EXTENDS Integers, FiniteSets

CONSTANTS Users,   \* every user id the hierarchy of the tenant may mention
          NoUser   \* a null managerId

Charts == [Users -> Users \cup {NoUser}]

(* A chart is a forest when no group of users reports only to itself: going *)
(* up from any user ends at one who has no manager.                         *)
Forest(chart) ==
  \A group \in SUBSET Users :
     group # {} => \E u \in group : chart[u] \notin group

(* ManagerAt(chart)[k][u] is the user k levels above u. *)
ManagerAt(chart) ==
  LET at[k \in 0 .. Cardinality(Users)] ==
        IF k = 0 THEN [u \in Users |-> u]
        ELSE LET below == at[k - 1]
             IN  [u \in Users |->
                    IF below[u] = NoUser THEN NoUser ELSE chart[below[u]]]
  IN  at

(* The number of levels from d up to a, or -1 when a is not above d. *)
Distance(chart) ==
  LET at == ManagerAt(chart)
      Levels(a, d) == {k \in DOMAIN at : at[k][d] = a}
  IN  [a \in Users |-> [d \in Users |->
         IF Levels(a, d) = {} THEN -1
         ELSE CHOOSE k \in Levels(a, d) : \A l \in Levels(a, d) : k <= l]]

(* What a relationship question means on the chart. *)
ChartRelationship(chart, s, t) ==
  LET distance == Distance(chart)[s][t]
  IN  CASE s = t                                -> "SELF"
        [] s # t /\ distance = 1                -> "DIRECT_MANAGER"
        [] s # t /\ distance > 1                -> "ANCESTOR"
        [] s # t /\ distance = -1
             /\ chart[s] = chart[t] /\ chart[s] # NoUser -> "SIBLING"
        [] OTHER                                -> "NONE"
=============================================================================
