--------------------------- MODULE MCHierarchyTx ---------------------------
(* HierarchyTx on a small tenant. *)
EXTENDS HierarchyTx, TLC

CONSTANTS u1, u2, u3

(* The bound of the run: the users are alike, so it starts from one chart   *)
(* of each shape -- no manager, one manager of one or of two users, a chain *)
(* -- with every user a node of the table, or none of them.                 *)
Shapes ==
  LET chart(m2, m3) == (u1 :> NoUser) @@ (u2 :> m2) @@ (u3 :> m3)
  IN  {chart(NoUser, NoUser), chart(u1, NoUser), chart(u1, u1), chart(u1, u2)}

OneOfEachShape ==
  /\ TxInit
  /\ managerId \in Shapes
  /\ \A a, b \in Users : closure[a][a] = closure[b][b]

SmallSpec == OneOfEachShape /\ [][TxNext]_txVars /\ Fairness
=============================================================================
