---------------------------- MODULE MCTenantData ----------------------------
(* TenantData on two tenants.                                               *)
EXTENDS TenantData, TLC

CONSTANTS t1, t2, n1, d1, d2, d3, u1, u2, u3, r1, p1, p2, s1, a1, a2

MCTenantOf ==
  (d1 :> t1) @@ (d3 :> t1) @@ (u1 :> t1) @@ (u3 :> t1) @@ (r1 :> t1) @@ (p1 :> t1) @@ (s1 :> t1)
    @@ (d2 :> t2) @@ (u2 :> t2) @@ (p2 :> t2)

(* The bound of the run: the ids the tables hold and the requests under way *)
(* at a time.  Users with their managers, of both tenants; a user in a      *)
(* department, of its own tenant or not; users who want each other's        *)
(* address; departments, tenants and services; a user's grants, from both   *)
(* tenants; roles for a foreign user.                                       *)
Named(q) == {q.id, q.ref, q.manager, q.email} \ {None}

Scene(ids, ops) ==
  [ids |-> ids, requests |-> {q \in Requests : q.op \in ops /\ Named(q) \subseteq ids}]

Scenes ==
  LET placing  == {"createDepartment", "createUser", "updateUser"}
      granting == {"createUser", "createRole", "assignRole", "createPermission",
                   "assignPermission"}
  IN  {Scene({u1, u2, a1}, {"createUser", "updateUser", "assignManager"}),
       Scene({d1, u1, a1}, placing),
       Scene({d1, u2, a1}, placing),
       Scene({u1, u3, a1, a2}, {"createUser", "updateUser"}),
       Scene({d1, d2, d3, n1, s1},
             {"createDepartment", "createTenant", "createServiceIdentity"}),
       Scene({u1, r1, p1, p2, a1}, granting),
       Scene({u2, r1, p2, a1}, granting)}

MCSent == UNION {scene.requests : scene \in Scenes}

InOneScene ==
  LET requests == {call[c].request : c \in {e \in Calls : call[e] # Idle}}
  IN  \E scene \in Scenes :
        db.rows \subseteq scene.ids /\ requests \subseteq scene.requests

Symmetry == Permutations(Calls)
=============================================================================
