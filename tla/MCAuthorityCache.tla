-------------------------- MODULE MCAuthorityCache --------------------------
(* AuthorityCache on two tenants with one user, one role and one permission *)
(* each; the policies are in the first tenant, the second of them disabled  *)
(* or about another resource type.                                          *)
EXTENDS AuthorityCache, TLC

CONSTANTS t1, t2, u1, u2, r1, r2, p1, p2, d1, d2, q1

MCTenantOf ==
  (u1 :> t1) @@ (r1 :> t1) @@ (p1 :> t1) @@ (d1 :> t1) @@ (d2 :> t1) @@ (q1 :> t1)
    @@ (u2 :> t2) @@ (r2 :> t2) @@ (p2 :> t2)

MCGoverns == (d1 :> {q1}) @@ (d2 :> {})

Symmetry == Permutations(Replicas) \cup Permutations(Readers)

(* The bound of the run: concurrent loads and writes of the policy cache on *)
(* all replicas, or of the permission cache on one replica at a time, with  *)
(* more rows and less time.                                                 *)
Touched(i) ==
  {k \in Keys : \/ store[i][k] # NoEntry
                \/ \E r \in Readers : /\ load[r] # NoLoad
                                      /\ load[r].replica = i
                                      /\ load[r].key = k}

PoliciesOnly ==
  /\ rows \subseteq Policy
  /\ Cardinality(rows) <= 1
  /\ \A i \in Replicas : Touched(i) \subseteq Queries

PermissionsOnly ==
  /\ clock <= 2
  /\ rows \cap Policy = {}
  /\ \A i \in Replicas : Touched(i) \subseteq Users
  /\ Cardinality({i \in Replicas : Touched(i) # {} \/ purged[i] # {}}) <= 1
  /\ \A w \in Writers : write[w] # NoWrite =>
       \A i \in Replicas \ {write[w].replica} : Touched(i) = {} /\ purged[i] = {}

Focus == PoliciesOnly \/ PermissionsOnly
=============================================================================
