------------------------------ MODULE OrgChart ------------------------------
(***************************************************************************)
(* What the hierarchy of a tenant promises, with no closure table in it:   *)
(* every user reports to at most one manager, a manager is assigned in one *)
(* step, and the chart is a forest after every step.  Hierarchy implements *)
(* this module.                                                            *)
(***************************************************************************)
EXTENDS ChartWalk

VARIABLES staff,   \* the users of the tenant
          manager  \* manager[u]: the user u reports to, or NoUser

chartVars == <<staff, manager>>

-----------------------------------------------------------------------------
ChartInit ==
  /\ staff = {}
  /\ manager = [u \in Users |-> NoUser]

Join(u) ==
  /\ u \notin staff
  /\ staff' = staff \cup {u}
  /\ UNCHANGED manager

Assign(u, m) ==
  /\ u \in staff
  /\ manager' = [manager EXCEPT ![u] = m]
  /\ Forest(manager')
  /\ UNCHANGED staff

ChartNext ==
  \/ \E u \in Users : Join(u)
  \/ \E u, m \in Users : Assign(u, m)

ChartSpec == ChartInit /\ [][ChartNext]_chartVars
=============================================================================
