--------------------------- MODULE PolicyChanges ---------------------------
(***************************************************************************)
(* One subject, one resource and the policies that apply to a request, as   *)
(* the mutations of the service change them one at a time: createPolicy,    *)
(* a permission granted through a role, updateUser (department, clearance)  *)
(* and a re-parenting that changes the relationship.  The properties say    *)
(* which way each change may turn the decision.                             *)
(***************************************************************************)
EXTENDS PolicyEngine, FiniteSets

CONSTANTS
  PolicyPool,    \* policies that may be created, each for the request
  Departments,   \* departments of the subject, the null department included
  Clearances,    \* clearances of the subject
  Sensitivities, \* sensitivities of the resource
  MaxPolicies    \* bound: policies of the tenant

ASSUME LevelsAssumption ==
  /\ Clearances \subseteq Levels
  /\ Sensitivities \subseteq Levels
  /\ \A p \in PolicyPool : /\ p.minClearance \in Levels \cup {NoLevel}
                          /\ p.maxSensitivity \in Levels \cup {NoLevel}

VARIABLES policies, ctx

vars == <<policies, ctx>>

Decision == Evaluate(FindApplicable(policies, "view", "employee"), ctx)

Init ==
  /\ policies = {}
  /\ \E s \in Sensitivities, c \in Clearances, d \in Departments,
        r \in Relationships :
       ctx = [department |-> d, location |-> "site",
              employmentStatus |-> "ACTIVE", clearance |-> c, sensitivity |-> s,
              relationship |-> r, hasRbacPermission |-> FALSE]

CreatePolicy(p) ==
  /\ p \notin policies
  /\ Cardinality(policies) < MaxPolicies
  /\ policies' = policies \cup {p}
  /\ UNCHANGED ctx

(* A role with the permission of the action, or a wildcard, is assigned.    *)
GrantPermission(name) ==
  /\ ctx' = [ctx EXCEPT !.hasRbacPermission =
               @ \/ HasRbacPermission({name}, "view", "employee")]
  /\ UNCHANGED policies

(* Fault: an update that names no clearance clears it. *)
UpdateUserClearing(d, c) ==
  /\ ctx' = [ctx EXCEPT !.department = d, !.clearance = NoLevel]
  /\ UNCHANGED policies

UpdateUser(d, c) ==
  /\ ctx' = [ctx EXCEPT !.department = d, !.clearance = c]
  /\ UNCHANGED policies

Reparented(r) ==
  /\ "SELF" \notin {r, ctx.relationship}
  /\ ctx' = [ctx EXCEPT !.relationship = r]
  /\ UNCHANGED policies

Next ==
  \/ \E p \in PolicyPool : CreatePolicy(p)
  \/ \E name \in {Star, "view", "edit", Wildcard("employee"), Wildcard("payroll")} :
       GrantPermission(name)
  \/ \E d \in Departments, c \in Clearances : UpdateUser(d, c)
  \/ \E r \in Relationships : Reparented(r)

Spec == Init /\ [][Next]_vars

-----------------------------------------------------------------------------
(* The policies and the facts of the request. *)
TypeOK ==
  /\ policies \subseteq PolicyPool
  /\ ctx \in [department : Departments, location : {"site"},
             employmentStatus : {"ACTIVE"}, clearance : Clearances,
             sensitivity : Sensitivities, relationship : Relationships,
             hasRbacPermission : BOOLEAN]

Opens  == Decision = "DENY" /\ Decision' = "ALLOW"
Closes == Decision = "ALLOW" /\ Decision' = "DENY"

Denies == {p \in policies : p.effect = "DENY"}

(* A new policy moves the decision its own way only: a DENY policy never    *)
(* opens an access and an ALLOW policy never closes one, whatever is        *)
(* already there and in whatever order they came.                           *)
NewPolicyMovesItsWay ==
  [][policies' # policies =>
       /\ Opens  => \E p \in policies' \ policies : p.effect = "ALLOW"
       /\ Closes => \E p \in policies' \ policies : p.effect = "DENY"]_vars

(* A grant never closes an access, unless a DENY policy asks for the very   *)
(* permission that was granted.                                             *)
GrantClosesOnlyByRequest ==
  [][ctx'.hasRbacPermission # ctx.hasRbacPermission /\ Closes =>
       \E p \in Denies : p.requirePermission = "yes"]_vars

(* More clearance never closes an access, unless a DENY policy has a        *)
(* clearance or a sensitivity clause; such a DENY spares the subjects below *)
(* the clearance.                                                           *)
ClearanceClosesOnlyByClause ==
  [][ctx'.clearance > ctx.clearance /\ ctx'.department = ctx.department /\ Closes =>
       \E p \in Denies : \/ p.minClearance # NoLevel
                         \/ p.maxSensitivity # NoLevel]_vars

(* A resource stays out of reach of a subject with less clearance than its  *)
(* sensitivity as long as every ALLOW policy states a ceiling.              *)
CeilingsProtect ==
  /\ Decision = "ALLOW"
  /\ \A p \in policies : p.effect = "ALLOW" => p.maxSensitivity # NoLevel
  => MeetsClearance(ctx.clearance, ctx.sensitivity)

=============================================================================
