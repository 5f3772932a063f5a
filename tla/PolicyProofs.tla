---------------------------- MODULE PolicyProofs ----------------------------
(***************************************************************************)
(* Which way each mutation may turn a decision, for every set of policies,  *)
(* clearances and departments.  The properties quantify over the policies   *)
(* in force, so they follow from the evaluators alone: what has to be shown *)
(* is that a policy matches the same before and after where its clauses do  *)
(* not see the difference.                                                  *)
(***************************************************************************)
EXTENDS PolicyChanges, TLAPS

(* The decision is ALLOW exactly when no policy in force matches with DENY  *)
(* and one matches with ALLOW.                                              *)
InForce == FindApplicable(policies, "view", "employee")

LEMMA DecisionIs ==
  /\ Decision \in Effects
  /\ Decision = "ALLOW" <=> /\ \A p \in InForce : p.effect = "DENY" => ~ Matches(p, ctx)
                            /\ \E p \in InForce : p.effect = "ALLOW" /\ Matches(p, ctx)
BY DEF Decision, InForce, Evaluate, Matched, Effects

(* A matching ALLOW policy with a ceiling compares the subject's clearance  *)
(* with the sensitivity: policies without it are the only way past it.      *)
THEOREM CeilingsHold == Spec => []CeilingsProtect
<1>1. CeilingsProtect
  <2> SUFFICES ASSUME Decision = "ALLOW",
                      \A p \in policies : p.effect = "ALLOW" => p.maxSensitivity # NoLevel
               PROVE  MeetsClearance(ctx.clearance, ctx.sensitivity)
    BY DEF CeilingsProtect
  <2>1. PICK p \in InForce : p.effect = "ALLOW" /\ Matches(p, ctx)
    BY DecisionIs
  <2>2. p.maxSensitivity # NoLevel
    BY <2>1 DEF InForce, FindApplicable
  <2> QED
    BY <2>1, <2>2 DEF Matches, Abac
<1> QED
  BY <1>1, PTL

(* The policies that apply only grow, and the new one keeps its effect: the *)
(* decision it overturns, if any, is overturned by itself.                  *)
THEOREM NewPoliciesMoveTheirWay == Spec => NewPolicyMovesItsWay
<1>1. ASSUME [Next]_vars, policies' # policies
      PROVE  /\ Opens => \E p \in policies' \ policies : p.effect = "ALLOW"
             /\ Closes => \E p \in policies' \ policies : p.effect = "DENY"
  <2>1. PICK new \in PolicyPool : CreatePolicy(new)
    BY <1>1 DEF Next, vars, GrantPermission, UpdateUser, Reparented
  <2>2. ctx' = ctx /\ policies' = policies \cup {new} /\ new \notin policies
    BY <2>1 DEF CreatePolicy
  <2>3. /\ InForce \subseteq InForce'
        /\ InForce' \ InForce \subseteq policies' \ policies
    BY <2>2 DEF InForce, FindApplicable
  <2>4. Decision' = "ALLOW"
          <=> /\ \A p \in InForce' : p.effect = "DENY" => ~ Matches(p, ctx)
              /\ \E p \in InForce' : p.effect = "ALLOW" /\ Matches(p, ctx)
    BY <2>2, DecisionIs DEF Decision, InForce, Evaluate, Matched, Effects
  <2>5. ASSUME Opens
        PROVE  \E p \in policies' \ policies : p.effect = "ALLOW"
    BY <2>3, <2>4, <2>5, DecisionIs DEF Opens
  <2>6. ASSUME Closes
        PROVE  \E p \in policies' \ policies : p.effect = "DENY"
    BY <2>3, <2>4, <2>6, DecisionIs DEF Closes
  <2> QED
    BY <2>5, <2>6
<1> QED
  BY <1>1, PTL DEF Spec, NewPolicyMovesItsWay

(* What a step that leaves the policies alone may do to the decision: it    *)
(* closes an access only by a DENY that did not match, or by an ALLOW that  *)
(* matches no longer.                                                       *)
LEMMA ClosedBy ==
  ASSUME policies' = policies, Closes
  PROVE  \/ \E p \in policies : p.effect = "DENY" /\ ~ Matches(p, ctx) /\ Matches(p, ctx')
         \/ \E p \in policies : p.effect = "ALLOW" /\ Matches(p, ctx) /\ ~ Matches(p, ctx')
<1>1. InForce' = InForce /\ InForce \subseteq policies
  BY DEF InForce, FindApplicable
<1>2. ~ (/\ \A p \in InForce : p.effect = "DENY" => ~ Matches(p, ctx')
         /\ \E p \in InForce : p.effect = "ALLOW" /\ Matches(p, ctx'))
  BY <1>1 DEF Closes, Decision, InForce, Evaluate, Matched
<1>3. /\ \A p \in InForce : p.effect = "DENY" => ~ Matches(p, ctx)
      /\ \E p \in InForce : p.effect = "ALLOW" /\ Matches(p, ctx)
  BY DecisionIs DEF Closes
<1> QED
  BY <1>1, <1>2, <1>3

(* The facts keep their shape; the theorems below read them before and      *)
(* after a step.                                                            *)
THEOREM TypesHold == Spec => []TypeOK
<1>1. Init => TypeOK
  BY DEF Init, TypeOK
<1>2. ASSUME TypeOK, [Next]_vars
      PROVE  TypeOK'
  <2> USE <1>2 DEF TypeOK
  <2>1. ASSUME NEW p \in PolicyPool, CreatePolicy(p)
        PROVE  TypeOK'
    BY <2>1 DEF CreatePolicy
  <2>2. ASSUME NEW name, GrantPermission(name)
        PROVE  TypeOK'
    <3>1. (ctx.hasRbacPermission \/ HasRbacPermission({name}, "view", "employee")) \in BOOLEAN
      BY DEF HasRbacPermission
    <3> QED
      BY <2>2, <3>1 DEF GrantPermission
  <2>3. ASSUME NEW d \in Departments, NEW c \in Clearances, UpdateUser(d, c)
        PROVE  TypeOK'
    BY <2>3 DEF UpdateUser
  <2>4. ASSUME NEW r \in Relationships, Reparented(r)
        PROVE  TypeOK'
    BY <2>4 DEF Reparented
  <2>5. CASE UNCHANGED vars
    BY <2>5 DEF vars
  <2> QED
    BY <1>2, <2>1, <2>2, <2>3, <2>4, <2>5 DEF Next
<1> QED
  BY <1>1, <1>2, PTL DEF Spec

(* A permission that is granted makes more policies match and none fewer,   *)
(* and only a DENY that asks for it can turn the decision.                  *)
THEOREM GrantsCloseOnlyByRequest == Spec => GrantClosesOnlyByRequest
<1>1. ASSUME TypeOK, [Next]_vars, ctx'.hasRbacPermission # ctx.hasRbacPermission, Closes
      PROVE  \E p \in Denies : p.requirePermission = "yes"
  <2>1. PICK name \in {Star, "view", "edit", Wildcard("employee"), Wildcard("payroll")} :
          GrantPermission(name)
    <3>1. ASSUME NEW p \in PolicyPool, CreatePolicy(p)
          PROVE  FALSE
      BY <1>1, <3>1 DEF CreatePolicy
    <3>2. ASSUME NEW d \in Departments, NEW c \in Clearances, UpdateUser(d, c)
          PROVE  FALSE
      BY <1>1, <3>2 DEF UpdateUser, TypeOK
    <3>3. ASSUME NEW r \in Relationships, Reparented(r)
          PROVE  FALSE
      BY <1>1, <3>3 DEF Reparented, TypeOK
    <3> QED
      BY <1>1, <3>1, <3>2, <3>3 DEF Next, vars
  <2> DEFINE granted == ctx.hasRbacPermission
                          \/ HasRbacPermission({name}, "view", "employee")
  <2>2. /\ ctx' = [ctx EXCEPT !.hasRbacPermission = granted]
        /\ policies' = policies
    BY <2>1 DEF GrantPermission
  <2>3. /\ ctx'.department = ctx.department
        /\ ctx'.location = ctx.location
        /\ ctx'.employmentStatus = ctx.employmentStatus
        /\ ctx'.clearance = ctx.clearance
        /\ ctx'.sensitivity = ctx.sensitivity
        /\ ctx'.relationship = ctx.relationship
        /\ ctx'.hasRbacPermission = granted
    <3> HIDE DEF granted
    <3> QED
      BY <1>1, <2>2 DEF TypeOK
  <2>4. ctx.hasRbacPermission => ctx'.hasRbacPermission
    BY <2>3
  <2>5. ASSUME NEW p
        PROVE  /\ Abac(p, ctx') <=> Abac(p, ctx)
               /\ Satisfies(p.relationships, ctx'.relationship)
                    <=> Satisfies(p.relationships, ctx.relationship)
    <3> HIDE DEF granted
    <3> QED
      BY <2>3 DEF Abac
  <2>6. ASSUME NEW p, Matches(p, ctx)
        PROVE  Matches(p, ctx')
    BY <2>4, <2>5, <2>6, Zenon DEF Matches
  <2>7. PICK p \in policies : p.effect = "DENY" /\ ~ Matches(p, ctx) /\ Matches(p, ctx')
    BY <1>1, <2>2, <2>6, ClosedBy
  <2>8. RequiresPermission(p)
    BY <2>5, <2>7, Zenon DEF Matches
  <2>9. p.requirePermission = "yes"
    BY <2>7, <2>8 DEF RequiresPermission
  <2> QED
    BY <2>7, <2>9 DEF Denies
<1> QED
  BY <1>1, TypesHold, PTL DEF Spec, GrantClosesOnlyByRequest

(* With more clearance every comparison that held still holds, so an ALLOW  *)
(* policy that matched still does; a DENY policy that comes to match has    *)
(* compared the clearance, and so has one of the two clauses.               *)
THEOREM ClearanceClosesByClause == Spec => ClearanceClosesOnlyByClause
<1>1. ASSUME TypeOK, [Next]_vars,
             ctx'.clearance > ctx.clearance, ctx'.department = ctx.department, Closes
      PROVE  \E p \in Denies : \/ p.minClearance # NoLevel
                               \/ p.maxSensitivity # NoLevel
  <2>1. PICK d \in Departments, c \in Clearances : UpdateUser(d, c)
    <3>1. ASSUME NEW p \in PolicyPool, CreatePolicy(p)
          PROVE  ctx'.clearance = ctx.clearance
      BY <3>1 DEF CreatePolicy
    <3>2. ASSUME NEW name, GrantPermission(name)
          PROVE  ctx'.clearance = ctx.clearance
      <4> DEFINE granted == ctx.hasRbacPermission
                              \/ HasRbacPermission({name}, "view", "employee")
      <4>1. ctx' = [ctx EXCEPT !.hasRbacPermission = granted]
        BY <3>2 DEF GrantPermission
      <4> HIDE DEF granted
      <4> QED
        BY <1>1, <4>1 DEF TypeOK
    <3>3. ASSUME NEW r \in Relationships, Reparented(r)
          PROVE  ctx'.clearance = ctx.clearance
      BY <1>1, <3>3 DEF Reparented, TypeOK
    <3>4. ctx.clearance \in Int
      <4>1. ctx.clearance \in Clearances
        BY <1>1 DEF TypeOK
      <4>2. Clearances \subseteq 0 .. 4
        BY LevelsAssumption DEF Levels
      <4>3. \A n \in 0 .. 4 : n \in Int
        OBVIOUS
      <4> QED
        BY <4>1, <4>2, <4>3, Zenon
    <3>5. ctx'.clearance # ctx.clearance
      BY <1>1, <3>4
    <3> QED
      BY <1>1, <3>1, <3>2, <3>3, <3>5 DEF Next, vars
  <2>2. /\ policies' = policies
        /\ ctx'.department = ctx.department
        /\ ctx'.location = ctx.location
        /\ ctx'.employmentStatus = ctx.employmentStatus
        /\ ctx'.sensitivity = ctx.sensitivity
        /\ ctx'.relationship = ctx.relationship
        /\ ctx'.hasRbacPermission = ctx.hasRbacPermission
    BY <1>1, <2>1 DEF UpdateUser, TypeOK
  <2>3. /\ ctx.clearance \in Int
        /\ ctx'.clearance \in Int
        /\ ctx.sensitivity \in Int
        /\ ctx'.clearance >= ctx.clearance
    BY <1>1, <2>1, LevelsAssumption DEF UpdateUser, TypeOK, Levels
  <2>4. ASSUME NEW p \in policies, Matches(p, ctx)
        PROVE  Matches(p, ctx')
    <3>1. p.minClearance \in Int /\ p.maxSensitivity \in Int
      BY <1>1, LevelsAssumption DEF TypeOK, Levels, NoLevel
    <3>2. /\ MeetsClearance(ctx.clearance, p.minClearance)
               => MeetsClearance(ctx'.clearance, p.minClearance)
          /\ MeetsClearance(ctx.clearance, ctx.sensitivity)
               => MeetsClearance(ctx'.clearance, ctx.sensitivity)
      BY <2>3, <3>1 DEF MeetsClearance
    <3>3. Abac(p, ctx) => Abac(p, ctx')
      BY <2>2, <3>2 DEF Abac
    <3> QED
      BY <2>2, <2>4, <3>3 DEF Matches
  <2>5. PICK p \in policies : p.effect = "DENY" /\ ~ Matches(p, ctx) /\ Matches(p, ctx')
    BY <1>1, <2>2, <2>4, ClosedBy
  <2>6. ~ (p.minClearance = NoLevel /\ p.maxSensitivity = NoLevel)
    BY <2>2, <2>5 DEF Matches, Abac
  <2> QED
    BY <2>5, <2>6 DEF Denies
<1> QED
  BY <1>1, TypesHold, PTL DEF Spec, ClearanceClosesOnlyByClause
=============================================================================
