---------------------------- MODULE PolicyEngine ----------------------------
(***************************************************************************)
(* The evaluators of the authorization engine: which policies apply, when   *)
(* one matches (ReBAC, ABAC and RBAC clauses) and how the matching ones are *)
(* combined.  A policy is a record of its clauses; an absent or empty list  *)
(* is {} and an absent level NoLevel, which the code treats alike.          *)
(***************************************************************************)
EXTENDS Integers

CONSTANT Wildcard(_)   \* the permission name "<resourceType>.*"

Star == "*"

Relationships == {"SELF", "DIRECT_MANAGER", "ANCESTOR", "SIBLING", "NONE"}

Effects == {"ALLOW", "DENY"}

(* CLEARANCE_RANK: PUBLIC, INTERNAL, CONFIDENTIAL, SECRET, TOP_SECRET. *)
Levels == 0 .. 4
NoLevel == -1

MeetsClearance(subject, required) == subject >= required

(* A policy without clauses. *)
Unconditional(effect, action, resourceType) ==
  [effect |-> effect, action |-> action, resourceType |-> resourceType,
   enabled |-> TRUE, relationships |-> {}, departments |-> {},
   locations |-> {}, employmentStatuses |-> {}, minClearance |-> NoLevel,
   maxSensitivity |-> NoLevel, requirePermission |-> "default"]

(* findApplicable; priority orders the policies in the trace only. *)
FindApplicable(policies, action, resourceType) ==
  {p \in policies : /\ p.enabled
                    /\ p.action \in {action, Star}
                    /\ p.resourceType \in {resourceType, Star}}

HasRbacPermission(permissionNames, action, resourceType) ==
  \/ Star \in permissionNames
  \/ action \in permissionNames
  \/ Wildcard(resourceType) \in permissionNames

Satisfies(allowed, value) == allowed = {} \/ value \in allowed

(* Faults: the subject's clearance is not compared with the sensitivity;    *)
(* minClearance is compared the wrong way round.                            *)
AbacCeilingOnly(p, ctx) ==
  /\ Satisfies(p.departments, ctx.department)
  /\ Satisfies(p.locations, ctx.location)
  /\ Satisfies(p.employmentStatuses, ctx.employmentStatus)
  /\ p.minClearance # NoLevel => MeetsClearance(ctx.clearance, p.minClearance)
  /\ p.maxSensitivity # NoLevel => MeetsClearance(p.maxSensitivity, ctx.sensitivity)

AbacSwapped(p, ctx) ==
  /\ Satisfies(p.departments, ctx.department)
  /\ Satisfies(p.locations, ctx.location)
  /\ Satisfies(p.employmentStatuses, ctx.employmentStatus)
  /\ p.minClearance # NoLevel => MeetsClearance(p.minClearance, ctx.clearance)
  /\ p.maxSensitivity # NoLevel =>
       /\ MeetsClearance(p.maxSensitivity, ctx.sensitivity)
       /\ MeetsClearance(ctx.clearance, ctx.sensitivity)

(* abac.evaluator.ts.  The clearance of the subject is compared with the    *)
(* sensitivity of the resource under a maxSensitivity clause only.          *)
Abac(p, ctx) ==
  /\ Satisfies(p.departments, ctx.department)
  /\ Satisfies(p.locations, ctx.location)
  /\ Satisfies(p.employmentStatuses, ctx.employmentStatus)
  /\ p.minClearance # NoLevel => MeetsClearance(ctx.clearance, p.minClearance)
  /\ p.maxSensitivity # NoLevel =>
       /\ MeetsClearance(p.maxSensitivity, ctx.sensitivity)
       /\ MeetsClearance(ctx.clearance, ctx.sensitivity)

(* Fault: the default asks DENY policies for a permission, too. *)
RequiresPermissionAlways(p) == p.requirePermission # "no"

RequiresPermission(p) ==
  \/ p.requirePermission = "yes"
  \/ p.requirePermission = "default" /\ p.effect = "ALLOW"

Matches(p, ctx) ==
  /\ Satisfies(p.relationships, ctx.relationship)
  /\ Abac(p, ctx)
  /\ RequiresPermission(p) => ctx.hasRbacPermission

Matched(policies, effect, ctx) ==
  {p \in policies : p.effect = effect /\ Matches(p, ctx)}

(* Faults: an access no policy applies to is open; ALLOW overrides.         *)
EvaluateOpenByDefault(policies, ctx) ==
  IF \/ policies = {}
     \/ /\ Matched(policies, "DENY", ctx) = {}
        /\ Matched(policies, "ALLOW", ctx) # {}
  THEN "ALLOW" ELSE "DENY"

EvaluateAllowOverrides(policies, ctx) ==
  IF Matched(policies, "ALLOW", ctx) # {} THEN "ALLOW" ELSE "DENY"

(* policy.evaluator.ts: a matching DENY, else a matching ALLOW, else DENY.  *)
Evaluate(policies, ctx) ==
  IF Matched(policies, "DENY", ctx) # {} THEN "DENY"
  ELSE IF Matched(policies, "ALLOW", ctx) # {} THEN "ALLOW"
  ELSE "DENY"
=============================================================================
