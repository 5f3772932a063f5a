-------------------------- MODULE CheckAccessProofs -------------------------
(***************************************************************************)
(* For any policies, clearances and number of calls: what a decision that   *)
(* is put together from reads at different moments is worth.  The invariant *)
(* says of a call under way which policies of standing its reads satisfy,   *)
(* and, while one mutation at most overlaps it, that there are facts of one *)
(* moment with which its reads so far and its reads to come agree, or that  *)
(* the mutation made the owner's sibling his superior between the reads of  *)
(* getRelationship.                                                         *)
(***************************************************************************)
EXTENDS CheckAccess, TLAPS

Open == {"tenant", "subject", "resource", "permissions", "relationship",
         "managers", "policies"}

Statuses == {"ACTIVE", "SUSPENDED", "missing"}

Reads == [employmentStatus : Statuses, clearance : Ranks \cup {NoLevel},
          permission : BOOLEAN, relationship : Relationships,
          managers : [Ends -> Superiors]]

Records ==
  [pc : Open \cup {"idle", "audit", "return", "returned", "thrown"},
   effect : Effects \cup {""}, read : Reads,
   unread : SUBSET Ends, held : SUBSET Relationships,
   missedPermission : BOOLEAN, missedPolicies : SUBSET PolicyPool,
   overlapped : Nat, couldAllow : BOOLEAN,
   denying : SUBSET PolicyPool, standing : SUBSET PolicyPool]

-----------------------------------------------------------------------------
(* The clauses of a policy, by the read that answers them.                  *)
FixedClauses(p) ==
  /\ Satisfies(p.departments, "none") /\ Satisfies(p.locations, "none")
  /\ p.maxSensitivity # NoLevel => MeetsClearance(p.maxSensitivity, Sensitivity)

SubjectClauses(p, f) ==
  /\ Satisfies(p.employmentStatuses, f.employmentStatus)
  /\ p.minClearance # NoLevel => MeetsClearance(f.clearance, p.minClearance)
  /\ p.maxSensitivity # NoLevel => MeetsClearance(f.clearance, Sensitivity)

PermissionClause(p, f) == RequiresPermission(p) => f.permission = TRUE

RelationshipClause(p, r) == Satisfies(p.relationships, r)

LEMMA MatchesIs ==
  ASSUME NEW p, NEW f, NEW r, f.permission \in BOOLEAN
  PROVE  Matches(p, Context(f, r)) <=>
           /\ FixedClauses(p) /\ SubjectClauses(p, f)
           /\ PermissionClause(p, f) /\ RelationshipClause(p, r)
BY DEF Matches, Abac, Context, FixedClauses, SubjectClauses, PermissionClause,
       RelationshipClause

(* A policy of standing: it matches now, and what has been read satisfies   *)
(* its clauses, as do the relationships there were since the first read of  *)
(* the closure table.                                                       *)
Stands(k, p, f, log) ==
  /\ p \in DenyingOn(f, log)
  /\ k.pc \in Open \ {"tenant", "subject"} => SubjectClauses(p, k.read)
  /\ k.pc \in {"relationship", "managers", "policies"} /\ k.missedPermission = FALSE =>
       PermissionClause(p, k.read)
  /\ k.pc \in {"managers", "policies"} => \A r \in k.held : RelationshipClause(p, r)

(* The relationship the call has been answered, or would be if nothing      *)
(* changed before its reads of the managers.                                *)
Sees(k, now, end) ==
  IF end \in k.unread THEN now.managers[end] ELSE k.read.managers[end]

Siblings(k, now) ==
  Sees(k, now, "subject") = Sees(k, now, "owner") /\ Sees(k, now, "owner") # NoManager

Answer(k, now) ==
  IF k.pc = "policies" THEN k.read.relationship
  ELSE IF Siblings(k, now) THEN "SIBLING" ELSE "NONE"

SameChart(f, g) == f.owner = g.owner /\ f.managers = g.managers /\ f.above = g.above

(* The facts f are what the call k has read, and otherwise what the facts   *)
(* are now.  Cached names may lack the permission, and k knows if they do.  *)
Agrees(k, f, now) ==
  /\ f.tenant = IF k.pc = "tenant" THEN now.tenant ELSE "ACTIVE"
  /\ IF k.pc \in {"tenant", "subject"}
     THEN f.employmentStatus = now.employmentStatus /\ f.clearance = now.clearance
     ELSE /\ f.employmentStatus = "ACTIVE" /\ k.read.employmentStatus = "ACTIVE"
          /\ f.clearance = k.read.clearance
  /\ f.resource = IF k.pc \in {"tenant", "subject", "resource"} THEN now.resource ELSE TRUE
  /\ IF k.pc \in {"relationship", "managers", "policies"}
     THEN /\ k.read.permission = TRUE => f.permission = TRUE
          /\ k.missedPermission = FALSE => f.permission = k.read.permission
     ELSE f.permission = now.permission
  /\ IF k.pc \in {"managers", "policies"} THEN Relationship(f) = Answer(k, now)
     ELSE SameChart(f, now)

(* What the call has read of the managers is what they are now, and there   *)
(* is no row from the subject to the owner.                                 *)
Knows(k, now) ==
  k.pc = "managers" =>
    /\ ~ Answers(now)
    /\ \A end \in Ends \ k.unread : k.read.managers[end] = now.managers[end]

(* The sibling became a superior after the row was read. *)
Promoted(k, now) ==
  /\ k.pc \in {"managers", "policies"} /\ Answer(k, now) = "NONE"
  /\ "SIBLING" \in k.held /\ k.held \cap {"DIRECT_MANAGER", "ANCESTOR"} # {}

(* held and unread while the call is at its stages. *)
Asking(k, now) ==
  /\ k.pc \notin {"managers", "policies"} => k.unread = Ends
  /\ k.pc = "managers" => Relationship(now) \in k.held

(* The call has recorded what was allowed and denied with the facts g.      *)
Recorded(k, g, log) ==
  /\ DecisionOn(g, log) = "ALLOW" => k.couldAllow = TRUE
  /\ DenyingOn(g, log) \subseteq k.denying

AllStand(k, f, log) == \A p \in k.standing : Stands(k, p, f, log)

Undisturbed(k, f) == k.overlapped = 0 => Agrees(k, f, f) /\ Knows(k, f)

DisturbedOnce(k, f, log) ==
  k.overlapped = 1 =>
    \/ \E g \in Facts : Agrees(k, g, f) /\ Recorded(k, g, log)
    \/ Promoted(k, f)

Underway(k, f, log) ==
  /\ k.effect = "" /\ Asking(k, f)
  /\ Recorded(k, f, log) /\ AllStand(k, f, log)
  /\ Undisturbed(k, f) /\ DisturbedOnce(k, f, log)

Missed(k, p) ==
  \/ p \in k.missedPolicies
  \/ k.missedPermission = TRUE /\ RequiresPermission(p)
  \/ k.read.relationship \notin k.held /\ p.relationships # {}

Overtaken(k) ==
  /\ k.read.relationship = "NONE"
  /\ "SIBLING" \in k.held /\ k.held \cap {"DIRECT_MANAGER", "ANCESTOR"} # {}

DenyStood(k) == \A p \in k.standing : k.effect = "DENY" \/ Missed(k, p)

AllowWasRight(k) ==
  k.effect = "ALLOW" /\ k.overlapped <= 1 =>
    \/ k.couldAllow = TRUE
    \/ \E p \in k.denying : Missed(k, p)
    \/ Overtaken(k)

Concluded(k) == k.effect # "" => DenyStood(k) /\ AllowWasRight(k)

CallOK(k, f, log) ==
  /\ k.pc = "idle" => k = NotCalled
  /\ k.pc \in Open => Underway(k, f, log)
  /\ k.standing \subseteq k.denying
  /\ k.pc \in {"audit", "return", "returned"} => k.effect \in Effects
  /\ Concluded(k)

(* The audit rows of a call. *)
Audited(c, k, rows) ==
  /\ \A e \in Effects : <<c, e>> \in rows =>
       k.pc \in {"return", "returned", "thrown"} /\ e = k.effect
  /\ k.pc \in {"return", "returned"} => <<c, k.effect>> \in rows

Types ==
  /\ facts \in Facts
  /\ policies \in Seq(PolicyPool)
  /\ call \in [Calls -> Records]
  /\ audit \subseteq Calls \X Effects
  /\ changes \in 0 .. MaxChanges

Inv ==
  /\ Types
  /\ \A c \in Calls : /\ CallOK(call[c], facts, policies)
                      /\ Audited(c, call[c], audit)
                      /\ call[c].overlapped <= changes

-----------------------------------------------------------------------------
LEMMA DecisionIs ==
  ASSUME NEW f, NEW log
  PROVE  DecisionOn(f, log) \in Effects
BY DEF DecisionOn, Evaluate, Effects

LEMMA NotCalledType == NotCalled \in Records
BY DEF NotCalled, Records, Reads, Statuses, Effects, Relationships, Superiors

LEMMA RelationshipType ==
  ASSUME NEW f
  PROVE  Relationship(f) \in Relationships
BY DEF Relationship, Relationships

LEMMA SameChartRelationship ==
  ASSUME NEW f, NEW g, SameChart(f, g)
  PROVE  Relationship(f) = Relationship(g)
BY DEF SameChart, Relationship

(* A step of one call that leaves the facts and policies alone. *)
LEMMA OneCallKeeps ==
  ASSUME Inv, NEW c \in Calls, NEW k \in Records,
         UNCHANGED <<facts, policies, changes>>,
         call' = [call EXCEPT ![c] = k],
         audit' \subseteq Calls \X Effects,
         \A d \in Calls \ {c}, e \in Effects :
            <<d, e>> \in audit' <=> <<d, e>> \in audit,
         CallOK(k, facts, policies), Audited(c, k, audit'),
         k.overlapped = call[c].overlapped \/ k.overlapped = 0
  PROVE  Inv'
<1>1. Types'
  BY DEF Inv, Types
<1>2. \A d \in Calls : call'[d] = IF d = c THEN k ELSE call[d]
  BY DEF Inv, Types
<1>3. ASSUME NEW d \in Calls
      PROVE  /\ CallOK(call'[d], facts', policies')
             /\ Audited(d, call'[d], audit')
             /\ call'[d].overlapped <= changes'
  <2>1. CASE d = c
    BY <1>2, <2>1 DEF Inv, Types
  <2>2. CASE d # c
    <3>1. CallOK(call[d], facts, policies) /\ Audited(d, call[d], audit)
      BY DEF Inv
    <3>2. call[d].pc \in {"return", "returned"} => call[d].effect \in Effects
      BY <3>1 DEF CallOK
    <3>3. Audited(d, call[d], audit')
      BY <2>2, <3>1, <3>2 DEF Audited
    <3>4. QED
      BY <1>2, <2>2, <3>1, <3>3 DEF Inv
  <2>3. QED
    BY <2>1, <2>2
<1>4. QED
  BY <1>1, <1>3 DEF Inv

(* A call that has not decided reads one more fact and becomes k.           *)
LEMMA OpenKeeps ==
  ASSUME Inv, NEW c \in Calls, call[c].pc \in Open,
         NEW k \in Records, k.pc \in Open,
         UNCHANGED <<facts, policies, audit, changes>>,
         call' = [call EXCEPT ![c] = k],
         k.effect = call[c].effect, k.overlapped = call[c].overlapped,
         k.couldAllow = call[c].couldAllow, k.standing = call[c].standing,
         k.denying = call[c].denying,
         \A p : Stands(call[c], p, facts, policies) => Stands(k, p, facts, policies),
         \A f \in Facts : Agrees(call[c], f, facts) => Agrees(k, f, facts),
         Knows(call[c], facts) => Knows(k, facts),
         Promoted(call[c], facts) => Promoted(k, facts),
         Asking(k, facts)
  PROVE  Inv'
<1>1. /\ Underway(call[c], facts, policies) /\ Audited(c, call[c], audit)
      /\ facts \in Facts /\ Types /\ call[c].standing \subseteq call[c].denying
  BY DEF Inv, CallOK, Types
<1>2. /\ Recorded(call[c], facts, policies) /\ AllStand(call[c], facts, policies)
      /\ Undisturbed(call[c], facts) /\ DisturbedOnce(call[c], facts, policies)
      /\ k.effect = ""
  BY <1>1 DEF Underway
<1>3. Underway(k, facts, policies)
  <2>1. Recorded(k, facts, policies)
    BY <1>2 DEF Recorded
  <2>2. AllStand(k, facts, policies)
    BY <1>2 DEF AllStand
  <2>3. Undisturbed(k, facts)
    BY <1>1, <1>2 DEF Undisturbed
  <2>4. ASSUME k.overlapped = 1
        PROVE  \/ \E g \in Facts : Agrees(k, g, facts) /\ Recorded(k, g, policies)
               \/ Promoted(k, facts)
    <3>1. CASE \E g \in Facts : Agrees(call[c], g, facts) /\ Recorded(call[c], g, policies)
      <4>1. PICK g \in Facts : Agrees(call[c], g, facts) /\ Recorded(call[c], g, policies)
        BY <3>1
      <4>2. Recorded(k, g, policies)
        BY <4>1 DEF Recorded
      <4>3. QED
        BY <4>1, <4>2
    <3>2. QED
      BY <1>2, <2>4, <3>1 DEF DisturbedOnce
  <2>5. DisturbedOnce(k, facts, policies)
    BY <2>4 DEF DisturbedOnce
  <2>6. QED
    BY <1>2, <2>1, <2>2, <2>3, <2>5 DEF Underway
<1>4. CallOK(k, facts, policies)
  BY <1>1, <1>2, <1>3 DEF CallOK, Concluded, Open
<1>5. Audited(c, k, audit)
  BY <1>1 DEF Audited, Open
<1>6. audit' \subseteq Calls \X Effects
  BY <1>1 DEF Types
<1>7. QED
  BY <1>4, <1>5, <1>6, OneCallKeeps

LEMMA LearnKeeps ==
  ASSUME Inv, NEW c \in Calls, NEW from \in {"tenant", "subject", "resource"},
         NEW next \in {"subject", "resource", "permissions"},
         NEW known \in Reads, Learn(c, from, next, known),
         \A k \in Records :
            k.pc = next /\ k.read = known /\ k.missedPermission = call[c].missedPermission =>
              /\ \A p : Stands(call[c], p, facts, policies) => Stands(k, p, facts, policies)
              /\ \A f \in Facts : Agrees(call[c], f, facts) => Agrees(k, f, facts)
  PROVE  Inv'
<1> DEFINE k == [call[c] EXCEPT !.pc = next, !.read = known]
<1>1. /\ call[c] \in Records /\ call[c].pc = from /\ call[c].pc \in Open
      /\ call[c].unread = Ends
  BY DEF Learn, Inv, Types, Open, CallOK, Underway, Asking
<1>2. /\ call' = [call EXCEPT ![c] = k]
      /\ UNCHANGED <<facts, policies, audit, changes>>
  BY DEF Learn
<1>3. /\ k \in Records /\ k.pc = next /\ k.read = known /\ k.unread = Ends
      /\ k.effect = call[c].effect /\ k.missedPermission = call[c].missedPermission
      /\ k.overlapped = call[c].overlapped /\ k.couldAllow = call[c].couldAllow
      /\ k.denying = call[c].denying /\ k.standing = call[c].standing
  BY <1>1 DEF Records, Open
<1> HIDE DEF k
<1>4. /\ Knows(k, facts) /\ ~ Promoted(call[c], facts) /\ Asking(k, facts)
      /\ k.pc \in Open
  BY <1>1, <1>3 DEF Knows, Promoted, Asking, Open
<1>5. QED
  BY <1>1, <1>2, <1>3, <1>4, OpenKeeps

LEMMA RefuseKeeps ==
  ASSUME Inv, NEW c \in Calls, NEW from \in Open, Refuse(c, from)
  PROVE  Inv'
<1> DEFINE k == [call[c] EXCEPT !.pc = "audit", !.effect = "DENY"]
<1>1. /\ call[c] \in Records /\ call[c].pc \in Open /\ Types
      /\ CallOK(call[c], facts, policies)
  BY DEF Refuse, Inv, Types
<1>2. /\ call' = [call EXCEPT ![c] = k]
      /\ UNCHANGED <<facts, policies, audit, changes>>
  BY DEF Refuse
<1>3. /\ k \in Records /\ k.pc = "audit" /\ k.effect = "DENY"
      /\ k.overlapped = call[c].overlapped
      /\ k.denying = call[c].denying /\ k.standing = call[c].standing
  BY <1>1 DEF Records, Effects
<1> HIDE DEF k
<1>4. CallOK(k, facts, policies)
  BY <1>1, <1>3 DEF CallOK, Concluded, DenyStood, AllowWasRight, Open, Effects
<1>5. Audited(c, call[c], audit)
  BY DEF Inv
<1>6. Audited(c, k, audit)
  BY <1>1, <1>3, <1>5 DEF Audited, Open
<1>7. audit' \subseteq Calls \X Effects
  BY <1>1, <1>2 DEF Types
<1>8. QED
  BY <1>2, <1>3, <1>4, <1>6, <1>7, OneCallKeeps

-----------------------------------------------------------------------------
LEMMA StartKeeps ==
  ASSUME Inv, NEW c \in Calls, Start(c)
  PROVE  Inv'
<1> DEFINE could == DecisionOn(facts, policies) = "ALLOW"
           deny == DenyingOn(facts, policies)
           k == [NotCalled EXCEPT !.pc = "tenant", !.couldAllow = could,
                                !.denying = deny, !.standing = deny]
<1>1. Types /\ Audited(c, call[c], audit)
  BY DEF Inv
<1>2. /\ call' = [call EXCEPT ![c] = k]
      /\ UNCHANGED <<facts, policies, audit, changes>>
  BY DEF Start
<1>3. deny \in SUBSET PolicyPool
  BY <1>1 DEF Types, DenyingOn, Matched, PolicyRows, FindApplicable
<1>4. could \in BOOLEAN
  OBVIOUS
<1> HIDE DEF could, deny
<1>5. /\ k \in Records /\ k.pc = "tenant" /\ k.effect = ""
      /\ k.overlapped = 0 /\ k.couldAllow = could
      /\ k.denying = deny /\ k.standing = deny /\ k.unread = Ends
  BY <1>3, <1>4, NotCalledType DEF NotCalled, Records, Open
<1> HIDE DEF k
<1>6. Undisturbed(k, facts) /\ Asking(k, facts)
  BY <1>5 DEF Agrees, Undisturbed, Knows, Asking, SameChart
<1>7. AllStand(k, facts, policies)
  <2>1. SUFFICES ASSUME NEW p \in k.standing
                 PROVE  Stands(k, p, facts, policies)
    BY DEF AllStand
  <2>2. p \in DenyingOn(facts, policies)
    BY <1>5, <2>1, Zenon DEF deny
  <2>3. QED
    BY <1>5, <2>2 DEF Stands, Open
<1>8. Recorded(k, facts, policies)
  <2>1. k.couldAllow = (DecisionOn(facts, policies) = "ALLOW")
    BY <1>5, Zenon DEF could
  <2>2. k.denying = DenyingOn(facts, policies)
    BY <1>5, Zenon DEF deny
  <2>3. QED
    BY <2>1, <2>2, Zenon DEF Recorded
<1>9. Underway(k, facts, policies)
  <2>1. k.overlapped = 0
    BY <1>5, Zenon
  <2>2. DisturbedOnce(k, facts, policies)
    BY <2>1 DEF DisturbedOnce
  <2>3. k.effect = ""
    BY <1>5, Zenon
  <2>4. QED
    BY <1>6, <1>7, <1>8, <2>2, <2>3, Zenon DEF Underway
<1>10. CallOK(k, facts, policies)
  BY <1>5, <1>9 DEF CallOK, Concluded
<1>11. Audited(c, k, audit)
  <2>1. call[c].pc = "idle"
    <3>1. call[c] = NotCalled
      BY DEF Start
    <3>2. NotCalled.pc = "idle"
      BY DEF NotCalled
    <3>3. QED
      BY <3>1, <3>2
  <2>2. \A e \in Effects : <<c, e>> \notin audit
    BY <1>1, <2>1 DEF Audited
  <2>3. QED
    BY <1>5, <2>2 DEF Audited
<1>12. audit' \subseteq Calls \X Effects
  BY <1>1, <1>2 DEF Types
<1>13. QED
  BY <1>2, <1>5, <1>10, <1>11, <1>12, OneCallKeeps

LEMMA ValidateTenantKeeps ==
  ASSUME Inv, NEW c \in Calls, ValidateTenant(c)
  PROVE  Inv'
<1>1. CASE facts.tenant = "ACTIVE" /\ Learn(c, "tenant", "subject", call[c].read)
  <2>1. call[c].pc = "tenant" /\ call[c] \in Records
    BY <1>1 DEF Learn, Inv, Types
  <2>2. call[c].read \in Reads
    BY <2>1 DEF Records
  <2>3. ASSUME NEW k \in Records, k.pc = "subject", k.read = call[c].read
        PROVE  /\ \A p : Stands(call[c], p, facts, policies) => Stands(k, p, facts, policies)
               /\ \A f \in Facts : Agrees(call[c], f, facts) => Agrees(k, f, facts)
    BY <1>1, <2>1, <2>3 DEF Stands, Agrees
  <2>4. QED
    BY <1>1, <2>2, <2>3, LearnKeeps
<1>2. CASE Refuse(c, "tenant")
  BY <1>2, RefuseKeeps DEF Open
<1>3. QED
  BY <1>1, <1>2 DEF ValidateTenant

(* What a standing policy says of the facts there are now. *)
LEMMA StandingClauses ==
  ASSUME Inv, NEW p, p \in DenyingOn(facts, policies)
  PROVE  /\ FixedClauses(p) /\ SubjectClauses(p, facts)
         /\ PermissionClause(p, facts) /\ RelationshipClause(p, Relationship(facts))
<1>1. facts.permission \in BOOLEAN
  BY DEF Inv, Types, Facts
<1>2. Matches(p, Context(facts, Relationship(facts)))
  BY DEF DenyingOn, Matched
<1>3. QED
  BY <1>1, <1>2, MatchesIs

LEMMA ValidateSubjectKeeps ==
  ASSUME Inv, NEW c \in Calls, ValidateSubject(c)
  PROVE  Inv'
<1> DEFINE known == [call[c].read EXCEPT !.employmentStatus = facts.employmentStatus,
                                         !.clearance = facts.clearance]
<1>1. CASE facts.employmentStatus = "ACTIVE" /\ Learn(c, "subject", "resource", known)
  <2>1. call[c].pc = "subject" /\ call[c] \in Records /\ facts \in Facts
    BY <1>1 DEF Learn, Inv, Types
  <2>2. /\ known \in Reads
        /\ known.employmentStatus = facts.employmentStatus
        /\ known.clearance = facts.clearance
    <3>1. facts.employmentStatus \in Statuses /\ facts.clearance \in Ranks
      BY <2>1 DEF Facts, Statuses
    <3>2. call[c].read \in Reads
      BY <2>1 DEF Records
    <3>3. QED
      BY <3>1, <3>2 DEF Reads
  <2> HIDE DEF known
  <2>3. ASSUME NEW k \in Records, k.pc = "resource", k.read = known
        PROVE  /\ \A p : Stands(call[c], p, facts, policies) => Stands(k, p, facts, policies)
               /\ \A f \in Facts : Agrees(call[c], f, facts) => Agrees(k, f, facts)
    <3>1. ASSUME NEW p, Stands(call[c], p, facts, policies)
          PROVE  Stands(k, p, facts, policies)
      <4>1. p \in DenyingOn(facts, policies) /\ SubjectClauses(p, facts)
        BY <3>1, StandingClauses DEF Stands
      <4>2. SubjectClauses(p, k.read)
        BY <2>2, <2>3, <4>1 DEF SubjectClauses
      <4>3. QED
        BY <2>3, <4>1, <4>2 DEF Stands
    <3>2. \A f \in Facts : Agrees(call[c], f, facts) => Agrees(k, f, facts)
      BY <1>1, <2>1, <2>2, <2>3 DEF Agrees
    <3>3. QED
      BY <3>1, <3>2
  <2>4. QED
    BY <1>1, <2>2, <2>3, LearnKeeps
<1>2. CASE Refuse(c, "subject")
  BY <1>2, RefuseKeeps DEF Open
<1>3. QED
  BY <1>1, <1>2 DEF ValidateSubject

LEMMA ValidateResourceKeeps ==
  ASSUME Inv, NEW c \in Calls, ValidateResource(c)
  PROVE  Inv'
<1>1. CASE facts.resource /\ Learn(c, "resource", "permissions", call[c].read)
  <2>1. /\ call[c].pc = "resource" /\ call[c] \in Records
        /\ facts \in Facts /\ facts.resource
    BY <1>1 DEF Learn, Inv, Types
  <2>2. call[c].read \in Reads /\ facts.resource = TRUE
    BY <2>1 DEF Records, Facts
  <2>3. ASSUME NEW k \in Records, k.pc = "permissions", k.read = call[c].read
        PROVE  /\ \A p : Stands(call[c], p, facts, policies) => Stands(k, p, facts, policies)
               /\ \A f \in Facts : Agrees(call[c], f, facts) => Agrees(k, f, facts)
    <3>1. \A p : Stands(call[c], p, facts, policies) => Stands(k, p, facts, policies)
      BY <2>1, <2>3 DEF Stands, Open
    <3>2. \A f \in Facts : Agrees(call[c], f, facts) => Agrees(k, f, facts)
      BY <2>1, <2>2, <2>3 DEF Agrees
    <3>3. QED
      BY <3>1, <3>2
  <2>4. QED
    BY <1>1, <2>2, <2>3, LearnKeeps
<1>2. CASE Refuse(c, "resource")
  BY <1>2, RefuseKeeps DEF Open
<1>3. QED
  BY <1>1, <1>2 DEF ValidateResource

LEMMA ReadPermissionsKeeps ==
  ASSUME Inv, NEW c \in Calls, ReadPermissions(c)
  PROVE  Inv'
<1>1. PICK cached \in {FALSE, facts.permission} :
        /\ call[c].pc = "permissions"
        /\ call' = [call EXCEPT ![c] = Permitted(call[c], cached)]
        /\ UNCHANGED <<facts, policies, audit, changes>>
  BY DEF ReadPermissions
<1> DEFINE known == [call[c].read EXCEPT !.permission = cached]
           lacks == cached # facts.permission
           k == Permitted(call[c], cached)
<1>2. /\ call[c] \in Records /\ facts \in Facts /\ call[c].unread = Ends
      /\ facts.permission \in BOOLEAN /\ cached \in BOOLEAN
  BY <1>1 DEF Inv, Types, Facts, CallOK, Underway, Asking, Open
<1>3. call' = [call EXCEPT ![c] = k]
  BY <1>1
<1>4. known \in Reads /\ known.permission = cached
  /\ known.employmentStatus = call[c].read.employmentStatus
  /\ known.clearance = call[c].read.clearance
  BY <1>2 DEF Records, Reads
<1>5. lacks \in BOOLEAN
  OBVIOUS
<1>6. /\ k \in Records /\ k.pc = "relationship" /\ k.read = known
      /\ k.unread = Ends
      /\ k.effect = call[c].effect /\ k.overlapped = call[c].overlapped
      /\ k.couldAllow = call[c].couldAllow
      /\ k.denying = call[c].denying /\ k.standing = call[c].standing
  BY <1>2, <1>4, <1>5 DEF Records, Open, Permitted
<1>7. /\ k.missedPermission = FALSE => cached = facts.permission
      /\ cached = TRUE => facts.permission = TRUE
  <2>1. k.missedPermission = lacks
    BY <1>2 DEF Records, Permitted
  <2> HIDE DEF k
  <2>2. QED
    BY <2>1
<1> HIDE DEF k, known, lacks
<1>8. ASSUME NEW p, Stands(call[c], p, facts, policies)
      PROVE  Stands(k, p, facts, policies)
  <2>1. /\ p \in DenyingOn(facts, policies) /\ PermissionClause(p, facts)
        /\ SubjectClauses(p, call[c].read)
    BY <1>1, <1>8, StandingClauses DEF Stands, Open
  <2>2. SubjectClauses(p, k.read)
    BY <1>4, <1>6, <2>1 DEF SubjectClauses
  <2>3. k.missedPermission = FALSE => PermissionClause(p, k.read)
    BY <1>4, <1>6, <1>7, <2>1 DEF PermissionClause
  <2>4. QED
    BY <1>6, <2>1, <2>2, <2>3 DEF Stands
<1>9. \A f \in Facts : Agrees(call[c], f, facts) => Agrees(k, f, facts)
  BY <1>1, <1>4, <1>6, <1>7 DEF Agrees
<1>10. Knows(k, facts) /\ ~ Promoted(call[c], facts) /\ Asking(k, facts)
  BY <1>1, <1>6 DEF Knows, Promoted, Asking
<1>11. QED
  BY <1>1, <1>3, <1>6, <1>7, <1>8, <1>9, <1>10, OpenKeeps DEF Open

(* What a step of getRelationship leaves alone of a call. *)
SameButChart(k, l) ==
  /\ k.effect = l.effect /\ k.overlapped = l.overlapped
  /\ k.couldAllow = l.couldAllow /\ k.missedPermission = l.missedPermission
  /\ k.denying = l.denying /\ k.standing = l.standing
  /\ k.read.employmentStatus = l.read.employmentStatus
  /\ k.read.clearance = l.read.clearance
  /\ k.read.permission = l.read.permission

LEMMA AskedIs ==
  ASSUME NEW k \in Records, NEW f \in Facts, NEW a, a = Asked(k, f)
  PROVE  /\ a \in Records /\ SameButChart(a, k)
         /\ a.unread = k.unread /\ a.held = {Relationship(f)}
         /\ Answers(f) => a.pc = "policies" /\ a.read.relationship = Relationship(f)
         /\ ~ Answers(f) => a.pc = "managers"
<1> DEFINE pc == IF Answers(f) THEN "policies" ELSE "managers"
           known == IF Answers(f) THEN [k.read EXCEPT !.relationship = Relationship(f)]
                    ELSE k.read
           now == {Relationship(f)}
<1>1. k.read \in Reads
  BY DEF Records
<1>2. /\ known \in Reads /\ known.employmentStatus = k.read.employmentStatus
      /\ known.clearance = k.read.clearance /\ known.permission = k.read.permission
      /\ Answers(f) => known.relationship = Relationship(f)
  BY <1>1, RelationshipType DEF Reads
<1>3. pc \in Open /\ now \in SUBSET Relationships
  BY RelationshipType DEF Open
<1>4. a = [k EXCEPT !.pc = pc, !.read = known, !.held = now]
  BY DEF Asked
<1>5. (Answers(f) => pc = "policies") /\ (~ Answers(f) => pc = "managers")
  OBVIOUS
<1>6. now = {Relationship(f)}
  OBVIOUS
<1> HIDE DEF pc, known, now
<1>7. /\ a \in Records /\ a.pc = pc /\ a.read = known /\ a.held = now
      /\ a.unread = k.unread /\ a.effect = k.effect /\ a.overlapped = k.overlapped
      /\ a.couldAllow = k.couldAllow /\ a.missedPermission = k.missedPermission
      /\ a.denying = k.denying /\ a.standing = k.standing
  BY <1>2, <1>3, <1>4 DEF Records
<1>8. QED
  BY <1>2, <1>5, <1>6, <1>7 DEF SameButChart

LEMMA ResolveRelationshipKeeps ==
  ASSUME Inv, NEW c \in Calls, ResolveRelationship(c)
  PROVE  Inv'
<1> DEFINE k == Asked(call[c], facts)
<1>1. /\ call[c].pc = "relationship" /\ call[c] \in Records /\ facts \in Facts
      /\ call[c].unread = Ends
  BY DEF ResolveRelationship, Inv, Types, CallOK, Underway, Asking, Open
<1>2. /\ call' = [call EXCEPT ![c] = k]
      /\ UNCHANGED <<facts, policies, audit, changes>>
  BY DEF ResolveRelationship
<1>3. /\ k \in Records /\ SameButChart(k, call[c])
      /\ k.unread = Ends /\ k.held = {Relationship(facts)}
      /\ Answers(facts) => k.pc = "policies" /\ k.read.relationship = Relationship(facts)
      /\ ~ Answers(facts) => k.pc = "managers"
  BY <1>1, AskedIs
<1> HIDE DEF k
<1>4. k.pc \in {"managers", "policies"}
  BY <1>3
<1>5. Relationship(facts) = Answer(k, facts)
  <2>1. CASE Answers(facts)
    BY <1>3, <2>1 DEF Answer
  <2>2. CASE ~ Answers(facts)
    BY <1>3, <2>2 DEF Answer, Answers, SubjectIsAbove, Relationship, Siblings, Sees,
                      SameManager, Ends
  <2>3. QED
    BY <2>1, <2>2
<1>6. ASSUME NEW p, Stands(call[c], p, facts, policies)
      PROVE  Stands(k, p, facts, policies)
  <2>1. /\ p \in DenyingOn(facts, policies) /\ RelationshipClause(p, Relationship(facts))
        /\ SubjectClauses(p, call[c].read)
        /\ call[c].missedPermission = FALSE => PermissionClause(p, call[c].read)
    BY <1>1, <1>6, StandingClauses DEF Stands, Open
  <2>2. SubjectClauses(p, k.read)
    BY <1>3, <2>1 DEF SubjectClauses, SameButChart
  <2>3. k.missedPermission = FALSE => PermissionClause(p, k.read)
    BY <1>3, <2>1 DEF PermissionClause, SameButChart
  <2>4. \A r \in k.held : RelationshipClause(p, r)
    BY <1>3, <2>1
  <2>5. QED
    BY <2>1, <2>2, <2>3, <2>4 DEF Stands
<1>7. ASSUME NEW f \in Facts, Agrees(call[c], f, facts)
      PROVE  Agrees(k, f, facts)
  <2>1. Relationship(f) = Answer(k, facts)
    <3>1. SameChart(f, facts)
      BY <1>1, <1>7 DEF Agrees
    <3>2. QED
      BY <1>5, <3>1, SameChartRelationship
  <2>2. QED
    BY <1>1, <1>3, <1>4, <1>7, <2>1 DEF Agrees, SameButChart
<1>8. Knows(k, facts) /\ ~ Promoted(call[c], facts) /\ Asking(k, facts)
  BY <1>1, <1>3, <1>4 DEF Knows, Promoted, Asking
<1>9. k.pc \in Open /\ call[c].pc \in Open
  BY <1>1, <1>4 DEF Open
<1>10. QED
  BY <1>2, <1>3, <1>6, <1>7, <1>8, <1>9, OpenKeeps DEF SameButChart

LEMMA ToldIs ==
  ASSUME NEW k \in Records, NEW end \in Ends, NEW m \in Superiors, NEW a,
         a = Told(k, end, m)
  PROVE  /\ a \in Records /\ SameButChart(a, k) /\ a.held = k.held
         /\ a.unread = k.unread \ {end}
         /\ a.read.managers = [k.read.managers EXCEPT ![end] = m]
         /\ a.unread = {} =>
              /\ a.pc = "policies"
              /\ a.read.relationship =
                   IF SameManager(a.read.managers) THEN "SIBLING" ELSE "NONE"
         /\ a.unread # {} => a.pc = "managers"
<1> DEFINE managers == [k.read.managers EXCEPT ![end] = m]
           unread == k.unread \ {end}
           pc == IF unread = {} THEN "policies" ELSE "managers"
           r == IF unread = {} /\ SameManager(managers) THEN "SIBLING" ELSE "NONE"
           known == [k.read EXCEPT !.managers = managers, !.relationship = r]
<1>1. k.read \in Reads /\ k.unread \subseteq Ends
  BY DEF Records
<1>2. managers \in [Ends -> Superiors]
  BY <1>1 DEF Reads
<1>3. r \in Relationships /\ pc \in Open /\ unread \in SUBSET Ends
  BY <1>1 DEF Relationships, Open
<1>4. a = [k EXCEPT !.pc = pc, !.unread = unread, !.read = known]
  BY DEF Told
<1>5. /\ unread = {} => pc = "policies" /\ r = IF SameManager(managers) THEN "SIBLING" ELSE "NONE"
      /\ unread # {} => pc = "managers"
  OBVIOUS
<1>6. managers = [k.read.managers EXCEPT ![end] = m] /\ unread = k.unread \ {end}
  OBVIOUS
<1> HIDE DEF managers, unread, pc, r
<1>7. /\ known \in Reads /\ known.employmentStatus = k.read.employmentStatus
      /\ known.clearance = k.read.clearance /\ known.permission = k.read.permission
      /\ known.managers = managers /\ known.relationship = r
  BY <1>1, <1>2, <1>3 DEF Reads
<1> HIDE DEF known
<1>8. /\ a \in Records /\ a.pc = pc /\ a.read = known /\ a.held = k.held
      /\ a.unread = unread /\ a.effect = k.effect /\ a.overlapped = k.overlapped
      /\ a.couldAllow = k.couldAllow /\ a.missedPermission = k.missedPermission
      /\ a.denying = k.denying /\ a.standing = k.standing
  BY <1>3, <1>4, <1>7 DEF Records
<1>9. QED
  BY <1>5, <1>6, <1>7, <1>8 DEF SameButChart

LEMMA ReadManagerKeeps ==
  ASSUME Inv, NEW c \in Calls, NEW end \in Ends, ReadManager(c, end)
  PROVE  Inv'
<1> DEFINE m == facts.managers[end]
           k == Told(call[c], end, m)
<1>1. /\ call[c].pc = "managers" /\ call[c] \in Records /\ facts \in Facts
      /\ Asking(call[c], facts) /\ end \in call[c].unread
  BY DEF ReadManager, Inv, Types, CallOK, Underway, Open
<1>2. /\ call' = [call EXCEPT ![c] = k]
      /\ UNCHANGED <<facts, policies, audit, changes>>
  BY DEF ReadManager
<1>3. m \in Superiors /\ call[c].read.managers \in [Ends -> Superiors]
  BY <1>1 DEF Facts, Records, Reads
<1>4. /\ k \in Records /\ SameButChart(k, call[c]) /\ k.held = call[c].held
      /\ k.unread = call[c].unread \ {end}
      /\ k.read.managers = [call[c].read.managers EXCEPT ![end] = m]
      /\ k.unread = {} =>
           /\ k.pc = "policies"
           /\ k.read.relationship =
                IF SameManager(k.read.managers) THEN "SIBLING" ELSE "NONE"
      /\ k.unread # {} => k.pc = "managers"
  BY <1>1, <1>3, ToldIs
<1> HIDE DEF k
<1>5. k.pc \in {"managers", "policies"}
  BY <1>4
<1>6. \A e \in Ends : Sees(k, facts, e) = Sees(call[c], facts, e)
  BY <1>1, <1>3, <1>4 DEF Sees
<1>7. Siblings(k, facts) <=> Siblings(call[c], facts)
  BY <1>6 DEF Siblings, Ends
<1>8. Answer(k, facts) = Answer(call[c], facts)
  <2>1. CASE k.unread = {}
    <3>1. SameManager(k.read.managers) <=> Siblings(k, facts)
      BY <2>1 DEF SameManager, Siblings, Sees
    <3>2. QED
      BY <1>1, <1>4, <1>7, <2>1, <3>1 DEF Answer
  <2>2. CASE k.unread # {}
    BY <1>1, <1>4, <1>7, <2>2 DEF Answer
  <2>3. QED
    BY <2>1, <2>2
<1>9. ASSUME NEW p, Stands(call[c], p, facts, policies)
      PROVE  Stands(k, p, facts, policies)
  <2>1. /\ p \in DenyingOn(facts, policies) /\ SubjectClauses(p, call[c].read)
        /\ call[c].missedPermission = FALSE => PermissionClause(p, call[c].read)
        /\ \A r \in call[c].held : RelationshipClause(p, r)
    BY <1>1, <1>9 DEF Stands, Open
  <2>2. SubjectClauses(p, k.read)
    BY <1>4, <2>1 DEF SubjectClauses, SameButChart
  <2>3. k.missedPermission = FALSE => PermissionClause(p, k.read)
    BY <1>4, <2>1 DEF PermissionClause, SameButChart
  <2>4. QED
    BY <1>4, <2>1, <2>2, <2>3 DEF Stands
<1>10. \A f \in Facts : Agrees(call[c], f, facts) => Agrees(k, f, facts)
  BY <1>1, <1>4, <1>5, <1>8 DEF Agrees, SameButChart
<1>11. Knows(call[c], facts) => Knows(k, facts)
  BY <1>1, <1>3, <1>4 DEF Knows
<1>12. Promoted(call[c], facts) => Promoted(k, facts)
  BY <1>4, <1>5, <1>8 DEF Promoted
<1>13. Asking(k, facts)
  BY <1>1, <1>4, <1>5 DEF Asking
<1>14. k.pc \in Open /\ call[c].pc \in Open
  BY <1>1, <1>5 DEF Open
<1>15. QED
  BY <1>2, <1>4, <1>9, <1>10, <1>11, <1>12, <1>13, <1>14, OpenKeeps DEF SameButChart

(* The evaluation, of the first n policies that were committed.             *)
Judges(k, n) == Evaluate(PolicyRows(SubSeq(policies, 1, n)), Context(k.read, k.read.relationship))

After(n) == {policies[i] : i \in n + 1 .. Len(policies)}

LEMMA FirstOrAfter ==
  ASSUME Inv, NEW n \in 0 .. Len(policies)
  PROVE  /\ PolicyRows(SubSeq(policies, 1, n)) \subseteq PolicyRows(policies)
         /\ \A p \in PolicyRows(policies) :
               p \in PolicyRows(SubSeq(policies, 1, n)) \/ p \in After(n)
         /\ After(n) \subseteq PolicyPool
<1> DEFINE short == SubSeq(policies, 1, n)
<1>1. policies \in Seq(PolicyPool) /\ n \in Nat
  BY DEF Inv, Types
<1>2. /\ DOMAIN policies = 1 .. Len(policies) /\ Len(policies) \in Nat
      /\ DOMAIN short = 1 .. n
      /\ \A i \in 1 .. n : short[i] = policies[i]
      /\ \A i \in 1 .. Len(policies) : policies[i] \in PolicyPool
  BY <1>1
<1> HIDE DEF short
<1>3. {short[i] : i \in DOMAIN short} \subseteq {policies[i] : i \in DOMAIN policies}
  BY <1>1, <1>2
<1>4. \A i \in DOMAIN policies : i \in DOMAIN short \/ i \in n + 1 .. Len(policies)
  BY <1>1, <1>2
<1>5. \A p \in {policies[i] : i \in DOMAIN policies} :
        p \in {short[i] : i \in DOMAIN short} \/ p \in After(n)
  BY <1>2, <1>4 DEF After
<1>6. After(n) \subseteq PolicyPool
  BY <1>1, <1>2 DEF After
<1>7. QED
  BY <1>3, <1>5, <1>6 DEF PolicyRows, FindApplicable, short

(* A policy of standing that the call does not miss matches the facts that  *)
(* were read, so it denies.                                                 *)
LEMMA StandingIsRead ==
  ASSUME Inv, NEW c \in Calls, call[c].pc = "policies", NEW n \in 0 .. Len(policies),
         NEW p \in call[c].standing, p \notin After(n),
         ~ (call[c].missedPermission = TRUE /\ RequiresPermission(p)),
         call[c].read.relationship \in call[c].held \/ p.relationships = {}
  PROVE  Judges(call[c], n) = "DENY"
<1>1. call[c] \in Records /\ Stands(call[c], p, facts, policies)
  BY DEF Inv, Types, CallOK, Underway, Open, AllStand
<1>2. /\ call[c].read.permission \in BOOLEAN /\ call[c].missedPermission \in BOOLEAN
  BY <1>1 DEF Records, Reads
<1>3. /\ p \in DenyingOn(facts, policies)
      /\ SubjectClauses(p, call[c].read)
      /\ RelationshipClause(p, call[c].read.relationship)
      /\ call[c].missedPermission = FALSE => PermissionClause(p, call[c].read)
  BY <1>1 DEF Stands, Open, RelationshipClause, Satisfies
<1>4. PermissionClause(p, call[c].read)
  BY <1>2, <1>3 DEF PermissionClause
<1>5. Matches(p, Context(call[c].read, call[c].read.relationship))
  BY <1>2, <1>3, <1>4, StandingClauses, MatchesIs
<1>6. p \in PolicyRows(policies) /\ p.effect = "DENY"
  BY <1>3 DEF DenyingOn, Matched
<1>7. p \in PolicyRows(SubSeq(policies, 1, n))
  BY <1>6, FirstOrAfter
<1>8. p \in Matched(PolicyRows(SubSeq(policies, 1, n)), "DENY", Context(call[c].read, call[c].read.relationship))
  BY <1>5, <1>6, <1>7 DEF Matched
<1>9. QED
  BY <1>8 DEF Evaluate, Judges

(* Facts g of one moment that a call agrees with when it evaluates. *)
LEMMA ReadsAreOfOneMoment ==
  ASSUME Inv, NEW c \in Calls, call[c].pc = "policies", call[c].overlapped <= 1
  PROVE  \/ \E g \in Facts : Agrees(call[c], g, facts) /\ Recorded(call[c], g, policies)
         \/ Overtaken(call[c])
<1>1. /\ call[c] \in Records /\ facts \in Facts
      /\ Recorded(call[c], facts, policies)
      /\ Undisturbed(call[c], facts) /\ DisturbedOnce(call[c], facts, policies)
  BY DEF Inv, Types, CallOK, Underway, Open
<1>2. call[c].overlapped = 0 \/ call[c].overlapped = 1
  <2>1. call[c].overlapped \in Nat
    BY <1>1 DEF Records
  <2>2. QED
    BY <2>1
<1>3. CASE call[c].overlapped = 0
  BY <1>1, <1>3 DEF Undisturbed
<1>4. CASE call[c].overlapped = 1
  BY <1>1, <1>4 DEF DisturbedOnce, Promoted, Overtaken, Answer
<1>5. QED
  BY <1>2, <1>3, <1>4

(* What an ALLOW of the first n policies says of that moment: it allowed,   *)
(* or a DENY policy forbade that the caches made the call miss.             *)
LEMMA AllowIsOfOneMoment ==
  ASSUME Inv, NEW c \in Calls, call[c].pc = "policies", call[c].overlapped <= 1,
         NEW n \in 0 .. Len(policies), Judges(call[c], n) = "ALLOW"
  PROVE  \/ call[c].couldAllow = TRUE
         \/ \E p \in call[c].denying :
              p \in After(n) \/ (call[c].missedPermission = TRUE /\ RequiresPermission(p))
         \/ Overtaken(call[c])
<1> SUFFICES ASSUME ~ Overtaken(call[c])
             PROVE  \/ call[c].couldAllow = TRUE
                    \/ \E p \in call[c].denying :
                         \/ p \in After(n)
                         \/ call[c].missedPermission = TRUE /\ RequiresPermission(p)
  OBVIOUS
<1> DEFINE read == Context(call[c].read, call[c].read.relationship)
           rows == PolicyRows(SubSeq(policies, 1, n))
<1>1. /\ call[c].read.permission \in BOOLEAN
      /\ call[c].missedPermission \in BOOLEAN
  BY DEF Inv, Types, Records, Reads
<1>2. PICK g \in Facts : Agrees(call[c], g, facts) /\ Recorded(call[c], g, policies)
  BY ReadsAreOfOneMoment
<1>3. /\ g.tenant = "ACTIVE" /\ g.employmentStatus = "ACTIVE" /\ g.resource = TRUE
      /\ call[c].read.employmentStatus = "ACTIVE"
      /\ g.clearance = call[c].read.clearance
      /\ Relationship(g) = call[c].read.relationship
      /\ call[c].read.permission = TRUE => g.permission = TRUE
      /\ call[c].missedPermission = FALSE => g.permission = call[c].read.permission
  BY <1>2 DEF Agrees, Answer
<1>4. g.permission \in BOOLEAN
  BY DEF Facts
<1>5. ASSUME NEW p
      PROVE  /\ SubjectClauses(p, g) <=> SubjectClauses(p, call[c].read)
             /\ RelationshipClause(p, Relationship(g))
                  <=> RelationshipClause(p, call[c].read.relationship)
  BY <1>3 DEF SubjectClauses, RelationshipClause
<1>6. ASSUME NEW p, Matches(p, read)
      PROVE  Matches(p, Context(g, Relationship(g)))
  <2>1. /\ FixedClauses(p) /\ SubjectClauses(p, call[c].read)
        /\ PermissionClause(p, call[c].read) /\ RelationshipClause(p, call[c].read.relationship)
    BY <1>1, <1>6, MatchesIs
  <2>2. PermissionClause(p, g)
    BY <1>3, <2>1 DEF PermissionClause
  <2>3. QED
    BY <1>4, <1>5, <2>1, <2>2, MatchesIs
<1>7. ASSUME NEW p, Matches(p, Context(g, Relationship(g))), ~ Matches(p, read)
      PROVE  call[c].missedPermission = TRUE /\ RequiresPermission(p)
  <2>1. /\ FixedClauses(p) /\ SubjectClauses(p, g)
        /\ PermissionClause(p, g) /\ RelationshipClause(p, Relationship(g))
    BY <1>4, <1>7, MatchesIs
  <2>2. ~ PermissionClause(p, call[c].read)
    BY <1>1, <1>5, <1>7, <2>1, MatchesIs
  <2>3. QED
    BY <1>1, <1>3, <2>1, <2>2 DEF PermissionClause
<1>8. Matched(rows, "DENY", read) = {} /\ Matched(rows, "ALLOW", read) # {}
  BY DEF Judges, Evaluate
<1> HIDE DEF read, rows
<1>9. Matched(PolicyRows(policies), "ALLOW", Context(g, Relationship(g))) # {}
  <2>1. PICK p \in rows : p.effect = "ALLOW" /\ Matches(p, read)
    BY <1>8 DEF Matched
  <2>2. p \in PolicyRows(policies)
    BY <2>1, FirstOrAfter DEF rows
  <2>3. Matches(p, Context(g, Relationship(g)))
    BY <1>6, <2>1
  <2>4. QED
    BY <2>1, <2>2, <2>3 DEF Matched
<1>10. CASE DenyingOn(g, policies) = {}
  <2>1. DecisionOn(g, policies) = "ALLOW"
    BY <1>3, <1>9, <1>10 DEF DecisionOn, DenyingOn, Evaluate
  <2>2. QED
    BY <1>2, <2>1 DEF Recorded
<1>11. CASE DenyingOn(g, policies) # {}
  <2>1. PICK p \in DenyingOn(g, policies) : TRUE
    BY <1>11
  <2>2. /\ p \in PolicyRows(policies) /\ p.effect = "DENY" /\ Matches(p, Context(g, Relationship(g)))
        /\ p \in call[c].denying
    BY <1>2, <2>1 DEF DenyingOn, Matched, Recorded
  <2>3. CASE p \in rows
    <3>1. ~ Matches(p, read)
      BY <1>8, <2>2, <2>3 DEF Matched
    <3>2. QED
      BY <1>7, <2>2, <3>1
  <2>4. CASE p \in After(n)
    BY <2>2, <2>4
  <2>5. QED
    BY <2>2, <2>3, <2>4, FirstOrAfter DEF rows
<1>12. QED
  BY <1>10, <1>11

LEMMA EvaluatePoliciesKeeps ==
  ASSUME Inv, NEW c \in Calls, EvaluatePolicies(c)
  PROVE  Inv'
<1>1. PICK n \in 0 .. Len(policies) :
        /\ call[c].pc = "policies"
        /\ call' = [call EXCEPT ![c] = Judged(call[c], n)]
        /\ UNCHANGED <<facts, policies, audit, changes>>
  BY DEF EvaluatePolicies
<1> DEFINE decision == Judges(call[c], n)
           after == After(n)
           k == Judged(call[c], n)
<1>2. /\ call[c] \in Records /\ Types /\ Audited(c, call[c], audit)
      /\ CallOK(call[c], facts, policies)
  BY DEF Inv, Types
<1>3. decision \in Effects /\ after \subseteq PolicyPool
  <2>1. decision \in Effects
    BY DEF Judges, Evaluate, Effects
  <2>2. QED
    BY <2>1, FirstOrAfter
<1>4. k = [call[c] EXCEPT !.pc = "audit", !.effect = decision, !.missedPolicies = after]
  BY DEF Judged, Judges, After
<1> HIDE DEF k, decision, after
<1>5. /\ k \in Records /\ k.pc = "audit" /\ k.effect = decision
      /\ k.missedPermission = call[c].missedPermission /\ k.missedPolicies = after
      /\ k.overlapped = call[c].overlapped /\ k.couldAllow = call[c].couldAllow
      /\ k.denying = call[c].denying /\ k.standing = call[c].standing
      /\ k.read = call[c].read /\ k.held = call[c].held
  BY <1>2, <1>3, <1>4 DEF Records
<1>6. DenyStood(k)
  <2>1. SUFFICES ASSUME NEW p \in k.standing, ~ Missed(k, p)
                 PROVE  k.effect = "DENY"
    BY DEF DenyStood
  <2>2. p \in call[c].standing /\ p \notin After(n)
    BY <1>5, <2>1 DEF Missed, after
  <2>3. ~ (call[c].missedPermission = TRUE /\ RequiresPermission(p))
    BY <1>5, <2>1 DEF Missed
  <2>4. call[c].read.relationship \in call[c].held \/ p.relationships = {}
    BY <1>5, <2>1 DEF Missed
  <2>5. decision = "DENY"
    BY <1>1, <2>2, <2>3, <2>4, StandingIsRead DEF decision
  <2>6. QED
    BY <1>5, <2>5, Zenon
<1>7. AllowWasRight(k)
  <2>1. SUFFICES ASSUME k.effect = "ALLOW", k.overlapped <= 1
                 PROVE  \/ k.couldAllow = TRUE
                        \/ \E p \in k.denying : Missed(k, p)
                        \/ Overtaken(k)
    BY DEF AllowWasRight
  <2>2. Judges(call[c], n) = "ALLOW"
    BY <1>5, <2>1, Zenon DEF decision
  <2>3. call[c].overlapped <= 1
    BY <1>5, <2>1, Zenon
  <2>4. \/ call[c].couldAllow = TRUE
        \/ \E p \in call[c].denying :
              p \in After(n) \/ (call[c].missedPermission = TRUE /\ RequiresPermission(p))
        \/ Overtaken(call[c])
    BY <1>1, <2>2, <2>3, AllowIsOfOneMoment
  <2>5. Overtaken(call[c]) => Overtaken(k)
    BY <1>5, Zenon DEF Overtaken
  <2>6. QED
    BY <1>5, <2>4, <2>5, Zenon DEF Missed, after
<1>8. CallOK(k, facts, policies)
  <2>1. k.pc = "audit" /\ k.effect \in Effects
    BY <1>3, <1>5 DEF Open
  <2>2. k.standing \subseteq k.denying
    BY <1>2, <1>5 DEF CallOK
  <2>3. QED
    BY <1>6, <1>7, <2>1, <2>2 DEF CallOK, Concluded, Open
<1>9. Audited(c, k, audit)
  BY <1>1, <1>2, <1>5 DEF Audited
<1>10. audit' \subseteq Calls \X Effects
  BY <1>1, <1>2 DEF Types
<1>11. k.overlapped = call[c].overlapped
  BY <1>5
<1>12. QED
  BY <1>1, <1>5, <1>8, <1>9, <1>10, <1>11, OneCallKeeps DEF k

-----------------------------------------------------------------------------
(* The steps after the decision leave it alone.                             *)
LEMMA AfterwardsKeeps ==
  ASSUME Inv, NEW c \in Calls,
         NEW next \in {"return", "returned", "thrown"},
         next # "thrown" => call[c].effect \in Effects,
         call' = [call EXCEPT ![c].pc = next],
         UNCHANGED <<facts, policies, changes>>,
         audit' \subseteq Calls \X Effects,
         \A d \in Calls \ {c}, e \in Effects : <<d, e>> \in audit' <=> <<d, e>> \in audit,
         \A e \in Effects : <<c, e>> \in audit' => e = call[c].effect,
         next # "thrown" => <<c, call[c].effect>> \in audit'
  PROVE  Inv'
<1> DEFINE k == [call[c] EXCEPT !.pc = next]
<1>1. /\ call[c] \in Records /\ call \in [Calls -> Records]
      /\ CallOK(call[c], facts, policies)
  BY DEF Inv, Types
<1>2. call' = [call EXCEPT ![c] = k]
  BY <1>1
<1>3. /\ k \in Records /\ k.pc = next /\ k.effect = call[c].effect
      /\ k.missedPermission = call[c].missedPermission
      /\ k.missedPolicies = call[c].missedPolicies
      /\ k.overlapped = call[c].overlapped /\ k.couldAllow = call[c].couldAllow
      /\ k.denying = call[c].denying /\ k.standing = call[c].standing
      /\ k.read = call[c].read /\ k.held = call[c].held
  BY <1>1 DEF Records
<1> HIDE DEF k
<1>4. Concluded(k)
  <2>1. Concluded(call[c])
    BY <1>1 DEF CallOK
  <2>2. QED
    BY <1>3, <2>1, Zenon DEF Concluded, DenyStood, AllowWasRight, Missed, Overtaken
<1>5. CallOK(k, facts, policies)
  BY <1>1, <1>3, <1>4 DEF CallOK, Open
<1>6. Audited(c, k, audit')
  BY <1>3 DEF Audited
<1>7. k.overlapped = call[c].overlapped
  BY <1>3
<1>8. QED
  BY <1>2, <1>3, <1>5, <1>6, <1>7, OneCallKeeps

LEMMA PersistAuditKeeps ==
  ASSUME Inv, NEW c \in Calls, PersistAudit(c)
  PROVE  Inv'
<1>1. /\ call[c].pc = "audit" /\ CallOK(call[c], facts, policies)
      /\ Audited(c, call[c], audit) /\ audit \subseteq Calls \X Effects
  BY DEF PersistAudit, Inv, Types
<1>2. call[c].effect \in Effects
  BY <1>1 DEF CallOK
<1>3. /\ audit' = audit \cup {<<c, call[c].effect>>}
      /\ call' = [call EXCEPT ![c].pc = "return"]
      /\ UNCHANGED <<facts, policies, changes>>
  BY DEF PersistAudit
<1>4. \A e \in Effects : <<c, e>> \in audit' => e = call[c].effect
  BY <1>1, <1>3 DEF Audited
<1>5. \A d \in Calls \ {c}, e \in Effects : <<d, e>> \in audit' <=> <<d, e>> \in audit
  BY <1>3
<1>6. audit' \subseteq Calls \X Effects /\ <<c, call[c].effect>> \in audit'
  BY <1>1, <1>2, <1>3
<1>7. QED
  BY <1>2, <1>3, <1>4, <1>5, <1>6, AfterwardsKeeps

LEMMA ReturnKeeps ==
  ASSUME Inv, NEW c \in Calls, Return(c)
  PROVE  Inv'
<1>1. /\ call[c].pc = "return" /\ CallOK(call[c], facts, policies)
      /\ Audited(c, call[c], audit) /\ audit \subseteq Calls \X Effects
  BY DEF Return, Inv, Types
<1>2. call[c].effect \in Effects
  BY <1>1 DEF CallOK
<1>3. /\ call' = [call EXCEPT ![c].pc = "returned"]
      /\ UNCHANGED <<facts, policies, audit, changes>>
  BY DEF Return
<1>4. /\ \A e \in Effects : <<c, e>> \in audit => e = call[c].effect
      /\ <<c, call[c].effect>> \in audit
  BY <1>1 DEF Audited
<1>5. QED
  BY <1>1, <1>2, <1>3, <1>4, AfterwardsKeeps

LEMMA ThrowKeeps ==
  ASSUME Inv, NEW c \in Calls, Throw(c)
  PROVE  Inv'
<1>1. Audited(c, call[c], audit) /\ audit \subseteq Calls \X Effects
  BY DEF Inv, Types
<1>2. /\ call' = [call EXCEPT ![c].pc = "thrown"]
      /\ UNCHANGED <<facts, policies, audit, changes>>
  BY DEF Throw
<1>3. \A e \in Effects : <<c, e>> \in audit => e = call[c].effect
  BY <1>1 DEF Audited
<1>4. QED
  BY <1>1, <1>2, <1>3, AfterwardsKeeps

-----------------------------------------------------------------------------
(* A mutation.  OneGroup: it changes what one of the reads returns, or the  *)
(* policies and no fact.                                                    *)
SameSubject(f, g) == f.employmentStatus = g.employmentStatus /\ f.clearance = g.clearance
SamePermission(f, g) == f.permission = g.permission

OneGroup(f, g) ==
  /\ f.tenant = g.tenant /\ f.resource = g.resource
  /\ \/ SamePermission(f, g) /\ SameChart(f, g)
     \/ SameSubject(f, g) /\ SameChart(f, g)
     \/ /\ SameSubject(f, g) /\ SamePermission(f, g)
        /\ f.owner = g.owner /\ OneMoves(f, g)

(* A call between the row and the managers, whose reads of them are those   *)
(* of the chart g, when one re-parenting makes g the chart f: it is told    *)
(* the relationship before or after, or NONE though it was a sibling and is *)
(* a superior.                                                              *)
LEMMA BetweenReads ==
  ASSUME NEW k, NEW f \in Facts, NEW g \in Facts, k.pc = "managers", Knows(k, g),
         f.owner = g.owner, OneMoves(f, g)
  PROVE  \/ Relationship(f) = Answer(k, f)
         \/ Relationship(g) = Answer(k, f)
         \/ /\ Relationship(g) = "SIBLING" /\ Answer(k, f) = "NONE"
            /\ Relationship(f) \in {"DIRECT_MANAGER", "ANCESTOR"}
<1>1. /\ f.managers["subject"] # Subject /\ g.managers["subject"] # Subject
      /\ f.above => f.managers["owner"] # f.managers["subject"]
      /\ f.owner = "other" /\ g.owner = "other"
      /\ g.managers["owner"] # Subject /\ ~ g.above
  BY DEF Facts, ChartOK, Knows, Answers, SubjectIsAbove
<1>2. /\ Sees(k, f, "subject") \in {f.managers["subject"], g.managers["subject"]}
      /\ Sees(k, f, "owner") \in {f.managers["owner"], g.managers["owner"]}
  BY DEF Sees, Knows, Ends
<1>3. Answer(k, f) = IF Siblings(k, f) THEN "SIBLING" ELSE "NONE"
  BY DEF Answer
<1>4. Relationship(g) = IF SameManager(g.managers) THEN "SIBLING" ELSE "NONE"
  BY <1>1 DEF Relationship
<1>5. \/ Relationship(f) \in {"DIRECT_MANAGER", "ANCESTOR"} /\ ~ SameManager(f.managers)
      \/ Relationship(f) = IF SameManager(f.managers) THEN "SIBLING" ELSE "NONE"
  BY <1>1 DEF Relationship, SameManager
<1>6. Siblings(k, f) => SameManager(f.managers) \/ SameManager(g.managers)
  BY <1>2 DEF Siblings, SameManager, OneMoves
<1>7. SameManager(f.managers) /\ SameManager(g.managers) => Siblings(k, f)
  BY <1>2 DEF Siblings, SameManager, OneMoves
<1>8. QED
  BY <1>3, <1>4, <1>5, <1>6, <1>7

(* A call that agrees with the facts before the mutation agrees, once they  *)
(* are f, with the old ones if it has read what changed and with f if not   *)
(* -- or it was between the reads of getRelationship.                       *)
LEMMA OldOrNew ==
  ASSUME NEW k, NEW f \in Facts, NEW g \in Facts, k.pc \in Open,
         Agrees(k, g, g), Knows(k, g), OneGroup(f, g)
  PROVE  \/ Agrees(k, f, f)
         \/ Agrees(k, g, f)
         \/ /\ k.pc = "managers" /\ Relationship(g) = "SIBLING" /\ Answer(k, f) = "NONE"
            /\ Relationship(f) \in {"DIRECT_MANAGER", "ANCESTOR"}
<1>1. CASE SamePermission(f, g) /\ SameChart(f, g)
  <2>1. Answer(k, f) = Answer(k, g) /\ Relationship(f) = Relationship(g)
    BY <1>1, SameChartRelationship DEF Answer, Siblings, Sees, SameChart
  <2>2. CASE k.pc \in {"tenant", "subject"}
    BY <1>1, <2>2 DEF Agrees, OneGroup, SamePermission, SameChart
  <2>3. CASE k.pc \notin {"tenant", "subject"}
    BY <1>1, <2>1, <2>3 DEF Agrees, OneGroup, SamePermission, SameChart
  <2>4. QED
    BY <2>2, <2>3
<1>2. CASE SameSubject(f, g) /\ SameChart(f, g)
  <2>1. Answer(k, f) = Answer(k, g) /\ Relationship(f) = Relationship(g)
    BY <1>2, SameChartRelationship DEF Answer, Siblings, Sees, SameChart
  <2>2. CASE k.pc \in {"relationship", "managers", "policies"}
    BY <1>2, <2>1, <2>2 DEF Agrees, OneGroup, SameSubject, SameChart
  <2>3. CASE k.pc \notin {"relationship", "managers", "policies"}
    BY <1>2, <2>3 DEF Agrees, OneGroup, SameSubject, SameChart
  <2>4. QED
    BY <2>2, <2>3
<1>3. CASE /\ SameSubject(f, g) /\ SamePermission(f, g)
           /\ f.owner = g.owner /\ OneMoves(f, g)
  <2>1. CASE k.pc = "policies"
    BY <1>3, <2>1 DEF Agrees, OneGroup, SameSubject, SamePermission, Answer
  <2>2. CASE k.pc = "managers"
    <3>1. CASE Relationship(f) = Answer(k, f)
      BY <1>3, <2>2, <3>1 DEF Agrees, OneGroup, SameSubject, SamePermission
    <3>2. CASE Relationship(g) = Answer(k, f)
      BY <1>3, <2>2, <3>2 DEF Agrees, OneGroup, SameSubject, SamePermission
    <3>3. QED
      BY <1>3, <2>2, <3>1, <3>2, BetweenReads
  <2>3. CASE k.pc \notin {"managers", "policies"}
    BY <1>3, <2>3 DEF Agrees, OneGroup, SameSubject, SamePermission, SameChart
  <2>4. QED
    BY <2>1, <2>2, <2>3
<1>4. QED
  BY <1>1, <1>2, <1>3 DEF OneGroup

(* o is the call k after a mutation that made the facts f. *)
Overlapped(o, k, f, log) ==
  /\ o \in Records /\ o.pc = k.pc /\ o.read = k.read
  /\ o.effect = k.effect /\ o.missedPermission = k.missedPermission
  /\ o.overlapped = k.overlapped + 1
  /\ o.couldAllow = (k.couldAllow \/ DecisionOn(f, log) = "ALLOW")
  /\ o.denying = k.denying \cup DenyingOn(f, log)
  /\ o.standing = k.standing \cap DenyingOn(f, log)
  /\ o.unread = k.unread
  /\ o.held = IF k.pc = "managers" THEN k.held \cup {Relationship(f)} ELSE k.held

LEMMA OverlapIs ==
  ASSUME NEW k \in Records, NEW f, NEW log \in Seq(PolicyPool)
  PROVE  Overlapped(Overlap(k, f, log), k, f, log)
<1> DEFINE could == k.couldAllow \/ DecisionOn(f, log) = "ALLOW"
           some == k.denying \cup DenyingOn(f, log)
           deny == k.standing \cap DenyingOn(f, log)
           n == k.overlapped + 1
           held == IF k.pc = "managers" THEN k.held \cup {Relationship(f)} ELSE k.held
           o == [k EXCEPT !.overlapped = n, !.couldAllow = could,
                          !.denying = some, !.standing = deny, !.held = held]
<1>1. could \in BOOLEAN
  OBVIOUS
<1>2. deny \in SUBSET PolicyPool /\ some \in SUBSET PolicyPool
  <2>1. DenyingOn(f, log) \subseteq PolicyPool
    BY DEF DenyingOn, Matched, PolicyRows, FindApplicable
  <2>2. k.standing \subseteq PolicyPool /\ k.denying \subseteq PolicyPool
    BY DEF Records
  <2>3. QED
    BY <2>1, <2>2
<1>3. n \in Nat
  <2>1. k.overlapped \in Nat
    BY DEF Records
  <2>2. QED
    BY <2>1
<1>4. Overlap(k, f, log) = o
  BY DEF Overlap
<1>5. held \in SUBSET Relationships
  BY RelationshipType DEF Records
<1> HIDE DEF could, some, deny, n, held
<1>6. /\ o \in Records /\ o.pc = k.pc /\ o.read = k.read
      /\ o.effect = k.effect /\ o.missedPermission = k.missedPermission
      /\ o.overlapped = n /\ o.couldAllow = could
      /\ o.denying = some /\ o.standing = deny
      /\ o.unread = k.unread /\ o.held = held
  BY <1>1, <1>2, <1>3, <1>5 DEF Records
<1> HIDE DEF o
<1>7. Overlapped(o, k, f, log)
  BY <1>6, Zenon DEF Overlapped, could, some, deny, n, held
<1>8. QED
  BY <1>4, <1>7

LEMMA OverlappedKeeps ==
  ASSUME NEW k \in Records, k.pc \in Open, NEW f \in Facts, NEW log,
         facts \in Facts, Underway(k, facts, policies),
         OneGroup(f, facts), f = facts \/ log = policies,
         NEW o, Overlapped(o, k, f, log)
  PROVE  Underway(o, f, log)
<1>1. o.pc = k.pc /\ o.read = k.read /\ o.missedPermission = k.missedPermission
  BY Zenon DEF Overlapped
<1>2. /\ o.denying = k.denying \cup DenyingOn(f, log)
      /\ o.standing = k.standing \cap DenyingOn(f, log)
  BY Zenon DEF Overlapped
<1>3. o.couldAllow = (k.couldAllow \/ DecisionOn(f, log) = "ALLOW")
  BY Zenon DEF Overlapped
<1>4. /\ o.unread = k.unread
       /\ o.held = IF k.pc = "managers" THEN k.held \cup {Relationship(f)} ELSE k.held
  BY Zenon DEF Overlapped
<1>5. o.overlapped = k.overlapped + 1 /\ k.overlapped \in Nat
  <2>1. o.overlapped = k.overlapped + 1
    BY Zenon DEF Overlapped
  <2>2. k.overlapped \in Nat
    BY DEF Records
  <2>3. QED
    BY <2>1, <2>2
<1>6. /\ Recorded(k, facts, policies) /\ AllStand(k, facts, policies)
      /\ Undisturbed(k, facts) /\ Asking(k, facts)
  BY Zenon DEF Underway
<1>7. o.effect = ""
  BY Zenon DEF Underway, Overlapped
<1>8. Asking(o, f)
  BY <1>1, <1>6, <1>4 DEF Asking
<1>9. \A x, y : (Agrees(o, x, y) <=> Agrees(k, x, y)) /\ Answer(o, y) = Answer(k, y)
  <2>1. SUFFICES ASSUME NEW x, NEW y
                 PROVE  (Agrees(o, x, y) <=> Agrees(k, x, y)) /\ Answer(o, y) = Answer(k, y)
    OBVIOUS
  <2>2. Answer(o, y) = Answer(k, y)
    BY <1>1, <1>4 DEF Answer, Siblings, Sees
  <2>3. QED
    BY <1>1, <2>2 DEF Agrees
<1>10. DecisionOn(f, log) = "ALLOW" \/ k.couldAllow = TRUE => o.couldAllow = TRUE
  <2>1. k.couldAllow \in BOOLEAN
    BY DEF Records
  <2>2. QED
    BY <1>3, <2>1
<1>11. Recorded(o, f, log)
  BY <1>2, <1>10 DEF Recorded
<1>12. AllStand(o, f, log)
  <2>1. SUFFICES ASSUME NEW p \in o.standing
                 PROVE  Stands(o, p, f, log)
    BY DEF AllStand
  <2>2. p \in DenyingOn(f, log) /\ Stands(k, p, facts, policies)
    BY <1>2, <1>6, <2>1 DEF AllStand
  <2>3. RelationshipClause(p, Relationship(f))
    <3>1. Matches(p, Context(f, Relationship(f))) /\ f.permission \in BOOLEAN
      BY <2>2 DEF DenyingOn, Matched, Facts
    <3>2. QED
      BY <3>1, MatchesIs
  <2>4. o.held \subseteq k.held \cup {Relationship(f)}
    BY <1>4
  <2>5. k.pc \in {"managers", "policies"} => \A r \in o.held : RelationshipClause(p, r)
    BY <2>2, <2>3, <2>4 DEF Stands
  <2>6. QED
    BY <1>1, <2>2, <2>5 DEF Stands
<1>13. Undisturbed(o, f)
  <2>1. o.overlapped # 0
    BY <1>5
  <2>2. QED
    BY <2>1 DEF Undisturbed
<1>14. DisturbedOnce(o, f, log)
  <2>1. SUFFICES ASSUME o.overlapped = 1
                 PROVE  \/ \E g \in Facts : Agrees(o, g, f) /\ Recorded(o, g, log)
                        \/ Promoted(o, f)
    BY DEF DisturbedOnce
  <2>2. k.overlapped = 0
    BY <1>5, <2>1
  <2>3. Agrees(k, facts, facts) /\ Knows(k, facts)
    BY <1>6, <2>2 DEF Undisturbed
  <2>4. CASE Agrees(k, f, f)
    <3>1. Agrees(o, f, f)
      BY <1>9, <2>4
    <3>2. QED
      BY <1>11, <3>1
  <2>5. CASE f # facts /\ Agrees(k, facts, f)
    <3>1. Agrees(o, facts, f)
      BY <1>9, <2>5
    <3>2. Recorded(o, facts, log)
      BY <1>2, <1>6, <1>10, <2>5 DEF Recorded
    <3>3. QED
      BY <3>1, <3>2
  <2>6. CASE /\ k.pc = "managers" /\ Relationship(facts) = "SIBLING" /\ Answer(k, f) = "NONE"
             /\ Relationship(f) \in {"DIRECT_MANAGER", "ANCESTOR"}
    <3>1. Relationship(facts) \in k.held
      BY <1>6, <2>6 DEF Asking
    <3>2. "SIBLING" \in o.held /\ Relationship(f) \in o.held
      BY <1>4, <2>6, <3>1
    <3>3. o.held \cap {"DIRECT_MANAGER", "ANCESTOR"} # {}
      BY <2>6, <3>2
    <3>4. Answer(o, f) = "NONE"
      BY <1>9, <2>6
    <3>5. QED
      BY <1>1, <2>6, <3>2, <3>3, <3>4 DEF Promoted
  <2>7. QED
    BY <2>3, <2>4, <2>5, <2>6, OldOrNew
<1>15. QED
  BY <1>7, <1>11, <1>12, <1>13, <1>14, <1>8, Zenon DEF Underway

LEMMA ChangeKeeps ==
  ASSUME Inv, NEW f \in Facts, NEW log \in Seq(PolicyPool), Change(f, log),
         OneGroup(f, facts), f = facts \/ log = policies
  PROVE  Inv'
<1>1. /\ facts' = f /\ policies' = log /\ audit' = audit
      /\ changes' = changes + 1 /\ changes < MaxChanges
      /\ \A c \in Calls : call'[c] =
           IF call[c].pc \in {"idle", "audit", "return", "returned", "thrown"}
           THEN call[c] ELSE Overlap(call[c], f, log)
      /\ DOMAIN call' = Calls /\ call' = [c \in Calls |-> call'[c]]
  BY DEF Change
<1>2. facts \in Facts /\ call \in [Calls -> Records] /\ changes \in 0 .. MaxChanges
  BY DEF Inv, Types
<1>3. ASSUME NEW c \in Calls
      PROVE  /\ call'[c] \in Records
             /\ CallOK(call'[c], f, log) /\ Audited(c, call'[c], audit)
             /\ call'[c].overlapped <= changes + 1
  <2>1. /\ call[c] \in Records /\ CallOK(call[c], facts, policies)
        /\ Audited(c, call[c], audit) /\ call[c].overlapped <= changes
        /\ call[c].overlapped \in Nat
    BY <1>2 DEF Inv, Records
  <2>2. CASE call[c].pc \in Open
    <3> DEFINE o == Overlap(call[c], f, log)
    <3>1. call'[c] = o
      BY <1>1, <2>2 DEF Open
    <3>2. Underway(call[c], facts, policies)
      BY <2>1, <2>2 DEF CallOK
    <3>3. Overlapped(o, call[c], f, log)
      BY <2>1, OverlapIs
    <3> HIDE DEF o
    <3>4. /\ o \in Records /\ o.pc = call[c].pc /\ Underway(o, f, log)
      BY <1>2, <2>1, <2>2, <3>2, <3>3, OverlappedKeeps DEF Overlapped
    <3>5. o.overlapped = call[c].overlapped + 1
      BY <3>3, Zenon DEF Overlapped
    <3>6. o.effect = "" /\ o.standing \subseteq o.denying
      <4>1. o.effect = ""
        BY <3>4 DEF Underway
      <4>2. /\ o.denying = call[c].denying \cup DenyingOn(f, log)
            /\ o.standing = call[c].standing \cap DenyingOn(f, log)
        BY <3>3, Zenon DEF Overlapped
      <4>3. QED
        BY <4>1, <4>2
    <3>7. CallOK(o, f, log)
      BY <2>2, <3>4, <3>6 DEF CallOK, Concluded, Open
    <3>8. Audited(c, o, audit)
      BY <2>1, <2>2, <3>4 DEF Audited, Open
    <3>9. o.overlapped <= changes + 1
      BY <1>2, <2>1, <3>5
    <3>10. QED
      BY <3>1, <3>4, <3>7, <3>8, <3>9
  <2>3. CASE call[c].pc \notin Open
    <3>1. call[c].pc \in {"idle", "audit", "return", "returned", "thrown"}
      BY <2>1, <2>3 DEF Records
    <3>2. call'[c] = call[c]
      BY <1>1, <3>1
    <3>3. CallOK(call[c], f, log)
      BY <2>1, <2>3 DEF CallOK
    <3>4. call[c].overlapped <= changes + 1
      BY <1>2, <2>1
    <3>5. QED
      BY <2>1, <3>2, <3>3, <3>4
  <2>4. QED
    BY <2>2, <2>3
<1>4. changes + 1 \in 0 .. MaxChanges
  BY <1>1, <1>2, MaxChangesAssumption
<1>5. call' \in [Calls -> Records]
  BY <1>1, <1>3
<1>6. Types'
  BY <1>1, <1>4, <1>5 DEF Inv, Types
<1>7. QED
  BY <1>1, <1>3, <1>6 DEF Inv

LEMMA MutationKeeps ==
  ASSUME Inv,
         \/ \E status \in {"ACTIVE", "SUSPENDED"}, r \in Ranks : UpdateUser(status, r)
         \/ GrantPermission
         \/ \E managers \in [Ends -> Superiors], above \in BOOLEAN :
              AssignManager(managers, above)
         \/ \E p \in PolicyPool : CreatePolicy(p)
  PROVE  Inv'
<1>1. facts \in Facts /\ policies \in Seq(PolicyPool)
  BY DEF Inv, Types
<1>2. OneGroup(facts, facts)
  BY DEF OneGroup, SameSubject, SamePermission, SameChart
<1>3. ASSUME NEW status \in {"ACTIVE", "SUSPENDED"}, NEW r \in Ranks, UpdateUser(status, r)
      PROVE  Inv'
  <2> DEFINE f == [facts EXCEPT !.employmentStatus = status, !.clearance = r]
  <2>1. f \in Facts
    BY <1>1 DEF Facts, ChartOK
  <2>2. OneGroup(f, facts)
    BY <1>1 DEF Facts, OneGroup, SamePermission, SameChart
  <2>3. Change(f, policies)
    BY <1>3 DEF UpdateUser
  <2> HIDE DEF f
  <2>4. QED
    BY <1>1, <2>1, <2>2, <2>3, ChangeKeeps
<1>4. ASSUME GrantPermission
      PROVE  Inv'
  <2> DEFINE f == [facts EXCEPT !.permission = TRUE]
  <2>1. f \in Facts
    BY <1>1 DEF Facts, ChartOK
  <2>2. OneGroup(f, facts)
    BY <1>1 DEF Facts, OneGroup, SameSubject, SameChart
  <2>3. Change(f, policies)
    BY <1>4 DEF GrantPermission
  <2> HIDE DEF f
  <2>4. QED
    BY <1>1, <2>1, <2>2, <2>3, ChangeKeeps
<1>5. ASSUME NEW managers \in [Ends -> Superiors], NEW above \in BOOLEAN,
             AssignManager(managers, above)
      PROVE  Inv'
  <2> DEFINE f == [facts EXCEPT !.managers = managers, !.above = above]
  <2>1. ChartOK(f) /\ OneMoves(f, facts) /\ Change(f, policies)
    BY <1>5 DEF AssignManager
  <2>2. f \in Facts
    BY <1>1, <2>1 DEF Facts
  <2>3. OneGroup(f, facts)
    BY <1>1, <2>1 DEF Facts, OneGroup, SameSubject, SamePermission
  <2> HIDE DEF f
  <2>4. QED
    BY <1>1, <2>1, <2>2, <2>3, ChangeKeeps
<1>6. ASSUME NEW p \in PolicyPool, CreatePolicy(p)
      PROVE  Inv'
  <2>1. Append(policies, p) \in Seq(PolicyPool)
    BY <1>1
  <2>2. Change(facts, Append(policies, p))
    BY <1>6 DEF CreatePolicy
  <2>3. QED
    BY <1>1, <1>2, <2>1, <2>2, ChangeKeeps
<1>7. QED
  BY <1>3, <1>4, <1>5, <1>6

-----------------------------------------------------------------------------
LEMMA InitInv == Init => Inv
<1> SUFFICES ASSUME Init
             PROVE  Inv
  OBVIOUS
<1>1. facts \in Facts
  BY DEF Init
<1>2. policies \in Seq(PolicyPool) /\ audit = {} /\ changes = 0
  BY InitialPoliciesAssumption DEF Init
<1>3. \A c \in Calls : call[c] = NotCalled
  BY DEF Init
<1>4. call \in [Calls -> Records]
  BY NotCalledType DEF Init
<1>5. Types
  BY <1>1, <1>2, <1>4, MaxChangesAssumption DEF Types
<1>6. /\ NotCalled.pc = "idle" /\ NotCalled.effect = ""
      /\ NotCalled.standing \subseteq NotCalled.denying
  BY DEF NotCalled
<1>7. NotCalled.overlapped <= 0
  BY DEF NotCalled
<1>8. CallOK(NotCalled, facts, policies)
  BY <1>6 DEF CallOK, Concluded, Open
<1>9. \A c \in Calls : Audited(c, NotCalled, audit)
  BY <1>2, <1>6 DEF Audited
<1>10. QED
  BY <1>2, <1>3, <1>5, <1>7, <1>8, <1>9 DEF Inv

LEMMA NextKeeps == Inv /\ [Next]_vars => Inv'
<1> SUFFICES ASSUME Inv, [Next]_vars
             PROVE  Inv'
  OBVIOUS
<1>1. ASSUME NEW c \in Calls, CallStep(c)
      PROVE  Inv'
  BY <1>1, StartKeeps, ValidateTenantKeeps, ValidateSubjectKeeps, ValidateResourceKeeps,
     ReadPermissionsKeeps, ResolveRelationshipKeeps, ReadManagerKeeps, EvaluatePoliciesKeeps,
     PersistAuditKeeps, ReturnKeeps, ThrowKeeps DEF CallStep
<1>2. CASE UNCHANGED vars
  BY <1>2 DEF vars, Inv, Types
<1>3. QED
  BY <1>1, <1>2, MutationKeeps DEF Next

(* The invariant holds for any pool of policies and number of calls.        *)
THEOREM InvAlways == Spec => []Inv
BY InitInv, NextKeeps, PTL DEF Spec

(* What the records of a call hold; a call past the evaluation has an       *)
(* effect.                                                                  *)
THEOREM TypeCorrect == Spec => []TypeOK
<1>1. Inv => TypeOK
  <2> SUFFICES ASSUME Inv
               PROVE  TypeOK
    OBVIOUS
  <2>1. /\ facts \in Facts /\ policies \in Seq(PolicyPool)
        /\ audit \subseteq Calls \X Effects /\ changes \in 0 .. MaxChanges
    BY DEF Inv, Types
  <2>2. ASSUME NEW c \in Calls
        PROVE  /\ call[c].pc \in {"idle", "tenant", "subject", "resource", "permissions",
                                  "relationship", "managers", "policies", "audit",
                                  "return", "returned", "thrown"}
               /\ call[c].effect \in Effects \cup {""}
               /\ call[c].pc \in {"audit", "return", "returned"} => Decided(c)
               /\ call[c].unread \subseteq Ends /\ call[c].held \subseteq Relationships
               /\ call[c].read.clearance \in Ranks \cup {NoLevel}
               /\ call[c].standing \subseteq call[c].denying
               /\ call[c].denying \subseteq PolicyPool
               /\ call[c].overlapped \in 0 .. MaxChanges
    <3>1. call[c] \in Records /\ CallOK(call[c], facts, policies)
      BY DEF Inv, Types
    <3>2. /\ call[c].pc \in Open \cup {"idle", "audit", "return", "returned", "thrown"}
          /\ call[c].effect \in Effects \cup {""}
      BY <3>1 DEF Records
    <3>3. /\ call[c].read \in Reads /\ call[c].denying \subseteq PolicyPool
          /\ call[c].standing \subseteq call[c].denying
          /\ call[c].unread \subseteq Ends /\ call[c].held \subseteq Relationships
      BY <3>1 DEF Records, CallOK
    <3>4. call[c].overlapped \in Nat
      BY <3>1 DEF Records
    <3>5. call[c].overlapped \in 0 .. MaxChanges
      BY <2>1, <3>4, MaxChangesAssumption DEF Inv
    <3>6. call[c].pc \in {"audit", "return", "returned"} => Decided(c)
      BY <3>1 DEF CallOK, Decided, Effects
    <3>7. call[c].read.clearance \in Ranks \cup {NoLevel}
      BY <3>3 DEF Reads
    <3>8. QED
      BY <3>2, <3>3, <3>5, <3>6, <3>7 DEF Open
  <2>3. QED
    BY <2>1, <2>2 DEF TypeOK
<1>2. QED
  BY <1>1, InvAlways, PTL

(* A DENY policy that matches from the start of a call to its decision      *)
(* decides it, whatever changes in between and however often, unless the    *)
(* cached reads made the call miss it, or it names relationships and the    *)
(* three reads of getRelationship were answered one that never held.        *)
THEOREM StandingDenyAlwaysWins == Spec => []StandingDenyWins
<1>1. Inv => StandingDenyWins
  <2> SUFFICES ASSUME Inv, NEW c \in Calls, Decided(c), NEW p \in call[c].standing
               PROVE  call[c].effect = "DENY" \/ Misses(c, p)
    BY DEF StandingDenyWins
  <2>1. DenyStood(call[c])
    BY DEF Inv, CallOK, Concluded, Decided
  <2>2. QED
    BY <2>1 DEF DenyStood, Missed, Misses, Torn
<1>2. QED
  BY <1>1, InvAlways, PTL

(* A call that one mutation at most overlaps allows nothing that was        *)
(* forbidden at every moment of it, except by a DENY policy that its cached *)
(* reads made it miss -- a stale cache loses a DENY and grants nothing else *)
(* -- or because the owner's sibling became his superior between the reads  *)
(* of getRelationship and was taken for unrelated.                          *)
THEOREM OneMutationAlwaysSeenWhole == Spec => []OneMutationIsSeenWhole
<1>1. Inv => OneMutationIsSeenWhole
  <2> SUFFICES ASSUME Inv, NEW c \in Calls, call[c].effect = "ALLOW",
                      call[c].overlapped <= 1
               PROVE  \/ call[c].couldAllow
                      \/ \E p \in call[c].denying : Misses(c, p)
                      \/ PromotedBetweenReads(c)
    BY DEF OneMutationIsSeenWhole
  <2>1. AllowWasRight(call[c])
    BY DEF Inv, CallOK, Concluded
  <2>2. QED
    BY <2>1 DEF AllowWasRight, Missed, Misses, Torn, Overtaken, PromotedBetweenReads
<1>2. QED
  BY <1>1, InvAlways, PTL

(* What a caller is told is the one thing the audit log holds of its call.  *)
THEOREM OnlyAuditedAlwaysReturn == Spec => []OnlyAuditedDecisionsReturn
<1>1. Inv => OnlyAuditedDecisionsReturn
  <2> SUFFICES ASSUME Inv, NEW c \in Calls
               PROVE  LET rows == {e \in Effects : <<c, e>> \in audit}
                      IN /\ call[c].pc = "returned" => rows = {call[c].effect}
                         /\ call[c].pc # "returned" => rows \subseteq {call[c].effect}
    BY DEF OnlyAuditedDecisionsReturn
  <2>1. Audited(c, call[c], audit) /\ CallOK(call[c], facts, policies)
    BY DEF Inv
  <2>2. \A e \in Effects : <<c, e>> \in audit => e = call[c].effect
    BY <2>1 DEF Audited
  <2>3. call[c].pc = "returned" => call[c].effect \in Effects /\ <<c, call[c].effect>> \in audit
    BY <2>1 DEF Audited, CallOK
  <2>4. QED
    BY <2>2, <2>3
<1>2. QED
  BY <1>1, InvAlways, PTL
=============================================================================
