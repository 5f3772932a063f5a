---------------------------- MODULE CheckAccess ----------------------------
(***************************************************************************)
(* The pipeline of authorization.service.ts checkAccess: one request for    *)
(* one subject and one resource, read by read, while the service's          *)
(* mutations change the facts it reads.  The two cached reads may return    *)
(* rows of an earlier time, and nothing newer (AuthorityCache).  Of the     *)
(* closure table stand the row from the subject to the resource's owner and *)
(* the managers of the two: all that getRelationship asks it, in as many as *)
(* three reads.                                                             *)
(***************************************************************************)
EXTENDS PolicyEngine, Sequences, FiniteSets

CONSTANTS
  Calls,       \* calls of checkAccess
  PolicyPool,  \* policies that may be created
  Ranks,       \* clearances the subject may have
  Managers,    \* users who may manage the subject or the owner
  Subject, NoManager,
  Sensitivity, \* of the resource
  InitialPolicies, \* the policies there may be at first, in their order
  MaxChanges   \* bound: mutations

ASSUME MaxChangesAssumption == MaxChanges \in Nat

ASSUME ManagersAssumption ==
  Subject \notin Managers /\ NoManager \notin Managers /\ Subject # NoManager

ASSUME InitialPoliciesAssumption == InitialPolicies \subseteq Seq(PolicyPool)

VARIABLES
  facts,     \* the committed rows about tenant, subject and resource
  policies,  \* the tenant's policies in the order they were created
  call,      \* call[c]: the state of one call
  audit,     \* rows of AccessAuditLog: <<call, effect>>
  changes    \* mutations so far

vars == <<facts, policies, call, audit, changes>>

-----------------------------------------------------------------------------
(* Who the resource's owner is, the managers of subject and owner, and      *)
(* above: whether the subject is above the owner's manager.  The managers   *)
(* are those of a forest.                                                   *)
Ends == {"subject", "owner"}

Superiors == Managers \cup {NoManager, Subject}

ChartOK(f) ==
  /\ f.managers["subject"] # Subject
  /\ f.above => f.managers["owner"] \notin {Subject, NoManager, f.managers["subject"]}

SubjectIsAbove(f) == f.managers["owner"] = Subject \/ f.above

SameManager(managers) ==
  managers["subject"] = managers["owner"] /\ managers["owner"] # NoManager

(* What RebacEvaluator.resolve answers of one moment. *)
Relationship(f) ==
  CASE f.owner = "nobody"              -> "NONE"
    [] f.owner = "subject"             -> "SELF"
    [] f.managers["owner"] = Subject   -> "DIRECT_MANAGER"
    [] f.above                         -> "ANCESTOR"
    [] SameManager(f.managers)         -> "SIBLING"
    [] OTHER                           -> "NONE"

Facts ==
  {f \in [tenant : {"ACTIVE", "SUSPENDED"},
          employmentStatus : {"ACTIVE", "SUSPENDED", "missing"},
          resource : BOOLEAN, clearance : Ranks, permission : BOOLEAN,
          owner : {"nobody", "subject", "other"},
          managers : [Ends -> Superiors], above : BOOLEAN] : ChartOK(f)}

Context(f, relationship) ==
  [department |-> "none", location |-> "none",
   employmentStatus |-> f.employmentStatus, clearance |-> f.clearance,
   sensitivity |-> Sensitivity, relationship |-> relationship,
   hasRbacPermission |-> f.permission]

PolicyRows(log) ==
  FindApplicable({log[i] : i \in DOMAIN log}, "view", "employee")

(* What the pipeline decides when nothing changes while it runs.            *)
DecisionOn(f, log) ==
  IF /\ f.tenant = "ACTIVE" /\ f.employmentStatus = "ACTIVE" /\ f.resource
  THEN Evaluate(PolicyRows(log), Context(f, Relationship(f))) ELSE "DENY"

(* The DENY policies that match. *)
DenyingOn(f, log) == Matched(PolicyRows(log), "DENY", Context(f, Relationship(f)))

NotCalled ==
  [pc |-> "idle", effect |-> "",
   read |-> [employmentStatus |-> "missing", clearance |-> NoLevel,
             permission |-> FALSE, relationship |-> "NONE",
             managers |-> [end \in Ends |-> NoManager]],
   unread |-> Ends, held |-> {"NONE"},
   missedPermission |-> FALSE, missedPolicies |-> {},
   overlapped |-> 0, couldAllow |-> FALSE, denying |-> {}, standing |-> {}]

Init ==
  /\ facts \in {f \in Facts : f.employmentStatus # "SUSPENDED"}
  /\ policies \in InitialPolicies
  /\ call = [c \in Calls |-> NotCalled]
  /\ audit = {}
  /\ changes = 0

-----------------------------------------------------------------------------
(* One call.  Each read is one await and read keeps what it returned.       *)
(* History, up to the decision: overlapped counts the mutations committed   *)
(* since the call began, couldAllow says that an ALLOW was right at some    *)
(* moment of it, denying holds the DENY policies that matched at some       *)
(* moment, standing those that matched at all, and held the relationships   *)
(* there were from the first read of the closure table to the last.  What   *)
(* the caches did not return although it was committed is missed.           *)

Start(c) ==
  /\ call[c] = NotCalled
  /\ call' = [call EXCEPT ![c] =
       [@ EXCEPT !.pc = "tenant",
                 !.couldAllow = DecisionOn(facts, policies) = "ALLOW",
                 !.denying = DenyingOn(facts, policies),
                 !.standing = DenyingOn(facts, policies)]]
  /\ UNCHANGED <<facts, policies, audit, changes>>

Learn(c, from, next, known) ==
  /\ call[c].pc = from
  /\ call' = [call EXCEPT ![c] = [@ EXCEPT !.pc = next, !.read = known]]
  /\ UNCHANGED <<facts, policies, audit, changes>>

(* Fault: the refusal is recorded without its effect. *)
RefuseSilently(c, from) ==
  /\ call[c].pc = from
  /\ call' = [call EXCEPT ![c].pc = "audit"]
  /\ UNCHANGED <<facts, policies, audit, changes>>

(* deny(...): the validation stages end the evaluation with a DENY.         *)
Refuse(c, from) ==
  /\ call[c].pc = from
  /\ call' = [call EXCEPT ![c] = [@ EXCEPT !.pc = "audit", !.effect = "DENY"]]
  /\ UNCHANGED <<facts, policies, audit, changes>>

ValidateTenant(c) ==
  \/ facts.tenant = "ACTIVE" /\ Learn(c, "tenant", "subject", call[c].read)
  \/ facts.tenant # "ACTIVE" /\ Refuse(c, "tenant")

(* The subject's columns are read here and used until the end.              *)
ValidateSubject(c) ==
  \/ /\ facts.employmentStatus = "ACTIVE"
     /\ Learn(c, "subject", "resource",
          [call[c].read EXCEPT !.employmentStatus = facts.employmentStatus,
                               !.clearance = facts.clearance])
  \/ facts.employmentStatus # "ACTIVE" /\ Refuse(c, "subject")

ValidateResource(c) ==
  \/ facts.resource /\ Learn(c, "resource", "permissions", call[c].read)
  \/ ~ facts.resource /\ Refuse(c, "resource")

(* permissionNamesForUser, then the RBAC evaluator.                         *)
Permitted(k, cached) ==
  [k EXCEPT !.pc = "relationship",
            !.read = [k.read EXCEPT !.permission = cached],
            !.missedPermission = (cached # facts.permission)]

ReadPermissions(c) ==
  \E cached \in {FALSE, facts.permission} :
    /\ call[c].pc = "permissions"
    /\ call' = [call EXCEPT ![c] = Permitted(call[c], cached)]
    /\ UNCHANGED <<facts, policies, audit, changes>>

(* getRelationship: who owns the resource, and the row from the subject to  *)
(* the owner.  Only when there is no such row the managers are read.        *)
Answers(f) == f.owner # "other" \/ SubjectIsAbove(f)

Asked(k, f) ==
  [k EXCEPT !.pc = IF Answers(f) THEN "policies" ELSE "managers",
            !.read = IF Answers(f)
                     THEN [k.read EXCEPT !.relationship = Relationship(f)]
                     ELSE k.read,
            !.held = {Relationship(f)}]

(* Fault: the subject's clearance is read a second time. *)
ResolveRelationshipRereads(c) ==
  /\ call[c].pc = "relationship"
  /\ call' = [call EXCEPT ![c] =
       Asked([call[c] EXCEPT !.read.clearance = facts.clearance], facts)]
  /\ UNCHANGED <<facts, policies, audit, changes>>

ResolveRelationship(c) ==
  /\ call[c].pc = "relationship"
  /\ call' = [call EXCEPT ![c] = Asked(call[c], facts)]
  /\ UNCHANGED <<facts, policies, audit, changes>>

(* Promise.all: the two managers are read in either order, and the later    *)
(* read makes the answer.                                                   *)
Told(k, end, manager) ==
  LET managers == [k.read.managers EXCEPT ![end] = manager]
      unread == k.unread \ {end}
  IN  [k EXCEPT !.pc = IF unread = {} THEN "policies" ELSE "managers",
                !.unread = unread,
                !.read = [k.read EXCEPT !.managers = managers,
                            !.relationship =
                              IF unread = {} /\ SameManager(managers)
                              THEN "SIBLING" ELSE "NONE"]]

ReadManager(c, end) ==
  /\ call[c].pc = "managers" /\ end \in call[c].unread
  /\ call' = [call EXCEPT ![c] = Told(call[c], end, facts.managers[end])]
  /\ UNCHANGED <<facts, policies, audit, changes>>

(* findApplicable, which may know the first n policies only, then the       *)
(* evaluation of those it returned.                                         *)
Judged(k, n) ==
  [k EXCEPT !.pc = "audit",
            !.effect = Evaluate(PolicyRows(SubSeq(policies, 1, n)), Context(k.read, k.read.relationship)),
            !.missedPolicies = {policies[i] : i \in n + 1 .. Len(policies)}]

EvaluatePolicies(c) ==
  \E n \in 0 .. Len(policies) :
    /\ call[c].pc = "policies"
    /\ call' = [call EXCEPT ![c] = Judged(call[c], n)]
    /\ UNCHANGED <<facts, policies, audit, changes>>

(* Fault: the write of the audit row is not awaited. *)
PersistAuditUnawaited(c) ==
  /\ call[c].pc = "audit"
  /\ audit' \in {audit, audit \cup {<<c, call[c].effect>>}}
  /\ call' = [call EXCEPT ![c].pc = "return"]
  /\ UNCHANGED <<facts, policies, changes>>

(* finalize: the audit row is written before anything is returned.          *)
PersistAudit(c) ==
  /\ call[c].pc = "audit"
  /\ audit' = audit \cup {<<c, call[c].effect>>}
  /\ call' = [call EXCEPT ![c].pc = "return"]
  /\ UNCHANGED <<facts, policies, changes>>

Return(c) ==
  /\ call[c].pc = "return"
  /\ call' = [call EXCEPT ![c].pc = "returned"]
  /\ UNCHANGED <<facts, policies, audit, changes>>

(* An awaited statement fails (the connection, a time limit), or its reply  *)
(* is lost, and the call throws: nothing on the way catches it.             *)
Throw(c) ==
  /\ call[c].pc \notin {"idle", "returned", "thrown"}
  /\ call' = [call EXCEPT ![c].pc = "thrown"]
  /\ UNCHANGED <<facts, policies, audit, changes>>

-----------------------------------------------------------------------------
(* The mutations of the other services, one committed row each.             *)
Overlap(k, f, log) ==
  [k EXCEPT !.overlapped = k.overlapped + 1,
            !.couldAllow = k.couldAllow \/ DecisionOn(f, log) = "ALLOW",
            !.denying = k.denying \cup DenyingOn(f, log),
            !.standing = k.standing \cap DenyingOn(f, log),
            !.held = IF k.pc = "managers" THEN k.held \cup {Relationship(f)} ELSE k.held]

Change(f, log) ==
  /\ changes < MaxChanges
  /\ <<f, log>> # <<facts, policies>>
  /\ changes' = changes + 1
  /\ facts' = f
  /\ policies' = log
  /\ call' = [c \in Calls |->
       IF call[c].pc \in {"idle", "audit", "return", "returned", "thrown"}
       THEN call[c] ELSE Overlap(call[c], f, log)]
  /\ UNCHANGED audit

UpdateUser(status, clearance) ==
  /\ facts.employmentStatus # "missing"
  /\ Change([facts EXCEPT !.employmentStatus = status, !.clearance = clearance],
            policies)

GrantPermission == Change([facts EXCEPT !.permission = TRUE], policies)

(* One re-parenting moves the subject, or the owner or someone above the    *)
(* owner; it does not part the subject from those below it.                 *)
OneMoves(f, g) ==
  \/ f.managers["subject"] = g.managers["subject"]
  \/ f.managers["owner"] = g.managers["owner"] /\ f.above = g.above

AssignManager(managers, above) ==
  LET f == [facts EXCEPT !.managers = managers, !.above = above]
  IN  /\ facts.owner = "other" /\ ChartOK(f) /\ OneMoves(f, facts)
      /\ Change(f, policies)

CreatePolicy(p) ==
  /\ \A i \in DOMAIN policies : policies[i] # p
  /\ Change(facts, Append(policies, p))

CallStep(c) ==
  \/ Start(c) \/ ValidateTenant(c) \/ ValidateSubject(c) \/ ValidateResource(c)
  \/ ReadPermissions(c) \/ ResolveRelationship(c) \/ EvaluatePolicies(c)
  \/ (\E end \in Ends : ReadManager(c, end))
  \/ PersistAudit(c) \/ Return(c) \/ Throw(c)

Next ==
  \/ \E c \in Calls : CallStep(c)
  \/ \E status \in {"ACTIVE", "SUSPENDED"}, r \in Ranks : UpdateUser(status, r)
  \/ GrantPermission
  \/ \E managers \in [Ends -> Superiors], above \in BOOLEAN : AssignManager(managers, above)
  \/ \E p \in PolicyPool : CreatePolicy(p)

Spec == Init /\ [][Next]_vars

-----------------------------------------------------------------------------
Decided(c) == call[c].effect # ""

(* What every variable may hold; a call that got past the evaluation has an *)
(* effect.                                                                  *)
TypeOK ==
  /\ facts \in Facts
  /\ policies \in Seq(PolicyPool)
  /\ \A c \in Calls :
       /\ call[c].pc \in {"idle", "tenant", "subject", "resource", "permissions",
                         "relationship", "managers", "policies", "audit", "return",
                         "returned", "thrown"}
       /\ call[c].effect \in Effects \cup {""}
       /\ call[c].pc \in {"audit", "return", "returned"} => Decided(c)
       /\ call[c].unread \subseteq Ends /\ call[c].held \subseteq Relationships
       /\ call[c].read.clearance \in Ranks \cup {NoLevel}
       /\ call[c].standing \subseteq call[c].denying
       /\ call[c].denying \subseteq PolicyPool
       /\ call[c].overlapped \in 0 .. MaxChanges
  /\ audit \subseteq Calls \X Effects
  /\ changes \in 0 .. MaxChanges

(* The relationship answered was that of no moment of the three reads.      *)
Torn(c) == call[c].read.relationship \notin call[c].held

(* A call misses a policy if its cached list does, if the policy asks for a *)
(* permission that the cached names lack, or for a relationship and the one *)
(* answered was torn.                                                       *)
Misses(c, p) ==
  \/ p \in call[c].missedPolicies
  \/ call[c].missedPermission /\ RequiresPermission(p)
  \/ Torn(c) /\ p.relationships # {}

(* A sibling who is made the owner's superior between the reads is related  *)
(* to him as NONE: too late for the row, too early for the manager.         *)
PromotedBetweenReads(c) ==
  /\ call[c].read.relationship = "NONE"
  /\ "SIBLING" \in call[c].held
  /\ call[c].held \cap {"DIRECT_MANAGER", "ANCESTOR"} # {}

(* The pipeline takes no snapshot, but a call that one mutation at most     *)
(* overlaps decides as if it had: it allows only what was allowed at some   *)
(* moment while it ran -- or what a DENY policy forbade that its cached     *)
(* reads, which may be stale, made it miss.  The one mutation that is seen  *)
(* half is the re-parenting that promotes a sibling while getRelationship   *)
(* is between its reads.                                                    *)
OneMutationIsSeenWhole ==
  \A c \in Calls :
    call[c].effect = "ALLOW" /\ call[c].overlapped <= 1
      => \/ call[c].couldAllow
         \/ \E p \in call[c].denying : Misses(c, p)
         \/ PromotedBetweenReads(c)

(* Deny-override holds across the awaits: a DENY policy that matches at     *)
(* every moment of a call decides it, however many mutations the call       *)
(* overlaps and although it reads each fact at a different moment -- unless *)
(* the caches made the call miss it, or the policy names relationships and  *)
(* re-parentings between the reads of getRelationship gave the call one     *)
(* that never held.                                                         *)
StandingDenyWins ==
  \A c \in Calls :
    Decided(c) => \A p \in call[c].standing : call[c].effect = "DENY" \/ Misses(c, p)

(* What a caller is told is what the audit log holds of its call, and no    *)
(* call has two rows: a decision that cannot be recorded is not returned.   *)
OnlyAuditedDecisionsReturn ==
  \A c \in Calls :
    LET rows == {e \in Effects : <<c, e>> \in audit}
    IN /\ call[c].pc = "returned" => rows = {call[c].effect}
       /\ call[c].pc # "returned" => rows \subseteq {call[c].effect}
=============================================================================
