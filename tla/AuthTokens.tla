----------------------------- MODULE AuthTokens -----------------------------
(***************************************************************************)
(* The tokens of auth.service.ts and what the guards admit with them:       *)
(* login, refresh and issueServiceToken run await by await while users are  *)
(* suspended, services disabled and grants added.  A token is never taken   *)
(* back: it ends by its time to live alone.  One tenant, without loss:      *)
(* every read below is by the tenant's id.                                  *)
(***************************************************************************)
EXTENDS Integers, FiniteSets

CONSTANTS
  Users, Services,       \* rows of User and ServiceIdentity
  Roles, Perms,          \* names in Role and Permission
  Wildcard,              \* Wildcard[p]: the name "<resource>.*" for permission p
  All,                   \* the permission name "*"
  TenantStatus,          \* of the tenant: no operation changes it
  Calls,                 \* calls of the three operations
  AccessTtl, RefreshTtl, \* JWT_EXPIRES_IN, JWT_REFRESH_EXPIRES_IN, in ticks
  MaxClock, MaxTokens    \* bounds: ticks, tokens signed

(* The ids of the tables are told apart: a pair belongs to one table. *)
ASSUME TtlAssumption ==
  /\ AccessTtl \in Nat \ {0} /\ RefreshTtl \in Nat \ {0}
  /\ MaxClock \in Nat /\ MaxTokens \in Nat
  /\ Users \cap Services = {} /\ Users \cap Roles = {}

VARIABLES
  active,     \* a user's employmentStatus is ACTIVE, a service is enabled
  userRole,   \* committed pairs of UserRole
  rolePerm,   \* committed pairs of RolePermission
  call,       \* call[c]: where a call is and what it has read
  tokens,     \* every token signed so far; exp is its claim of that name
  clock,
  lastActive, \* history: the last tick at which a subject was active
  born        \* history: born[row] is the tick at which a pair was committed

vars == <<active, userRole, rolePerm, call, tokens, clock, lastActive, born>>

Subjects == Users \cup Services

-----------------------------------------------------------------------------
(* resolveAuthorities, over the pairs of the two tables. *)
RolesOf(assigned, u) == {r \in Roles : <<u, r>> \in assigned}

PermissionsOf(assigned, granted, u) ==
  {p \in Perms : \E r \in RolesOf(assigned, u) : <<r, p>> \in granted}

Ttl(type) == IF type = "refresh" THEN RefreshTtl ELSE AccessTtl

(* verifyAsync accepts a token up to, and not at, the time of its exp.      *)
Verified(t) == clock < t.exp

(* jwt-auth.guard.ts: a verified token that is no refresh token.            *)
Authenticates(t) == Verified(t) /\ t.type # "refresh"

(* permissions.guard.ts and roles.guard.ts, for one required name.          *)
Covers(held, p) == All \in held \/ p \in held \/ Wildcard[p] \in held

PermissionsGuard(t, p) == Authenticates(t) /\ Covers(t.permissions, p)

RolesGuard(t, r) == Authenticates(t) /\ r \in t.roles

NotCalled == [pc |-> "idle"]

Init ==
  /\ active \in [Subjects -> BOOLEAN]
  /\ userRole = {} /\ rolePerm = {}
  /\ call = [c \in Calls |-> NotCalled]
  /\ tokens = {}
  /\ clock = 0
  /\ lastActive = [s \in Subjects |-> IF active[s] THEN 0 ELSE -1]
  /\ born = [row \in {} |-> 0]

-----------------------------------------------------------------------------
(* One call: since is the tick at which it began (history).                 *)
Enter(c, s, pc) ==
  /\ call[c] = NotCalled
  /\ call' = [call EXCEPT ![c] = [pc |-> pc, sub |-> s, since |-> clock]]
  /\ UNCHANGED <<active, userRole, rolePerm, tokens, clock, lastActive, born>>

Continue(c, next) ==
  /\ call' = [call EXCEPT ![c] = next]
  /\ UNCHANGED <<active, userRole, rolePerm, tokens, clock, lastActive, born>>

(* login: the tenant is found and active. *)
Login(c, u) == TenantStatus = "ACTIVE" /\ Enter(c, u, "find")

(* Fault: the new tokens take over the authorities of the one presented. *)
RefreshKeepsClaims(c, t) ==
  /\ call[c] = NotCalled
  /\ t.type = "refresh" /\ Verified(t) /\ active[t.sub]
  /\ Continue(c, [pc |-> "sign", sub |-> t.sub, since |-> clock,
                  roles |-> t.roles, permissions |-> t.permissions])

(* refresh: the token verifies and is a refresh token; its subject is then  *)
(* found as at a login.  The tenant is not looked at.                       *)
Refresh(c, t) == t.type = "refresh" /\ Verified(t) /\ Enter(c, t.sub, "find")

(* Fault: the status of the account is left to the login. *)
FindUserAnyStatus(c) ==
  /\ call[c].pc = "find"
  /\ Continue(c, [call[c] EXCEPT !.pc = "authorities"])

(* The user row: its status is checked as it was read.  A wrong password, a *)
(* user without one or an inactive account end the call.                    *)
FindUser(c) ==
  /\ call[c].pc = "find"
  /\ \/ active[call[c].sub] /\ Continue(c, [call[c] EXCEPT !.pc = "authorities"])
     \/ Continue(c, NotCalled)

(* Fault: the permissions of every role, held by the user or not. *)
ResolveAuthoritiesOfTenant(c) ==
  /\ call[c].pc = "authorities"
  /\ Continue(c, [pc |-> "sign", sub |-> call[c].sub, since |-> call[c].since,
                  roles |-> RolesOf(userRole, call[c].sub),
                  permissions |-> {row[2] : row \in rolePerm}])

ResolveAuthorities(c) ==
  /\ call[c].pc = "authorities"
  /\ Continue(c, [pc |-> "sign", sub |-> call[c].sub, since |-> call[c].since,
                  roles |-> RolesOf(userRole, call[c].sub),
                  permissions |-> PermissionsOf(userRole, rolePerm, call[c].sub)])

(* issueServiceToken: validateApiKey finds the identity, enabled, and the   *)
(* secret fits -- or the call ends.                                         *)
ValidateApiKey(c, s) ==
  /\ active[s]
  /\ call[c] = NotCalled
  /\ Continue(c, [pc |-> "sign", sub |-> s, since |-> clock,
                  roles |-> {"service"}, permissions |-> {All}])

(* A token signed now; took is how long the call has run (history).         *)
Token(c, type, roles, permissions) ==
  [type |-> type, sub |-> call[c].sub, roles |-> roles,
   permissions |-> permissions, exp |-> clock + Ttl(type),
   took |-> clock - call[c].since]

Sign(c, signed) ==
  /\ call[c].pc = "sign"
  /\ Cardinality(tokens \cup signed) <= MaxTokens
  /\ tokens' = tokens \cup signed
  /\ call' = [call EXCEPT ![c] = NotCalled]
  /\ UNCHANGED <<active, userRole, rolePerm, clock, lastActive, born>>

(* Fault: both tokens are signed over the same claims. *)
IssueTokensAlike(c) ==
  /\ call[c].pc = "sign" /\ call[c].sub \in Users
  /\ Sign(c, {Token(c, type, call[c].roles, call[c].permissions) :
                type \in {"access", "refresh"}})

(* issueTokens: an access token and a refresh token without authorities.    *)
IssueTokens(c) ==
  /\ call[c].pc = "sign" /\ call[c].sub \in Users
  /\ Sign(c, {Token(c, "access", call[c].roles, call[c].permissions),
              Token(c, "refresh", {}, {})})

IssueServiceToken(c) ==
  /\ call[c].pc = "sign" /\ call[c].sub \in Services
  /\ Sign(c, {Token(c, "access", call[c].roles, call[c].permissions)})

-----------------------------------------------------------------------------
(* What other operations commit meanwhile. *)
SetActive(s, status) ==
  /\ active[s] # status
  /\ active' = [active EXCEPT ![s] = status]
  /\ lastActive' = [lastActive EXCEPT ![s] = clock]
  /\ UNCHANGED <<userRole, rolePerm, call, tokens, clock, born>>

(* updateUser with an employmentStatus. *)
UpdateUser(u, status) == SetActive(u, status)

(* An operator of the database sets the column enabled. *)
SwitchService(s, enabled) == SetActive(s, enabled)

Commit(row) ==
  /\ born' = [x \in DOMAIN born \cup {row} |->
                IF x \in DOMAIN born THEN born[x] ELSE clock]
  /\ UNCHANGED <<active, call, tokens, clock, lastActive>>

AssignRole(u, r) ==
  userRole' = userRole \cup {<<u, r>>} /\ Commit(<<u, r>>) /\ UNCHANGED rolePerm

AssignPermission(r, p) ==
  rolePerm' = rolePerm \cup {<<r, p>>} /\ Commit(<<r, p>>) /\ UNCHANGED userRole

Tick ==
  /\ clock < MaxClock
  /\ clock' = clock + 1
  /\ lastActive' = [s \in Subjects |-> IF active[s] THEN clock + 1 ELSE lastActive[s]]
  /\ UNCHANGED <<active, userRole, rolePerm, call, tokens, born>>

Next ==
  \/ \E c \in Calls, u \in Users : Login(c, u)
  \/ \E c \in Calls, t \in tokens : Refresh(c, t)
  \/ \E c \in Calls, s \in Services : ValidateApiKey(c, s)
  \/ \E c \in Calls : \/ FindUser(c) \/ ResolveAuthorities(c)
                      \/ IssueTokens(c) \/ IssueServiceToken(c)
  \/ \E u \in Users, status \in BOOLEAN : UpdateUser(u, status)
  \/ \E s \in Services, enabled \in BOOLEAN : SwitchService(s, enabled)
  \/ \E u \in Users, r \in Roles : AssignRole(u, r)
  \/ \E r \in Roles, p \in Perms : AssignPermission(r, p)
  \/ Tick

Spec == Init /\ [][Next]_vars

-----------------------------------------------------------------------------
RoleNames == Roles \cup {"service"}

PermNames == Perms \cup {All}

(* The types; a refresh token carries no authorities. *)
TypeOK ==
  /\ active \in [Subjects -> BOOLEAN]
  /\ userRole \subseteq Users \X Roles
  /\ rolePerm \subseteq Roles \X Perms
  /\ \A c \in Calls : call[c].pc \in {"idle", "find", "authorities", "sign"}
  /\ \A t \in tokens :
       /\ t.type \in {"access", "refresh"} /\ t.sub \in Subjects
       /\ t.roles \subseteq RoleNames /\ t.permissions \subseteq PermNames
       /\ t.type = "refresh" => t.roles = {} /\ t.permissions = {}
       /\ t.exp \in 0 .. MaxClock + Ttl(t.type)
  /\ clock \in 0 .. MaxClock
  /\ lastActive \in [Subjects -> -1 .. MaxClock]

(* Nothing revokes a token, yet a suspension ends in time: while a token    *)
(* verifies, its subject was active no longer ago than the token lives and  *)
(* the call that signed it took -- refreshes do not prolong it, and a       *)
(* refresh token verifies nowhere else.                                     *)
SuspensionEndsAuthority ==
  \A t \in tokens :
    LET lives == IF Authenticates(t) THEN AccessTtl ELSE RefreshTtl
    IN  Verified(t) => clock - lastActive[t.sub] < lives + t.took

(* What the guards let a user do is what the database grants at that very   *)
(* moment, although the token was filled earlier: a token errs on one side. *)
GuardsNeverExceed ==
  \A t \in tokens :
    t.sub \in Users =>
      /\ \A p \in Perms : PermissionsGuard(t, p) =>
           Covers(PermissionsOf(userRole, rolePerm, t.sub), p)
      /\ \A r \in RoleNames : RolesGuard(t, r) => <<t.sub, r>> \in userRole

(* A grant reaches every token: one that still authenticates misses no row  *)
(* older than its time to live and the time its call took.                  *)
GrantsArrive ==
  \A t \in tokens :
    LET old == {row \in DOMAIN born : born[row] + AccessTtl + t.took <= clock}
    IN  t.sub \in Users /\ Authenticates(t) =>
          /\ RolesOf(userRole \cap old, t.sub) \subseteq t.roles
          /\ PermissionsOf(userRole \cap old, rolePerm \cap old, t.sub)
               \subseteq t.permissions
=============================================================================
