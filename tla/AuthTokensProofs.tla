-------------------------- MODULE AuthTokensProofs --------------------------
(***************************************************************************)
(* What tokens are worth, for any times to live, users, roles and calls.    *)
(* The invariant relates a call, and then the tokens it signs, to the       *)
(* moment it began: its subject was active since, and the authorities it    *)
(* read hold every row committed before that moment and none that the       *)
(* database lacks now.                                                      *)
(***************************************************************************)
EXTENDS AuthTokens, TLAPS

Entered ==
  [pc : {"find", "authorities"}, sub : Subjects, since : Nat]

Signing ==
  [pc : {"sign"}, sub : Subjects, since : Nat,
   roles : SUBSET RoleNames, permissions : SUBSET PermNames]

Tokens ==
  [type : {"access", "refresh"}, sub : Subjects, roles : SUBSET RoleNames,
   permissions : SUBSET PermNames, exp : Nat, took : Nat]

(* The rows committed before the tick since. *)
Old(since) == {row \in DOMAIN born : born[row] < since}

Held(sub, roles, permissions) ==
  sub \in Users => /\ roles \subseteq RolesOf(userRole, sub)
                   /\ permissions \subseteq PermissionsOf(userRole, rolePerm, sub)

Arrived(sub, since, roles, permissions) ==
  sub \in Users =>
    /\ RolesOf(userRole \cap Old(since), sub) \subseteq roles
    /\ PermissionsOf(userRole \cap Old(since), rolePerm \cap Old(since), sub)
         \subseteq permissions

(* The tick at which the call that signed a token began. *)
Since(t) == t.exp - Ttl(t.type) - t.took

CallOK(k) ==
  /\ k \in Entered \cup Signing =>
       k.since <= clock
  /\ k \in Entered /\ k.pc = "authorities" => k.since <= lastActive[k.sub]
  /\ k \in Signing => /\ k.since <= lastActive[k.sub]
                      /\ Held(k.sub, k.roles, k.permissions)
                      /\ Arrived(k.sub, k.since, k.roles, k.permissions)

TokenOK(t) ==
  /\ Since(t) <= clock /\ Since(t) <= lastActive[t.sub]
  /\ t.exp - Ttl(t.type) <= clock
  /\ Held(t.sub, t.roles, t.permissions)
  /\ t.type = "access" => Arrived(t.sub, Since(t), t.roles, t.permissions)
  /\ t.type = "refresh" => t.roles = {} /\ t.permissions = {}

Types ==
  /\ active \in [Subjects -> BOOLEAN]
  /\ userRole \subseteq Users \X Roles
  /\ rolePerm \subseteq Roles \X Perms
  /\ call \in [Calls -> {NotCalled} \cup Entered \cup Signing]
  /\ tokens \subseteq Tokens
  /\ clock \in 0 .. MaxClock
  /\ lastActive \in [Subjects -> -1 .. MaxClock]
  /\ born \in [userRole \cup rolePerm -> 0 .. MaxClock]

Dates ==
  /\ \A s \in Subjects : /\ lastActive[s] <= clock
                         /\ active[s] => lastActive[s] = clock
  /\ \A row \in DOMAIN born : born[row] <= clock

Inv ==
  /\ Types /\ Dates
  /\ \A c \in Calls : CallOK(call[c])
  /\ \A t \in tokens : TokenOK(t)

-----------------------------------------------------------------------------
LEMMA PcOf ==
  /\ NotCalled.pc = "idle" /\ NotCalled \notin Entered /\ NotCalled \notin Signing
  /\ \A k \in Entered : k.pc \in {"find", "authorities"} /\ k \notin Signing
  /\ \A k \in Signing : k.pc = "sign" /\ k \notin Entered
<1>1. NotCalled.pc = "idle"
  BY DEF NotCalled
<1>2. \A k \in Entered : k.pc \in {"find", "authorities"}
  BY DEF Entered
<1>3. \A k \in Signing : k.pc = "sign"
  BY DEF Signing
<1>4. QED
  BY <1>1, <1>2, <1>3

LEMMA TtlIs ==
  ASSUME NEW type
  PROVE  Ttl(type) \in Nat /\ Ttl(type) > 0
BY TtlAssumption DEF Ttl

(* A step of one call that signs nothing. *)
LEMMA ContinueKeeps ==
  ASSUME Inv, NEW c \in Calls, NEW k \in {NotCalled} \cup Entered \cup Signing,
         Continue(c, k), CallOK(k)
  PROVE  Inv'
<1>1. /\ call' = [call EXCEPT ![c] = k]
      /\ UNCHANGED <<active, userRole, rolePerm, tokens, clock, lastActive, born>>
  BY DEF Continue
<1>2. Types'
  BY <1>1 DEF Inv, Types, Subjects, Entered, Signing, Tokens
<1>3. Dates'
  BY <1>1 DEF Inv, Dates
<1>4. \A d \in Calls : call'[d] = IF d = c THEN k ELSE call[d]
  BY <1>1 DEF Inv, Types
<1>5. ASSUME NEW t \in tokens'
      PROVE  TokenOK(t)'
  BY <1>1 DEF Inv, TokenOK, Held, Arrived, Old
<1>6. ASSUME NEW d \in Calls
      PROVE  CallOK(call[d])'
  BY <1>1, <1>4 DEF Inv, CallOK, Held, Arrived, Old
<1>7. QED
  BY <1>2, <1>3, <1>5, <1>6 DEF Inv

LEMMA EnterKeeps ==
  ASSUME Inv, NEW c \in Calls, NEW s \in Subjects, Enter(c, s, "find")
  PROVE  Inv'
<1> DEFINE k == [pc |-> "find", sub |-> s, since |-> clock]
<1>1. clock \in Nat
  BY TtlAssumption DEF Inv, Types
<1>2. k \in Entered /\ k.pc = "find" /\ k.since = clock
  BY <1>1 DEF Entered
<1>3. Continue(c, k)
  BY DEF Enter, Continue
<1> HIDE DEF k
<1>4. CallOK(k)
  BY <1>1, <1>2, PcOf DEF CallOK
<1>5. QED
  BY <1>2, <1>3, <1>4, ContinueKeeps

LEMMA LoginKeeps ==
  ASSUME Inv, NEW c \in Calls, NEW u \in Users, Login(c, u)
  PROVE  Inv'
BY EnterKeeps DEF Login, Subjects

LEMMA RefreshKeeps ==
  ASSUME Inv, NEW c \in Calls, NEW t \in tokens, Refresh(c, t)
  PROVE  Inv'
<1>1. t.sub \in Subjects
  BY DEF Inv, Types, Tokens
<1>2. QED
  BY <1>1, EnterKeeps DEF Refresh

LEMMA EndKeeps ==
  ASSUME Inv, NEW c \in Calls, Continue(c, NotCalled)
  PROVE  Inv'
<1>1. CallOK(NotCalled)
  BY PcOf DEF CallOK
<1>2. QED
  BY <1>1, ContinueKeeps

LEMMA FindUserKeeps ==
  ASSUME Inv, NEW c \in Calls, FindUser(c)
  PROVE  Inv'
<1>1. CASE active[call[c].sub] /\ Continue(c, [call[c] EXCEPT !.pc = "authorities"])
  <2> DEFINE k == [call[c] EXCEPT !.pc = "authorities"]
  <2>1. call[c] \in Entered /\ CallOK(call[c])
    <3>1. call[c].pc = "find" /\ call[c] \in {NotCalled} \cup Entered \cup Signing
      BY DEF FindUser, Inv, Types
    <3>2. CallOK(call[c])
      BY DEF Inv
    <3>3. QED
      BY <3>1, <3>2, PcOf
  <2>2. k \in Entered /\ k.sub = call[c].sub /\ k.since = call[c].since
    BY <2>1 DEF Entered
  <2>3. call[c].sub \in Subjects /\ call[c].since \in Nat
    BY <2>1 DEF Entered
  <2>4. call[c].since <= clock
    BY <2>1 DEF CallOK
  <2>5. lastActive[call[c].sub] = clock
    BY <1>1, <2>3 DEF Inv, Dates
  <2> HIDE DEF k
  <2>6. CallOK(k)
    BY <2>2, <2>4, <2>5, PcOf DEF CallOK
  <2>7. QED
    BY <1>1, <2>2, <2>6, ContinueKeeps DEF k
<1>2. CASE Continue(c, NotCalled)
  BY <1>2, EndKeeps
<1>3. QED
  BY <1>1, <1>2 DEF FindUser

(* What is read now holds every row there is. *)
LEMMA ReadNow ==
  ASSUME NEW s, NEW since
  PROVE  /\ Held(s, RolesOf(userRole, s), PermissionsOf(userRole, rolePerm, s))
         /\ Arrived(s, since, RolesOf(userRole, s), PermissionsOf(userRole, rolePerm, s))
BY DEF Held, Arrived, RolesOf, PermissionsOf

LEMMA ResolveAuthoritiesKeeps ==
  ASSUME Inv, NEW c \in Calls, ResolveAuthorities(c)
  PROVE  Inv'
<1> DEFINE roles == RolesOf(userRole, call[c].sub)
           permissions == PermissionsOf(userRole, rolePerm, call[c].sub)
           k == [pc |-> "sign", sub |-> call[c].sub, since |-> call[c].since,
                 roles |-> roles, permissions |-> permissions]
<1>1. Continue(c, k)
  BY DEF ResolveAuthorities
<1>2. call[c] \in Entered /\ call[c].pc = "authorities" /\ CallOK(call[c])
  <2>1. call[c].pc = "authorities" /\ call[c] \in {NotCalled} \cup Entered \cup Signing
    BY DEF ResolveAuthorities, Inv, Types
  <2>2. CallOK(call[c])
    BY DEF Inv
  <2>3. QED
    BY <2>1, <2>2, PcOf
<1>3. roles \in SUBSET RoleNames /\ permissions \in SUBSET PermNames
  BY DEF RolesOf, PermissionsOf, RoleNames, PermNames
<1>4. /\ Held(call[c].sub, roles, permissions)
      /\ Arrived(call[c].sub, call[c].since, roles, permissions)
  BY ReadNow
<1>5. call[c].since <= clock /\ call[c].since <= lastActive[call[c].sub]
  BY <1>2 DEF CallOK
<1> HIDE DEF roles, permissions
<1>6. /\ k \in Signing /\ k.sub = call[c].sub /\ k.since = call[c].since
      /\ k.roles = roles /\ k.permissions = permissions
  BY <1>2, <1>3 DEF Entered, Signing
<1> HIDE DEF k
<1>7. CallOK(k)
  BY <1>4, <1>5, <1>6, PcOf DEF CallOK
<1>8. QED
  BY <1>1, <1>6, <1>7, ContinueKeeps

LEMMA ValidateApiKeyKeeps ==
  ASSUME Inv, NEW c \in Calls, NEW s \in Services, ValidateApiKey(c, s)
  PROVE  Inv'
<1> DEFINE k == [pc |-> "sign", sub |-> s, since |-> clock,
                 roles |-> {"service"}, permissions |-> {All}]
<1>1. Continue(c, k) /\ active[s] /\ s \in Subjects /\ s \notin Users
  BY TtlAssumption DEF ValidateApiKey, Subjects
<1>2. clock \in Nat /\ lastActive[s] = clock
  BY <1>1, TtlAssumption DEF Inv, Types, Dates
<1>3. k \in Signing /\ k.sub = s /\ k.since = clock
  BY <1>1, <1>2 DEF Signing, RoleNames, PermNames
<1> HIDE DEF k
<1>4. Held(s, k.roles, k.permissions) /\ Arrived(s, clock, k.roles, k.permissions)
  BY <1>1 DEF Held, Arrived
<1>5. CallOK(k)
  BY <1>2, <1>3, <1>4, PcOf DEF CallOK
<1>6. QED
  BY <1>1, <1>3, <1>5, ContinueKeeps

-----------------------------------------------------------------------------
(* A token that is signed over what its call read, or over nothing.         *)
LEMMA TokenIs ==
  ASSUME Inv, NEW c \in Calls, call[c] \in Signing,
         NEW type \in {"access", "refresh"}, NEW roles, NEW permissions,
         \/ type = "access" /\ roles = call[c].roles /\ permissions = call[c].permissions
         \/ type = "refresh" /\ roles = {} /\ permissions = {}
  PROVE  /\ Token(c, type, roles, permissions) \in Tokens
         /\ TokenOK(Token(c, type, roles, permissions))
<1> DEFINE t == Token(c, type, roles, permissions)
           s == call[c].sub
           since == call[c].since
<1>1. /\ s \in Subjects /\ since \in Nat
      /\ roles \in SUBSET RoleNames /\ permissions \in SUBSET PermNames
  BY DEF Signing
<1>2. /\ since <= clock /\ since <= lastActive[s]
      /\ Held(s, call[c].roles, call[c].permissions)
      /\ Arrived(s, since, call[c].roles, call[c].permissions)
  BY DEF Inv, CallOK
<1>3. clock \in Nat /\ Ttl(type) \in Nat
  BY TtlIs, TtlAssumption DEF Inv, Types
<1> DEFINE took == clock - since
           exp == clock + Ttl(type)
<1>4. took \in Nat /\ exp \in Nat
  BY <1>1, <1>2, <1>3
<1>5. t = [type |-> type, sub |-> s, roles |-> roles, permissions |-> permissions,
           exp |-> exp, took |-> took]
  BY DEF Token
<1> HIDE DEF took, exp, s, since
<1>6. /\ t \in Tokens /\ t.type = type /\ t.sub = s /\ t.exp = exp /\ t.took = took
      /\ t.roles = roles /\ t.permissions = permissions
  BY <1>1, <1>4, <1>5 DEF Tokens
<1> HIDE DEF t
<1>7. t.exp - Ttl(t.type) = clock
  BY <1>3, <1>6 DEF exp
<1>8. Since(t) = since
  BY <1>1, <1>3, <1>6, <1>7 DEF Since, took
<1>9. Held(t.sub, t.roles, t.permissions)
  BY <1>2, <1>6 DEF Held
<1>10. t.type = "access" => Arrived(t.sub, Since(t), t.roles, t.permissions)
  BY <1>2, <1>6, <1>8
<1>11. t.type = "refresh" => t.roles = {} /\ t.permissions = {}
  BY <1>6
<1>12. TokenOK(t)
  BY <1>2, <1>3, <1>6, <1>7, <1>8, <1>9, <1>10, <1>11 DEF TokenOK
<1>13. QED
  BY <1>6, <1>12 DEF t

LEMMA SignKeeps ==
  ASSUME Inv, NEW c \in Calls, NEW signed, Sign(c, signed),
         \A t \in signed : t \in Tokens /\ TokenOK(t)
  PROVE  Inv'
<1>1. /\ tokens' = tokens \cup signed /\ call' = [call EXCEPT ![c] = NotCalled]
      /\ UNCHANGED <<active, userRole, rolePerm, clock, lastActive, born>>
  BY DEF Sign
<1>2. Types'
  BY <1>1 DEF Inv, Types, Subjects, Entered, Signing, Tokens
<1>3. Dates'
  BY <1>1 DEF Inv, Dates
<1>4. ASSUME NEW t \in tokens'
      PROVE  TokenOK(t)'
  <2>1. TokenOK(t)
    BY <1>1 DEF Inv
  <2>2. QED
    BY <1>1, <2>1 DEF TokenOK, Held, Arrived, Old
<1>5. ASSUME NEW d \in Calls
      PROVE  CallOK(call[d])'
  <2>1. call'[d] = IF d = c THEN NotCalled ELSE call[d]
    BY <1>1 DEF Inv, Types
  <2>2. CASE d = c
    BY <2>1, <2>2, PcOf DEF CallOK
  <2>3. CASE d # c
    BY <1>1, <2>1, <2>3 DEF Inv, CallOK, Held, Arrived, Old
  <2>4. QED
    BY <2>2, <2>3
<1>6. QED
  BY <1>2, <1>3, <1>4, <1>5 DEF Inv

LEMMA SigningNow ==
  ASSUME Inv, NEW c \in Calls, call[c].pc = "sign"
  PROVE  call[c] \in Signing
<1>1. call[c] \in {NotCalled} \cup Entered \cup Signing
  BY DEF Inv, Types
<1>2. QED
  BY <1>1, PcOf

LEMMA IssueTokensKeeps ==
  ASSUME Inv, NEW c \in Calls, IssueTokens(c)
  PROVE  Inv'
<1>1. call[c] \in Signing
  BY SigningNow DEF IssueTokens
<1>2. Sign(c, {Token(c, "access", call[c].roles, call[c].permissions),
               Token(c, "refresh", {}, {})})
  BY DEF IssueTokens
<1>3. QED
  BY <1>1, <1>2, TokenIs, SignKeeps

LEMMA IssueServiceTokenKeeps ==
  ASSUME Inv, NEW c \in Calls, IssueServiceToken(c)
  PROVE  Inv'
<1>1. call[c] \in Signing
  BY SigningNow DEF IssueServiceToken
<1>2. Sign(c, {Token(c, "access", call[c].roles, call[c].permissions)})
  BY DEF IssueServiceToken
<1>3. QED
  BY <1>1, <1>2, TokenIs, SignKeeps

-----------------------------------------------------------------------------
(* Time and the other operations: no subject is dated back, and what is old *)
(* for a call or a token stays what it was.                                 *)
LEMMA LaterKeeps ==
  ASSUME Inv, Types', Dates', UNCHANGED <<call, tokens>>,
         clock <= clock',
         \A s \in Subjects : lastActive[s] <= lastActive'[s],
         \A s, roles, permissions :
            Held(s, roles, permissions) => Held(s, roles, permissions)',
         \A s, roles, permissions : \A since \in Int :
            since <= clock /\ Arrived(s, since, roles, permissions)
              => Arrived(s, since, roles, permissions)'
  PROVE  Inv'
<1>1. /\ clock \in Int /\ clock' \in Int
      /\ \A s \in Subjects : lastActive[s] \in Int /\ lastActive'[s] \in Int
  BY DEF Inv, Types
<1>2. ASSUME NEW t \in tokens'
      PROVE  TokenOK(t)'
  <2>1. t \in Tokens /\ TokenOK(t)
    BY DEF Inv, Types
  <2>2. t.sub \in Subjects /\ t.exp \in Nat /\ t.took \in Nat /\ Ttl(t.type) \in Nat
    BY <2>1, TtlIs DEF Tokens
  <2>3. Since(t) \in Int /\ Since(t)' = Since(t)
    BY <2>2 DEF Since, Ttl
  <2>4. Since(t) <= clock' /\ Since(t) <= lastActive'[t.sub]
    BY <1>1, <2>1, <2>2, <2>3 DEF TokenOK
  <2>5. t.exp - Ttl(t.type) <= clock'
    BY <1>1, <2>1, <2>2 DEF TokenOK
  <2>6. Held(t.sub, t.roles, t.permissions)'
    BY <2>1 DEF TokenOK
  <2>7. t.type = "access" => Arrived(t.sub, Since(t), t.roles, t.permissions)'
    <3>1. Since(t) <= clock
      BY <2>1 DEF TokenOK
    <3>2. t.type = "access" => Arrived(t.sub, Since(t), t.roles, t.permissions)
      BY <2>1 DEF TokenOK
    <3>3. QED
      BY <2>3, <3>1, <3>2 DEF Since, Ttl
  <2>8. t.type = "refresh" => t.roles = {} /\ t.permissions = {}
    BY <2>1 DEF TokenOK
  <2>9. QED
    BY <2>3, <2>4, <2>5, <2>6, <2>7, <2>8 DEF TokenOK, Ttl
<1>3. ASSUME NEW k \in {NotCalled} \cup Entered \cup Signing, CallOK(k)
      PROVE  CallOK(k)'
  <2>1. CASE k = NotCalled
    BY <2>1, PcOf DEF CallOK, NotCalled, Entered, Signing
  <2>2. CASE k \in Entered
    <3>1. k.sub \in Subjects /\ k.since \in Nat /\ k \notin Signing
      BY <2>2, PcOf DEF Entered
    <3>2. k.since <= clock'
      BY <1>1, <1>3, <2>2, <3>1 DEF CallOK
    <3>3. k.pc = "authorities" => k.since <= lastActive'[k.sub]
      BY <1>1, <1>3, <2>2, <3>1 DEF CallOK
    <3>4. QED
      BY <3>1, <3>2, <3>3 DEF CallOK, Signing, Subjects
  <2>3. CASE k \in Signing
    <3>1. k.sub \in Subjects /\ k.since \in Nat /\ k \notin Entered
      BY <2>3, PcOf DEF Signing
    <3>2. k.since <= clock /\ k.since <= clock' /\ k.since <= lastActive'[k.sub]
      BY <1>1, <1>3, <2>3, <3>1 DEF CallOK
    <3>3. Held(k.sub, k.roles, k.permissions)'
      BY <1>3, <2>3 DEF CallOK
    <3>4. Arrived(k.sub, k.since, k.roles, k.permissions)'
      BY <1>3, <2>3, <3>1, <3>2 DEF CallOK
    <3>5. QED
      BY <3>1, <3>2, <3>3, <3>4 DEF CallOK, Entered, Subjects
  <2>4. QED
    BY <1>3, <2>1, <2>2, <2>3
<1>4. ASSUME NEW c \in Calls
      PROVE  CallOK(call[c])'
  BY <1>3 DEF Inv, Types
<1>5. QED
  BY <1>2, <1>4 DEF Inv

LEMMA SetActiveKeeps ==
  ASSUME Inv, NEW s \in Subjects, NEW status \in BOOLEAN, SetActive(s, status)
  PROVE  Inv'
<1>1. /\ active' = [active EXCEPT ![s] = status]
      /\ lastActive' = [lastActive EXCEPT ![s] = clock]
      /\ UNCHANGED <<userRole, rolePerm, call, tokens, clock, born>>
  BY DEF SetActive
<1>2. clock \in 0 .. MaxClock /\ clock \in -1 .. MaxClock
  BY TtlAssumption DEF Inv, Types
<1>3. \A r \in Subjects : lastActive'[r] = IF r = s THEN clock ELSE lastActive[r]
  BY <1>1 DEF Inv, Types
<1>4. Types'
  BY <1>1, <1>2 DEF Inv, Types, Subjects, Entered, Signing, Tokens
<1>5. \A r \in Subjects : r # s => active'[r] = active[r]
  BY <1>1 DEF Inv, Types
<1>6. Dates'
  <2>1. ASSUME NEW r \in Subjects
        PROVE  lastActive'[r] <= clock /\ (active'[r] => lastActive'[r] = clock)
    <3>1. CASE r = s
      BY <1>2, <1>3, <3>1
    <3>2. CASE r # s
      BY <1>3, <1>5, <3>2 DEF Inv, Dates
    <3>3. QED
      BY <3>1, <3>2
  <2>2. QED
    BY <1>1, <2>1 DEF Inv, Dates, Subjects
<1>7. \A r \in Subjects : lastActive[r] <= lastActive'[r]
  BY <1>2, <1>3 DEF Inv, Types, Dates
<1>8. /\ \A r, roles, permissions :
            Held(r, roles, permissions) => Held(r, roles, permissions)'
      /\ \A r, roles, permissions : \A since \in Int :
            Arrived(r, since, roles, permissions) => Arrived(r, since, roles, permissions)'
  BY <1>1 DEF Held, Arrived, Old
<1>9. QED
  BY <1>1, <1>2, <1>4, <1>6, <1>7, <1>8, LaterKeeps

LEMMA TickKeeps ==
  ASSUME Inv, Tick
  PROVE  Inv'
<1>1. /\ clock < MaxClock /\ clock' = clock + 1
      /\ lastActive' = [s \in Subjects |-> IF active[s] THEN clock + 1 ELSE lastActive[s]]
      /\ UNCHANGED <<active, userRole, rolePerm, call, tokens, born>>
  BY DEF Tick
<1>2. /\ clock \in 0 .. MaxClock /\ clock' \in 0 .. MaxClock /\ clock' \in -1 .. MaxClock
  BY <1>1, TtlAssumption DEF Inv, Types
<1>3. lastActive' \in [Subjects -> -1 .. MaxClock]
  BY <1>1, <1>2 DEF Inv, Types
<1>4. Types'
  BY <1>1, <1>2, <1>3 DEF Inv, Types, Subjects, Entered, Signing, Tokens
<1>5. \A s \in Subjects : /\ lastActive[s] \in -1 .. MaxClock /\ lastActive[s] <= clock
                          /\ lastActive'[s] = IF active[s] THEN clock + 1 ELSE lastActive[s]
  BY <1>1 DEF Inv, Types, Dates
<1>6. Dates'
  <2>1. \A s \in Subjects : /\ lastActive'[s] <= clock'
                            /\ active'[s] => lastActive'[s] = clock'
    BY <1>1, <1>2, <1>5
  <2>2. \A row \in DOMAIN born : born[row] <= clock'
    <3>1. \A row \in DOMAIN born : born[row] \in 0 .. MaxClock /\ born[row] <= clock
      BY DEF Inv, Types, Dates
    <3>2. QED
      BY <1>1, <1>2, <3>1
  <2>3. QED
    BY <1>1, <2>1, <2>2 DEF Dates, Subjects
<1>7. clock <= clock' /\ \A s \in Subjects : lastActive[s] <= lastActive'[s]
  BY <1>1, <1>2, <1>5
<1>8. /\ \A r, roles, permissions :
            Held(r, roles, permissions) => Held(r, roles, permissions)'
      /\ \A r, roles, permissions : \A since \in Int :
            Arrived(r, since, roles, permissions) => Arrived(r, since, roles, permissions)'
  BY <1>1 DEF Held, Arrived, Old
<1>9. QED
  BY <1>1, <1>4, <1>6, <1>7, <1>8, LaterKeeps

(* A row that is committed now is old for no call and no token there is.    *)
LEMMA CommitKeeps ==
  ASSUME Inv, NEW row, Commit(row),
         \/ row \in Users \X Roles /\ userRole' = userRole \cup {row} /\ rolePerm' = rolePerm
         \/ row \in Roles \X Perms /\ rolePerm' = rolePerm \cup {row} /\ userRole' = userRole
  PROVE  Inv'
<1>1. /\ born' = [x \in DOMAIN born \cup {row} |->
                   IF x \in DOMAIN born THEN born[x] ELSE clock]
      /\ UNCHANGED <<active, call, tokens, clock, lastActive>>
  BY DEF Commit
<1>2. /\ born \in [userRole \cup rolePerm -> 0 .. MaxClock] /\ clock \in 0 .. MaxClock
      /\ userRole \subseteq Users \X Roles /\ rolePerm \subseteq Roles \X Perms
      /\ \A x \in DOMAIN born : born[x] <= clock
  BY DEF Inv, Types, Dates
<1>3. born' \in [userRole' \cup rolePerm' -> 0 .. MaxClock]
  BY <1>1, <1>2
<1>4. userRole' \subseteq Users \X Roles /\ rolePerm' \subseteq Roles \X Perms
  BY <1>2
<1>5. Types'
  BY <1>1, <1>3, <1>4 DEF Inv, Types, Subjects, Entered, Signing, Tokens
<1>6. Dates'
  <2>1. \A x \in DOMAIN born' : born'[x] <= clock
    BY <1>1, <1>2
  <2>2. QED
    BY <1>1, <2>1 DEF Inv, Dates, Subjects
<1>7. userRole \subseteq userRole' /\ rolePerm \subseteq rolePerm'
  OBVIOUS
<1>8. \A s, roles, permissions :
         Held(s, roles, permissions) => Held(s, roles, permissions)'
  BY <1>7 DEF Held, RolesOf, PermissionsOf
<1>9. ASSUME NEW since \in Int, since <= clock
      PROVE  /\ userRole' \cap Old(since)' = userRole \cap Old(since)
             /\ rolePerm' \cap Old(since)' = rolePerm \cap Old(since)
  <2>1. Old(since)' = Old(since)
    BY <1>1, <1>2, <1>9 DEF Old
  <2>2. (Users \X Roles) \cap (Roles \X Perms) = {}
    BY TtlAssumption
  <2>3. row \in DOMAIN born => row \in userRole' \cup rolePerm' /\ row \in userRole \cup rolePerm
    BY <1>2
  <2>4. row \in Old(since) => userRole' = userRole /\ rolePerm' = rolePerm
    BY <1>2, <2>2, <2>3 DEF Old
  <2>5. QED
    BY <2>1, <2>4
<1>10. ASSUME NEW s, NEW roles, NEW permissions, NEW since \in Int, since <= clock,
              Arrived(s, since, roles, permissions)
       PROVE  Arrived(s, since, roles, permissions)'
  BY <1>9, <1>10 DEF Arrived, RolesOf, PermissionsOf
<1>11. QED
  BY <1>1, <1>2, <1>5, <1>6, <1>8, <1>10, LaterKeeps DEF Inv, Types

-----------------------------------------------------------------------------
LEMMA InitInv == Init => Inv
<1> SUFFICES ASSUME Init
             PROVE  Inv
  OBVIOUS
<1>1. /\ active \in [Subjects -> BOOLEAN] /\ userRole = {} /\ rolePerm = {}
      /\ call = [c \in Calls |-> NotCalled] /\ tokens = {} /\ clock = 0
      /\ lastActive = [s \in Subjects |-> IF active[s] THEN 0 ELSE -1]
      /\ born = [row \in {} |-> 0]
  BY DEF Init
<1>2. 0 \in 0 .. MaxClock /\ 0 \in -1 .. MaxClock /\ -1 \in -1 .. MaxClock
  BY TtlAssumption
<1>3. lastActive \in [Subjects -> -1 .. MaxClock]
  BY <1>1, <1>2
<1>4. call \in [Calls -> {NotCalled} \cup Entered \cup Signing]
  BY <1>1
<1>5. Types
  BY <1>1, <1>2, <1>3, <1>4 DEF Types
<1>6. Dates
  BY <1>1 DEF Dates
<1>7. \A c \in Calls : CallOK(call[c])
  BY <1>1, PcOf DEF CallOK
<1>8. QED
  BY <1>1, <1>5, <1>6, <1>7 DEF Inv

LEMMA NextKeeps == Inv /\ [Next]_vars => Inv'
<1> SUFFICES ASSUME Inv, [Next]_vars
             PROVE  Inv'
  OBVIOUS
<1>1. ASSUME NEW c \in Calls,
             \/ \E u \in Users : Login(c, u)
             \/ \E t \in tokens : Refresh(c, t)
             \/ \E s \in Services : ValidateApiKey(c, s)
             \/ FindUser(c) \/ ResolveAuthorities(c)
             \/ IssueTokens(c) \/ IssueServiceToken(c)
      PROVE  Inv'
  BY <1>1, LoginKeeps, RefreshKeeps, ValidateApiKeyKeeps, FindUserKeeps,
     ResolveAuthoritiesKeeps, IssueTokensKeeps, IssueServiceTokenKeeps
<1>2. ASSUME \/ \E u \in Users, status \in BOOLEAN : UpdateUser(u, status)
             \/ \E s \in Services, enabled \in BOOLEAN : SwitchService(s, enabled)
      PROVE  Inv'
  BY <1>2, SetActiveKeeps DEF UpdateUser, SwitchService, Subjects
<1>3. ASSUME NEW u \in Users, NEW r \in Roles, AssignRole(u, r)
      PROVE  Inv'
  <2>1. <<u, r>> \in Users \X Roles
    OBVIOUS
  <2>2. QED
    BY <1>3, <2>1, CommitKeeps DEF AssignRole
<1>4. ASSUME NEW r \in Roles, NEW p \in Perms, AssignPermission(r, p)
      PROVE  Inv'
  <2>1. <<r, p>> \in Roles \X Perms
    OBVIOUS
  <2>2. QED
    BY <1>4, <2>1, CommitKeeps DEF AssignPermission
<1>5. CASE Tick
  BY <1>5, TickKeeps
<1>6. CASE UNCHANGED vars
  <2>1. UNCHANGED <<active, userRole, rolePerm, call, tokens, clock, lastActive, born>>
    BY <1>6 DEF vars
  <2>2. Types' /\ Dates'
    BY <2>1 DEF Inv, Types, Dates, Subjects, Entered, Signing, Tokens
  <2>3. /\ \A r, roles, permissions :
              Held(r, roles, permissions) => Held(r, roles, permissions)'
        /\ \A r, roles, permissions : \A since \in Int :
              Arrived(r, since, roles, permissions) => Arrived(r, since, roles, permissions)'
    BY <2>1 DEF Held, Arrived, Old
  <2>4. clock <= clock' /\ \A s \in Subjects : lastActive[s] <= lastActive'[s]
    BY <2>1 DEF Inv, Types
  <2>5. QED
    BY <2>1, <2>2, <2>3, <2>4, LaterKeeps
<1>7. QED
  BY <1>1, <1>2, <1>3, <1>4, <1>5, <1>6 DEF Next

(* The invariant holds for any times to live and number of calls.           *)
THEOREM InvAlways == Spec => []Inv
BY InitInv, NextKeeps, PTL DEF Spec

(* The numbers about a token that the theorems below compare. *)
LEMMA TokenNumbers ==
  ASSUME Inv, NEW t \in tokens
  PROVE  /\ t \in Tokens /\ TokenOK(t) /\ t.sub \in Subjects
         /\ t.exp \in Nat /\ t.took \in Nat /\ Ttl(t.type) \in Nat
         /\ clock \in Nat /\ clock <= MaxClock /\ lastActive[t.sub] \in Int
<1>1. t \in Tokens /\ TokenOK(t) /\ lastActive \in [Subjects -> -1 .. MaxClock]
  BY DEF Inv, Types
<1>2. t.sub \in Subjects /\ t.exp \in Nat /\ t.took \in Nat
  BY <1>1 DEF Tokens
<1>3. clock \in Nat /\ clock <= MaxClock
  BY TtlAssumption DEF Inv, Types
<1>4. QED
  BY <1>1, <1>2, <1>3, TtlIs

(* The types, and that a refresh token carries no authorities.              *)
THEOREM TypeCorrect == Spec => []TypeOK
<1>1. Inv => TypeOK
  <2> SUFFICES ASSUME Inv
               PROVE  TypeOK
    OBVIOUS
  <2>1. \A c \in Calls : call[c].pc \in {"idle", "find", "authorities", "sign"}
    BY PcOf DEF Inv, Types
  <2>2. ASSUME NEW t \in tokens
        PROVE  /\ t.type \in {"access", "refresh"} /\ t.sub \in Subjects
               /\ t.roles \subseteq RoleNames /\ t.permissions \subseteq PermNames
               /\ t.type = "refresh" => t.roles = {} /\ t.permissions = {}
               /\ t.exp \in 0 .. MaxClock + Ttl(t.type)
    <3>1. /\ t.type \in {"access", "refresh"} /\ t.sub \in Subjects
          /\ t.roles \subseteq RoleNames /\ t.permissions \subseteq PermNames
      BY TokenNumbers DEF Tokens
    <3>2. t.type = "refresh" => t.roles = {} /\ t.permissions = {}
      BY TokenNumbers DEF TokenOK
    <3>3. t.exp - Ttl(t.type) <= clock
      BY TokenNumbers DEF TokenOK
    <3>4. t.exp \in 0 .. MaxClock + Ttl(t.type)
      BY <3>3, TokenNumbers, TtlAssumption
    <3>5. QED
      BY <3>1, <3>2, <3>4
  <2>3. QED
    BY <2>1, <2>2 DEF TypeOK, Inv, Types
<1>2. QED
  BY <1>1, InvAlways, PTL

(* A suspension ends every authority within the life of one access token    *)
(* and the call that signed it, however often sessions are refreshed.       *)
THEOREM SuspensionAlwaysEndsAuthority == Spec => []SuspensionEndsAuthority
<1>1. Inv => SuspensionEndsAuthority
  <2> SUFFICES ASSUME Inv, NEW t \in tokens, Verified(t)
               PROVE  clock - lastActive[t.sub]
                        < (IF Authenticates(t) THEN AccessTtl ELSE RefreshTtl) + t.took
    BY DEF SuspensionEndsAuthority
  <2>1. (IF Authenticates(t) THEN AccessTtl ELSE RefreshTtl) = Ttl(t.type)
    BY DEF Authenticates, Ttl
  <2>2. clock < t.exp
    BY DEF Verified
  <2>3. t.exp - Ttl(t.type) - t.took <= lastActive[t.sub]
    BY TokenNumbers DEF TokenOK, Since
  <2>4. clock - lastActive[t.sub] < Ttl(t.type) + t.took
    BY <2>2, <2>3, TokenNumbers
  <2>5. QED
    BY <2>1, <2>4
<1>2. QED
  BY <1>1, InvAlways, PTL

(* The guards never let a user do more than the database grants.            *)
THEOREM GuardsNeverExceedAlways == Spec => []GuardsNeverExceed
<1>1. Inv => GuardsNeverExceed
  <2> SUFFICES ASSUME Inv, NEW t \in tokens, t.sub \in Users
               PROVE  /\ \A p \in Perms : PermissionsGuard(t, p) =>
                            Covers(PermissionsOf(userRole, rolePerm, t.sub), p)
                      /\ \A r \in RoleNames : RolesGuard(t, r) => <<t.sub, r>> \in userRole
    BY DEF GuardsNeverExceed
  <2>1. /\ t.roles \subseteq RolesOf(userRole, t.sub)
        /\ t.permissions \subseteq PermissionsOf(userRole, rolePerm, t.sub)
    BY TokenNumbers DEF TokenOK, Held
  <2>2. QED
    BY <2>1 DEF PermissionsGuard, RolesGuard, Covers, RolesOf
<1>2. QED
  BY <1>1, InvAlways, PTL

(* A grant reaches every token within the life of one and the call that     *)
(* signed it.                                                               *)
THEOREM GrantsAlwaysArrive == Spec => []GrantsArrive
<1>1. Inv => GrantsArrive
  <2> SUFFICES ASSUME Inv, NEW t \in tokens, t.sub \in Users, Authenticates(t)
               PROVE  LET old == {row \in DOMAIN born : born[row] + AccessTtl + t.took <= clock}
                      IN /\ RolesOf(userRole \cap old, t.sub) \subseteq t.roles
                         /\ PermissionsOf(userRole \cap old, rolePerm \cap old, t.sub)
                              \subseteq t.permissions
    BY DEF GrantsArrive
  <2> DEFINE old == {row \in DOMAIN born : born[row] + AccessTtl + t.took <= clock}
  <2>1. t.type = "access" /\ clock < t.exp
    BY TokenNumbers DEF Authenticates, Verified, Tokens
  <2>2. Arrived(t.sub, Since(t), t.roles, t.permissions)
    BY <2>1, TokenNumbers DEF TokenOK
  <2>3. old \subseteq Old(Since(t))
    <3>1. \A row \in DOMAIN born : born[row] \in Nat
      BY DEF Inv, Types
    <3>2. Since(t) = t.exp - AccessTtl - t.took
      BY <2>1 DEF Since, Ttl
    <3>3. AccessTtl \in Nat
      BY TtlAssumption
    <3>4. QED
      BY <2>1, <3>1, <3>2, <3>3, TokenNumbers DEF Old
  <2> HIDE DEF old
  <2>4. /\ RolesOf(userRole \cap old, t.sub) \subseteq t.roles
        /\ PermissionsOf(userRole \cap old, rolePerm \cap old, t.sub) \subseteq t.permissions
    BY <2>2, <2>3 DEF Arrived, RolesOf, PermissionsOf
  <2>5. QED
    BY <2>4 DEF old
<1>2. QED
  BY <1>1, InvAlways, PTL
=============================================================================
