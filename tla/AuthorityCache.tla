--------------------------- MODULE AuthorityCache ---------------------------
(***************************************************************************)
(* What a subject holds and which policies apply, behind CacheService: the  *)
(* writes assignRole, assignPermission and createPolicy with the            *)
(* invalidation each runs afterwards, and the two cached reads              *)
(* permissionNamesForUser and findApplicable, on several replicas that      *)
(* share the database and nothing else.  No operation of the service takes  *)
(* a role, a permission or a policy away, so the rows only grow.            *)
(***************************************************************************)
EXTENDS Integers, FiniteSets

CONSTANTS
  Users, Roles, Perms,  \* ids of the rows of three tables, all tenants
  Policies,             \* policies that may be created
  Queries,              \* (tenant, action, resourceType) of findApplicable
  TenantOf,             \* the tenant of each of them
  Governs,              \* Governs[p]: the queries an enabled policy p answers
  Replicas,             \* processes of the service, one cache each
  Readers, Writers,     \* calls under way
  Ttl,                  \* CACHE_TTL_MS in clock ticks
  MaxClock, MaxRows     \* bounds: clock ticks and rows written

ASSUME CacheAssumption ==
  /\ Ttl \in Nat \ {0} /\ MaxClock \in Nat /\ MaxRows \in Nat
  /\ \A p \in Policies : \A q \in Governs[p] :
       q \in Queries /\ TenantOf[q] = TenantOf[p]

VARIABLES
  rows,    \* committed rows of UserRole, RolePermission and Policy
  store,   \* store[i][k]: the entry of key k in the cache of replica i
  load,    \* load[r]: the cached read of reader r
  write,   \* write[w]: the write of writer w, until it has invalidated
  clock,
  purged,  \* history: purged[i] is the set of rows invalidated on replica i
  born     \* history: born[row] is the tick at which the row was committed

vars == <<rows, store, load, write, clock, purged, born>>

-----------------------------------------------------------------------------
(* Rows, by the table they are in.  The foreign keys of RolePermission name *)
(* ids alone: the role may be of another tenant than the permission.        *)
UserRole       == {<<"UserRole", u, r>> : u \in Users, r \in Roles}
RolePermission == {<<"RolePermission", r, p>> : r \in Roles, p \in Perms}
Policy         == {<<"Policy", p>> : p \in Policies}

Keys == Users \cup Queries

(* What the loader of a key selects. *)
PermissionNames(table, u) ==
  {p \in Perms : \E r \in Roles : /\ <<"UserRole", u, r>> \in table
                                  /\ <<"RolePermission", r, p>> \in table}

Applicable(table, q) ==
  {p \in Policies : <<"Policy", p>> \in table /\ q \in Governs[p]}

Loaded(table, k) ==
  IF k \in Users THEN PermissionNames(table, k) ELSE Applicable(table, k)

(* The tenant a row is written in, and the keys dropped after it is written: *)
(* the user's, the permission keys of the tenant, its policy keys.           *)
TenantOfRow(row) ==
  TenantOf[CASE row[1] = "UserRole"       -> row[2]
             [] row[1] = "RolePermission" -> row[3]
             [] row[1] = "Policy"         -> row[2]]

DroppedKeys(row) ==
  CASE row[1] = "UserRole"       -> {row[2]}
    [] row[1] = "RolePermission" ->
         {u \in Users : TenantOf[u] = TenantOfRow(row)}
    [] row[1] = "Policy"         ->
         {q \in Queries : TenantOf[q] = TenantOfRow(row)}

NoEntry == [value |-> {}, expiresAt |-> -1, readAt |-> -1, from |-> {}, to |-> {}]

(* Fault: an entry lives through the tick at which it expires. *)
LiveInclusive(i, k) == store[i][k].expiresAt >= clock

Live(i, k) == store[i][k].expiresAt > clock

NoLoad == [pc |-> "idle"]

NoWrite == [pc |-> "idle"]

Init ==
  /\ rows = {}
  /\ store = [i \in Replicas |-> [k \in Keys |-> NoEntry]]
  /\ load = [r \in Readers |-> NoLoad]
  /\ write = [w \in Writers |-> NoWrite]
  /\ clock = 0
  /\ purged = [i \in Replicas |-> {}]
  /\ born = [row \in {} |-> 0]

-----------------------------------------------------------------------------
(* CacheService.wrap.  A live entry is returned at once and changes nothing. *)

(* get misses (an expired entry is deleted) and the loader is called.       *)
Miss(r, i, k) ==
  /\ load[r] = NoLoad
  /\ ~ Live(i, k)
  /\ store' = [store EXCEPT ![i][k] = NoEntry]
  /\ load' = [load EXCEPT ![r] =
                [pc |-> "query", replica |-> i, key |-> k, from |-> purged[i]]]
  /\ UNCHANGED <<rows, write, clock, purged, born>>

(* The database executes the loader's statement. *)
ReadRows(r) ==
  /\ load[r].pc = "query"
  /\ load' = [load EXCEPT ![r] =
                [pc |-> "set", replica |-> @.replica, key |-> @.key,
                 from |-> @.from, value |-> Loaded(rows, @.key), readAt |-> clock]]
  /\ UNCHANGED <<rows, store, write, clock, purged, born>>

(* Fault: the time to live in another unit than the clock. *)
SetEntryTooLong(r) ==
  /\ load[r].pc = "set"
  /\ LET l == load[r]
     IN  store' = [store EXCEPT ![l.replica][l.key] =
           [value |-> l.value, expiresAt |-> clock + 1000 * Ttl,
            readAt |-> l.readAt, from |-> l.from, to |-> purged[l.replica]]]
  /\ load' = [load EXCEPT ![r] = NoLoad]
  /\ UNCHANGED <<rows, write, clock, purged, born>>

(* The awaited value arrives and is cached, whatever happened meanwhile.    *)
SetEntry(r) ==
  /\ load[r].pc = "set"
  /\ LET l == load[r]
     IN  store' = [store EXCEPT ![l.replica][l.key] =
           [value |-> l.value, expiresAt |-> clock + Ttl, readAt |-> l.readAt,
            from |-> l.from, to |-> purged[l.replica]]]
  /\ load' = [load EXCEPT ![r] = NoLoad]
  /\ UNCHANGED <<rows, write, clock, purged, born>>

-----------------------------------------------------------------------------
(* The writes: the row is committed, the call resumes and invalidates.      *)
CommitRow(w, i, row) ==
  /\ write[w] = NoWrite
  /\ row \in rows \/ Cardinality(rows) < MaxRows
  /\ rows' = rows \cup {row}
  /\ born' = [x \in rows' |-> IF x \in rows THEN born[x] ELSE clock]
  /\ write' = [write EXCEPT ![w] = [pc |-> "invalidate", replica |-> i, row |-> row]]
  /\ UNCHANGED <<store, load, clock, purged>>

(* roles.service.ts assignRole: role and user are found in one tenant.      *)
AssignRole(w, i, u, role) ==
  /\ TenantOf[u] = TenantOf[role]
  /\ CommitRow(w, i, <<"UserRole", u, role>>)

(* permissions.service.ts assignPermission: the permission is found in the  *)
(* tenant, the role is left to the foreign key.                             *)
AssignPermission(w, i, role, p) == CommitRow(w, i, <<"RolePermission", role, p>>)

(* policies.service.ts create: the name is unique in the tenant.            *)
CreatePolicy(w, i, p) ==
  /\ <<"Policy", p>> \notin rows
  /\ CommitRow(w, i, <<"Policy", p>>)

(* Fault: only assignRole invalidates. *)
InvalidateUserOnly(w) ==
  /\ write[w].pc = "invalidate"
  /\ LET i == write[w].replica
         row == write[w].row
     IN  /\ store' = [store EXCEPT ![i] =
              [k \in Keys |-> IF row[1] = "UserRole" /\ k \in DroppedKeys(row)
                              THEN NoEntry ELSE @[k]]]
         /\ purged' = [purged EXCEPT ![i] = @ \cup {row}]
  /\ write' = [write EXCEPT ![w] = NoWrite]
  /\ UNCHANGED <<rows, load, clock, born>>

(* del and delByPrefix, on the replica that served the write.               *)
Invalidate(w) ==
  /\ write[w].pc = "invalidate"
  /\ LET i == write[w].replica
         row == write[w].row
     IN  /\ store' = [store EXCEPT ![i] =
              [k \in Keys |-> IF k \in DroppedKeys(row) THEN NoEntry ELSE @[k]]]
         /\ purged' = [purged EXCEPT ![i] = @ \cup {row}]
  /\ write' = [write EXCEPT ![w] = NoWrite]
  /\ UNCHANGED <<rows, load, clock, born>>

(* Fault: a call that fails takes its row back and invalidates nothing. *)
LoseReplyAndUndo(w) ==
  /\ write[w] # NoWrite
  /\ rows' = rows \ {write[w].row}
  /\ write' = [write EXCEPT ![w] = NoWrite]
  /\ UNCHANGED <<store, load, clock, purged, born>>

(* The row is committed but the reply is lost: the await throws (caught and *)
(* thrown on by assignPermission) and what comes after it is not run.       *)
LoseReply(w) ==
  /\ write[w] # NoWrite
  /\ write' = [write EXCEPT ![w] = NoWrite]
  /\ UNCHANGED <<rows, store, load, clock, purged, born>>

(* A replica restarts: its cache and the calls it was serving are gone.     *)
Restart(i) ==
  /\ store' = [store EXCEPT ![i] = [k \in Keys |-> NoEntry]]
  /\ load' = [r \in Readers |->
        IF load[r] # NoLoad /\ load[r].replica = i THEN NoLoad ELSE load[r]]
  /\ write' = [w \in Writers |->
        IF write[w] # NoWrite /\ write[w].replica = i THEN NoWrite ELSE write[w]]
  /\ UNCHANGED <<rows, clock, purged, born>>

Tick ==
  /\ clock < MaxClock
  /\ clock' = clock + 1
  /\ UNCHANGED <<rows, store, load, write, purged, born>>

Next ==
  \/ \E r \in Readers, i \in Replicas, k \in Keys : Miss(r, i, k)
  \/ \E r \in Readers : ReadRows(r) \/ SetEntry(r)
  \/ \E w \in Writers, i \in Replicas, u \in Users, role \in Roles :
       AssignRole(w, i, u, role)
  \/ \E w \in Writers, i \in Replicas, role \in Roles, p \in Perms :
       AssignPermission(w, i, role, p)
  \/ \E w \in Writers, i \in Replicas, p \in Policies : CreatePolicy(w, i, p)
  \/ \E w \in Writers : Invalidate(w) \/ LoseReply(w)
  \/ \E i \in Replicas : Restart(i)
  \/ Tick

Spec == Init /\ [][Next]_vars

-----------------------------------------------------------------------------
Rows == UserRole \cup RolePermission \cup Policy

(* The types; no entry outlives the last tick by more than its time to live. *)
TypeOK ==
  /\ rows \subseteq Rows
  /\ \A i \in Replicas : \A k \in Keys :
       /\ store[i][k].value \subseteq (IF k \in Users THEN Perms ELSE Policies)
       /\ store[i][k].expiresAt \in -1 .. MaxClock + Ttl
  /\ \A r \in Readers : load[r].pc \in {"idle", "query", "set"}
  /\ \A w \in Writers : write[w].pc \in {"idle", "invalidate"}
  /\ clock \in 0 .. MaxClock

LiveEntries == {e \in Replicas \X Keys : Live(e[1], e[2])}

(* A stale entry errs on one side: it may miss a grant or a policy, it      *)
(* never holds one the database does not -- whatever the order of loads,    *)
(* writes, invalidations and restarts.                                      *)
EntriesNeverExceed ==
  \A e \in LiveEntries :
     store[e[1]][e[2]].value \subseteq Loaded(rows, e[2])

(* Once a write has invalidated a key on a replica, an entry of that key    *)
(* there reflects the row, unless its load was under way while the          *)
(* invalidation ran.                                                        *)
InvalidationHolds ==
  \A e \in LiveEntries :
     LET entry == store[e[1]][e[2]]
         during == entry.to \ entry.from
         known == {row \in purged[e[1]] \ during : e[2] \in DroppedKeys(row)}
     IN  Loaded(known, e[2]) \subseteq entry.value

(* An entry misses no row older than its time to live and the time its load *)
(* took: the bound on staleness that holds on every replica, also for       *)
(* writes served elsewhere and for invalidations that never ran.            *)
StalenessBounded ==
  \A e \in LiveEntries :
     LET entry == store[e[1]][e[2]]
         old == {row \in rows : born[row] + entry.expiresAt - entry.readAt <= clock}
     IN  Loaded(old, e[2]) \subseteq entry.value

-----------------------------------------------------------------------------
(* cache.service.ts: the two reads are "invalidated whenever                *)
(* roles/permissions/policies change": where every row was written and      *)
(* invalidated, an entry is what the database holds.                        *)
FreshAfterInvalidation ==
  \A e \in LiveEntries :
     rows \subseteq purged[e[1]] =>
       store[e[1]][e[2]].value = Loaded(rows, e[2])
=============================================================================
