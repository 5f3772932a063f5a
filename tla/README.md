# Formal model of the IAM / access-control service

TLA+ modules, TLC runs and TLAPS proofs about the service in `src/`: a
multi-tenant GraphQL service (NestJS, Prisma, PostgreSQL) that answers
`checkAccess(subject, action, resource)` from roles (RBAC), attributes (ABAC)
and the management hierarchy (ReBAC), combined by stored policies.

Run a module with `tlc -config X.cfg M.tla`; `tlapm M.tla` checks the proofs of
`ClosureTableProofs`, `HierarchyProofs`, `PolicyProofs`, `AuthorityCacheProofs`,
`CheckAccessProofs`, `AuthTokensProofs`, `TenantDataProofs` and `SeedProofs`.
`PROJECT.json` lists runs, mutants, theorems, findings, hazards and the source lines of every definition.

## 1. Inventory of the system

| Component | State | Operations | Interacts with |
| --- | --- | --- | --- |
| Organization hierarchy (`src/hierarchy`) | table `OrganizationHierarchyClosure`, column `User.managerId` | `addNode`, `assignManager` (one interactive transaction), six queries | Users (writes), ReBAC evaluator (reads) |
| Users (`src/users`) | table `User` | `create` (three transactions), `assignManager`, `update` | Hierarchy |
| Policy evaluators (`src/authorization/evaluators`) | none | RBAC, ABAC, ReBAC, combination | Authorization engine |
| Authorization engine (`src/authorization`) | none of its own | `checkAccess`: its awaited reads, the relationship in as many as three of them, and one awaited write | every other component |
| Cache (`src/common/cache`) | one in-memory map per process | `get`, `set`, `del`, `delByPrefix`, `wrap` | Permissions and Policies (loads and invalidations) |
| Roles and permissions (`src/roles`, `src/permissions`) | `Role`, `UserRole`, `Permission`, `RolePermission` | `assignRole`, `assignPermission`, `permissionNamesForUser` | Cache |
| Policies (`src/policies`) | `Policy` | `create`, `findApplicable` | Cache |
| Audit (`src/audit`) | `AccessAuditLog`, append-only | `record`, listing | Authorization engine |
| Authentication (`src/auth`), guards (`src/common/guards`), service identities | signed tokens; `ServiceIdentity` | `login`, `refresh`, `issueServiceToken`, `validateApiKey` | roles and permissions |
| Tenants, departments, tenant-scoped repositories (`src/tenants`, `src/departments`, `src/common/repositories`) | `Tenant`, `Department`, and every table with a `tenantId` | create, lookup and update filtered by tenant | every handler that writes |
| Exception filter (`src/common/filters`) | none | one code per exception | the client of every call |
| Seed (`prisma/seed.ts`, `docker-entrypoint.sh`) | writes every table | check, cascade delete, one insert per table and tenant, at every start of a container | Hierarchy (closure rows), Policies, the service that starts after it |
| Infrastructure | -- | bootstrap, health, metrics, tracing, logging, GraphQL wiring | -- |

Hard behaviours, and the properties that make each component correct:

* **Hierarchy.** Every re-parenting rewrites many rows of a derived table in one
  READ COMMITTED transaction; two of them interleave statement by statement and
  block, deadlock or read each other's committed rows. `createUser` is three
  transactions and may die between them. Correct means: the table is the closure
  of the manager edges, the chart stays a forest, the one-row cycle check is
  exact, and each query says what walking the chart would say.
* **Cache.** Loads, invalidations, restarts and clock ticks interleave on several
  replicas; an invalidation reaches one replica, or none if the reply of the
  write is lost. Correct means: a stale entry errs on one side, its staleness is
  bounded, and an invalidation is undone only by a load it overlaps.
* **Evaluators.** Policies, grants, clearances and managers change one at a time
  in any order. Correct means: each change can turn a decision one way only.
* **Authorization engine.** It reads moment by moment and takes no snapshot, the
  relationship alone at up to three moments; each await may throw. Correct means: what mixed reads can decide is bounded,
  deny-override holds across them, and no decision is returned unrecorded.
* **Authentication.** No token is ever revoked; login reads the account, waits for
  a password comparison and reads the authorities; the guards look at tokens
  only. Correct means: a suspension ends every authority within one access
  lifetime of the last token signed, the guards let through no more than the
  database grants, and what is granted arrives with the next refresh.
* **Tenant data.** A handler looks its ids up in the tenant, or leaves them to
  foreign keys that know no tenant, and writes in a later statement without a
  lock; a connection may be lost before or after a statement, and the filter
  turns what is thrown into a code. Correct means: what was looked up is still
  there and of the tenant when it is written, another tenant's calls change
  nothing a tenant sees, no grant leaves its tenant (the code lets it), no two users
  of a tenant get one address, and a client may trust what a reply says was written.
* **Seed.** A dozen statements per tenant without a transaction, run by every
  container, skipped when a tenant row exists, followed by the service even when
  it failed. Correct means: a half-seeded tenant needs a death, a rejected statement, an
  overlap or a write during the seeding and allows nothing the full one denies; what the
  service wrote is lost to a forced reset or a race only; the computed closure
  rows are those the service would have written.

## 2. Modules

| Module | Models | Composes |
| --- | --- | --- |
| `ChartWalk` | climbing from manager to manager, as a recursive function over distances | -- |
| `OrgChart` | abstract specification: a forest, a user joins, a manager is assigned | `ChartWalk` |
| `ClosureTable` | the table as a function `t[a][d]` = depth or `NoRow` (the unique index makes it one), each statement and each query as an operator | `ChartWalk` |
| `ClosureTableProofs` | lemmas about those operators | `ClosureTable` |
| `Hierarchy` | the tenant's hierarchy, a transaction per step | `ClosureTable`; implements `OrgChart` |
| `HierarchyTx` | `assignManager` and `getRelationship` statement by statement | extends `Hierarchy`, whose step `AssignManager` is what `UnrelatedCallsAreAtomic` compares with |
| `HierarchyProofs` | theorems about `Hierarchy` and `HierarchyTx` | `HierarchyTx`, `ClosureTableProofs` |
| `AuthorityCache` | `CacheService` with its two users, on several replicas | -- |
| `AuthorityCacheProofs` | theorems about `AuthorityCache` | `AuthorityCache` |
| `PolicyEngine` | the evaluators, pure | -- |
| `PolicyChanges` | the mutations that move a decision | `PolicyEngine` |
| `PolicyProofs` | theorems about `PolicyChanges` | `PolicyChanges` |
| `CheckAccess` | the pipeline, await by await, against the mutations | `PolicyEngine` |
| `CheckAccessProofs` | theorems about `CheckAccess` | `CheckAccess` |
| `AuthTokens` | login, refresh, service tokens, guards, suspension, time | -- |
| `AuthTokensProofs` | theorems about `AuthTokens` | `AuthTokens` |
| `TenantData` | the mutations that fill a tenant, over the tenant-scoped repositories, with the replies of the exception filter | -- |
| `TenantDataProofs` | theorems about `TenantData` | `TenantData` |
| `Seed` | the seed script on several containers | `ClosureTable`; its rows instantiate `Hierarchy` |
| `DemoTenant` | the seeded rows of tenant A and the decisions over them | `Seed`, `ClosureTable`, `PolicyEngine` |
| `SeedProofs` | theorems about `Seed` and `DemoTenant` | `DemoTenant`, `ClosureTableProofs` |

`MC*` modules give TLC its instances. Operators introduced by a comment
`Fault:` are deliberately broken variants of the definition that follows them;
they are used by no specification and show that the properties notice.

### Hierarchy

`users`, `managerId` and `closure` are the committed rows; `call[u]` is what the
`createUser` call of `u` still has to do. `InsertUser`, `RegisterNode` and
`AttachNewUser` are its three transactions, `AbandonCreate` the process dying or
the next transaction failing between two of them; `AssignManager` is the
mutation of that name. `CommitManager` is the committed effect of
`hierarchyService.assignManager`: both nodes, the cycle check, detach,
cross join, `managerId`. `Foreign` are ids of other tenants' users: the foreign
keys name a user id alone, and `createUser` does not look its manager up.

### HierarchyTx

One action per statement of the transaction, over the committed rows of
`Hierarchy` (`closure`, `managerId`). A transaction holds its own
uncommitted rows in `tx[w].own`; `View(w)` is what its next statement sees under
READ COMMITTED. Statements wait for the locks on the keys they write
(`Blockers`); `deleteMany` takes its rows from one snapshot and deletes what is
left of them once it holds the locks, which is how PostgreSQL re-checks rows.
`BreakDeadlock` is the database's detector, `Crash` a lost transaction or
Prisma's time limit. Readers run `getRelationship`: the pair's row, then the two
direct managers in either order. `related`, `held` and `commits` are history:
`related` becomes true, and stays so, when one of two overlapping calls moves a user
who is one of the other's two users or above one of them (`Touches`). From then on the rows may fit no chart, and the properties say nothing.

### AuthorityCache

`store[i][k]` is the entry of key `k` on replica `i`. `Miss`, `ReadRows` and
`SetEntry` are the three moments of `wrap`; `AssignRole`, `AssignPermission` and
`CreatePolicy` commit their row, `Invalidate` is the `del` or `delByPrefix` that
follows, `LoseReply` a reply that never comes. `from`, `to`, `readAt`, `purged`
and `born` are history. A load is one statement: Prisma may split the nested
select, but rows are only ever added, so such a load returns something between
what it would return at its first and at its last statement. A live entry is
returned with no change of state, so a hit is no action.

### PolicyEngine, PolicyChanges, CheckAccess

A policy is a record of clauses, clearances are ranks, names are members of small
sets; reasons and traces are left out. `PolicyChanges` applies one mutation at a
time to one request; `CheckAccess` takes the request apart: each action from
`ValidateTenant` to `PersistAudit` is one await of `runPipeline` or `finalize`,
`Throw` an await that fails, or a reply that is lost. `getRelationship` is taken
apart as well: `ResolveRelationship` reads the row from the subject to the resource's
owner, and answers if there is one; otherwise `ReadManager` reads the managers of
both, in either order. `facts` keeps of the closure table what these three reads can
see: the two managers, and whether the subject is above the owner's (`above`).
`ChartOK` says that they are those of a forest, so the tables that concurrent
related re-parentings corrupt (`HierarchyTx`) are not in this model. `AssignManager`
moves the subject, or the owner or someone above the owner. The two cached reads may
return an earlier value, as `AuthorityCache` shows; what they did not return although
it was committed is in `missedPermission` and `missedPolicies`. `overlapped`,
`couldAllow`, `denying`, `standing` and `held` (the relationships there were from the
first read of the table to the last) are history, too.

A call starts in any state of the facts: tenant and subject active or not,
resource there or not, permission held or not, any managers.

`getRelationship` can answer what no moment held: a sibling made the owner's manager
after the first read and before the others is `NONE`, too late for the row and too
early for the manager. Both properties name what that costs. `PromotedBetweenReads`,
in `OneMutationIsSeenWhole`, is that one re-parenting, the only mutation that is
seen half. `Torn`, in `Misses`, is an answer that was that of no moment:
`StandingDenyWins` then says nothing of the policies with a relationship clause. A
DENY on {SIBLING, DIRECT_MANAGER} that matches before and after may so be
missed; TLC reaches such calls.

### AuthTokens

`clock` is the clock of `jsonwebtoken`, advanced by `Tick`. A token is a record of
its kind, principal, claims and expiry; `tokens` keeps every one signed, since
none is revoked. `Login` and `Refresh` start a call, `FindUser` reads the
account, `ResolveAuthorities` its roles and their permissions, `IssueTokens`
signs: three moments, around and between which `UpdateUser`, `AssignRole` and
`AssignPermission` commit. `ValidateApiKey` and `IssueServiceToken` are
the two moments of a service token. `Authenticates`, `RolesGuard` and `PermissionsGuard` are what the
guards say of a token. Signatures, password comparison and key hashes are taken
as sound. `refresh` looks at the account but not at its tenant, so a session
outlives the suspension of its tenant until the access token meets `checkAccess`.

### TenantData

`db` holds the tables: which rows there are (`rows`; `TenantOf` is the column
`tenantId`), the foreign keys `refOf` and `managerOf`, the addresses `emailOf`, the
join rows and the nodes of the closure table. A user is a row apart from its address:
`createUser` gets a generated id (`Fresh`), `updateUser` may change the address, and
both meet the unique index on tenant and address (`Taken`), `P2002`, of which the
filter makes `CONFLICT`. For the other tables an id stands for the row with its
name or slug, which no operation changes. `call[c]` is a request under way, `answer` the reply
this step gives a client. One operator per input type of the resolvers
(`CreateUserInput` and its like) is the set of inputs: the tenant is the token's,
every id a client sends is any id of any tenant. `LookedUp` are the ids a handler
finds in its tenant first; `Lookup` answers one of them, `Decide` follows when
all have, `Write` is the statement, `RegisterNode` and `AttachManager` go on to
the hierarchy, `Return` replies. `Forbid` is the role guard. `Normalize` is the
exception filter, `Rejected` the `catch` of `assignPermission` before it.

Faults: `LoseConnection` rejects the await of any statement, with or without its
effect. A cycle is refused or not (`RefuseCycle`): which of the two is the
question of `Hierarchy`. The upserts of the join tables name one unique key and the
values they create, which Prisma sends as one `INSERT .. ON CONFLICT`: they are
taken as idempotent and atomic. A tenant made by `createTenant` has no user who could act in it, and no
operation of the service deletes a row.

### Seed and DemoTenant

`rows[t]` is the set of tables that hold the rows the script has for `t`, so a
statement is one `Insert`; `References` are the foreign keys, `FailInsert` the
key that is taken or the row that is missing, `Reject` any other reason for which the
database turns down the statement the script awaits: a lost connection, a restart,
a time limit. Either way the script exits and the service starts. A container is down, between its
check and its deletion, inserting, or serving: the entrypoint starts the service
after the script whether or not it failed. `Serve` is any write of the service
to a tenant that has users. `forced`, `raced` and `disturbed` are history:
`disturbed` says that a seeding was cut by a death or a `Reject`, or overlapped with
another run or a write.
`Staff` and `Manager` are the users of the script and their managers;
`ChartsAssumption` says that they form forests, which TLC evaluates for the
script's own. `BuildClosureRows` is its loop, `Distance` the climb it makes for
each pair. `Seeded(t)` instantiates `Hierarchy` with the seeded rows:
`SeededTenantIsConsistent` asks its inductive invariant of them, so the theorems about every later state of the
hierarchy hold of a seeded tenant as of an empty one. Two containers that start
together can leave a half-seeded tenant without any death: a role written by the
one makes the other fail, which `disturbed` records as an overlap.

`DemoTenant` holds the users, grants, resources and policies of tenant A and
decides requests over whichever tables are filled: resource lookup with its
fallback to the user row, permission names, relationship, policies. Its
`Decide` is the pipeline in one moment; `CheckAccess` is the same pipeline with
its awaits. `FailOpen` collects the sets of tables over which a request would
be allowed that the full tenant denies; `HalfSeededAllowsNoMore` keeps the seed
out of them. `DemoAssumption`: the two employees of the fixture are among the
staff. `DemoChartAssumption`: the managers of the script's named users, a CEO above
all, and two staffs with no user in common; TLC evaluates both for the script's own
chart. The README's acceptance scenarios are `Allowed` and `Denied`.

## 3. Runs

| Run | Shows | Bounds |
| --- | --- | --- |
| `hierarchy` | types, closure, forest, exact cycle check, queries, no hidden duplicates, subtrees move whole, implements `OrgChart` | three users and one of another tenant: chains of depth 3, re-parenting inside and across chains, a foreign manager |
| `tx` | calls that touch no user of each other's chains take effect as if alone; what `getRelationship` can answer while they do; every call ends | two writers of a call each, one reader, three users: they can block and deadlock; one chart of each shape, all users nodes of the table or none (`OneOfEachShape`) |
| `cache` | one-sided, bounded staleness; invalidation | two replicas, two readers, one writer, a time to live of one; `Focus` keeps a behaviour to one policy on both replicas for three ticks, or to one user, one role and two permissions on one replica at a time for two |
| `policy_changes` | direction of each mutation | three policies out of nine shapes, three clearances, two sensitivities |
| `check_access` | the pipeline against mutations | one call (calls share nothing but the rows they add), two mutations, as many as it takes to mix three moments; one user to manage subject and owner; four policies, one of which may be there at first: an ALLOW and a DENY with relationships, a DENY that asks for a permission, one for a clearance |
| `auth_tokens` | suspension ends authority, guards never exceed the database, grants arrive | a user, a service, a role and a permission; access lifetime 1, refresh lifetime 2, three ticks, four tokens: a session can be refreshed and expire both ways |
| `tenant_data` | references stay valid and in their tenant, isolation, truth of the replies | two calls at a time of any of ten mutations, by two tenants; the rows, ids and addresses of a behaviour are those of one of seven scenes: users with managers of both tenants; a user in a department of its own tenant; one in a department of another; users who want each other's address; departments, a new tenant and a service; a user's grants from both tenants; roles for a foreign user |
| `seed` | half-seeding, resets, consistency of the seeded rows, decisions over them | two containers with any number of starts, deaths and rejected statements, both charts in full; the service writes one table |

Two constraints bound what one behaviour touches. `Focus`: the keys of the two
users of the cache are disjoint, `del` and `delByPrefix` reach the keys of their
own kind, so mixing them adds interleavings and no case. `InOneScene`: operations that
share a row share a scene, a foreign id included; clients send (`Sent`) the requests
of the scenes. `OneOfEachShape` leaves out charts that differ from one that is there
by the users' names, and tables with some users registered and others not. The properties
of `tx` that are no liveness and those of the two constrained runs are also proved,
without these bounds and for any constants.

Every property of these runs has a mutant: a plausible fault in one definition
under which the run must fail.

Runs that end in a counterexample state what the repository says of itself:

| Run | What the repository says | What happens |
| --- | --- | --- |
| `rows_of_other_tenants` | foreign keys stay within a tenant | `createUser` with a manager of another tenant |
| `tx_cycle` | `assignManager` "Prevents cycles" | two concurrent calls close one |
| `tenant_grants` | "Role existence within tenant is enforced by the FK + tenant scoping." (`permissions.service.ts:32`) | a tenant grants its permission to another tenant's role, whose users then have it |
| `cache_fresh` | reads are invalidated whenever rows change | a load that overlaps the write stores the old value afterwards |

Other weaknesses are characterised by a property that holds instead of one that
fails. What an overlapped `getRelationship` can answer: `AnswersExplained`, as
long as calls are unrelated. How
long an entry can outlive its rows, the time to live counting from the end of its
load: `StalenessBounded`. A decision mixed from several moments:
`OneMutationIsSeenWhole`, which says nothing of a call that overlaps two
mutations, since such a call may allow what no single moment allowed. What stale
caches do to it: the same property and `StandingDenyWins` hold of cached reads of any
age, up to the DENY policies that the caches make a call miss (`Misses`). A
half-seeded tenant: `HalfSeededOnlyIfDisturbed`, `HalfSeededAllowsNoMore`. An
ALLOW policy without `maxSensitivity`: `CeilingsProtect`. What a
tenant's calls change for another tenant: nothing but through the grant of
`tenant_grants` (`OthersChangeNothingElse`).
One thing is described here only: `createUser` and `updateUser` leave the
department to its foreign key, which names the id alone, so a user may be in a department of another
tenant although `users.service.ts:68` speaks of "the FK within the tenant". `TypeOK`
of `TenantData` says that the department exists and no more. Concurrent
re-parentings of overlapping chains can leave missing or wrong rows without a
cycle; `UnrelatedCallsAreAtomic` bounds them to such chains and nothing repairs
them.

Deadlock is not checked where calls are bounded and the system may stop
(`HierarchyTx`, `CheckAccess`).

**Fairness.** Only `CallsEnd`, in the run `tx`, needs it. `WF(WriterStep(w))`: the process runs
on and the database executes a statement that is not blocked.
`WF(BreakDeadlock(w))`: PostgreSQL's detector acts on a wait-for cycle. Nothing
obliges a call to start or a connection to die.

## 4. Proofs

`ClosureTableProofs` and `HierarchyProofs` prove, for every finite set of users and
every set of foreign ids, from `ClosureAssumption` and `ForeignAssumption` alone:

* `InvAlways`: `Inv = TypeOK /\ ManagedAreMembers /\ ClosureOK` is inductive.
  `ClosureOK` is the strengthening: that rows of depth 1 are the manager edges is
  not inductive, since a re-parenting computes its rows from all others. Five
  parts are: self rows, composition of paths, one chain of ancestors per user,
  depth-1 rows are manager edges, no row without a manager edge below it.
  `AddNodeClosure` and `ReparentClosure` show that the two table operations
  preserve them, by the rows `ReparentRows` computes: inside the subtree, from
  the new manager's ancestors into it, and elsewhere.
* `TypeCorrect`, `ClosureConsistent`: parts of it.
* `ChartStaysForest`: a group reporting only to itself would have an ancestor
  farther away than any (`ClosureIsForest`).
* `CycleCheckIsExact`: with `CycleIsNoForest`, both directions of the check.
* `Implementation`: every step is a step of `OrgChart`.
* `NothingIsSkipped`, `SubtreeAlwaysMovesAsOnePiece`: from `Inv` and
  `ReparentRows`, by where the two ends of a row are.
* `QueriesAlwaysAnswerTheChart`: the climb of `ChartWalk` is a recursive function
  over distances, and no induction over data is available; instead a claim about
  all distances is shown to have no smallest counterexample (`SmallestElement`). A
  row of depth `n` is then a climb of `n` steps, both ways.

`HierarchyProofs` also proves, of `HierarchyTx` and for any writers, readers and
calls, what the interleaved statements do as long as no call moves a user at or above
one of an overlapping call's (`~ related`). The inductive invariant `TxInv` adds to the types that
then the committed table is consistent and the open calls are apart (`Atomic`): none
moves a chain another works on (`Apart`), and each has read and written
what it would have, alone, on the table that is committed now (`Undisturbed`, by the
statement it is at). One lemma per statement keeps a call undisturbed by its own steps
(`AfterAddUser` .. `AfterInsert`); a commit beside it changes no row it has read or
will read (`CommitBeside`, `StaysUndisturbed`); its own commit is a re-parenting of
the committed table (`CommitIsReparent`). The row locks take no part: calls apart
wait for each other at the rows of depth 0 at most, and nothing is said of the others.

* `UnrelatedCallsAreAlwaysAtomic`: every step is `AssignManager` of `Hierarchy`, or
  changes no committed row. `ConsistentUntilRelated`: hence the closure property
  and the forest hold between any two statements.
* `AnswersAreExplained`: the table is consistent at each moment of `getRelationship`,
  so a wrong answer joins the row of one moment with managers of another; that can
  only look like no relationship or, with two commits between, like siblings.

`PolicyProofs` proves, for every pool of policies with levels as clauses
(`LevelsAssumption`), that the four properties of `PolicyChanges` hold. The
argument is the monotonicity of `Matches` in the fact a mutation changes
(`ClosedBy` splits the ways an access can close).

`AuthorityCacheProofs`, for any replicas, keys, readers, rows and times. `Inv` puts
every load that has read, and every entry, between two sets of rows (`Sound`):
it holds what the rows its replica had invalidated before the load, and the rows
committed in an earlier tick than it read, give, and nothing that the rows of now
do not. Rows only grow, so this survives every later step (`LaterKeeps`); and an
entry that is still there has seen, in `to`, every invalidation of its key, since
`Invalidate` drops the others (`EntrySound`). The upper bound is
`EntriesNeverExceed`, the lower bounds `InvalidationHolds` and `StalenessBounded`.

`CheckAccessProofs`, from `MaxChangesAssumption` and `InitialPoliciesAssumption`, for any pool of policies. `Inv`
relates what a call under way has read to the facts. Of a policy of `standing`,
one that has matched at every moment of the call, each clause whose fact has been
read holds of what was read (`Stands`), the permission clause unless the cached names
lacked it, the relationship clause unless the answer was torn: this gives
`StandingDenyWins` whatever the mutations. While one mutation at most overlaps the call, what it has read agrees
with the facts of one moment of it (`Agrees`): a mutation changes one group of
facts, and where the call has read that group the moment is before the mutation,
otherwise after (`OldOrNew`). A re-parenting between the reads of `getRelationship`
changes the group while it is read; as it moves one end of the pair, the answer is
still that of one side, or it promoted a sibling. Of that moment the call has recorded what was allowed
and denied (`Recorded`). Cached names can only lack the permission and a cached list
only be shorter, so an ALLOW policy that matched what was read matches that moment, and
what did not is a DENY the call missed (`AllowIsOfOneMoment`). This gives
`OneMutationIsSeenWhole`. The audit rows of
a call are its own effect or none (`Audited`), whence `OnlyAuditedDecisionsReturn`.

`AuthTokensProofs`, from `TtlAssumption`. `Inv` dates every call and token by the
tick at which its call began: the subject was active then or later, and the
authorities hold every row committed in an earlier tick (`Arrived`) and none the
database lacks (`Held`). The ids of users, services and roles are kept apart, since
`born` dates the pairs of two tables.

`TenantDataProofs`, from `TenantAssumption` and `SentAssumption`. In `InvAlways` a call that is past its
lookups has found all it looks up in its tenant (`Progress`), and the tenant of a
row never changes, so the references it writes stay (`ReferencesStayAlways`).
`Isolation` shows that a statement changes rows of its own tenant, or adds a
permission of its own tenant to a role (`Allowed`), and that nothing another tenant
sees is made of such rows, its permission checks included unless the role is that
tenant's (`IsolatedIf`): the step that breaks `GrantsStayInTheTenant`.
`ReplyInvAlways` adds what a call has written by the statement it is at (`Known`):
nothing before its first, the row from `node` on, the node from `manager` on, all
of it at `return`. Tables only grow (`Grown`), so the steps of other calls leave that
as it is, and each reply is read off it (`RespondTells`).

`SeedProofs`, for any number of containers and charts, from `TenantsAssumption` (the
two demo tenants differ). `ScriptFills` reads the order off the script: each statement
fills a table of its tenant for the first time, after those its rows refer to. While
nothing has disturbed a seeding, one run at most is seeding, the service has written
nothing and the rows are those of the statements run so far (`SeedingOK`), so no
statement meets a taken key or misses a row (`FailInsertKeeps`) and the last one leaves both tenants complete:
`HalfSeededOnlyAfterInterference`. A run that goes on to delete has been forced, has
found no row, or has been overtaken since (`DeletesOK`): `EditsAlwaysSurvive`.

For any forest (`ChartsAssumption`), the rows the script computes are its closure
(`SeededRowsAreClosure`, by smallest elements again), which is all that
`SeededTenantAlwaysConsistent` needs. `HalfSeededNeverAllowsMore` follows the
pipeline over any set of filled tables: the resource found is the one the full tenant
finds (`SameResource`); the relationship is the same, or `NONE` for want of closure
rows (`SameRelationship`), which satisfies no policy that allows access to an
employee (`PolicyClauses`); and fewer grants open nothing, since no policy that denies
asks for a permission (`PermissionsOnlyOpen`). These are facts of the fixture: a DENY
policy with `requirePermission` would break the theorem.

`ScenariosAlwaysDecide` adds `DemoChartAssumption` and leaves open who else is on the
staff and where. The decision about an employee, the payroll or an expense is reduced to the
relationship, the clearance, the department and the grant (`EmployeeDecision`,
`PayrollDecision`, `ExpenseDecision`). The relationships follow from the closure: the
one user without a manager is above all (`CeoAboveAll`), and a manager who were above a
colleague's report would be above the director they share (`ScenarioAnswers`).

Only model-checked:

* liveness (`CallsEnd`), which the prover does not handle;
* the four runs that end in a counterexample.

## 5. Plan

The order followed, most important first: the hierarchy and its abstract chart
(`Hierarchy`, `OrgChart`), its transaction (`HierarchyTx`), the decision (`PolicyEngine`,
`PolicyChanges`, `CheckAccess`), the caches, tokens, the seed, the tenant's tables;
then the theorems. What is left:

1. A composition of `AuthorityCache` and `CheckAccess`, in place of cached reads of
   any age: how long a call may miss a DENY.
2. Retries in `HierarchyTx`, and what remains true of related calls: which rows they
   may leave wrong.

## 6. Not modelled

* Infrastructure (bootstrap, health, metrics, tracing, logging, GraphQL wiring):
  I/O without state to check.
* Listing, counting and pagination, the queries over the audit log: plain reads.
  `deleteById` of the base repository: nothing calls it.
* The tenant guard: it compares an argument with the token, and the resolver then
  takes the tenant from the token. The `x-api-key` path of the authentication
  guard: it asks `validateApiKey`, which `AuthTokens` models, at every request, so
  nothing can be stale.
* Mappers, validation of inputs, profile columns, status
  numbers and messages of the exception filter.
* Password hashing, key hashes and signatures are taken as sound.

`PROJECT.json` gives the status of every component.
