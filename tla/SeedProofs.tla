------------------------------ MODULE SeedProofs ------------------------------
(***************************************************************************)
(* Proofs about Seed, for any number of containers, and about what the rows *)
(* of a half seeded tenant allow (DemoTenant), for any staff and chart.     *)
(***************************************************************************)
EXTENDS DemoTenant, ClosureTableProofs, SequenceTheorems

TableNames ==
  {"Tenant", "Department", "User", "Closure", "Role", "Permission",
   "RolePermission", "UserRole", "Resource", "Policy", "ServiceIdentity"}

-----------------------------------------------------------------------------
(* The script. *)
LEMMA TablesAre ==
  ASSUME NEW t
  PROVE  LET s == TablesOf(t)
         IN  /\ s \in Seq(TableNames)
             /\ Len(s) = IF t \in HasService THEN 11 ELSE 10
             /\ s[1] = "Tenant" /\ s[2] = "Department" /\ s[3] = "User"
             /\ s[4] = "Closure" /\ s[5] = "Role" /\ s[6] = "Permission"
             /\ s[7] = "RolePermission" /\ s[8] = "UserRole"
             /\ s[9] = "Resource" /\ s[10] = "Policy"
             /\ t \in HasService => s[11] = "ServiceIdentity"
<1> DEFINE first == <<"Tenant", "Department", "User", "Closure", "Role", "Permission",
                      "RolePermission", "UserRole", "Resource", "Policy">>
           last == IF t \in HasService THEN <<"ServiceIdentity">> ELSE << >>
<1>1. first \in Seq(TableNames) /\ Len(first) = 10
  BY DEF TableNames
<1>2. /\ first[1] = "Tenant" /\ first[2] = "Department" /\ first[3] = "User"
      /\ first[4] = "Closure" /\ first[5] = "Role" /\ first[6] = "Permission"
      /\ first[7] = "RolePermission" /\ first[8] = "UserRole"
      /\ first[9] = "Resource" /\ first[10] = "Policy"
  OBVIOUS
<1>3. /\ last \in Seq(TableNames)
      /\ Len(last) = IF t \in HasService THEN 1 ELSE 0
      /\ t \in HasService => last[1] = "ServiceIdentity"
  <2>1. CASE t \in HasService
    <3>1. last = <<"ServiceIdentity">>
      BY <2>1
    <3>2. <<"ServiceIdentity">> \in Seq(TableNames)
      <4>1. "ServiceIdentity" \in TableNames
        BY DEF TableNames
      <4>2. QED
        BY <4>1
    <3>3. Len(<<"ServiceIdentity">>) = 1 /\ <<"ServiceIdentity">>[1] = "ServiceIdentity"
      OBVIOUS
    <3>4. QED
      BY <2>1, <3>1, <3>2, <3>3
  <2>2. CASE t \notin HasService
    <3>1. last = << >>
      BY <2>2
    <3>2. last \in Seq(TableNames) /\ Len(last) = 0
      BY <3>1
    <3>3. QED
      BY <2>2, <3>2
  <2>3. QED
    BY <2>1, <2>2
<1>4. TablesOf(t) = first \o last
  BY DEF TablesOf
<1> HIDE DEF first, last
<1>5. /\ first \o last \in Seq(TableNames)
      /\ Len(first \o last) = Len(first) + Len(last)
      /\ \A i \in 1 .. Len(first) + Len(last) :
           (first \o last)[i] = IF i <= Len(first) THEN first[i] ELSE last[i - Len(first)]
  BY <1>1, <1>3, ConcatProperties
<1>6. QED
  BY <1>1, <1>2, <1>3, <1>4, <1>5

(* The tables filled before the i-th, for a tenant. *)
First(t, i) == {TablesOf(t)[j] : j \in 1 .. i - 1}

(* A table is filled once, after those its rows refer to.                   *)
LEMMA OrderIsSound ==
  ASSUME NEW t, NEW i \in 1 .. Len(TablesOf(t))
  PROVE  /\ TablesOf(t)[i] \notin First(t, i)
         /\ References(TablesOf(t)[i]) \subseteq First(t, i)
<1> DEFINE s == TablesOf(t)
<1>1. /\ Len(s) = IF t \in HasService THEN 11 ELSE 10
      /\ s[1] = "Tenant" /\ s[2] = "Department" /\ s[3] = "User"
      /\ s[4] = "Closure" /\ s[5] = "Role" /\ s[6] = "Permission"
      /\ s[7] = "RolePermission" /\ s[8] = "UserRole"
      /\ s[9] = "Resource" /\ s[10] = "Policy"
      /\ t \in HasService => s[11] = "ServiceIdentity"
  BY TablesAre
<1> HIDE DEF s
<1>2. i \in 1 .. 11 /\ (i = 11 => t \in HasService)
  BY <1>1 DEF s
<1>3. \A j \in 1 .. i - 1 : s[j] # s[i]
  BY <1>1, <1>2
<1>4. /\ i > 1 => s[1] \in First(t, i)
      /\ i > 2 => s[2] \in First(t, i)
      /\ i > 3 => s[3] \in First(t, i)
      /\ i > 5 => s[5] \in First(t, i)
      /\ i > 6 => s[6] \in First(t, i)
  BY <1>2 DEF First, s
<1>5. References(s[i]) \subseteq First(t, i)
  BY <1>1, <1>2, <1>4 DEF References
<1>6. QED
  BY <1>3, <1>5 DEF First, s

(* How many tables of a tenant the first k - 1 statements fill.             *)
Reach(k, t) ==
  LET n == Len(TablesOf(Tenants[1]))
  IN  IF t = Tenants[1] THEN IF k <= n + 1 THEN k - 1 ELSE n
                        ELSE IF k <= n + 1 THEN 0 ELSE k - 1 - n

(* The tables of a tenant the first k - 1 statements fill.                  *)
Before(k, t) == First(t, Reach(k, t) + 1)

Names(t) == {TablesOf(t)[i] : i \in DOMAIN TablesOf(t)}

LEMMA ScriptIs ==
  LET n == Len(TablesOf(Tenants[1]))
      m == Len(TablesOf(Tenants[2]))
  IN  /\ n \in 10 .. 11 /\ m \in 10 .. 11
      /\ Len(Script) = n + m
      /\ \A k \in 1 .. n + m :
           Script[k] = IF k <= n THEN <<Tenants[1], TablesOf(Tenants[1])[k]>>
                                 ELSE <<Tenants[2], TablesOf(Tenants[2])[k - n]>>
<1> DEFINE n == Len(TablesOf(Tenants[1]))
           m == Len(TablesOf(Tenants[2]))
           S(t) == [i \in DOMAIN TablesOf(t) |-> <<t, TablesOf(t)[i]>>]
           a == S(Tenants[1])
           b == S(Tenants[2])
           Pairs == {Tenants[1], Tenants[2]} \X TableNames
<1>1. n \in 10 .. 11 /\ m \in 10 .. 11
  BY TablesAre
<1>2. ASSUME NEW t \in {Tenants[1], Tenants[2]}
      PROVE  /\ S(t) \in Seq(Pairs) /\ Len(S(t)) = Len(TablesOf(t))
             /\ \A i \in 1 .. Len(TablesOf(t)) : S(t)[i] = <<t, TablesOf(t)[i]>>
  <2>1. TablesOf(t) \in Seq(TableNames)
    BY TablesAre
  <2>2. /\ DOMAIN TablesOf(t) = 1 .. Len(TablesOf(t)) /\ Len(TablesOf(t)) \in Nat
        /\ \A i \in 1 .. Len(TablesOf(t)) : TablesOf(t)[i] \in TableNames
    BY <2>1
  <2>3. QED
    BY <2>2
<1>3. Script = a \o b
  BY DEF Script
<1>4. /\ a \in Seq(Pairs) /\ Len(a) = n
      /\ \A i \in 1 .. n : a[i] = <<Tenants[1], TablesOf(Tenants[1])[i]>>
  BY <1>2
<1>5. /\ b \in Seq(Pairs) /\ Len(b) = m
      /\ \A i \in 1 .. m : b[i] = <<Tenants[2], TablesOf(Tenants[2])[i]>>
  BY <1>2
<1> HIDE DEF n, m, a, b, Pairs
<1>6. /\ Len(a \o b) = n + m
      /\ \A i \in 1 .. n + m : (a \o b)[i] = IF i <= n THEN a[i] ELSE b[i - n]
  BY <1>4, <1>5, ConcatProperties
<1>7. \A k \in 1 .. n + m : k > n => k - n \in 1 .. m
  BY <1>1
<1>8. ASSUME NEW k \in 1 .. n + m
      PROVE  Script[k] = IF k <= n THEN <<Tenants[1], TablesOf(Tenants[1])[k]>>
                                   ELSE <<Tenants[2], TablesOf(Tenants[2])[k - n]>>
  <2>1. CASE k <= n
    <3>1. k \in 1 .. n
      BY <1>1, <2>1
    <3>2. QED
      BY <1>3, <1>4, <1>6, <2>1, <3>1
  <2>2. CASE ~ (k <= n)
    <3>1. k - n \in 1 .. m
      BY <1>1, <1>7, <2>2
    <3>2. QED
      BY <1>3, <1>5, <1>6, <2>2, <3>1
  <2>3. QED
    BY <2>1, <2>2
<1>9. Len(Script) = n + m
  BY <1>3, <1>6
<1>10. QED
  BY <1>1, <1>8, <1>9 DEF n, m

LEMMA ScriptSize == Len(Script) \in Nat /\ Len(Script) >= 1
<1> DEFINE n == Len(TablesOf(Tenants[1]))
           m == Len(TablesOf(Tenants[2]))
<1>1. n \in 10 .. 11 /\ m \in 10 .. 11 /\ Len(Script) = n + m
  BY ScriptIs
<1> HIDE DEF n, m
<1>2. QED
  BY <1>1

(* The k-th statement fills a table of its tenant for the first time, after *)
(* those its rows refer to; the last one leaves both tenants complete.      *)
LEMMA ScriptFills ==
  ASSUME NEW k \in 1 .. Len(Script)
  PROVE  LET t == Script[k][1]
             table == Script[k][2]
         IN  /\ t \in Tenant /\ table \in Names(t)
             /\ table \notin Before(k, t)
             /\ References(table) \subseteq Before(k, t)
             /\ Before(k + 1, t) = Before(k, t) \cup {table}
             /\ \A u \in Tenant \ {t} : Before(k + 1, u) = Before(k, u)
<1> DEFINE n == Len(TablesOf(Tenants[1]))
           m == Len(TablesOf(Tenants[2]))
           t == Script[k][1]
           table == Script[k][2]
<1>1. /\ n \in 10 .. 11 /\ m \in 10 .. 11 /\ k \in 1 .. n + m
      /\ Script[k] = IF k <= n THEN <<Tenants[1], TablesOf(Tenants[1])[k]>>
                               ELSE <<Tenants[2], TablesOf(Tenants[2])[k - n]>>
  BY ScriptIs
<1>2. Tenants[1] # Tenants[2]
  BY TenantsAssumption
<1> DEFINE i == IF k <= n THEN k ELSE k - n
<1>3. /\ t \in Tenant /\ i \in 1 .. Len(TablesOf(t)) /\ table = TablesOf(t)[i]
  <2>1. CASE k <= n
    BY <1>1, <2>1 DEF Tenant
  <2>2. CASE k > n
    BY <1>1, <2>2 DEF Tenant
  <2>3. QED
    BY <1>1, <2>1, <2>2
<1>4. Reach(k, t) + 1 = i /\ Reach(k + 1, t) = i
  BY <1>1, <1>2 DEF Reach
<1>5. \A u \in Tenant \ {t} : Reach(k + 1, u) = Reach(k, u)
  BY <1>1, <1>2 DEF Reach, Tenant
<1> HIDE DEF n, m, i, t, table
<1>6. Before(k + 1, t) = Before(k, t) \cup {table}
  <2>1. i \in Nat /\ i >= 1
    BY <1>3
  <2>2. 1 .. (i + 1) - 1 = (1 .. i - 1) \cup {i}
    BY <2>1
  <2>3. QED
    BY <1>3, <1>4, <2>2 DEF Before, First
<1>7. DOMAIN TablesOf(t) = 1 .. Len(TablesOf(t))
  <2>1. TablesOf(t) \in Seq(TableNames)
    BY TablesAre
  <2>2. QED
    BY <2>1
<1>8. table \in Names(t)
  BY <1>3, <1>7 DEF Names
<1>9. table \notin Before(k, t) /\ References(table) \subseteq Before(k, t)
  BY <1>3, <1>4, OrderIsSound DEF Before
<1>10. QED
  BY <1>3, <1>5, <1>6, <1>8, <1>9 DEF t, table, Before

LEMMA ScriptEnds ==
  ASSUME NEW t \in Tenant
  PROVE  Before(1, t) = {} /\ Before(Len(Script) + 1, t) = Names(t)
<1> DEFINE n == Len(TablesOf(Tenants[1]))
           m == Len(TablesOf(Tenants[2]))
<1>1. n \in 10 .. 11 /\ m \in 10 .. 11 /\ Len(Script) = n + m
  BY ScriptIs
<1>2. Reach(1, t) = 0 /\ Reach(Len(Script) + 1, t) = Len(TablesOf(t))
  <2>1. CASE t = Tenants[1]
    BY <1>1, <2>1 DEF Reach
  <2>2. CASE t # Tenants[1]
    BY <1>1, <2>2 DEF Reach, Tenant
  <2>3. QED
    BY <2>1, <2>2
<1>3. DOMAIN TablesOf(t) = 1 .. Len(TablesOf(t)) /\ Len(TablesOf(t)) \in Nat
  <2>1. TablesOf(t) \in Seq(TableNames)
    BY TablesAre
  <2>2. QED
    BY <2>1
<1>4. 1 .. (Len(TablesOf(t)) + 1) - 1 = DOMAIN TablesOf(t)
  BY <1>3
<1>5. QED
  BY <1>2, <1>4 DEF Before, First, Names

-----------------------------------------------------------------------------
Places ==
  [at : {"down", "check", "delete", "insert", "serving"}, step : 0 .. Len(Script),
   forced : BOOLEAN, raced : BOOLEAN]

Types ==
  /\ rows \in [Tenant -> SUBSET TableNames]
  /\ edited \in [Tenant -> SUBSET Written]
  /\ container \in [Containers -> Places]
  /\ disturbed \in BOOLEAN

(* The rows, and that the service writes for users that are there.          *)
RowsOK ==
  \A t \in Tenant :
    /\ rows[t] \subseteq Names(t)
    /\ \A table \in rows[t] \cup edited[t] : References(table) \subseteq rows[t]
    /\ edited[t] # {} => "User" \in rows[t]

StepsOK == \A c \in Containers : Seeding(c) <=> container[c].step # 0

(* A run that is about to delete was told to, or has found nothing, or has  *)
(* been overtaken since.                                                    *)
DeletesOK ==
  \A c \in Containers : container[c].at = "delete" =>
    container[c].forced \/ container[c].raced \/ \A t \in Tenant : rows[t] = {}

(* Undisturbed, one run at most is seeding, and the rows are those of the   *)
(* statements it has run.                                                   *)
SeedingOK ==
  disturbed = FALSE =>
    /\ \A c, d \in Containers : Seeding(c) /\ Seeding(d) => c = d
    /\ \A c \in Containers : Seeding(c) =>
         \A t \in Tenant : rows[t] = Before(container[c].step, t) /\ edited[t] = {}
    /\ (\A c \in Containers : ~ Seeding(c)) =>
         (\A t \in Tenant : rows[t] = {}) \/ (\A t \in Tenant : rows[t] = Names(t))

Inv == Types /\ RowsOK /\ StepsOK /\ DeletesOK /\ SeedingOK

(* A step of the container c that leaves it at p; the others may learn that *)
(* they race.                                                               *)
Moves(c, p) ==
  /\ p \in Places
  /\ \A d \in Containers \ {c} :
       /\ container'[d].at = container[d].at /\ container'[d].step = container[d].step
       /\ container[d].forced => container'[d].forced
       /\ container[d].raced => container'[d].raced
  /\ container'[c] = p
  /\ container' \in [Containers -> Places]

LEMMA MovesAlone ==
  ASSUME Types, NEW c \in Containers, NEW p \in Places,
         container' = [container EXCEPT ![c] = p]
  PROVE  Moves(c, p)
BY DEF Types, Moves

(* A statement of the script. *)
LEMMA StatementIs ==
  ASSUME Inv, NEW c \in Containers, Seeding(c)
  PROVE  container[c].step \in 1 .. Len(Script)
BY DEF Inv, Types, StepsOK, Places

LEMMA NoTenantNoRows ==
  ASSUME Inv, NEW t \in Tenant, "Tenant" \notin rows[t]
  PROVE  rows[t] = {} /\ edited[t] = {}
<1>1. rows[t] \subseteq TableNames
  BY DEF Inv, Types
<1>2. \A table \in rows[t] : References(table) \subseteq rows[t]
  BY DEF Inv, RowsOK
<1>3. ASSUME NEW table \in rows[t] PROVE FALSE
  <2>1. "Role" \in rows[t] \/ "Tenant" \in References(table)
                          \/ table = "Tenant"
    BY <1>1, <1>2, <1>3 DEF References, TableNames
  <2>2. "Tenant" \in References("Role")
    BY DEF References
  <2>3. QED
    BY <1>2, <2>1, <2>2
<1>4. QED
  BY <1>3 DEF Inv, RowsOK

-----------------------------------------------------------------------------
(* Steps that leave the rows alone and seed nothing. *)
LEMMA IdleMoveKeeps ==
  ASSUME Inv, NEW c \in Containers, NEW p, Moves(c, p), ~ Seeding(c),
         UNCHANGED <<rows, edited, disturbed>>, p.at # "insert", p.step = 0,
         p.at = "delete" =>
           p.forced \/ p.raced \/ \A t \in Tenant : rows[t] = {}
  PROVE  Inv'
<1>1. \A d \in Containers : Seeding(d)' <=> Seeding(d)
  BY DEF Moves, Seeding
<1>2. Types' /\ RowsOK'
  BY DEF Inv, Types, RowsOK, Moves
<1>3. StepsOK'
  BY <1>1 DEF Inv, StepsOK, Moves, Seeding
<1>4. DeletesOK'
  BY DEF Inv, DeletesOK, Moves
<1>5. SeedingOK'
  BY <1>1 DEF Inv, SeedingOK, Moves
<1>6. QED
  BY <1>2, <1>3, <1>4, <1>5 DEF Inv

LEMMA StartKeeps ==
  ASSUME Inv, NEW c \in Containers, NEW forced \in BOOLEAN, Start(c, forced)
  PROVE  Inv'
<1> DEFINE p == [Down EXCEPT !.at = "check", !.forced = forced]
<1>1. p \in Places /\ p.at = "check" /\ p.step = 0
  <2>1. Down \in Places /\ Down.step = 0
    BY ScriptIs DEF Places, Down
  <2>2. QED
    BY <2>1 DEF Places
<1>2. container' = [container EXCEPT ![c] = p] /\ ~ Seeding(c)
      /\ UNCHANGED <<rows, edited, disturbed>>
  BY DEF Start, Seeding
<1> HIDE DEF p
<1>3. Moves(c, p)
  BY <1>1, <1>2, MovesAlone DEF Inv
<1>4. QED
  BY <1>1, <1>2, <1>3, IdleMoveKeeps

LEMMA CheckExistingKeeps ==
  ASSUME Inv, NEW c \in Containers, CheckExisting(c)
  PROVE  Inv'
<1> DEFINE at == IF (\E t \in Tenant : "Tenant" \in rows[t]) /\ ~ container[c].forced
                 THEN "serving" ELSE "delete"
           p == [container[c] EXCEPT !.at = at]
<1>1. container[c] \in Places /\ at \in {"serving", "delete"}
  BY DEF Inv, Types
<1>2. container' = [container EXCEPT ![c] = p] /\ ~ Seeding(c)
      /\ UNCHANGED <<rows, edited, disturbed>>
  BY DEF CheckExisting, Goes, Seeding
<1>3. at = "delete" => container[c].forced \/ \A t \in Tenant : rows[t] = {}
  BY NoTenantNoRows
<1> HIDE DEF at
<1>4. /\ p \in Places /\ p.at = at /\ p.step = container[c].step
  BY <1>1 DEF Places
<1>5. p.forced = container[c].forced
  BY <1>1 DEF Places
<1>6. container[c].step = 0
  BY <1>2 DEF Inv, StepsOK
<1> HIDE DEF p
<1>7. Moves(c, p)
  BY <1>2, <1>4, MovesAlone DEF Inv
<1>8. QED
  BY <1>1, <1>2, <1>3, <1>4, <1>5, <1>6, <1>7, IdleMoveKeeps

LEMMA GoesToServe ==
  ASSUME NEW q \in Places
  PROVE  LET p == [q EXCEPT !.at = "serving", !.step = 0]
         IN  p \in Places /\ p.at = "serving" /\ p.step = 0
<1> DEFINE steps == 0 .. Len(Script)
<1>1. 0 \in steps
  BY ScriptSize
<1> HIDE DEF steps
<1>2. Places = [at : {"down", "check", "delete", "insert", "serving"}, step : steps,
                forced : BOOLEAN, raced : BOOLEAN]
  BY DEF Places, steps
<1>3. QED
  BY <1>1, <1>2

(* A container dies, or its run fails: what it has written stays.           *)
LEMMA StopKeeps ==
  ASSUME Inv, NEW c \in Containers, NEW p, Moves(c, p),
         p.at \in {"down", "serving"}, p.step = 0,
         UNCHANGED <<rows, edited>>, disturbed' \in BOOLEAN,
         Seeding(c) => disturbed' = TRUE, disturbed = TRUE => disturbed' = TRUE
  PROVE  Inv'
<1>1. \A d \in Containers \ {c} : Seeding(d)' <=> Seeding(d)
  BY DEF Moves, Seeding
<1>2. ~ Seeding(c)'
  BY DEF Moves, Seeding
<1>3. Types' /\ RowsOK'
  BY DEF Inv, Types, RowsOK, Moves
<1>4. StepsOK'
  BY <1>1, <1>2 DEF Inv, StepsOK, Moves, Seeding
<1>5. DeletesOK'
  BY DEF Inv, DeletesOK, Moves
<1>6. SeedingOK'
  <2>1. CASE Seeding(c)
    BY <2>1 DEF SeedingOK
  <2>2. CASE ~ Seeding(c)
    <3>1. \A d \in Containers : Seeding(d)' <=> Seeding(d)
      BY <1>1, <1>2, <2>2
    <3>2. \A d \in Containers : Seeding(d) => container'[d].step = container[d].step
      BY <2>2 DEF Moves
    <3>3. disturbed' = FALSE => SeedingOK /\ disturbed = FALSE
      BY DEF Inv, Types
    <3>4. QED
      BY <3>1, <3>2, <3>3 DEF SeedingOK
  <2>3. QED
    BY <2>1, <2>2
<1>7. QED
  BY <1>3, <1>4, <1>5, <1>6 DEF Inv

LEMMA DieKeeps ==
  ASSUME Inv, NEW c \in Containers, Die(c)
  PROVE  Inv'
<1>1. Down \in Places /\ Down.at = "down" /\ Down.step = 0
  BY ScriptIs DEF Places, Down
<1>2. Moves(c, Down)
  BY <1>1, MovesAlone DEF Inv, Die
<1>3. /\ disturbed' \in BOOLEAN /\ UNCHANGED <<rows, edited>>
      /\ Seeding(c) => disturbed' = TRUE
      /\ disturbed = TRUE => disturbed' = TRUE
  BY DEF Die
<1>4. QED
  BY <1>1, <1>2, <1>3, StopKeeps

LEMMA RejectKeeps ==
  ASSUME Inv, NEW c \in Containers, Reject(c)
  PROVE  Inv'
<1> DEFINE p == [container[c] EXCEPT !.at = "serving", !.step = 0]
<1>1. container[c] \in Places
  BY DEF Inv, Types
<1>2. p \in Places /\ p.at = "serving" /\ p.step = 0
  BY <1>1, GoesToServe
<1>3. container' = [container EXCEPT ![c] = p] /\ UNCHANGED <<rows, edited>>
  BY DEF Reject, Inv, Types
<1> HIDE DEF p
<1>4. Moves(c, p)
  BY <1>2, <1>3, MovesAlone DEF Inv
<1>5. /\ disturbed' \in BOOLEAN
      /\ Seeding(c) => disturbed' = TRUE
      /\ disturbed = TRUE => disturbed' = TRUE
  BY DEF Reject
<1>6. QED
  BY <1>2, <1>3, <1>4, <1>5, StopKeeps

(* A statement meets a taken key or misses a row only if something          *)
(* interfered.                                                              *)
LEMMA FailInsertKeeps ==
  ASSUME Inv, NEW c \in Containers, FailInsert(c)
  PROVE  Inv'
<1> DEFINE p == [container[c] EXCEPT !.at = "serving", !.step = 0]
<1>1. container[c] \in Places /\ Seeding(c) /\ container[c].step \in 1 .. Len(Script)
  BY StatementIs DEF Inv, Types, FailInsert
<1>2. p \in Places /\ p.at = "serving" /\ p.step = 0
  BY <1>1, GoesToServe
<1>3. container' = [container EXCEPT ![c] = p] /\ UNCHANGED <<rows, edited, disturbed>>
  BY DEF FailInsert, Inv, Types
<1> HIDE DEF p
<1>4. Moves(c, p)
  BY <1>2, <1>3, MovesAlone DEF Inv
<1>5. ASSUME disturbed = FALSE PROVE FALSE
  <2> DEFINE t == Script[container[c].step][1]
             table == Script[container[c].step][2]
  <2>1. table \in rows[t] \cup edited[t] \/ ~ References(table) \subseteq rows[t]
    BY DEF FailInsert
  <2>2. t \in Tenant /\ table \notin Before(container[c].step, t)
        /\ References(table) \subseteq Before(container[c].step, t)
    BY <1>1, ScriptFills
  <2>3. rows[t] = Before(container[c].step, t) /\ edited[t] = {}
    BY <1>1, <1>5, <2>2 DEF Inv, SeedingOK
  <2>4. QED
    BY <2>1, <2>2, <2>3
<1>6. disturbed = TRUE
  BY <1>5 DEF Inv, Types
<1>7. QED
  BY <1>2, <1>3, <1>4, <1>6, StopKeeps

LEMMA ServeKeeps ==
  ASSUME Inv, NEW c \in Containers, NEW t \in Tenant, NEW table \in Written,
         Serve(c, t, table)
  PROVE  Inv'
<1>1. /\ {"User"} \cup References(table) \subseteq rows[t]
      /\ edited' = [edited EXCEPT ![t] = @ \cup {table}]
      /\ UNCHANGED <<rows, container>>
      /\ disturbed' \in BOOLEAN
      /\ disturbed' = FALSE => disturbed = FALSE /\ \A d \in Containers : ~ Seeding(d)
  BY DEF Serve, Inv, Types
<1>2. Types'
  BY <1>1 DEF Inv, Types
<1>3. RowsOK'
  BY <1>1 DEF Inv, Types, RowsOK
<1>4. StepsOK' /\ DeletesOK'
  BY <1>1 DEF Inv, StepsOK, DeletesOK, Seeding
<1>5. SeedingOK'
  BY <1>1 DEF Inv, SeedingOK, Seeding
<1>6. QED
  BY <1>2, <1>3, <1>4, <1>5 DEF Inv

LEMMA DeleteTenantsKeeps ==
  ASSUME Inv, NEW c \in Containers, DeleteTenants(c)
  PROVE  Inv'
<1> DEFINE p == [container[c] EXCEPT !.at = "insert", !.step = 1]
<1>1. container[c] \in Places /\ 1 \in 0 .. Len(Script)
  BY ScriptSize DEF Inv, Types
<1>2. p \in Places /\ p.at = "insert" /\ p.step = 1
  BY <1>1 DEF Places
<1>3. /\ container' = [container EXCEPT ![c] = p]
      /\ \A t \in Tenant : rows'[t] = {} /\ edited'[t] = {}
      /\ rows' = [t \in Tenant |-> {}] /\ edited' = [t \in Tenant |-> {}]
      /\ disturbed' \in BOOLEAN
      /\ disturbed' = FALSE => \A d \in Containers \ {c} : ~ Seeding(d)
  BY DEF DeleteTenants, Inv, Types
<1> HIDE DEF p
<1>4. Moves(c, p)
  BY <1>2, <1>3, MovesAlone DEF Inv
<1>5. Seeding(c)' /\ \A d \in Containers \ {c} : Seeding(d)' <=> Seeding(d)
  BY <1>2, <1>4 DEF Moves, Seeding
<1>6. Types' /\ RowsOK'
  BY <1>3, <1>4 DEF Types, RowsOK, Moves
<1>7. StepsOK'
  BY <1>2, <1>4, <1>5 DEF Inv, StepsOK, Moves
<1>8. DeletesOK'
  BY <1>3 DEF DeletesOK
<1>9. SeedingOK'
  <2>1. container'[c].step = 1 /\ \A t \in Tenant : Before(1, t) = {}
    BY <1>2, <1>4, ScriptEnds DEF Moves
  <2>2. QED
    BY <1>3, <1>5, <2>1 DEF SeedingOK
<1>10. QED
  BY <1>6, <1>7, <1>8, <1>9 DEF Inv

(* A statement adds its table; those who are about to delete learn of it.   *)
LEMMA InsertKeeps ==
  ASSUME Inv, NEW c \in Containers, Insert(c)
  PROVE  Inv'
<1> DEFINE k == container[c].step
           t == Script[k][1]
           table == Script[k][2]
           p == IF k = Len(Script)
                THEN [container[c] EXCEPT !.at = "serving", !.step = 0]
                ELSE [container[c] EXCEPT !.step = @ + 1]
<1>1. /\ container[c] \in Places /\ Seeding(c) /\ k \in 1 .. Len(Script)
      /\ container[c].at = "insert"
  BY StatementIs DEF Inv, Types, Insert, Seeding
<1>2. /\ t \in Tenant /\ table \in Names(t) /\ table \in TableNames
      /\ Before(k + 1, t) = Before(k, t) \cup {table}
      /\ \A u \in Tenant \ {t} : Before(k + 1, u) = Before(k, u)
  <2>1. Names(t) \subseteq TableNames
    <3>1. TablesOf(t) \in Seq(TableNames)
      BY TablesAre
    <3>2. QED
      BY <3>1 DEF Names
  <2>2. QED
    BY <1>1, <2>1, ScriptFills
<1>3. /\ References(table) \subseteq rows[t]
      /\ rows' = [rows EXCEPT ![t] = @ \cup {table}]
      /\ UNCHANGED <<edited, disturbed>>
      /\ container' = [d \in Containers |-> IF d = c THEN p
           ELSE [container[d] EXCEPT !.raced = @ \/ container[d].at = "delete"]]
  BY DEF Insert
<1>4. /\ p \in Places
      /\ p.at = IF k = Len(Script) THEN "serving" ELSE "insert"
      /\ p.step = IF k = Len(Script) THEN 0 ELSE k + 1
  <2>1. CASE k = Len(Script)
    BY <1>1, <2>1, GoesToServe
  <2>2. CASE k # Len(Script)
    <3>1. k + 1 \in 0 .. Len(Script)
      BY <1>1, <2>2, ScriptSize
    <3>2. p = [container[c] EXCEPT !.step = k + 1]
      BY <2>2
    <3>3. p \in Places /\ p.step = k + 1 /\ p.at = container[c].at
      BY <1>1, <3>1, <3>2 DEF Places
    <3>4. QED
      BY <1>1, <2>2, <3>3
  <2>3. QED
    BY <2>1, <2>2
<1> HIDE DEF p, t, table
<1>5. ASSUME NEW d \in Containers \ {c}
      PROVE  /\ container'[d] \in Places
             /\ container'[d].at = container[d].at /\ container'[d].step = container[d].step
             /\ container[d].forced => container'[d].forced
             /\ container[d].raced => container'[d].raced
             /\ container[d].at = "delete" => container'[d].raced
  <2> DEFINE raced == container[d].raced \/ container[d].at = "delete"
  <2>1. container[d] \in Places
    BY DEF Inv, Types
  <2>2. container'[d] = [container[d] EXCEPT !.raced = raced]
    BY <1>3
  <2>3. raced \in BOOLEAN
    OBVIOUS
  <2> HIDE DEF raced
  <2>4. /\ container'[d] \in Places
        /\ container'[d].at = container[d].at /\ container'[d].step = container[d].step
    BY <2>1, <2>2, <2>3 DEF Places
  <2>5. container'[d].forced = container[d].forced
    BY <2>1, <2>2 DEF Places
  <2>6. container'[d].raced = raced
    BY <2>1, <2>2 DEF Places
  <2>7. QED
    BY <2>4, <2>5, <2>6 DEF raced
<1>6. container'[c] = p
  BY <1>3
<1>7. container' \in [Containers -> Places]
  <2>1. \A d \in Containers : container'[d] \in Places
    BY <1>4, <1>5, <1>6
  <2>2. container' = [d \in Containers |-> container'[d]]
    BY <1>3
  <2>3. QED
    BY <2>1, <2>2
<1>8. rows \in [Tenant -> SUBSET TableNames] /\ edited \in [Tenant -> SUBSET Written]
      /\ disturbed \in BOOLEAN
  BY DEF Inv, Types
<1>9. Types'
  BY <1>2, <1>3, <1>7, <1>8 DEF Types
<1>10. rows'[t] = rows[t] \cup {table} /\ \A u \in Tenant \ {t} : rows'[u] = rows[u]
  BY <1>2, <1>3, <1>8
<1>11. RowsOK'
  BY <1>2, <1>3, <1>10 DEF Inv, RowsOK
<1>12. \A d \in Containers \ {c} : Seeding(d)' <=> Seeding(d)
  BY <1>5 DEF Seeding
<1>13. Seeding(c)' <=> k # Len(Script)
  BY <1>4, <1>6 DEF Seeding
<1>14. StepsOK'
  <2>1. p.step # 0 <=> k # Len(Script)
    BY <1>1, <1>4
  <2>2. QED
    BY <1>5, <1>6, <1>12, <1>13, <2>1 DEF Inv, StepsOK
<1>15. DeletesOK'
  BY <1>4, <1>5, <1>6 DEF DeletesOK
<1>16. SeedingOK'
  <2> SUFFICES ASSUME disturbed = FALSE PROVE SeedingOK'
    BY <1>3 DEF SeedingOK
  <2>1. /\ \A d \in Containers \ {c} : ~ Seeding(d)
        /\ \A u \in Tenant : rows[u] = Before(k, u) /\ edited[u] = {}
    BY <1>1 DEF Inv, SeedingOK
  <2>2. \A d \in Containers \ {c} : ~ Seeding(d)'
    BY <1>12, <2>1
  <2>3. \A u \in Tenant : rows'[u] = Before(k + 1, u) /\ edited'[u] = {}
    BY <1>2, <1>3, <1>10, <2>1
  <2>4. CASE k = Len(Script)
    <3>1. \A u \in Tenant : rows'[u] = Names(u)
      BY <2>3, <2>4, ScriptEnds
    <3>2. QED
      BY <1>13, <2>2, <2>4, <3>1 DEF SeedingOK
  <2>5. CASE k # Len(Script)
    <3>1. container'[c].step = k + 1
      BY <1>4, <1>6, <2>5
    <3>2. QED
      BY <1>13, <2>2, <2>3, <2>5, <3>1 DEF SeedingOK
  <2>6. QED
    BY <2>4, <2>5
<1>17. QED
  BY <1>9, <1>11, <1>14, <1>15, <1>16 DEF Inv

-----------------------------------------------------------------------------
LEMMA InitInv ==
  ASSUME Init
  PROVE  Inv
<1>1. Down \in Places /\ Down.at = "down" /\ Down.step = 0
  BY ScriptSize DEF Places, Down
<1>2. /\ \A t \in Tenant : rows[t] = {} /\ edited[t] = {}
      /\ rows = [t \in Tenant |-> {}] /\ edited = [t \in Tenant |-> {}]
      /\ container = [c \in Containers |-> Down]
      /\ \A c \in Containers : container[c] = Down
      /\ disturbed = FALSE
  BY DEF Init
<1>3. Types
  BY <1>1, <1>2 DEF Types
<1>4. \A c \in Containers : ~ Seeding(c)
  BY <1>1, <1>2 DEF Seeding
<1>5. RowsOK
  BY <1>2 DEF RowsOK
<1>6. StepsOK /\ DeletesOK
  BY <1>1, <1>2, <1>4 DEF StepsOK, DeletesOK
<1>7. SeedingOK
  BY <1>2, <1>4 DEF SeedingOK
<1>8. QED
  BY <1>3, <1>5, <1>6, <1>7 DEF Inv

LEMMA NextKeeps ==
  ASSUME Inv, [Next]_vars
  PROVE  Inv'
<1>1. CASE UNCHANGED vars
  BY <1>1 DEF Inv, Types, RowsOK, StepsOK, DeletesOK, SeedingOK, Seeding, vars
<1>2. ASSUME NEW c \in Containers, NEW forced \in BOOLEAN, Start(c, forced)
      PROVE  Inv'
  BY <1>2, StartKeeps
<1>3. ASSUME NEW c \in Containers,
             CheckExisting(c) \/ DeleteTenants(c) \/ Insert(c) \/ FailInsert(c)
             \/ Reject(c) \/ Die(c)
      PROVE  Inv'
  BY <1>3, CheckExistingKeeps, DeleteTenantsKeeps, InsertKeeps, FailInsertKeeps,
     RejectKeeps, DieKeeps
<1>4. ASSUME NEW c \in Containers, NEW t \in Tenant, NEW table \in Written,
             Serve(c, t, table)
      PROVE  Inv'
  BY <1>4, ServeKeeps
<1>5. QED
  BY <1>1, <1>2, <1>3, <1>4 DEF Next

(* The invariant of the seed holds in every state.                          *)
THEOREM InvAlways == Spec => []Inv
<1>1. Init => Inv
  BY InitInv
<1>2. Inv /\ [Next]_vars => Inv'
  BY NextKeeps
<1>3. QED
  BY <1>1, <1>2, PTL DEF Spec

(* The types, and that no row refers to one that is not there.              *)
THEOREM TypeCorrect == Spec => []TypeOK
<1>1. Inv => TypeOK
  BY DEF Inv, Types, RowsOK, StepsOK, TypeOK, Places, Names
<1>2. QED
  BY <1>1, InvAlways, PTL

(* Whatever the number of containers and wherever they die, a tenant stays  *)
(* half seeded only after a death or a statement the database turned away   *)
(* in its seeding, two overlapping runs, or a write of the service          *)
(* meanwhile (seed.ts, docker-entrypoint.sh): the inserts of a run left     *)
(* alone never fail over one another.                                       *)
THEOREM HalfSeededOnlyAfterInterference == Spec => []HalfSeededOnlyIfDisturbed
<1>1. Inv => HalfSeededOnlyIfDisturbed
  <2> SUFFICES ASSUME Inv, disturbed = FALSE, \A c \in Containers : ~ Seeding(c),
                      NEW u \in Tenant, rows[u] # {}
               PROVE  \A t \in Tenant : Complete(t)
    BY DEF HalfSeededOnlyIfDisturbed, Inv, Types
  <2>1. \A t \in Tenant : rows[t] = Names(t)
    BY DEF Inv, SeedingOK
  <2>2. QED
    BY <2>1 DEF Complete, Names
<1>2. QED
  BY <1>1, InvAlways, PTL

(* The climb of the seed gives the closure of its chart.                    *)
LEMMA SeededRowsAreClosure ==
  ASSUME NEW t \in Tenant
  PROVE  /\ ClosureRows[t] \in Tables
         /\ IsClosureOf(ClosureRows[t], Manager[t])
<1> DEFINE chart == Manager[t]
           staff == Staff[t]
           r == [a \in Users |-> [d \in Users |->
                   IF a = d /\ a \notin staff THEN NoRow
                   ELSE Distance(chart)[a][d]]]
<1>1. /\ staff \in SUBSET Users /\ chart \in Charts /\ Forest(chart)
      /\ \A x \in Users : chart[x] # NoUser => {x, chart[x]} \subseteq staff
  BY ChartsAssumption
<1> HIDE DEF chart, staff
<1>2. r \in Tables /\ IsClosureOf(r, chart)
  BY <1>1, DistanceIsClosure
<1>3. ASSUME NEW a \in Users, NEW d \in Users
      PROVE  r[a][d] = IF d \in staff THEN Distance(chart)[a][d] ELSE NoRow
  <2>1. CASE d \in staff \/ a = d
    BY <2>1
  <2>2. CASE d \notin staff /\ a # d
    <3>1. r[a][d] \in Nat \cup {-1} /\ r[a][d] # 0
      BY <1>2, <2>2 DEF Tables, NoRow, IsClosureOf, SelfRows
    <3>2. ~ (r[a][d] >= 1)
      BY <1>1, <1>2, <2>2 DEF IsClosureOf, NoGaps
    <3> QED
      BY <3>1, <3>2, <2>2 DEF NoRow
  <2> QED
    BY <2>1, <2>2
<1>4. ClosureRows[t] = r
  BY <1>3 DEF ClosureRows, BuildClosureRows, chart, staff
<1> QED
  BY <1>2, <1>4 DEF chart

(* The rows the seed computes are those the service would have written: the *)
(* seeded tenant satisfies the inductive invariant of Hierarchy.            *)
THEOREM SeededTenantAlwaysConsistent == Spec => []SeededTenantIsConsistent
<1>1. Inv => SeededTenantIsConsistent
  <2> SUFFICES ASSUME Inv, NEW t \in Tenant, "Closure" \in rows[t]
               PROVE  Seeded(t)!Inv
    BY DEF SeededTenantIsConsistent
  <2>1. "User" \in rows[t]
    BY DEF Inv, RowsOK, References
  <2>2. /\ Staff[t] \subseteq Users /\ Manager[t] \in Charts
        /\ \A u \in Users : Manager[t][u] # NoUser => u \in Staff[t]
    BY ChartsAssumption
  <2>3. /\ ClosureRows[t] \in Tables
        /\ IsClosureOf(ClosureRows[t], Manager[t])
    BY SeededRowsAreClosure
  <2> DEFINE table == ClosureRows[t]
             chart == Manager[t]
  <2>4. Seeded(t)!TypeOK
    <3>1. table \in [Users -> [Users -> Nat \cup {NoRow}]]
      BY <2>3 DEF Tables
    <3>2. /\ Staff[t] \in SUBSET Users
          /\ chart \in [Users -> Users \cup {NoUser}]
      BY <2>2 DEF Charts
    <3> HIDE DEF table, chart
    <3>3. Seeded(t)!TypeOK
            <=> /\ Staff[t] \subseteq Users
                /\ chart \in [Users -> Users \cup {NoUser}]
                /\ table \in [Users -> [Users -> Nat \cup {NoRow}]]
                /\ [u \in Users |-> Seeded(t)!Done] \in [Users -> Seeded(t)!Call]
      BY <2>1 DEF Seeded!TypeOK, Seeded!Tables, Seeded!NoRow, NoRow, Seeded!Done,
                  table, chart
    <3>4. Seeded(t)!Done \in Seeded(t)!Call
      BY DEF Seeded!Call
    <3> QED
      BY <3>1, <3>2, <3>3, <3>4
  <2>5. Seeded(t)!ManagedAreMembers
    BY <2>1, <2>2 DEF Seeded!ManagedAreMembers, Seeded!Done
  <2>6. Seeded(t)!ClosureOK
    <3>1. Seeded(t)!ClosureOK <=> Seeded(t)!IsClosureOf(table, chart)
      BY <2>1 DEF Seeded!ClosureOK
    <3>2. IsClosureOf(table, chart)
      BY <2>3
    <3> HIDE DEF table, chart
    <3>3. Seeded(t)!IsClosureOf(table, chart) <=> IsClosureOf(table, chart)
      BY DEF Seeded!IsClosureOf, Seeded!SelfRows, Seeded!PathsCompose,
             Seeded!AncestorsChain, Seeded!DirectRows, Seeded!NoGaps, Seeded!NoRow,
             IsClosureOf, SelfRows, PathsCompose, AncestorsChain, DirectRows, NoGaps,
             NoRow
    <3> QED
      BY <3>1, <3>2, <3>3
  <2> QED
    BY <2>4, <2>5, <2>6 DEF Seeded!Inv
<1> QED
  BY <1>1, InvAlways, PTL

(* "restarting the container never wipes data" (seed.ts): only a forced run *)
(* or one overtaken by another takes away what the service wrote.           *)
THEOREM EditsAlwaysSurvive == Spec => EditsSurviveRestarts
<1> DEFINE Lost == \E t \in Tenant : ~ edited[t] \subseteq edited'[t]
           Reset == \E c \in Containers :
                      /\ container[c].at = "delete" /\ container'[c].at = "insert"
                      /\ container[c].forced \/ container[c].raced
<1>1. ASSUME Inv, Next, Lost PROVE Reset
  <2>1. edited \in [Tenant -> SUBSET Written]
    BY <1>1 DEF Inv, Types
  <2>2. ~ UNCHANGED edited
    BY <1>1
  <2>3. PICK t \in Tenant : ~ edited[t] \subseteq edited'[t]
    BY <1>1
  <2>4. ASSUME NEW c \in Containers, NEW u \in Tenant, NEW table \in Written,
               Serve(c, u, table)
        PROVE  FALSE
    <3>1. edited' = [edited EXCEPT ![u] = @ \cup {table}]
      BY <2>4 DEF Serve
    <3>2. edited[t] \subseteq edited'[t]
      BY <2>1, <3>1
    <3>3. QED
      BY <2>3, <3>2
  <2>5. PICK c \in Containers : DeleteTenants(c)
    BY <1>1, <2>2, <2>4
    DEF Next, Start, CheckExisting, Insert, FailInsert, Reject, Die
  <2>6. container[c] \in Places
    BY <1>1 DEF Inv, Types
  <2>7. container[c].at = "delete" /\ container'[c].at = "insert"
    BY <1>1, <2>5, <2>6 DEF DeleteTenants, Inv, Types, Places
  <2>8. "User" \in rows[t]
    BY <1>1, <2>3 DEF Inv, RowsOK
  <2>9. container[c].forced \/ container[c].raced
    BY <1>1, <2>7, <2>8 DEF Inv, DeletesOK
  <2>10. QED
    BY <2>7, <2>9
<1>2. Inv /\ [Next]_vars => [Lost => Reset]_vars
  BY <1>1
<1>3. QED
  BY <1>2, InvAlways, PTL DEF Spec, EditsSurviveRestarts

-----------------------------------------------------------------------------
(* The tables the pipeline reads are all in the script.                     *)
LEMMA PipelineTables ==
  {"Tenant", "User", "Closure", "RolePermission", "UserRole", "Resource", "Policy"}
    \subseteq AllTables
<1> DEFINE s == TablesOf(Demo)
<1>1. /\ s \in Seq(TableNames) /\ Len(s) >= 10
      /\ s[1] = "Tenant" /\ s[3] = "User" /\ s[4] = "Closure"
      /\ s[7] = "RolePermission" /\ s[8] = "UserRole"
      /\ s[9] = "Resource" /\ s[10] = "Policy"
  BY TablesAre
<1> HIDE DEF s
<1>2. {1, 3, 4, 7, 8, 9, 10} \subseteq DOMAIN s
  <2>1. Len(s) \in Nat /\ DOMAIN s = 1 .. Len(s)
    BY <1>1, LenProperties
  <2> QED
    BY <1>1, <2>1
<1> QED
  BY <1>1, <1>2 DEF AllTables, s

(* A resource found over some of the tables is the one found over all, and  *)
(* if it has an owner it is an employee.                                    *)
LEMMA SameResource ==
  ASSUME NEW have \in SUBSET AllTables, NEW type, NEW id,
         Resolve(have, type, id) # {}
  PROVE  /\ Resolve(have, type, id) = Resolve(AllTables, type, id)
         /\ \A r \in Resolve(have, type, id) :
              r.owner # NoUser => r.owner \in Users /\ type = "employee"
<1> DEFINE Found(tables) == {r \in ResourceRows :
                               "Resource" \in tables /\ r.type = type /\ r.id = id}
           Own(tables) == {ResourceRow(type, id, u, 2) :
              u \in {v \in Staff[Demo] :
                       v = id /\ type = "employee" /\ "User" \in tables}}
<1>1. \A tables : Resolve(tables, type, id)
                    = IF Found(tables) # {} THEN Found(tables) ELSE Own(tables)
  BY DEF Resolve
<1>2. {"User", "Resource"} \subseteq AllTables
  BY PipelineTables
<1>3. Demo \in Tenant /\ Staff[Demo] \subseteq Users
      /\ {"employee-a", "employee-b"} \subseteq Users
  <2>1. Demo \in Tenant
    BY DEF Demo, Tenant
  <2> QED
    BY <2>1, ChartsAssumption, DemoAssumption
<1>4. \A r \in ResourceRows :
        \/ r.type = "employee" /\ r = ResourceRow("employee", r.id, r.id, 2)
           /\ r.id \in Users
        \/ r.owner = NoUser
  BY <1>3 DEF ResourceRows, ResourceRow
<1>5. \A r \in Own(have) : r.owner \in Users /\ type = "employee"
  BY <1>3 DEF ResourceRow
<1>6. \A r \in Found(have) : r.owner # NoUser => r.owner \in Users /\ type = "employee"
  BY <1>4 DEF ResourceRow
<1>7. CASE "Resource" \in have
  <2>1. Found(have) = Found(AllTables)
    BY <1>2, <1>7
  <2>2. Found(have) = {} => Own(have) = Own(AllTables)
    <3>1. Found(have) = {} => "User" \in have
      BY <1>1
    <3> QED
      BY <3>1, <1>2
  <2> HIDE DEF Found, Own
  <2> QED
    BY <2>1, <2>2, <1>1, <1>5, <1>6
<1>8. CASE "Resource" \notin have
  <2>1. Found(have) = {}
    BY <1>8
  <2>2. id \in Staff[Demo] /\ type = "employee"
        /\ Own(have) = {ResourceRow("employee", id, id, 2)}
        /\ Own(AllTables) = Own(have)
    <3>1. Own(have) # {}
      BY <1>1, <2>1
    <3>2. id \in Staff[Demo] /\ type = "employee" /\ "User" \in have
      BY <3>1
    <3> QED
      BY <3>2, <1>2
  <2>3. Found(AllTables) # {} => Found(AllTables) = {ResourceRow("employee", id, id, 2)}
    <3>1. \A r \in Found(AllTables) :
             r \in ResourceRows /\ r.type = "employee" /\ r.id = id
      BY <2>2
    <3>2. \A r \in Found(AllTables) : r = ResourceRow("employee", id, id, 2)
      <4> SUFFICES ASSUME NEW r \in Found(AllTables)
                   PROVE  r = ResourceRow("employee", id, id, 2)
        OBVIOUS
      <4>1. r \in ResourceRows /\ r.type = "employee" /\ r.id = id
        BY <3>1
      <4> HIDE DEF Found
      <4> QED
        BY <4>1 DEF ResourceRows, ResourceRow
    <3> HIDE DEF Found
    <3> QED
      BY <3>2
  <2> HIDE DEF Found, Own
  <2> QED
    BY <1>1, <1>5, <2>1, <2>2, <2>3
<1> QED
  BY <1>7, <1>8

(* The clauses of the fixture's policies that the proofs need.              *)
LEMMA PolicyClauses ==
  ASSUME NEW p \in TenantPolicies
  PROVE  /\ p.effect = "DENY" => p.requirePermission = "default"
         /\ p.effect = "ALLOW" /\ p.resourceType \in {"employee", Star}
              => p.relationships = {"SELF", "DIRECT_MANAGER", "ANCESTOR"}
<1> DEFINE Near == {"SELF", "DIRECT_MANAGER", "ANCESTOR"}
<1>1. ASSUME NEW action, p = Ceiling(Employees("ALLOW", action, Near))
      PROVE  p.effect = "ALLOW" /\ p.relationships = Near
  <2> HIDE DEF Near
  <2> QED
    BY <1>1 DEF Ceiling, Employees, Unconditional
<1>2. CASE p = Employees("DENY", Salary, {"SIBLING", "NONE"})
  BY <1>2 DEF Employees, Unconditional
<1>3. CASE p = Ceiling([Unconditional("ALLOW", Payroll, "payroll")
                          EXCEPT !.departments = {"hr"}])
  BY <1>3 DEF Ceiling, Unconditional, Star
<1>4. CASE p = [Unconditional("ALLOW", Expense, "expense")
                  EXCEPT !.departments = {"fin"}, !.requirePermission = "yes"]
  BY <1>4 DEF Unconditional, Star
<1>5. \/ \E action \in {Performance, Salary} :
           p = Ceiling(Employees("ALLOW", action, Near))
      \/ p = Employees("DENY", Salary, {"SIBLING", "NONE"})
      \/ p = Ceiling([Unconditional("ALLOW", Payroll, "payroll")
                        EXCEPT !.departments = {"hr"}])
      \/ p = [Unconditional("ALLOW", Expense, "expense")
                EXCEPT !.departments = {"fin"}, !.requirePermission = "yes"]
  BY DEF TenantPolicies
<1> HIDE DEF Near
<1> QED
  BY <1>1, <1>2, <1>3, <1>4, <1>5 DEF Near

(* A permission more only opens: no policy of the fixture that denies asks  *)
(* for one.                                                                 *)
LEMMA PermissionsOnlyOpen ==
  ASSUME NEW policies, \A p \in policies : p.effect = "DENY" => p.requirePermission = "default",
         NEW ctx, NEW more,
         more.department = ctx.department, more.location = ctx.location,
         more.employmentStatus = ctx.employmentStatus,
         more.clearance = ctx.clearance, more.sensitivity = ctx.sensitivity,
         more.relationship = ctx.relationship,
         ctx.hasRbacPermission => more.hasRbacPermission,
         Evaluate(policies, ctx) = "ALLOW"
  PROVE  Evaluate(policies, more) = "ALLOW"
<1>1. \A p : Abac(p, more) <=> Abac(p, ctx)
  BY DEF Abac
<1>2. \A p \in policies : p.effect = "DENY" => ~ RequiresPermission(p)
  BY DEF RequiresPermission
<1>3. \A p \in policies : Matches(p, ctx) => Matches(p, more)
  BY <1>1 DEF Matches
<1>4. \A p \in policies : p.effect = "DENY" => (Matches(p, more) => Matches(p, ctx))
  BY <1>1, <1>2 DEF Matches
<1>5. Matched(policies, "DENY", ctx) = {} /\ Matched(policies, "ALLOW", ctx) # {}
  BY DEF Evaluate
<1>6. Matched(policies, "DENY", more) = {} /\ Matched(policies, "ALLOW", more) # {}
  BY <1>3, <1>4, <1>5 DEF Matched
<1> QED
  BY <1>6 DEF Evaluate

(* The relationship over some of the tables is that over all, or it is NONE *)
(* for want of closure rows.                                                *)
LEMMA SameRelationship ==
  ASSUME NEW have \in SUBSET AllTables, NEW s \in Staff[Demo], NEW owner,
         owner # NoUser => owner \in Users,
         NEW relationship \in ResolveRelationship(have, s, owner)
  PROVE  \/ ResolveRelationship(AllTables, s, owner) = {relationship}
         \/ owner # NoUser /\ relationship = "NONE"
<1>1. Demo \in Tenant
  BY DEF Demo, Tenant
<1>2. /\ ClosureRows[Demo] \in Tables /\ Manager[Demo] \in Charts
      /\ IsClosureOf(ClosureRows[Demo], Manager[Demo]) /\ s \in Users
  BY <1>1, SeededRowsAreClosure, ChartsAssumption
<1>3. CASE owner = NoUser
  BY <1>3 DEF ResolveRelationship
<1>4. CASE owner # NoUser
  <2>1. PICK answer :
          GetRelationship(ClosureRows[Demo], s, owner) = {answer}
          /\ (s = owner => answer = "SELF")
    <3>1. owner \in Users
      BY <1>4
    <3>2. GetRelationship(ClosureRows[Demo], s, owner)
            = {Classify(s, owner, ClosureRows[Demo][s][owner],
                        Manager[Demo][s], Manager[Demo][owner])}
      BY <1>2, <3>1, OneRelationship
    <3>3. s = owner => Classify(s, owner, ClosureRows[Demo][s][owner],
                                Manager[Demo][s], Manager[Demo][owner]) = "SELF"
      BY DEF Classify
    <3> QED
      BY <3>2, <3>3
  <2>2. ResolveRelationship(AllTables, s, owner) = {answer}
    BY <1>4, <2>1, PipelineTables DEF ResolveRelationship
  <2>3. CASE "Closure" \in have
    BY <1>4, <2>1, <2>2, <2>3 DEF ResolveRelationship
  <2>4. CASE "Closure" \notin have
    <3>1. relationship \in GetRelationship(EmptyTable, s, owner)
      BY <1>4, <2>4 DEF ResolveRelationship
    <3>2. PICK sm \in DirectManagerIds(EmptyTable, s), um \in DirectManagerIds(EmptyTable, owner) :
            relationship = Classify(s, owner, EmptyTable[s][owner], sm, um)
      BY <3>1 DEF GetRelationship
    <3>3. sm = NoUser /\ EmptyTable[s][owner] = NoRow
      BY <3>2, <1>2, <1>4 DEF DirectManagerIds, EmptyTable, NoRow
    <3>4. relationship = IF s = owner THEN "SELF" ELSE "NONE"
      BY <3>2, <3>3 DEF Classify, NoRow
    <3> QED
      BY <3>4, <2>1, <2>2, <1>4
  <2> QED
    BY <2>3, <2>4
<1> QED
  BY <1>3, <1>4

(* What is allowed over some of the tables is allowed over all.             *)
LEMMA AllTablesAllow ==
  ASSUME NEW have \in SUBSET AllTables, NEW rq, "ALLOW" \in Decide(have, rq)
  PROVE  Decide(AllTables, rq) = {"ALLOW"}
<1> DEFINE found(tables) == Resolve(tables, rq.type, rq.id)
           user == UserRows[rq.subject]
           resource(tables) == CHOOSE r \in found(tables) : TRUE
           granted(tables) ==
             HasRbacPermission(PermissionNames(tables, rq.subject), rq.action, rq.type)
           Context(tables, relationship) ==
             [department |-> user.department, location |-> "",
              employmentStatus |-> "ACTIVE", clearance |-> user.clearance,
              sensitivity |-> resource(tables).sensitivity,
              relationship |-> relationship,
              hasRbacPermission |-> granted(tables)]
           policies(tables) ==
             FindApplicable(IF "Policy" \in tables THEN TenantPolicies ELSE {},
                            rq.action, rq.type)
           answers(tables) ==
             ResolveRelationship(tables, rq.subject, resource(tables).owner)
<1>1. \A tables : Decide(tables, rq) =
        IF ~ {"Tenant", "User"} \subseteq tables \/ rq.subject \notin Staff[Demo]
           \/ found(tables) = {}
        THEN {"DENY"}
        ELSE {Evaluate(policies(tables), Context(tables, relationship)) :
                relationship \in answers(tables)}
  BY DEF Decide
<1>2. /\ {"Tenant", "User"} \subseteq have /\ rq.subject \in Staff[Demo]
      /\ found(have) # {}
  <2> HIDE DEF found, policies, Context, answers
  <2> QED
    BY <1>1
<1>3. PICK relationship \in answers(have) :
        Evaluate(policies(have), Context(have, relationship)) = "ALLOW"
  <2> HIDE DEF found, policies, Context, answers
  <2> QED
    BY <1>1, <1>2
<1>4. found(AllTables) = found(have) /\ resource(AllTables) = resource(have)
  <2>1. found(AllTables) = found(have)
    BY <1>2, SameResource
  <2> QED
    BY <2>1
<1>5. /\ resource(have) \in found(have)
      /\ resource(have).owner # NoUser =>
           resource(have).owner \in Users /\ rq.type = "employee"
  <2>1. resource(have) \in found(have)
    <3> HIDE DEF found
    <3> QED
      BY <1>2
  <2> QED
    BY <2>1, <1>2, SameResource
<1>6. "Policy" \in have /\ policies(have) = policies(AllTables)
      /\ policies(have) \subseteq TenantPolicies
      /\ \A p \in policies(have) : p.resourceType \in {rq.type, Star}
  <2>1. "Policy" \in have
    <3> SUFFICES ASSUME "Policy" \notin have PROVE FALSE
      OBVIOUS
    <3>1. policies(have) = {}
      BY DEF FindApplicable
    <3> QED
      BY <3>1, <1>3 DEF Evaluate, Matched
  <2> QED
    BY <2>1, PipelineTables DEF FindApplicable
<1>7. granted(have) => granted(AllTables)
  <2>1. CASE {"RolePermission", "UserRole"} \subseteq have
    BY <2>1, PipelineTables DEF PermissionNames
  <2>2. CASE ~ {"RolePermission", "UserRole"} \subseteq have
    BY <2>2 DEF PermissionNames, HasRbacPermission
  <2> QED
    BY <2>1, <2>2
<1>8. \A tables, x :
        /\ Context(tables, x).department = user.department
        /\ Context(tables, x).location = ""
        /\ Context(tables, x).employmentStatus = "ACTIVE"
        /\ Context(tables, x).clearance = user.clearance
        /\ Context(tables, x).sensitivity = resource(tables).sensitivity
        /\ Context(tables, x).relationship = x
  <2> HIDE DEF granted, user, resource
  <2> QED
    OBVIOUS
<1>9. \A tables, x : Context(tables, x).hasRbacPermission = granted(tables)
  <2> HIDE DEF granted, user, resource
  <2> QED
    BY Zenon
<1> HIDE DEF Context, granted
<1>10. ~ (resource(have).owner # NoUser /\ relationship = "NONE")
  <2> SUFFICES ASSUME rq.type = "employee", relationship = "NONE" PROVE FALSE
    BY <1>5
  <2>1. PICK p \in policies(have) :
          p.effect = "ALLOW" /\ Matches(p, Context(have, relationship))
    <3> HIDE DEF policies
    <3> QED
      BY <1>3 DEF Evaluate, Matched
  <2>2. p.relationships = {"SELF", "DIRECT_MANAGER", "ANCESTOR"}
    <3> HIDE DEF policies
    <3> QED
      BY <2>1, <1>6, PolicyClauses
  <2>3. Satisfies(p.relationships, "NONE")
    BY <2>1, <1>8 DEF Matches
  <2> QED
    BY <2>2, <2>3 DEF Satisfies
<1>11. answers(AllTables) = {relationship}
  <2> DEFINE owner == resource(have).owner
             s == rq.subject
  <2>1. s \in Staff[Demo] /\ (owner # NoUser => owner \in Users)
        /\ relationship \in ResolveRelationship(have, s, owner)
    BY <1>2, <1>3, <1>5
  <2> HIDE DEF owner, s
  <2>2. \/ ResolveRelationship(AllTables, s, owner) = {relationship}
        \/ owner # NoUser /\ relationship = "NONE"
    BY <2>1, SameRelationship
  <2> QED
    BY <2>2, <1>4, <1>10 DEF owner, s
<1>12. Evaluate(policies(have), Context(AllTables, relationship)) = "ALLOW"
  <2> DEFINE given == policies(have)
             ctx == Context(have, relationship)
             more == Context(AllTables, relationship)
  <2>1. \A p \in given : p.effect = "DENY" => p.requirePermission = "default"
    BY <1>6, PolicyClauses
  <2>2. /\ more.department = ctx.department /\ more.location = ctx.location
        /\ more.employmentStatus = ctx.employmentStatus
        /\ more.clearance = ctx.clearance /\ more.sensitivity = ctx.sensitivity
        /\ more.relationship = ctx.relationship
    <3>1. resource(AllTables).sensitivity = resource(have).sensitivity
      BY <1>4
    <3> HIDE DEF resource, user
    <3> QED
      BY <1>8, <3>1
  <2>3. ctx.hasRbacPermission => more.hasRbacPermission
    BY <1>7, <1>9, Zenon
  <2>4. Evaluate(given, ctx) = "ALLOW"
    BY <1>3
  <2> HIDE DEF given, ctx, more
  <2>5. Evaluate(given, more) = "ALLOW"
    BY <2>1, <2>2, <2>3, <2>4, PermissionsOnlyOpen
  <2> QED
    BY <2>5 DEF given, more
<1>13. {"Tenant", "User"} \subseteq AllTables
  BY PipelineTables
<1> HIDE DEF found, policies, answers
<1> QED
  BY <1>1, <1>2, <1>4, <1>6, <1>11, <1>12, <1>13

(* Whatever a seeding was interrupted by, the rows that are missing only    *)
(* take access away: for any staff and chart, over any of the tables.       *)
THEOREM HalfSeededNeverAllowsMore == Spec => []HalfSeededAllowsNoMore
<1>1. FailOpen = {}
  <2> SUFFICES ASSUME NEW have \in SUBSET AllTables, NEW rq \in Requests \ Intended,
                      "ALLOW" \in Decide(have, rq)
               PROVE  FALSE
    BY DEF FailOpen
  <2>1. Decide(AllTables, rq) = {"ALLOW"}
    BY AllTablesAllow
  <2> QED
    BY <2>1 DEF Intended
<1>2. HalfSeededAllowsNoMore
  BY <1>1 DEF HalfSeededAllowsNoMore
<1> QED
  BY <1>2, PTL

-----------------------------------------------------------------------------
(* The acceptance scenarios.  The full tenant decides a request about an    *)
(* employee, the payroll or an expense by the three things its policies     *)
(* ask for.                                                                 *)
Granted(s, action, type) ==
  HasRbacPermission(PermissionNames(AllTables, s), action, type)

NearRelationships == {"SELF", "DIRECT_MANAGER", "ANCESTOR"}

(* The answer of the closure table of the full tenant. *)
Answer(s, o) ==
  Classify(s, o, ClosureRows[Demo][s][o], Manager[Demo][s], Manager[Demo][o])

LEMMA DemoFacts ==
  /\ Demo \in Tenant /\ Staff[Demo] \subseteq Users /\ NoUser \notin Users
  /\ ClosureRows[Demo] \in Tables /\ Manager[Demo] \in Charts
  /\ IsClosureOf(ClosureRows[Demo], Manager[Demo])
<1>1. Demo \in Tenant
  BY DEF Demo, Tenant
<1> QED
  BY <1>1, ChartsAssumption, SeededRowsAreClosure, ClosureAssumption

(* The facts that a request of s is decided with, given the resource row    *)
(* and the relationship.                                                    *)
ContextIs(ctx, s, granted, r, relationship) ==
  /\ ctx.department = UserRows[s].department
  /\ ctx.clearance = UserRows[s].clearance
  /\ ctx.sensitivity = r.sensitivity
  /\ ctx.relationship = relationship
  /\ ctx.hasRbacPermission = granted

(* What the pipeline decides over the full tenant, with the one resource    *)
(* row of the request and the one answer about its owner.                   *)
LEMMA FullTenantDecides ==
  ASSUME NEW s \in Staff[Demo], NEW action, NEW type, NEW id, NEW r, NEW relationship,
         Resolve(AllTables, type, id) = {r},
         ResolveRelationship(AllTables, s, r.owner) = {relationship}
  PROVE  \E ctx :
           /\ Decide(AllTables, Request(s, action, type, id))
                = {Evaluate(FindApplicable(TenantPolicies, action, type), ctx)}
           /\ ContextIs(ctx, s, Granted(s, action, type), r, relationship)
<1> DEFINE rq == Request(s, action, type, id)
           found == Resolve(AllTables, rq.type, rq.id)
           user == UserRows[rq.subject]
           resource == CHOOSE x \in found : TRUE
           granted == HasRbacPermission(PermissionNames(AllTables, rq.subject),
                                        rq.action, rq.type)
           Context(x) ==
             [department |-> user.department, location |-> "",
              employmentStatus |-> "ACTIVE", clearance |-> user.clearance,
              sensitivity |-> resource.sensitivity, relationship |-> x,
              hasRbacPermission |-> granted]
           policies == FindApplicable(IF "Policy" \in AllTables THEN TenantPolicies
                                      ELSE {}, rq.action, rq.type)
           answers == ResolveRelationship(AllTables, rq.subject, resource.owner)
<1>1. /\ rq.subject = s /\ rq.action = action /\ rq.type = type /\ rq.id = id
  BY DEF Request
<1>2. {"Tenant", "User", "Policy"} \subseteq AllTables
  BY PipelineTables
<1>3. Decide(AllTables, rq) =
        IF ~ {"Tenant", "User"} \subseteq AllTables \/ rq.subject \notin Staff[Demo]
           \/ found = {}
        THEN {"DENY"} ELSE {Evaluate(policies, Context(x)) : x \in answers}
  BY DEF Decide
<1> HIDE DEF rq
<1>4. found = {r} /\ resource = r
  BY <1>1
<1>5. /\ policies = FindApplicable(TenantPolicies, action, type)
      /\ granted = Granted(s, action, type) /\ user = UserRows[s]
  BY <1>1, <1>2, Zenon DEF Granted
<1>6. answers = {relationship}
  BY <1>1, <1>4
<1>7. /\ Context(relationship).department = user.department
      /\ Context(relationship).clearance = user.clearance
      /\ Context(relationship).sensitivity = resource.sensitivity
      /\ Context(relationship).relationship = relationship
  <2> HIDE DEF user, resource, granted
  <2> QED
    OBVIOUS
<1>8. Context(relationship).hasRbacPermission = granted
  <2> HIDE DEF user, resource, granted
  <2> QED
    BY Zenon
<1> HIDE DEF Context, policies, answers, found, resource, user, granted
<1>9. Decide(AllTables, rq) = {Evaluate(policies, Context(relationship))}
  BY <1>1, <1>2, <1>3, <1>4, <1>6
<1>10. ContextIs(Context(relationship), s, Granted(s, action, type), r, relationship)
  BY <1>4, <1>5, <1>7, <1>8, Zenon DEF ContextIs
<1> QED
  BY <1>5, <1>9, <1>10, Zenon DEF rq

(* The policies of the fixture, by the resource they are about. *)
LEMMA PoliciesAbout ==
  ASSUME NEW action, action \in {Performance, Salary, Payroll, Expense},
         NEW type, type \in {"employee", "payroll", "expense"}
  PROVE  LET found == FindApplicable(TenantPolicies, action, type)
         IN  /\ action \in {Performance, Salary} /\ type = "employee" =>
                  /\ Ceiling(Employees("ALLOW", action, NearRelationships)) \in found
                  /\ \A p \in found :
                       \/ p = Ceiling(Employees("ALLOW", action, NearRelationships))
                       \/ p = Employees("DENY", Salary, {"SIBLING", "NONE"})
             /\ action = Payroll /\ type = "payroll" =>
                  found = {Ceiling([Unconditional("ALLOW", Payroll, "payroll")
                                      EXCEPT !.departments = {"hr"}])}
             /\ action = Expense /\ type = "expense" =>
                  found = {[Unconditional("ALLOW", Expense, "expense")
                              EXCEPT !.departments = {"fin"}, !.requirePermission = "yes"]}
<1> DEFINE view(a) == Ceiling(Employees("ALLOW", a, NearRelationships))
           deny == Employees("DENY", Salary, {"SIBLING", "NONE"})
           pay == Ceiling([Unconditional("ALLOW", Payroll, "payroll")
                             EXCEPT !.departments = {"hr"}])
           exp == [Unconditional("ALLOW", Expense, "expense")
                     EXCEPT !.departments = {"fin"}, !.requirePermission = "yes"]
           found == FindApplicable(TenantPolicies, action, type)
<1>1. TenantPolicies = {view(a) : a \in {Performance, Salary}} \cup {deny, pay, exp}
  BY DEF TenantPolicies, NearRelationships
<1>2. \A a : view(a).enabled = TRUE /\ view(a).action = a
             /\ view(a).resourceType = "employee"
  BY DEF Ceiling, Employees, Unconditional
<1>3. deny.enabled = TRUE /\ deny.action = Salary /\ deny.resourceType = "employee"
  BY DEF Employees, Unconditional
<1>4. pay.enabled = TRUE /\ pay.action = Payroll /\ pay.resourceType = "payroll"
  BY DEF Ceiling, Unconditional
<1>5. exp.enabled = TRUE /\ exp.action = Expense /\ exp.resourceType = "expense"
  BY DEF Unconditional
<1> HIDE DEF view, deny, pay, exp
<1>6. \A p : p \in found <=> /\ p \in TenantPolicies /\ p.enabled
                             /\ p.action \in {action, Star}
                             /\ p.resourceType \in {type, Star}
  BY DEF FindApplicable
<1> HIDE DEF found
<1>7. ASSUME action \in {Performance, Salary}, type = "employee"
      PROVE  view(action) \in found /\ \A p \in found : p = view(action) \/ p = deny
  BY <1>1, <1>2, <1>3, <1>4, <1>5, <1>6, <1>7 DEF Star, Performance, Salary, Payroll, Expense
<1>8. ASSUME action = Payroll, type = "payroll"
      PROVE  found = {pay}
  BY <1>1, <1>2, <1>3, <1>4, <1>5, <1>6, <1>8 DEF Star, Performance, Salary, Payroll, Expense
<1>9. ASSUME action = Expense, type = "expense"
      PROVE  found = {exp}
  BY <1>1, <1>2, <1>3, <1>4, <1>5, <1>6, <1>9 DEF Star, Performance, Salary, Payroll, Expense
<1> QED
  BY <1>7, <1>8, <1>9 DEF found, view, deny, pay, exp

(* What the clauses of those policies ask for. *)
LEMMA FixtureMatches ==
  ASSUME NEW ctx
  PROVE  /\ \A a : Matches(Ceiling(Employees("ALLOW", a, NearRelationships)), ctx) <=>
                      /\ ctx.relationship \in NearRelationships
                      /\ MeetsClearance(2, ctx.sensitivity)
                      /\ MeetsClearance(ctx.clearance, ctx.sensitivity)
                      /\ ctx.hasRbacPermission
         /\ Matches(Employees("DENY", Salary, {"SIBLING", "NONE"}), ctx) <=>
              ctx.relationship \in {"SIBLING", "NONE"}
         /\ Matches(Ceiling([Unconditional("ALLOW", Payroll, "payroll")
                               EXCEPT !.departments = {"hr"}]), ctx) <=>
              /\ ctx.department = "hr" /\ MeetsClearance(2, ctx.sensitivity)
              /\ MeetsClearance(ctx.clearance, ctx.sensitivity)
              /\ ctx.hasRbacPermission
         /\ Matches([Unconditional("ALLOW", Expense, "expense")
                       EXCEPT !.departments = {"fin"}, !.requirePermission = "yes"], ctx) <=>
              ctx.department = "fin" /\ ctx.hasRbacPermission
<1>1. ASSUME NEW p,
             p.departments = {} /\ p.locations = {} /\ p.employmentStatuses = {},
             p.minClearance = NoLevel
      PROVE  Abac(p, ctx) <=>
               (p.maxSensitivity # NoLevel =>
                  /\ MeetsClearance(p.maxSensitivity, ctx.sensitivity)
                  /\ MeetsClearance(ctx.clearance, ctx.sensitivity))
  BY <1>1 DEF Abac, Satisfies
<1>2. ASSUME NEW a
      PROVE  Matches(Ceiling(Employees("ALLOW", a, NearRelationships)), ctx) <=>
               /\ ctx.relationship \in NearRelationships
               /\ MeetsClearance(2, ctx.sensitivity)
               /\ MeetsClearance(ctx.clearance, ctx.sensitivity)
               /\ ctx.hasRbacPermission
  <2> DEFINE p == Ceiling(Employees("ALLOW", a, NearRelationships))
  <2>1. /\ p.relationships = NearRelationships /\ p.departments = {}
        /\ p.locations = {} /\ p.employmentStatuses = {}
        /\ p.minClearance = NoLevel /\ p.maxSensitivity = 2 /\ p.requirePermission = "yes"
    BY DEF Ceiling, Employees, Unconditional
  <2> HIDE DEF p
  <2>2. Abac(p, ctx) <=> /\ MeetsClearance(2, ctx.sensitivity)
                         /\ MeetsClearance(ctx.clearance, ctx.sensitivity)
    BY <1>1, <2>1 DEF NoLevel
  <2>3. RequiresPermission(p)
    BY <2>1 DEF RequiresPermission
  <2>4. Satisfies(p.relationships, ctx.relationship) <=> ctx.relationship \in NearRelationships
    BY <2>1 DEF Satisfies, NearRelationships
  <2> QED
    BY <2>2, <2>3, <2>4, Zenon DEF Matches, p
<1>3. Matches(Employees("DENY", Salary, {"SIBLING", "NONE"}), ctx) <=>
        ctx.relationship \in {"SIBLING", "NONE"}
  <2> DEFINE p == Employees("DENY", Salary, {"SIBLING", "NONE"})
  <2>1. /\ p.relationships = {"SIBLING", "NONE"} /\ p.departments = {}
        /\ p.locations = {} /\ p.employmentStatuses = {} /\ p.effect = "DENY"
        /\ p.minClearance = NoLevel /\ p.maxSensitivity = NoLevel
        /\ p.requirePermission = "default"
    BY DEF Employees, Unconditional
  <2> HIDE DEF p
  <2>2. Abac(p, ctx)
    BY <1>1, <2>1
  <2>3. ~ RequiresPermission(p)
    BY <2>1 DEF RequiresPermission
  <2>4. Satisfies(p.relationships, ctx.relationship) <=> ctx.relationship \in {"SIBLING", "NONE"}
    BY <2>1 DEF Satisfies
  <2> QED
    BY <2>2, <2>3, <2>4, Zenon DEF Matches, p
<1>4. Matches(Ceiling([Unconditional("ALLOW", Payroll, "payroll")
                         EXCEPT !.departments = {"hr"}]), ctx) <=>
        /\ ctx.department = "hr" /\ MeetsClearance(2, ctx.sensitivity)
        /\ MeetsClearance(ctx.clearance, ctx.sensitivity)
        /\ ctx.hasRbacPermission
  <2> DEFINE p == Ceiling([Unconditional("ALLOW", Payroll, "payroll")
                             EXCEPT !.departments = {"hr"}])
  <2>1. /\ p.relationships = {} /\ p.departments = {"hr"}
        /\ p.locations = {} /\ p.employmentStatuses = {}
        /\ p.minClearance = NoLevel /\ p.maxSensitivity = 2 /\ p.requirePermission = "yes"
    BY DEF Ceiling, Unconditional
  <2> HIDE DEF p
  <2>2. Abac(p, ctx) <=> /\ ctx.department = "hr" /\ MeetsClearance(2, ctx.sensitivity)
                         /\ MeetsClearance(ctx.clearance, ctx.sensitivity)
    BY <2>1 DEF Abac, Satisfies, NoLevel
  <2>3. RequiresPermission(p) /\ Satisfies(p.relationships, ctx.relationship)
    BY <2>1 DEF RequiresPermission, Satisfies
  <2> QED
    BY <2>2, <2>3, Zenon DEF Matches, p
<1>5. Matches([Unconditional("ALLOW", Expense, "expense")
                 EXCEPT !.departments = {"fin"}, !.requirePermission = "yes"], ctx) <=>
        ctx.department = "fin" /\ ctx.hasRbacPermission
  <2> DEFINE p == [Unconditional("ALLOW", Expense, "expense")
                     EXCEPT !.departments = {"fin"}, !.requirePermission = "yes"]
  <2>1. /\ p.relationships = {} /\ p.departments = {"fin"}
        /\ p.locations = {} /\ p.employmentStatuses = {}
        /\ p.minClearance = NoLevel /\ p.maxSensitivity = NoLevel
        /\ p.requirePermission = "yes"
    BY DEF Unconditional
  <2> HIDE DEF p
  <2>2. Abac(p, ctx) <=> ctx.department = "fin"
    BY <2>1 DEF Abac, Satisfies
  <2>3. RequiresPermission(p) /\ Satisfies(p.relationships, ctx.relationship)
    BY <2>1 DEF RequiresPermission, Satisfies
  <2> QED
    BY <2>2, <2>3, Zenon DEF Matches, p
<1> QED
  BY <1>2, <1>3, <1>4, <1>5

LEMMA EmployeeDecision ==
  ASSUME NEW s \in Staff[Demo], NEW o \in Staff[Demo], NEW action \in {Performance, Salary}
  PROVE  Decide(AllTables, Request(s, action, "employee", o)) =
           {IF /\ Answer(s, o) \in NearRelationships
               /\ MeetsClearance(UserRows[s].clearance, 2)
               /\ Granted(s, action, "employee")
            THEN "ALLOW" ELSE "DENY"}
<1> DEFINE r == ResourceRow("employee", o, o, 2)
           found == FindApplicable(TenantPolicies, action, "employee")
           view == Ceiling(Employees("ALLOW", action, NearRelationships))
           deny == Employees("DENY", Salary, {"SIBLING", "NONE"})
<1>1. r.owner = o /\ r.sensitivity = 2 /\ r.type = "employee" /\ r.id = o
  BY DEF ResourceRow
<1>2. Resolve(AllTables, "employee", o) = {r}
  <2>1. \A x \in ResourceRows : x.type = "employee" /\ x.id = o => x = r
    BY DEF ResourceRows, ResourceRow
  <2>2. {"User", "Resource"} \subseteq AllTables
    BY PipelineTables
  <2>3. {ResourceRow("employee", o, u, 2) :
           u \in {v \in Staff[Demo] : v = o /\ "employee" = "employee" /\ "User" \in AllTables}}
          = {r}
    BY <2>2
  <2> HIDE DEF r
  <2>4. LET rows_ == {x \in ResourceRows :
                       "Resource" \in AllTables /\ x.type = "employee" /\ x.id = o}
        IN  rows_ # {} => rows_ = {r}
    BY <2>1
  <2> QED
    BY <2>3, <2>4 DEF Resolve
<1>3. ResolveRelationship(AllTables, s, o) = {Answer(s, o)}
  <2>1. o \in Users /\ s \in Users /\ o # NoUser /\ "Closure" \in AllTables
    BY DemoFacts, PipelineTables
  <2>2. GetRelationship(ClosureRows[Demo], s, o) = {Answer(s, o)}
    BY <2>1, DemoFacts, OneRelationship DEF Answer
  <2> QED
    BY <2>1, <2>2 DEF ResolveRelationship
<1> HIDE DEF r
<1>4. PICK ctx :
        /\ Decide(AllTables, Request(s, action, "employee", o)) = {Evaluate(found, ctx)}
        /\ ContextIs(ctx, s, Granted(s, action, "employee"), r, Answer(s, o))
  <2>1. ResolveRelationship(AllTables, s, r.owner) = {Answer(s, o)}
    BY <1>1, <1>3, Zenon
  <2> HIDE DEF found
  <2> QED
    BY <1>2, <2>1, FullTenantDecides, Zenon DEF found
<1>5. view \in found /\ \A p \in found : p = view \/ p = deny
  BY PoliciesAbout
<1>6. view.effect = "ALLOW" /\ deny.effect = "DENY"
  BY DEF Ceiling, Employees, Unconditional
<1>7. Matches(view, ctx) <=> /\ Answer(s, o) \in NearRelationships
                             /\ MeetsClearance(UserRows[s].clearance, 2)
                             /\ Granted(s, action, "employee")
  <2>1. MeetsClearance(2, 2)
    BY DEF MeetsClearance
  <2>2. Matches(view, ctx) <=> /\ ctx.relationship \in NearRelationships
                               /\ MeetsClearance(2, ctx.sensitivity)
                               /\ MeetsClearance(ctx.clearance, ctx.sensitivity)
                               /\ ctx.hasRbacPermission
    BY FixtureMatches
  <2> HIDE DEF view
  <2> QED
    BY <1>1, <1>4, <2>1, <2>2, Zenon DEF ContextIs
<1>8. Matches(deny, ctx) => Answer(s, o) \notin NearRelationships
  <2>1. Matches(deny, ctx) => ctx.relationship \in {"SIBLING", "NONE"}
    BY FixtureMatches
  <2>2. ctx.relationship = Answer(s, o)
    BY <1>4 DEF ContextIs
  <2> HIDE DEF deny
  <2> QED
    BY <2>1, <2>2 DEF NearRelationships
<1> HIDE DEF found, view, deny
<1>9. CASE Matches(view, ctx)
  <2>1. Matched(found, "DENY", ctx) = {} /\ Matched(found, "ALLOW", ctx) # {}
    BY <1>5, <1>6, <1>7, <1>8, <1>9 DEF Matched
  <2> QED
    BY <1>4, <1>7, <1>9, <2>1 DEF Evaluate
<1>10. CASE ~ Matches(view, ctx)
  <2>1. Matched(found, "ALLOW", ctx) = {}
    BY <1>5, <1>6, <1>10 DEF Matched
  <2> QED
    BY <1>4, <1>7, <1>10, <2>1 DEF Evaluate
<1> QED
  BY <1>9, <1>10

LEMMA PayrollDecision ==
  ASSUME NEW s \in Staff[Demo]
  PROVE  Decide(AllTables, Request(s, Payroll, "payroll", "payroll-june")) =
           {IF /\ UserRows[s].department = "hr"
               /\ MeetsClearance(UserRows[s].clearance, 2)
               /\ Granted(s, Payroll, "payroll")
            THEN "ALLOW" ELSE "DENY"}
<1> DEFINE r == ResourceRow("payroll", "payroll-june", NoUser, 2)
           found == FindApplicable(TenantPolicies, Payroll, "payroll")
           pay == Ceiling([Unconditional("ALLOW", Payroll, "payroll")
                             EXCEPT !.departments = {"hr"}])
<1>1. r.owner = NoUser /\ r.sensitivity = 2
  BY DEF ResourceRow
<1>2. Resolve(AllTables, "payroll", "payroll-june") = {r}
  <2>1. r \in ResourceRows /\ r.type = "payroll" /\ r.id = "payroll-june"
    BY DEF ResourceRows, ResourceRow
  <2>2. \A x \in ResourceRows : x.type = "payroll" => x = r
    BY DEF ResourceRows, ResourceRow
  <2> HIDE DEF r
  <2>3. {x \in ResourceRows : /\ "Resource" \in AllTables /\ x.type = "payroll"
                              /\ x.id = "payroll-june"} = {r}
    BY <2>1, <2>2, PipelineTables
  <2> QED
    BY <2>3 DEF Resolve
<1>3. ResolveRelationship(AllTables, s, NoUser) = {"NONE"}
  BY DEF ResolveRelationship
<1> HIDE DEF r
<1>4. PICK ctx :
        /\ Decide(AllTables, Request(s, Payroll, "payroll", "payroll-june"))
             = {Evaluate(found, ctx)}
        /\ ContextIs(ctx, s, Granted(s, Payroll, "payroll"), r, "NONE")
  BY <1>1, <1>2, <1>3, FullTenantDecides
<1>5. found = {pay}
  BY PoliciesAbout
<1>6. pay.effect = "ALLOW"
  BY DEF Ceiling, Unconditional
<1>7. Matches(pay, ctx) <=> /\ UserRows[s].department = "hr"
                            /\ MeetsClearance(UserRows[s].clearance, 2)
                            /\ Granted(s, Payroll, "payroll")
  <2>1. MeetsClearance(2, 2)
    BY DEF MeetsClearance
  <2>2. Matches(pay, ctx) <=>
          /\ ctx.department = "hr" /\ MeetsClearance(2, ctx.sensitivity)
          /\ MeetsClearance(ctx.clearance, ctx.sensitivity)
          /\ ctx.hasRbacPermission
    BY FixtureMatches
  <2> HIDE DEF pay
  <2> QED
    BY <1>1, <1>4, <2>1, <2>2, Zenon DEF ContextIs
<1> HIDE DEF found, pay
<1>8. Matched(found, "DENY", ctx) = {}
  BY <1>5, <1>6 DEF Matched
<1>9. Matched(found, "ALLOW", ctx) # {} <=> Matches(pay, ctx)
  BY <1>5, <1>6 DEF Matched
<1> QED
  BY <1>4, <1>7, <1>8, <1>9 DEF Evaluate

LEMMA ExpenseDecision ==
  ASSUME NEW s \in Staff[Demo], UserRows[s].department = "fin",
         Granted(s, Expense, "expense")
  PROVE  Decide(AllTables, Request(s, Expense, "expense", "expense-1")) = {"ALLOW"}
<1> DEFINE r == ResourceRow("expense", "expense-1", NoUser, 1)
           found == FindApplicable(TenantPolicies, Expense, "expense")
           exp == [Unconditional("ALLOW", Expense, "expense")
                     EXCEPT !.departments = {"fin"}, !.requirePermission = "yes"]
<1>1. r.owner = NoUser
  BY DEF ResourceRow
<1>2. Resolve(AllTables, "expense", "expense-1") = {r}
  <2>1. r \in ResourceRows /\ r.type = "expense" /\ r.id = "expense-1"
    BY DEF ResourceRows, ResourceRow
  <2>2. \A x \in ResourceRows : x.type = "expense" => x = r
    BY DEF ResourceRows, ResourceRow
  <2> HIDE DEF r
  <2>3. {x \in ResourceRows : /\ "Resource" \in AllTables /\ x.type = "expense"
                              /\ x.id = "expense-1"} = {r}
    BY <2>1, <2>2, PipelineTables
  <2> QED
    BY <2>3 DEF Resolve
<1>3. ResolveRelationship(AllTables, s, NoUser) = {"NONE"}
  BY DEF ResolveRelationship
<1> HIDE DEF r
<1>4. PICK ctx :
        /\ Decide(AllTables, Request(s, Expense, "expense", "expense-1"))
             = {Evaluate(found, ctx)}
        /\ ContextIs(ctx, s, Granted(s, Expense, "expense"), r, "NONE")
  BY <1>1, <1>2, <1>3, FullTenantDecides
<1>5. found = {exp}
  BY PoliciesAbout
<1>6. exp.effect = "ALLOW"
  BY DEF Unconditional
<1>7. Matches(exp, ctx)
  <2>1. Matches(exp, ctx) <=> ctx.department = "fin" /\ ctx.hasRbacPermission
    BY FixtureMatches
  <2> HIDE DEF exp
  <2> QED
    BY <1>4, <2>1, Zenon DEF ContextIs
<1> HIDE DEF found, exp
<1>8. Matched(found, "DENY", ctx) = {} /\ Matched(found, "ALLOW", ctx) # {}
  BY <1>5, <1>6, <1>7 DEF Matched
<1> QED
  BY <1>4, <1>8 DEF Evaluate

(* Nobody of the other tenant is found. *)
LEMMA ForeignDecision ==
  ASSUME NEW s, NEW o \in Staff[Tenants[2]], NEW action
  PROVE  Decide(AllTables, Request(s, action, "employee", o)) = {"DENY"}
<1>1. o \notin Staff[Demo] /\ o \notin {"employee-a", "employee-b"}
  BY DemoAssumption, DemoChartAssumption
<1>2. \A x \in ResourceRows : ~ (x.type = "employee" /\ x.id = o)
  BY <1>1 DEF ResourceRows, ResourceRow
<1>3. Resolve(AllTables, "employee", o) = {}
  BY <1>1, <1>2 DEF Resolve
<1> DEFINE rq == Request(s, action, "employee", o)
<1>4. rq.type = "employee" /\ rq.id = o
  BY DEF Request
<1> HIDE DEF rq
<1>5. Resolve(AllTables, rq.type, rq.id) = {}
  BY <1>3, <1>4
<1>6. Decide(AllTables, rq) = {"DENY"}
  BY <1>5, Zenon DEF Decide
<1> QED
  BY <1>6 DEF rq

-----------------------------------------------------------------------------
(* The rows of the fixture that the scenarios look at. *)
LEMMA CeoAboveAll ==
  ASSUME NEW u \in Staff[Demo]
  PROVE  ClosureRows[Demo]["ceo-a"][u] # NoRow
<1> DEFINE t == ClosureRows[Demo]
           boss == Manager[Demo]
           above == {a \in Staff[Demo] : t[a][u] # NoRow}
           Size(x) == Cardinality(AboveOf(t, x))
           sizes == {Size(x) : x \in above}
<1>1. /\ t \in Tables /\ boss \in Charts /\ IsClosureOf(t, boss)
      /\ Staff[Demo] \subseteq Users
      /\ \A x \in Users : boss[x] # NoUser => boss[x] \in Staff[Demo]
      /\ \A x \in Staff[Demo] : boss[x] = NoUser => x = "ceo-a"
  BY DemoFacts, ChartsAssumption, DemoChartAssumption
<1>2. t[u][u] = 0
  BY <1>1, DemoFacts, ClosureIsDistance DEF ClosureRows, BuildClosureRows
<1> HIDE DEF t, boss
<1>3. PICK x \in above : \A y \in above : ~ (Size(y) < Size(x))
  <2>1. sizes \subseteq Nat /\ sizes # {}
    BY <1>2, AboveIsFinite DEF NoRow
  <2>2. PICK n \in sizes : \A k \in sizes : ~ (k < n)
    <3> HIDE DEF sizes
    <3> QED
      BY <2>1, SmallestElement
  <2> HIDE DEF Size, above
  <2> QED
    BY <2>2
<1>4. CASE boss[x] = NoUser
  BY <1>1, <1>3, <1>4 DEF t
<1>5. CASE boss[x] # NoUser
  <2> DEFINE m == boss[x]
  <2>1. m \in Staff[Demo] /\ m \in Users /\ x \in Users /\ u \in Users
    BY <1>1, <1>3, <1>5
  <2>2. t[m][x] = 1 /\ t[x][u] \in Nat
    BY <1>1, <1>3, <2>1 DEF IsClosureOf, DirectRows, Tables, NoRow
  <2>3. t[m][u] = 1 + t[x][u]
    BY <1>1, <2>1, <2>2 DEF IsClosureOf, PathsCompose, NoRow
  <2>4. m \in above
    BY <2>1, <2>2, <2>3 DEF NoRow
  <2>5. Size(m) < Size(x)
    BY <1>1, <2>1, FewerAboveManager
  <2> HIDE DEF m, Size, above
  <2> QED
    BY <1>3, <2>4, <2>5
<1> QED
  BY <1>4, <1>5

LEMMA ScenarioAnswers ==
  /\ Answer("manager-a", "employee-a") \in NearRelationships
  /\ Answer("director-a", "employee-a") \in NearRelationships
  /\ \A u \in Staff[Demo] : Answer("ceo-a", u) \in NearRelationships
  /\ Answer("manager-a", "employee-b") \notin NearRelationships
<1> DEFINE t == ClosureRows[Demo]
           boss == Manager[Demo]
<1>1. /\ {"ceo-a", "director-a", "manager-a", "manager-b", "employee-a", "employee-b"}
           \subseteq Users
      /\ boss["employee-a"] = "manager-a" /\ boss["employee-b"] = "manager-b"
      /\ boss["manager-a"] = "director-a" /\ boss["manager-b"] = "director-a"
  BY DemoFacts, DemoAssumption, DemoChartAssumption
<1>2. \A a, d \in Users : t[a][d] \in Nat \cup {-1}
  BY DemoFacts DEF Tables, NoRow
<1>3. /\ SelfRows(t) /\ PathsCompose(t) /\ AncestorsChain(t) /\ DirectRows(t, boss)
  BY DemoFacts DEF IsClosureOf
<1>4. ASSUME NEW s \in Users, NEW o \in Users
      PROVE  Answer(s, o) \in NearRelationships <=> s = o \/ t[s][o] >= 1
  BY <1>2 DEF Answer, Classify, NearRelationships
<1>5. ASSUME NEW u \in Staff[Demo]
      PROVE  Answer("ceo-a", u) \in NearRelationships
  <2>1. u \in Users /\ t["ceo-a"][u] # NoRow
    BY DemoFacts, CeoAboveAll
  <2> HIDE DEF t
  <2>2. t["ceo-a"][u] = 0 => "ceo-a" = u
    BY <1>1, <1>3, <2>1 DEF SelfRows, NoRow
  <2> QED
    BY <1>1, <1>2, <1>4, <2>1, <2>2 DEF NoRow
<1> HIDE DEF t, boss
<1>6. /\ t["manager-a"]["employee-a"] = 1 /\ t["manager-b"]["employee-b"] = 1
      /\ t["director-a"]["manager-a"] = 1 /\ t["director-a"]["manager-b"] = 1
  BY <1>1, <1>3 DEF DirectRows
<1>7. t["director-a"]["employee-a"] = 2
  BY <1>1, <1>3, <1>6 DEF PathsCompose, NoRow
<1>8. ~ (t["manager-a"]["employee-b"] >= 1)
  <2> SUFFICES ASSUME t["manager-a"]["employee-b"] >= 1 PROVE FALSE
    OBVIOUS
  <2> DEFINE k == t["manager-a"]["employee-b"]
  <2>1. k \in Nat
    BY <1>1, <1>2
  <2>2. t["manager-a"]["manager-b"] = k - 1
    BY <1>1, <1>3, <1>6 DEF AncestorsChain, NoRow
  <2>3. k - 1 # 0
    BY <1>1, <1>3, <2>1, <2>2 DEF SelfRows, NoRow
  <2>4. t["manager-a"]["director-a"] = k - 2
    BY <1>1, <1>3, <1>6, <2>1, <2>2, <2>3 DEF AncestorsChain, NoRow
  <2>5. t["director-a"]["director-a"] = k - 1
    BY <1>1, <1>3, <1>6, <2>1, <2>3, <2>4 DEF PathsCompose, NoRow
  <2>6. t["director-a"]["director-a"] = 0
    BY <1>1, <1>3, <1>6 DEF SelfRows, NoRow
  <2> QED
    BY <2>3, <2>5, <2>6
<1> QED
  BY <1>1, <1>4, <1>5, <1>6, <1>7, <1>8

UserIs(s, department, clearance, roles) ==
  /\ UserRows[s].department = department
  /\ UserRows[s].clearance = clearance
  /\ UserRows[s].roles = roles

LEMMA ScenarioUsers ==
  /\ UserIs("ceo-a", "none", 4, {"Admin", "Executive"})
  /\ UserIs("director-a", "eng", 3, {"Director"})
  /\ UserIs("manager-a", "eng", 2, {"Manager"})
  /\ UserIs("employee-a", "eng", 1, {"Employee"})
  /\ UserIs("finance-admin-a", "fin", 2, {"Finance"})
  /\ UserIs("hr-admin-a", "hr", 2, {"HR"})
<1>1. /\ UserRows["ceo-a"] = UserRow("none", 4, {"Admin", "Executive"})
      /\ UserRows["director-a"] = UserRow("eng", 3, {"Director"})
      /\ UserRows["manager-a"] = UserRow("eng", 2, {"Manager"})
      /\ UserRows["employee-a"] = UserRow("eng", 1, {"Employee"})
      /\ UserRows["finance-admin-a"] = UserRow("fin", 2, {"Finance"})
      /\ UserRows["hr-admin-a"] = UserRow("hr", 2, {"HR"})
  BY DemoAssumption, DemoChartAssumption DEF UserRows
<1>2. ASSUME NEW s, NEW department, NEW clearance, NEW roles,
             UserRows[s] = UserRow(department, clearance, roles)
      PROVE  UserIs(s, department, clearance, roles)
  BY <1>2 DEF UserIs, UserRow
<1> QED
  BY <1>1, <1>2

(* A user is granted what one of its roles holds, and nothing by none.      *)
LEMMA RoleGrants ==
  ASSUME NEW s, NEW action, NEW type, NEW role \in UserRows[s].roles,
         Star \in Grants(role) \/ action \in Grants(role)
  PROVE  Granted(s, action, type)
BY PipelineTables DEF PermissionNames, Granted, HasRbacPermission

LEMMA NoRoleGrants ==
  ASSUME NEW s, NEW action, NEW type,
         \A role \in UserRows[s].roles : Grants(role) = {}
  PROVE  ~ Granted(s, action, type)
BY DEF PermissionNames, Granted, HasRbacPermission

(* A tenant the seed has completed decides the acceptance scenarios of the  *)
(* README as its table says, whoever else its staff are and wherever they   *)
(* are in the chart.                                                        *)
THEOREM ScenariosAlwaysDecide == Spec => []ScenariosDecide
<1>1. /\ {"ceo-a", "director-a", "manager-a", "finance-admin-a", "hr-admin-a",
          "employee-a", "employee-b"} \subseteq Staff[Demo]
  BY DemoAssumption, DemoChartAssumption
<1>2. /\ Grants("Admin") = {Star} /\ Grants("Manager") = {Performance, Salary}
      /\ Grants("Director") = {Performance, Salary} /\ Grants("HR") = {Payroll}
      /\ Grants("Finance") = {Expense} /\ Grants("Employee") = {}
  BY DEF Grants
<1>3. /\ UserRows["manager-a"].clearance = 2 /\ UserRows["director-a"].clearance = 3
      /\ \A s \in {"manager-a", "director-a"} : Granted(s, Performance, "employee")
  <2>1. /\ "Manager" \in UserRows["manager-a"].roles
        /\ "Director" \in UserRows["director-a"].roles
        /\ UserRows["manager-a"].clearance = 2 /\ UserRows["director-a"].clearance = 3
    BY ScenarioUsers DEF UserIs
  <2>2. Granted("manager-a", Performance, "employee")
    BY <1>2, <2>1, RoleGrants
  <2>3. Granted("director-a", Performance, "employee")
    BY <1>2, <2>1, RoleGrants
  <2> QED
    BY <2>1, <2>2, <2>3
<1>4. /\ UserRows["ceo-a"].clearance = 4 /\ UserRows["ceo-a"].department = "none"
      /\ \A action : Granted("ceo-a", action, "employee")
  <2>1. /\ "Admin" \in UserRows["ceo-a"].roles
        /\ UserRows["ceo-a"].clearance = 4 /\ UserRows["ceo-a"].department = "none"
    BY ScenarioUsers DEF UserIs
  <2>2. ASSUME NEW action PROVE Granted("ceo-a", action, "employee")
    BY <1>2, <2>1, RoleGrants
  <2> QED
    BY <2>1, <2>2
<1>5. /\ UserRows["hr-admin-a"].department = "hr" /\ UserRows["hr-admin-a"].clearance = 2
      /\ Granted("hr-admin-a", Payroll, "payroll")
  <2>1. /\ "HR" \in UserRows["hr-admin-a"].roles
        /\ UserRows["hr-admin-a"].department = "hr" /\ UserRows["hr-admin-a"].clearance = 2
    BY ScenarioUsers DEF UserIs
  <2>2. Granted("hr-admin-a", Payroll, "payroll")
    BY <1>2, <2>1, RoleGrants
  <2> QED
    BY <2>1, <2>2
<1>6. /\ UserRows["finance-admin-a"].department = "fin"
      /\ Granted("finance-admin-a", Expense, "expense")
  <2>1. /\ "Finance" \in UserRows["finance-admin-a"].roles
        /\ UserRows["finance-admin-a"].department = "fin"
    BY ScenarioUsers DEF UserIs
  <2>2. Granted("finance-admin-a", Expense, "expense")
    BY <1>2, <2>1, RoleGrants
  <2> QED
    BY <2>1, <2>2
<1>7. /\ UserRows["employee-a"].department = "eng"
      /\ \A action, type : ~ Granted("employee-a", action, type)
  <2>1. /\ UserRows["employee-a"].roles = {"Employee"}
        /\ UserRows["employee-a"].department = "eng"
    BY ScenarioUsers DEF UserIs
  <2>2. ASSUME NEW action, NEW type PROVE ~ Granted("employee-a", action, type)
    BY <1>2, <2>1, NoRoleGrants
  <2> QED
    BY <2>1, <2>2
<1>8. MeetsClearance(2, 2) /\ MeetsClearance(3, 2) /\ MeetsClearance(4, 2)
  BY DEF MeetsClearance
<1>9. ASSUME NEW rq \in Allowed
      PROVE  Decide(AllTables, rq) = {"ALLOW"}
  <2>1. \/ \E s \in {"manager-a", "director-a"} :
             rq = Request(s, Performance, "employee", "employee-a")
        \/ \E action \in {Performance, Salary}, u \in Staff[Demo] :
             rq = Request("ceo-a", action, "employee", u)
        \/ rq = Request("hr-admin-a", Payroll, "payroll", "payroll-june")
        \/ rq = Request("finance-admin-a", Expense, "expense", "expense-1")
    BY <1>9 DEF Allowed, Views
  <2>2. ASSUME NEW s \in {"manager-a", "director-a"},
               rq = Request(s, Performance, "employee", "employee-a")
        PROVE  Decide(AllTables, rq) = {"ALLOW"}
    BY <1>1, <1>3, <1>8, <2>2, ScenarioAnswers, EmployeeDecision
  <2>3. ASSUME NEW action \in {Performance, Salary}, NEW u \in Staff[Demo],
               rq = Request("ceo-a", action, "employee", u)
        PROVE  Decide(AllTables, rq) = {"ALLOW"}
    BY <1>1, <1>4, <1>8, <2>3, ScenarioAnswers, EmployeeDecision
  <2>4. CASE rq = Request("hr-admin-a", Payroll, "payroll", "payroll-june")
    BY <1>1, <1>5, <1>8, <2>4, PayrollDecision
  <2>5. CASE rq = Request("finance-admin-a", Expense, "expense", "expense-1")
    BY <1>1, <1>6, <2>5, ExpenseDecision
  <2> QED
    BY <2>1, <2>2, <2>3, <2>4, <2>5
<1>10. ASSUME NEW rq \in Denied
      PROVE  Decide(AllTables, rq) = {"DENY"}
  <2>1. \/ rq = Request("manager-a", Performance, "employee", "employee-b")
        \/ \E s \in Staff[Demo], action \in {Performance, Salary}, o \in Staff[Tenants[2]] :
             rq = Request(s, action, "employee", o)
        \/ rq = Request("employee-a", Salary, "employee", "employee-b")
        \/ rq = Request("employee-a", Payroll, "payroll", "payroll-june")
        \/ rq = Request("ceo-a", Payroll, "payroll", "payroll-june")
    BY <1>10 DEF Denied, Views
  <2>2. CASE rq = Request("manager-a", Performance, "employee", "employee-b")
    BY <1>1, <2>2, ScenarioAnswers, EmployeeDecision
  <2>3. ASSUME NEW s \in Staff[Demo], NEW action \in {Performance, Salary},
               NEW o \in Staff[Tenants[2]], rq = Request(s, action, "employee", o)
        PROVE  Decide(AllTables, rq) = {"DENY"}
    BY <2>3, ForeignDecision
  <2>4. CASE rq = Request("employee-a", Salary, "employee", "employee-b")
    BY <1>1, <1>7, <2>4, EmployeeDecision
  <2>5. CASE rq = Request("employee-a", Payroll, "payroll", "payroll-june")
    BY <1>1, <1>7, <2>5, PayrollDecision
  <2>6. CASE rq = Request("ceo-a", Payroll, "payroll", "payroll-june")
    BY <1>1, <1>4, <2>6, PayrollDecision
  <2> QED
    BY <2>1, <2>2, <2>3, <2>4, <2>5, <2>6
<1>11. ScenariosDecide
  BY <1>9, <1>10 DEF ScenariosDecide
<1> QED
  BY <1>11, PTL
=============================================================================
