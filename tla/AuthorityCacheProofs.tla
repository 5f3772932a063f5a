------------------------ MODULE AuthorityCacheProofs ------------------------
(***************************************************************************)
(* For any users, rows, replicas, calls and times to live: what a cache     *)
(* entry may miss and what it never holds.  The rows only grow, so a value  *)
(* lies between what its load could have seen and what is there now; the    *)
(* invariant says so of every load under way and of every entry.            *)
(***************************************************************************)
EXTENDS AuthorityCache, TLAPS

Entries ==
  [value : SUBSET (Perms \cup Policies), expiresAt : -1 .. MaxClock + Ttl,
   readAt : Int, from : SUBSET Rows, to : SUBSET Rows]

Loads ==
  [pc : {"query"}, replica : Replicas, key : Keys, from : SUBSET Rows]
    \cup [pc : {"set"}, replica : Replicas, key : Keys, from : SUBSET Rows,
          value : SUBSET (Perms \cup Policies), readAt : Int]

Writes == [pc : {"invalidate"}, replica : Replicas, row : Rows]

Types ==
  /\ rows \in SUBSET Rows
  /\ store \in [Replicas -> [Keys -> Entries]]
  /\ load \in [Readers -> {NoLoad} \cup Loads]
  /\ write \in [Writers -> {NoWrite} \cup Writes]
  /\ clock \in 0 .. MaxClock
  /\ purged \in [Replicas -> SUBSET rows]
  /\ born \in [rows -> 0 .. clock]

(* A value l of key k against the rows there are now: it holds none that is *)
(* not there, and all that were there before it was read or were            *)
(* invalidated before its load began.                                       *)
Sound(l, k, table, births, now) ==
  /\ l.value \subseteq Loaded(table, k)
  /\ Loaded(l.from, k) \subseteq l.value
  /\ Loaded({row \in table : births[row] < l.readAt}, k) \subseteq l.value
  /\ l.readAt <= now

LoadSound(l, table, births, now) ==
  /\ l.from \subseteq table
  /\ l.pc = "set" => Sound(l, l.key, table, births, now)

(* An entry has seen every invalidation of its key since its load began.    *)
EntrySound(e, k, gone, table, births, now) ==
  /\ Sound(e, k, table, births, now)
  /\ {row \in gone : k \in DroppedKeys(row)} \subseteq e.to

Inv ==
  /\ Types
  /\ \A w \in Writers : write[w] # NoWrite => write[w].row \in rows
  /\ \A r \in Readers : load[r] # NoLoad => LoadSound(load[r], rows, born, clock)
  /\ \A i \in Replicas, k \in Keys :
       store[i][k] # NoEntry =>
         EntrySound(store[i][k], k, purged[i], rows, born, clock)

-----------------------------------------------------------------------------
(* More rows, more permissions and policies: there are no negative rows.    *)
LEMMA LoadedGrows ==
  ASSUME NEW A, NEW B, A \subseteq B, NEW k
  PROVE  Loaded(A, k) \subseteq Loaded(B, k)
BY DEF Loaded, PermissionNames, Applicable

LEMMA LoadedType ==
  ASSUME NEW A, NEW k
  PROVE  Loaded(A, k) \subseteq (IF k \in Users THEN Perms ELSE Policies)
BY DEF Loaded, PermissionNames, Applicable

LEMMA NoEntryType == NoEntry \in Entries
BY CacheAssumption DEF NoEntry, Entries

(* What a step may do to the rows and the time: rows are added, born now.   *)
Later(table, births, now, table2, births2, now2) ==
  /\ table \subseteq table2
  /\ \A row \in table2 : IF row \in table THEN births2[row] = births[row]
                                          ELSE births2[row] = now
  /\ now <= now2

LEMMA SoundLater ==
  ASSUME NEW table, NEW births, NEW now \in Int,
         NEW table2, NEW births2, NEW now2 \in Int,
         Later(table, births, now, table2, births2, now2),
         NEW l, NEW k, l.readAt \in Int, Sound(l, k, table, births, now)
  PROVE  Sound(l, k, table2, births2, now2)
<1>1. l.value \subseteq Loaded(table2, k)
  <2>1. Loaded(table, k) \subseteq Loaded(table2, k)
    BY LoadedGrows DEF Later
  <2>2. QED
    BY <2>1 DEF Sound
<1>2. {row \in table2 : births2[row] < l.readAt} \subseteq {row \in table : births[row] < l.readAt}
  BY DEF Later, Sound
<1>3. Loaded({row \in table2 : births2[row] < l.readAt}, k)
        \subseteq Loaded({row \in table : births[row] < l.readAt}, k)
  BY <1>2, LoadedGrows
<1>4. l.readAt <= now2
  BY DEF Later, Sound
<1>5. QED
  BY <1>1, <1>3, <1>4 DEF Sound

(* The part of the invariant about loads and entries, for a step that adds  *)
(* rows or lets time pass and leaves the rest alone.                        *)
LEMMA LaterKeeps ==
  ASSUME Inv, rows' \subseteq Rows, clock' \in 0 .. MaxClock,
         Later(rows, born, clock, rows', born', clock'),
         born' \in [rows' -> 0 .. clock'],
         UNCHANGED <<store, load, purged>>,
         write' \in [Writers -> {NoWrite} \cup Writes],
         \A w \in Writers : write'[w] # NoWrite => write'[w].row \in rows'
  PROVE  Inv'
<1>1. Types'
  BY DEF Inv, Types, Later
<1>2. clock \in Int /\ clock' \in Int
  BY DEF Inv, Types
<1>3. ASSUME NEW r \in Readers, load[r] # NoLoad
      PROVE  LoadSound(load[r], rows', born', clock')
  <2>1. load[r] \in Loads /\ LoadSound(load[r], rows, born, clock)
    BY <1>3 DEF Inv, Types
  <2>2. load[r].from \subseteq rows'
    BY <2>1 DEF LoadSound, Later
  <2>3. ASSUME load[r].pc = "set"
        PROVE  Sound(load[r], load[r].key, rows', born', clock')
    <3>1. load[r].readAt \in Int
      BY <2>1, <2>3 DEF Loads
    <3>2. QED
      BY <1>2, <2>1, <2>3, <3>1, SoundLater DEF LoadSound
  <2>4. QED
    BY <2>2, <2>3 DEF LoadSound
<1>4. ASSUME NEW i \in Replicas, NEW k \in Keys, store[i][k] # NoEntry
      PROVE  EntrySound(store[i][k], k, purged[i], rows', born', clock')
  <2>1. EntrySound(store[i][k], k, purged[i], rows, born, clock)
    BY <1>4 DEF Inv
  <2>2. store[i][k].readAt \in Int
    BY DEF Inv, Types, Entries
  <2>3. QED
    BY <1>2, <2>1, <2>2, SoundLater DEF EntrySound
<1>5. QED
  BY <1>1, <1>3, <1>4 DEF Inv

(* A step that changes entries, loads and writes only. *)
LEMMA SameRowsKeep ==
  ASSUME Inv, UNCHANGED <<rows, clock, born>>,
         store' \in [Replicas -> [Keys -> Entries]],
         load' \in [Readers -> {NoLoad} \cup Loads],
         write' \in [Writers -> {NoWrite} \cup Writes],
         purged' \in [Replicas -> SUBSET rows],
         \A w \in Writers : write'[w] \in {write[w], NoWrite},
         \A r \in Readers :
            load'[r] \notin {load[r], NoLoad} => LoadSound(load'[r], rows, born, clock),
         \A i \in Replicas, k \in Keys :
            store'[i][k] # NoEntry =>
              EntrySound(store'[i][k], k, purged'[i], rows, born, clock)
  PROVE  Inv'
<1>1. Types'
  BY DEF Inv, Types
<1>2. \A w \in Writers : write'[w] # NoWrite => write'[w].row \in rows'
  BY DEF Inv
<1>3. \A r \in Readers : load'[r] # NoLoad => LoadSound(load'[r], rows', born', clock')
  BY DEF Inv
<1>4. QED
  BY <1>1, <1>2, <1>3 DEF Inv

-----------------------------------------------------------------------------
LEMMA MissKeeps ==
  ASSUME Inv, NEW r \in Readers, NEW i \in Replicas, NEW k \in Keys, Miss(r, i, k)
  PROVE  Inv'
<1> DEFINE l == [pc |-> "query", replica |-> i, key |-> k, from |-> purged[i]]
<1>1. Types /\ store' = [store EXCEPT ![i][k] = NoEntry] /\ load' = [load EXCEPT ![r] = l]
  BY DEF Miss, Inv
<1>2. l \in Loads /\ LoadSound(l, rows, born, clock)
  BY <1>1 DEF Loads, LoadSound, Types
<1>3. store' \in [Replicas -> [Keys -> Entries]]
  BY <1>1, NoEntryType DEF Types
<1>4. \A j \in Replicas, m \in Keys : store'[j][m] \in {store[j][m], NoEntry}
  BY <1>1 DEF Types
<1> HIDE DEF l
<1>5. load' \in [Readers -> {NoLoad} \cup Loads]
  BY <1>1, <1>2 DEF Types
<1>6. \A s \in Readers : load'[s] \in {load[s], l}
  BY <1>1 DEF Types
<1>7. UNCHANGED <<rows, write, clock, purged, born>>
  BY DEF Miss
<1>8. \A j \in Replicas, m \in Keys : store'[j][m] # NoEntry =>
         EntrySound(store'[j][m], m, purged'[j], rows, born, clock)
  BY <1>4, <1>7 DEF Inv
<1>9. QED
  BY <1>1, <1>2, <1>3, <1>5, <1>6, <1>7, <1>8, SameRowsKeep DEF Types

LEMMA ReadRowsKeeps ==
  ASSUME Inv, NEW r \in Readers, ReadRows(r)
  PROVE  Inv'
<1> DEFINE l == [pc |-> "set", replica |-> load[r].replica, key |-> load[r].key,
                 from |-> load[r].from, value |-> Loaded(rows, load[r].key),
                 readAt |-> clock]
<1>1. Types /\ load' = [load EXCEPT ![r] = l]
  BY DEF ReadRows, Inv, Types
<1>2. load[r] # NoLoad /\ load[r] \in Loads /\ LoadSound(load[r], rows, born, clock)
  BY DEF ReadRows, NoLoad, Inv, Types
<1>3. Loaded(rows, load[r].key) \subseteq Perms \cup Policies
  BY LoadedType
<1>4. l \in Loads
  BY <1>1, <1>2, <1>3 DEF Loads, Types
<1>5. LoadSound(l, rows, born, clock)
  <2>1. load[r].from \subseteq rows
    BY <1>2 DEF LoadSound
  <2>2. Loaded(load[r].from, load[r].key) \subseteq Loaded(rows, load[r].key)
    BY <2>1, LoadedGrows
  <2>3. Loaded({row \in rows : born[row] < clock}, load[r].key)
          \subseteq Loaded(rows, load[r].key)
    BY LoadedGrows
  <2>4. QED
    BY <1>1, <2>1, <2>2, <2>3 DEF LoadSound, Sound, Types
<1> HIDE DEF l
<1>6. load' \in [Readers -> {NoLoad} \cup Loads]
  BY <1>1, <1>4 DEF Types
<1>7. \A s \in Readers : load'[s] \in {load[s], l}
  BY <1>1 DEF Types
<1>8. UNCHANGED <<rows, store, write, clock, purged, born>>
  BY DEF ReadRows
<1>9. \A j \in Replicas, m \in Keys : store'[j][m] # NoEntry =>
         EntrySound(store'[j][m], m, purged'[j], rows, born, clock)
  BY <1>8 DEF Inv
<1>10. QED
  BY <1>1, <1>5, <1>6, <1>7, <1>8, <1>9, SameRowsKeep DEF Types

LEMMA SetEntryKeeps ==
  ASSUME Inv, NEW r \in Readers, SetEntry(r)
  PROVE  Inv'
<1> DEFINE i == load[r].replica
           k == load[r].key
           e == [value |-> load[r].value, expiresAt |-> clock + Ttl,
                 readAt |-> load[r].readAt, from |-> load[r].from, to |-> purged[i]]
<1>1. /\ Types /\ load' = [load EXCEPT ![r] = NoLoad]
      /\ store' = [store EXCEPT ![i][k] = e]
  BY DEF SetEntry, Inv
<1>2. /\ load[r] # NoLoad /\ load[r] \in Loads /\ load[r].pc = "set"
      /\ LoadSound(load[r], rows, born, clock)
  BY DEF SetEntry, NoLoad, Inv, Types
<1>3. /\ i \in Replicas /\ k \in Keys /\ load[r].from \in SUBSET Rows
      /\ load[r].value \in SUBSET (Perms \cup Policies) /\ load[r].readAt \in Int
  BY <1>2 DEF Loads
<1>4. e \in Entries
  BY <1>1, <1>3, CacheAssumption DEF Entries, Types
<1>5. EntrySound(e, k, purged[i], rows, born, clock)
  BY <1>2 DEF EntrySound, LoadSound, Sound
<1> HIDE DEF e, i, k
<1>6. store' \in [Replicas -> [Keys -> Entries]]
  BY <1>1, <1>3, <1>4 DEF Types
<1>7. \A j \in Replicas, m \in Keys :
         store'[j][m] = store[j][m] \/ (j = i /\ m = k /\ store'[j][m] = e)
  BY <1>1, <1>3 DEF Types
<1>8. UNCHANGED <<rows, write, clock, purged, born>>
  BY DEF SetEntry
<1>9. \A j \in Replicas, m \in Keys : store'[j][m] # NoEntry =>
         EntrySound(store'[j][m], m, purged'[j], rows, born, clock)
  BY <1>5, <1>7, <1>8 DEF Inv
<1>10. load' \in [Readers -> {NoLoad} \cup Loads]
  BY <1>1 DEF Types
<1>11. \A s \in Readers : load'[s] \in {load[s], NoLoad}
  BY <1>1 DEF Types
<1>12. QED
  BY <1>1, <1>6, <1>8, <1>9, <1>10, <1>11, SameRowsKeep DEF Types

LEMMA CommitRowKeeps ==
  ASSUME Inv, NEW w \in Writers, NEW i \in Replicas, NEW row \in Rows,
         CommitRow(w, i, row)
  PROVE  Inv'
<1> DEFINE x == [pc |-> "invalidate", replica |-> i, row |-> row]
<1>1. /\ Types /\ rows' = rows \cup {row} /\ write' = [write EXCEPT ![w] = x]
      /\ born' = [y \in rows' |-> IF y \in rows THEN born[y] ELSE clock]
      /\ UNCHANGED <<store, load, clock, purged>>
  BY DEF CommitRow, Inv
<1>2. x \in Writes /\ x.row = row
  BY DEF Writes
<1> HIDE DEF x
<1>3. write' \in [Writers -> {NoWrite} \cup Writes]
  BY <1>1, <1>2 DEF Types
<1>4. \A v \in Writers : write'[v] # NoWrite => write'[v].row \in rows'
  BY <1>1, <1>2 DEF Inv, Types
<1>5. born' \in [rows' -> 0 .. clock']
  BY <1>1 DEF Types
<1>6. Later(rows, born, clock, rows', born', clock')
  BY <1>1 DEF Later, Types
<1>7. rows' \subseteq Rows /\ clock' \in 0 .. MaxClock
  BY <1>1 DEF Types
<1>8. QED
  BY <1>1, <1>3, <1>4, <1>5, <1>6, <1>7, LaterKeeps

LEMMA InvalidateKeeps ==
  ASSUME Inv, NEW w \in Writers, Invalidate(w)
  PROVE  Inv'
<1> DEFINE i == write[w].replica
           row == write[w].row
           kept == [k \in Keys |-> IF k \in DroppedKeys(row) THEN NoEntry ELSE store[i][k]]
<1>1. write[w] # NoWrite /\ write[w] \in Writes /\ row \in rows /\ Types
  BY DEF Invalidate, NoWrite, Inv, Types
<1>2. i \in Replicas
  BY <1>1 DEF Writes
<1>3. /\ store' = [store EXCEPT ![i] = kept]
      /\ purged' = [purged EXCEPT ![i] = purged[i] \cup {row}]
      /\ write' = [write EXCEPT ![w] = NoWrite]
      /\ UNCHANGED <<rows, load, clock, born>>
  BY DEF Invalidate
<1>4. kept \in [Keys -> Entries]
  BY <1>1, <1>2, NoEntryType DEF Types
<1>5. \A k \in Keys : kept[k] = IF k \in DroppedKeys(row) THEN NoEntry ELSE store[i][k]
  OBVIOUS
<1> HIDE DEF i, row, kept
<1>6. store' \in [Replicas -> [Keys -> Entries]]
  BY <1>1, <1>2, <1>3, <1>4 DEF Types
<1>7. purged' \in [Replicas -> SUBSET rows]
  BY <1>1, <1>2, <1>3 DEF Types
<1>8. ASSUME NEW j \in Replicas, NEW k \in Keys, store'[j][k] # NoEntry
      PROVE  EntrySound(store'[j][k], k, purged'[j], rows, born, clock)
  <2>1. CASE j # i
    <3>1. store'[j] = store[j] /\ purged'[j] = purged[j]
      BY <1>1, <1>3, <2>1 DEF Types
    <3>2. QED
      BY <1>8, <3>1 DEF Inv
  <2>2. CASE j = i
    <3>1. store'[j] = kept /\ purged'[j] = purged[j] \cup {row}
      BY <1>1, <1>3, <2>2 DEF Types
    <3>2. store'[j][k] = store[j][k] /\ k \notin DroppedKeys(row)
      BY <1>5, <1>8, <2>2, <3>1
    <3>3. EntrySound(store[j][k], k, purged[j], rows, born, clock)
      BY <1>8, <3>2 DEF Inv
    <3>4. QED
      BY <3>1, <3>2, <3>3 DEF EntrySound
  <2>3. QED
    BY <2>1, <2>2
<1>9. write' \in [Writers -> {NoWrite} \cup Writes]
  BY <1>1, <1>3 DEF Types
<1>10. \A v \in Writers : write'[v] \in {write[v], NoWrite}
  BY <1>1, <1>3 DEF Types
<1>11. QED
  BY <1>1, <1>3, <1>6, <1>7, <1>8, <1>9, <1>10, SameRowsKeep DEF Types

LEMMA LoseReplyKeeps ==
  ASSUME Inv, NEW w \in Writers, LoseReply(w)
  PROVE  Inv'
<1>1. /\ Types /\ write' = [write EXCEPT ![w] = NoWrite]
      /\ UNCHANGED <<rows, store, load, clock, purged, born>>
  BY DEF LoseReply, Inv
<1>2. /\ write' \in [Writers -> {NoWrite} \cup Writes]
      /\ \A v \in Writers : write'[v] \in {write[v], NoWrite}
  BY <1>1 DEF Types
<1>3. \A j \in Replicas, m \in Keys : store'[j][m] # NoEntry =>
         EntrySound(store'[j][m], m, purged'[j], rows, born, clock)
  BY <1>1 DEF Inv
<1>4. QED
  BY <1>1, <1>2, <1>3, SameRowsKeep DEF Types

LEMMA RestartKeeps ==
  ASSUME Inv, NEW i \in Replicas, Restart(i)
  PROVE  Inv'
<1> DEFINE empty == [k \in Keys |-> NoEntry]
<1>1. /\ Types /\ store' = [store EXCEPT ![i] = empty]
      /\ load' = [r \in Readers |->
            IF load[r] # NoLoad /\ load[r].replica = i THEN NoLoad ELSE load[r]]
      /\ write' = [w \in Writers |->
            IF write[w] # NoWrite /\ write[w].replica = i THEN NoWrite ELSE write[w]]
      /\ UNCHANGED <<rows, clock, purged, born>>
  BY DEF Restart, Inv
<1>2. empty \in [Keys -> Entries] /\ \A k \in Keys : empty[k] = NoEntry
  BY NoEntryType
<1> HIDE DEF empty
<1>3. /\ load' \in [Readers -> {NoLoad} \cup Loads]
      /\ \A r \in Readers : load'[r] \in {load[r], NoLoad}
  BY <1>1 DEF Types
<1>4. /\ write' \in [Writers -> {NoWrite} \cup Writes]
      /\ \A w \in Writers : write'[w] \in {write[w], NoWrite}
  BY <1>1 DEF Types
<1>5. store' \in [Replicas -> [Keys -> Entries]]
  BY <1>1, <1>2 DEF Types
<1>6. \A j \in Replicas, m \in Keys : store'[j][m] \in {store[j][m], NoEntry}
  BY <1>1, <1>2 DEF Types
<1>7. \A j \in Replicas, m \in Keys : store'[j][m] # NoEntry =>
         EntrySound(store'[j][m], m, purged'[j], rows, born, clock)
  BY <1>1, <1>6 DEF Inv
<1>8. QED
  BY <1>1, <1>3, <1>4, <1>5, <1>7, SameRowsKeep DEF Types

LEMMA TickKeeps ==
  ASSUME Inv, Tick
  PROVE  Inv'
<1>1. /\ Types /\ clock < MaxClock /\ clock' = clock + 1
      /\ UNCHANGED <<rows, store, load, write, purged, born>>
  BY DEF Tick, Inv
<1>2. clock' \in 0 .. MaxClock /\ born' \in [rows' -> 0 .. clock']
  BY <1>1, CacheAssumption DEF Types
<1>3. Later(rows, born, clock, rows', born', clock')
  BY <1>1 DEF Later, Types
<1>4. QED
  BY <1>1, <1>2, <1>3, LaterKeeps DEF Types, Inv

-----------------------------------------------------------------------------
THEOREM InitInv == Init => Inv
<1> SUFFICES ASSUME Init PROVE Inv
  OBVIOUS
<1>1. /\ rows = {} /\ clock = 0 /\ load = [r \in Readers |-> NoLoad]
      /\ write = [w \in Writers |-> NoWrite]
      /\ store = [i \in Replicas |-> [k \in Keys |-> NoEntry]]
      /\ purged = [i \in Replicas |-> {}] /\ born = [row \in {} |-> 0]
  BY DEF Init
<1>2. Types
  BY <1>1, NoEntryType, CacheAssumption DEF Types
<1>3. QED
  BY <1>1, <1>2 DEF Inv

LEMMA NextKeeps ==
  ASSUME Inv, [Next]_vars
  PROVE  Inv'
<1>1. CASE UNCHANGED vars
  BY <1>1 DEF vars, Inv, Types
<1>2. ASSUME NEW w \in Writers, NEW i \in Replicas, NEW u \in Users,
             NEW role \in Roles, AssignRole(w, i, u, role)
      PROVE  Inv'
  BY <1>2, CommitRowKeeps DEF AssignRole, Rows, UserRole
<1>3. ASSUME NEW w \in Writers, NEW i \in Replicas, NEW role \in Roles,
             NEW p \in Perms, AssignPermission(w, i, role, p)
      PROVE  Inv'
  BY <1>3, CommitRowKeeps DEF AssignPermission, Rows, RolePermission
<1>4. ASSUME NEW w \in Writers, NEW i \in Replicas, NEW p \in Policies,
             CreatePolicy(w, i, p)
      PROVE  Inv'
  BY <1>4, CommitRowKeeps DEF CreatePolicy, Rows, Policy
<1>5. CASE Next
  BY <1>2, <1>3, <1>4, <1>5, MissKeeps, ReadRowsKeeps, SetEntryKeeps,
     InvalidateKeeps, LoseReplyKeeps, RestartKeeps, TickKeeps DEF Next
<1>6. QED
  BY <1>1, <1>5

(* Every load and every entry holds no more than the rows there are now and *)
(* no less than those it could have seen.                                   *)
THEOREM InvAlways == Spec => []Inv
<1>1. Init => Inv
  BY InitInv
<1>2. Inv /\ [Next]_vars => Inv'
  BY NextKeeps
<1>3. QED
  BY <1>1, <1>2, PTL DEF Spec

(* A live entry is no NoEntry. *)
LEMMA LiveIsSound ==
  ASSUME Inv, NEW i \in Replicas, NEW k \in Keys, Live(i, k)
  PROVE  EntrySound(store[i][k], k, purged[i], rows, born, clock)
<1>1. store[i][k].expiresAt > clock /\ clock >= 0
  BY DEF Live, Inv, Types
<1>2. store[i][k] # NoEntry
  BY <1>1 DEF NoEntry, Inv, Types
<1>3. QED
  BY <1>2 DEF Inv

(* The variables keep their types, and an entry expires no later than its   *)
(* time to live after the last tick.                                        *)
THEOREM TypeCorrect == Spec => []TypeOK
<1>1. Inv => TypeOK
  <2> SUFFICES ASSUME Inv PROVE TypeOK
    OBVIOUS
  <2>1. ASSUME NEW i \in Replicas, NEW k \in Keys
        PROVE  /\ store[i][k].value \subseteq (IF k \in Users THEN Perms ELSE Policies)
               /\ store[i][k].expiresAt \in -1 .. MaxClock + Ttl
    <3>1. store[i][k] \in Entries
      BY DEF Inv, Types
    <3>2. CASE store[i][k] = NoEntry
      BY <3>1, <3>2 DEF NoEntry, Entries
    <3>3. CASE store[i][k] # NoEntry
      <4>1. store[i][k].value \subseteq Loaded(rows, k)
        BY <3>3 DEF Inv, EntrySound, Sound
      <4>2. QED
        BY <3>1, <4>1, LoadedType DEF Entries
    <3>4. QED
      BY <3>2, <3>3
  <2>2. \A r \in Readers : load[r].pc \in {"idle", "query", "set"}
    BY DEF Inv, Types, NoLoad, Loads
  <2>3. \A w \in Writers : write[w].pc \in {"idle", "invalidate"}
    BY DEF Inv, Types, NoWrite, Writes
  <2>4. QED
    BY <2>1, <2>2, <2>3 DEF TypeOK, Inv, Types
<1>2. QED
  BY <1>1, InvAlways, PTL

(* A stale entry errs on one side: no entry holds a grant or a policy that  *)
(* the database does not, however loads, writes, invalidations and restarts *)
(* interleave.                                                              *)
THEOREM EntriesNeverExceedAlways == Spec => []EntriesNeverExceed
<1>1. Inv => EntriesNeverExceed
  BY LiveIsSound DEF EntriesNeverExceed, LiveEntries, EntrySound, Sound
<1>2. QED
  BY <1>1, InvAlways, PTL

(* After an invalidation of its key on its replica an entry reflects the    *)
(* row, unless its load was under way while the invalidation ran.           *)
THEOREM InvalidationHoldsAlways == Spec => []InvalidationHolds
<1>1. ASSUME Inv, NEW i \in Replicas, NEW k \in Keys, Live(i, k)
      PROVE  LET entry == store[i][k]
                 during == entry.to \ entry.from
                 known == {row \in purged[i] \ during : k \in DroppedKeys(row)}
             IN  Loaded(known, k) \subseteq entry.value
  <2> DEFINE entry == store[i][k]
             during == entry.to \ entry.from
             known == {row \in purged[i] \ during : k \in DroppedKeys(row)}
  <2>1. EntrySound(entry, k, purged[i], rows, born, clock)
    BY <1>1, LiveIsSound
  <2>2. known \subseteq entry.from
    BY <2>1 DEF EntrySound
  <2>3. Loaded(known, k) \subseteq Loaded(entry.from, k)
    BY <2>2, LoadedGrows
  <2>4. QED
    BY <2>1, <2>3 DEF EntrySound, Sound
<1>2. Inv => InvalidationHolds
  BY <1>1 DEF InvalidationHolds, LiveEntries
<1>3. QED
  BY <1>2, InvAlways, PTL

(* The staleness of an entry is bounded by its time to live and the time    *)
(* its load took, on every replica and whether an invalidation ran or not.  *)
THEOREM StalenessBoundedAlways == Spec => []StalenessBounded
<1>1. ASSUME Inv, NEW i \in Replicas, NEW k \in Keys, Live(i, k)
      PROVE  LET entry == store[i][k]
                 old == {row \in rows :
                           born[row] + entry.expiresAt - entry.readAt <= clock}
             IN  Loaded(old, k) \subseteq entry.value
  <2> DEFINE entry == store[i][k]
             old == {row \in rows : born[row] + entry.expiresAt - entry.readAt <= clock}
             before == {row \in rows : born[row] < entry.readAt}
  <2>1. Sound(entry, k, rows, born, clock)
    BY <1>1, LiveIsSound DEF EntrySound
  <2>2. entry.expiresAt \in Int /\ entry.readAt \in Int /\ entry.expiresAt > clock
    BY <1>1, CacheAssumption DEF Live, Inv, Types, Entries
  <2>3. clock \in Int /\ \A row \in rows : born[row] \in Int
    BY <1>1 DEF Inv, Types
  <2>4. old \subseteq before
    <3> HIDE DEF entry
    <3>1. QED
      BY <2>2, <2>3
  <2>5. Loaded(old, k) \subseteq Loaded(before, k)
    BY <2>4, LoadedGrows
  <2>6. QED
    BY <2>1, <2>5 DEF Sound
<1>2. Inv => StalenessBounded
  BY <1>1 DEF StalenessBounded, LiveEntries
<1>3. QED
  BY <1>2, InvAlways, PTL

=============================================================================
