---------------------------- MODULE HierarchyTx ----------------------------
(***************************************************************************)
(* hierarchy.service.ts, one SQL statement per step.  assignManager is an   *)
(* interactive transaction at the database's default isolation, READ        *)
(* COMMITTED: each statement sees what is committed when it starts together *)
(* with the transaction's own writes.  Writers run assignManager and        *)
(* readers run getRelationship, all at once, over the tables of Hierarchy,  *)
(* where the transaction is one step: AssignManager.  No user is created    *)
(* meanwhile.                                                               *)
(***************************************************************************)
EXTENDS Hierarchy

CONSTANTS Writers,   \* calls of assignManager under way, one at a time each
          Readers,   \* calls of getRelationship under way
          MaxCalls   \* bound: calls a writer makes

ASSUME MaxCallsAssumption == MaxCalls \in Nat

(* users, managerId and closure are the committed rows. *)
VARIABLES
  tx,         \* tx[w]: the transaction of writer w
  calls,      \* calls[w]: how many calls writer w has made
  query,      \* query[r]: the call of reader r
  related     \* history: two transactions that touch each other's users met

txVars == <<vars, tx, calls, query, related>>

-----------------------------------------------------------------------------
(* A transaction's own uncommitted writes: a depth, NoRow for a row it      *)
(* deleted, Untouched where it wrote nothing.  A touched key is locked.     *)
Untouched == -2

NoTree == [x \in Users |-> NoRow]

Idle ==
  [pc |-> "idle", user |-> NoUser, manager |-> NoUser,
   sub |-> NoTree, sup |-> NoTree, old |-> {}, target |-> {},
   own |-> [a \in Users |-> [d \in Users |-> Untouched]]]

View(w) ==
  [a \in Users |-> [d \in Users |->
     IF tx[w].own[a][d] = Untouched THEN closure[a][d] ELSE tx[w].own[a][d]]]

(* The own writes once the transaction's view of the table becomes t. *)
Written(w, t) ==
  [a \in Users |-> [d \in Users |->
     IF t[a][d] = View(w)[a][d] THEN tx[w].own[a][d] ELSE t[a][d]]]

Keys(t) == {k \in Users \X Users : t[k[1]][k[2]] # NoRow}

(* The other writers whose locks a statement on these keys waits for: an    *)
(* insert waits for an open insert or delete of its key, a delete for an    *)
(* open delete of its row.                                                  *)
Blockers(w, keys) ==
  {v \in Writers \ {w} : \E k \in keys : tx[v].own[k[1]][k[2]] # Untouched}

(* u is x or above x in the committed table. *)
AtOrAbove(u, x) == u = x \/ closure[u][x] # NoRow

(* One transaction re-parents a user on the other's chains of managers.     *)
Touches(u, m, v, n) ==
  \/ AtOrAbove(u, v) \/ AtOrAbove(u, n)
  \/ AtOrAbove(v, u) \/ AtOrAbove(v, m)

-----------------------------------------------------------------------------
(* assignManager(user, manager) *)

(* The self check, then the transaction opens. *)
Begin(w, u, m) ==
  /\ tx[w] = Idle
  /\ calls[w] < MaxCalls
  /\ u # m
  /\ tx' = [tx EXCEPT ![w].pc = "addUser", ![w].user = u, ![w].manager = m]
  /\ calls' = [calls EXCEPT ![w] = @ + 1]
  /\ related' = (related \/ \E v \in Writers \ {w} :
                    /\ tx[v] # Idle
                    /\ Touches(u, m, tx[v].user, tx[v].manager))
  /\ UNCHANGED <<vars, query>>

Proceed(w, next, transaction) ==
  /\ tx' = [tx EXCEPT ![w] = [transaction EXCEPT !.pc = next]]
  /\ UNCHANGED <<vars, calls, query, related>>

RegisterUser(w) ==
  LET u == tx[w].user
  IN  /\ tx[w].pc = "addUser"
      /\ Blockers(w, {<<u, u>>}) = {}
      /\ Proceed(w, "addManager",
           [tx[w] EXCEPT !.own = Written(w, AddNode(View(w), u))])

RegisterManager(w) ==
  LET m == tx[w].manager
  IN  /\ tx[w].pc = "addManager"
      /\ Blockers(w, {<<m, m>>}) = {}
      /\ Proceed(w, "checkCycle",
           [tx[w] EXCEPT !.own = Written(w, AddNode(View(w), m))])

(* Fault: the check is left out. *)
CheckCycleSkipped(w) ==
  tx[w].pc = "checkCycle" /\ Proceed(w, "subtree", tx[w])

CheckCycle(w) ==
  /\ tx[w].pc = "checkCycle"
  /\ ~ WouldCycle(View(w), tx[w].user, tx[w].manager)
  /\ Proceed(w, "subtree", tx[w])

(* Faults: the exception leaves the rows written so far, or the call tries  *)
(* again for as long as the cycle is there.                                 *)
RejectCycleNoRollback(w) ==
  /\ tx[w].pc = "checkCycle"
  /\ WouldCycle(View(w), tx[w].user, tx[w].manager)
  /\ Proceed(w, "idle", tx[w])

RejectCycleRetries(w) ==
  /\ tx[w].pc = "checkCycle"
  /\ WouldCycle(View(w), tx[w].user, tx[w].manager)
  /\ Proceed(w, "checkCycle", tx[w])

(* The exception rolls the transaction back. *)
RejectCycle(w) ==
  /\ tx[w].pc = "checkCycle"
  /\ WouldCycle(View(w), tx[w].user, tx[w].manager)
  /\ Proceed(w, "idle", Idle)

ReadSubtree(w) ==
  /\ tx[w].pc = "subtree"
  /\ Proceed(w, "superTree",
       [tx[w] EXCEPT !.sub = Subtree(View(w), tx[w].user)])

ReadSuperTree(w) ==
  /\ tx[w].pc = "superTree"
  /\ Proceed(w, "oldAncestors",
       [tx[w] EXCEPT !.sup = SuperTree(View(w), tx[w].manager)])

(* With no old ancestor there is nothing to delete. *)
ReadOldAncestors(w) ==
  LET old == OldAncestors(View(w), tx[w].user)
  IN  /\ tx[w].pc = "oldAncestors"
      /\ Proceed(w, IF old = {} THEN "insert" ELSE "scan",
           [tx[w] EXCEPT !.old = old])

(* Fault: only the user's own rows are detached. *)
ScanUserRowsOnly(w) ==
  /\ tx[w].pc = "scan"
  /\ Proceed(w, "delete",
       [tx[w] EXCEPT !.target = {k \in Keys(View(w)) :
          k[1] \in tx[w].old /\ k[2] = tx[w].user}])

(* deleteMany finds its rows in the snapshot it starts with ... *)
ScanDoomedRows(w) ==
  /\ tx[w].pc = "scan"
  /\ Proceed(w, "delete",
       [tx[w] EXCEPT !.target = {k \in Keys(View(w)) :
          k[1] \in tx[w].old /\ k[2] \in Ids(tx[w].sub)}])

(* ... and deletes those that are left once it holds their locks. *)
DeleteRows(w) ==
  LET kept == [a \in Users |-> [d \in Users |->
                 IF <<a, d>> \in tx[w].target THEN NoRow ELSE View(w)[a][d]]]
  IN  /\ tx[w].pc = "delete"
      /\ Blockers(w, tx[w].target) = {}
      /\ Proceed(w, "insert", [tx[w] EXCEPT !.own = Written(w, kept)])

InsertRows(w) ==
  LET rows == CrossJoin(tx[w].sup, tx[w].sub)
  IN  /\ tx[w].pc = "insert"
      /\ Blockers(w, Keys(rows)) = {}
      /\ Proceed(w, "commit",
           [tx[w] EXCEPT !.own = Written(w, CreateMany(View(w), rows))])

(* updateMany sets the user's managerId and the transaction commits.  A row *)
(* this transaction deleted is gone for a delete that had already found it. *)
Commit(w) ==
  /\ tx[w].pc = "commit"
  /\ closure' = View(w)
  /\ managerId' = [managerId EXCEPT ![tx[w].user] = tx[w].manager]
  /\ tx' = [v \in Writers |->
              IF v = w THEN Idle
              ELSE IF tx[v].pc = "delete"
                   THEN [tx[v] EXCEPT !.target = @ \ tx[w].target]
                   ELSE tx[v]]
  /\ query' = [r \in Readers |->
                 IF query[r].pc = "managers"
                 THEN [query[r] EXCEPT
                         !.held = @ \cup GetRelationship(View(w),
                                           query[r].subject, query[r].target),
                         !.commits = @ + 1]
                 ELSE query[r]]
  /\ UNCHANGED <<users, call, calls, related>>

(* The transaction is lost: the connection or the process dies, or the      *)
(* transaction's time limit passes.                                         *)
Crash(w) ==
  /\ tx[w] # Idle
  /\ tx' = [tx EXCEPT ![w] = Idle]
  /\ UNCHANGED <<vars, calls, query, related>>

(* The keys the next statement of w has to lock. *)
Wanted(w) ==
  CASE tx[w].pc = "addUser"    -> {<<tx[w].user, tx[w].user>>}
    [] tx[w].pc = "addManager" -> {<<tx[w].manager, tx[w].manager>>}
    [] tx[w].pc = "delete"     -> tx[w].target
    [] tx[w].pc = "insert"     -> Keys(CrossJoin(tx[w].sup, tx[w].sub))
    [] OTHER                   -> {}

(* The database rolls back one of two transactions that wait for each other. *)
BreakDeadlock(w) ==
  /\ \E v \in Blockers(w, Wanted(w)) : w \in Blockers(v, Wanted(v))
  /\ tx' = [tx EXCEPT ![w] = Idle]
  /\ UNCHANGED <<vars, calls, query, related>>

-----------------------------------------------------------------------------
(* getRelationship(subject, target) *)

NotAsked ==
  [pc |-> "idle", subject |-> NoUser, target |-> NoUser,
   known |-> [end \in {"subject", "target"} |-> {}],
   answer |-> "", held |-> {}, commits |-> 0]

(* The row (subject, target) is read; a row of depth >= 1 is the answer.    *)
(* held and commits are history: the relationships that held during the     *)
(* call and the re-parentings committed during it.                          *)
Ask(r, s, u) ==
  LET asked == [NotAsked EXCEPT !.subject = s, !.target = u,
                                !.held = GetRelationship(closure, s, u)]
  IN  /\ query[r] = NotAsked
      /\ s # u
      /\ query' = [query EXCEPT ![r] =
           IF closure[s][u] >= 1
           THEN [asked EXCEPT !.pc = "answered",
                   !.answer = Classify(s, u, closure[s][u], NoUser, NoUser)]
           ELSE [asked EXCEPT !.pc = "managers"]]
      /\ UNCHANGED <<vars, tx, calls, related>>

(* Fault: two users without a manager are siblings. *)
ReadManagerNullsEqual(r, end) ==
  LET q == query[r]
      other == IF end = "subject" THEN "target" ELSE "subject"
  IN  /\ q.pc = "managers"
      /\ q.known[end] = {}
      /\ \E m \in DirectManagerIds(closure, q[end]) :
           query' = [query EXCEPT ![r] =
             IF q.known[other] = {}
             THEN [q EXCEPT !.known[end] = {m}]
             ELSE [q EXCEPT !.pc = "answered",
                     !.answer = IF q.known[other] = {m} THEN "SIBLING" ELSE "NONE"]]
      /\ UNCHANGED <<vars, tx, calls, related>>

(* The two direct managers are read at once, in either order; the later     *)
(* read gives the answer.                                                   *)
ReadManager(r, end) ==
  LET q == query[r]
      other == IF end = "subject" THEN "target" ELSE "subject"
  IN  /\ q.pc = "managers"
      /\ q.known[end] = {}
      /\ \E m \in DirectManagerIds(closure, q[end]) :
           query' = [query EXCEPT ![r] =
             IF q.known[other] = {}
             THEN [q EXCEPT !.known[end] = {m}]
             ELSE [q EXCEPT !.pc = "answered",
                     !.known[end] = {m},
                     !.answer =
                       IF q.known[other] = {m} /\ m # NoUser
                       THEN "SIBLING" ELSE "NONE"]]
      /\ UNCHANGED <<vars, tx, calls, related>>

-----------------------------------------------------------------------------
(* A tenant between calls: any forest, and some of the users who stand      *)
(* alone in it have no node yet.                                            *)
TxInit ==
  /\ users = Users
  /\ call = [u \in Users |-> Done]
  /\ managerId \in {chart \in Charts : Forest(chart)}
  /\ \E nodes \in SUBSET Users :
       LET distance == Distance(managerId)
       IN  /\ \A u \in Users : managerId[u] # NoUser => {u, managerId[u]} \subseteq nodes
           /\ closure = [a \in Users |-> [d \in Users |->
                           IF a = d /\ a \notin nodes THEN NoRow
                           ELSE distance[a][d]]]
  /\ tx = [w \in Writers |-> Idle]
  /\ calls = [w \in Writers |-> 0]
  /\ query = [r \in Readers |-> NotAsked]
  /\ related = FALSE

WriterStep(w) ==
  \/ RegisterUser(w) \/ RegisterManager(w)
  \/ CheckCycle(w) \/ RejectCycle(w)
  \/ ReadSubtree(w) \/ ReadSuperTree(w) \/ ReadOldAncestors(w)
  \/ ScanDoomedRows(w) \/ DeleteRows(w) \/ InsertRows(w)
  \/ Commit(w)

TxNext ==
  \/ \E w \in Writers, u, m \in Users : Begin(w, u, m)
  \/ \E w \in Writers : WriterStep(w) \/ Crash(w) \/ BreakDeadlock(w)
  \/ \E r \in Readers, s, u \in Users : Ask(r, s, u)
  \/ \E r \in Readers, end \in {"subject", "target"} : ReadManager(r, end)

TxSpec == TxInit /\ [][TxNext]_txVars

(* A statement that is not blocked is executed, and the database's deadlock *)
(* detector acts; nothing obliges a call to start or a connection to die.   *)
Fairness ==
  \A w \in Writers : WF_txVars(WriterStep(w)) /\ WF_txVars(BreakDeadlock(w))

-----------------------------------------------------------------------------
(* The types of the variables; a writer that is idle holds no lock and no   *)
(* uncommitted row, whichever way its last call ended.                      *)
TxTypeOK ==
  /\ TypeOK
  /\ \A w \in Writers :
       /\ tx[w].pc \in {"idle", "addUser", "addManager", "checkCycle", "subtree",
                       "superTree", "oldAncestors", "scan", "delete", "insert",
                       "commit"}
       /\ tx[w].pc = "idle" => tx[w] = Idle
       /\ View(w) \in Tables
       /\ calls[w] \in 0 .. MaxCalls
  /\ \A r \in Readers :
       query[r].pc \in {"idle", "managers", "answered"}

(* Statement by statement, with other transactions between the statements,  *)
(* a call still takes effect in one step at its commit, exactly as if it    *)
(* ran alone -- as long as no two transactions that were open together      *)
(* touched each other, that is, re-parented a user on the other's chains.   *)
UnrelatedCallsAreAtomic ==
  [][related \/ \E u, m \in Users : AssignManager(u, m)]_<<closure, managerId>>

(* A call does not hang on the locks of another: two that wait for each     *)
(* other are undone by the database's deadlock detector.                    *)
CallsEnd == \A w \in Writers : tx[w] # Idle ~> tx[w] = Idle

Answered(r) == query[r].pc = "answered"

(* What getRelationship answers while re-parentings commit between its      *)
(* reads: a manager or an ancestor was one at some moment of the call; a    *)
(* NONE that was never true takes a re-parenting during the call, and a     *)
(* SIBLING that was never true takes two.  Transactions that touched each   *)
(* other may have left rows that no chart explains: then nothing is said.   *)
AnswersExplained ==
  ~ related =>
  \A r \in Readers : Answered(r) /\ query[r].answer \notin query[r].held =>
    \/ query[r].answer = "NONE" /\ query[r].commits >= 1
    \/ query[r].answer = "SIBLING" /\ query[r].commits >= 2
=============================================================================
