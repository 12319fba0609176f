-------------------------- MODULE ObservationStore --------------------------
(***************************************************************************)
(* The store of internal/store over one SQL database: the transactions of  *)
(* ReplaceObservation and RecordActivity and the queries States and        *)
(* NamespaceStates, statement by statement, of every pod that has the      *)
(* database open.                                                          *)
(*                                                                         *)
(* Of the database this assumes what both engines give: a statement sees   *)
(* committed rows only, a transaction that writes keeps other writers      *)
(* waiting from its first statement on, and a connection that is lost      *)
(* rolls back. MariaDB locks rows and not the whole database; transactions *)
(* it lets overlap touch different rows.                                   *)
(***************************************************************************)
EXTENDS Integers, Sequences, FiniteSets

CONSTANTS
  None,         \* NULL, and no row or call
  Pods,         \* processes that have the database open
  Clients,      \* goroutines: <<pod, "poller">> or <<pod, "handler">>
  PoolSize,     \* SetMaxOpenConns
  Namespaces,   \* namespaces in the tables
  Existing,     \* what the tables may hold at the start
  Buckets,      \* bucket names
  Bytes,        \* threshold values
  Observations, \* arguments of ReplaceObservation
  Deltas,       \* arguments of RecordActivity
  MaxSamples,   \* bound: no call of RecordActivity begins with more
  Faults        \* subset of {"error", "crash"}

VARIABLES
  tables,   \* committed rows
  call,     \* per client: the call in progress
  pc,       \* per client: where it is in that call
  done,     \* per client: statements its transaction has executed
  work,     \* per client: the rows as its transaction sees them
  locker,   \* the client whose transaction writes, None if there is none
  leased,   \* per pod: connections in use
  seeded,   \* per pod: queries made by poller.New
  answer    \* per client: what its query has found

session == <<call, pc, done, work, answer>>
vars == <<tables, session, locker, leased, seeded>>

(***************************************************************************)
(* A threshold takes two columns, so that "never observed" (known 0) and   *)
(* "explicitly off" (known 1, NULL) stay apart.                            *)
(***************************************************************************)
Column == [bytes : Bytes \cup {None}, known : {0, 1}]

\* MUTANT: a threshold without a value is one that was never observed.
BindLimitByValue(l) ==
  [bytes |-> l.bytes, known |-> IF l.bytes = None THEN 0 ELSE 1]

BindLimit(l) ==
  [bytes |-> IF l.known THEN l.bytes ELSE None, known |-> IF l.known THEN 1 ELSE 0]

ScanLimit(col) ==
  IF col.known = 0 THEN [known |-> FALSE, bytes |-> None]
  ELSE [known |-> TRUE, bytes |-> col.bytes]

Scanned(col) == IF col = None THEN None ELSE ScanLimit(col)

\* queryStates and queryNamespaceStates.
States(tab) == [n \in Namespaces |-> [b \in Buckets |-> Scanned(tab.rows[<<n, b>>])]]
NamespaceStates(tab) == [n \in Namespaces |-> Scanned(tab.spaces[n])]

(***************************************************************************)
(* What the columns mean to callers, and the calls in progress.            *)
(***************************************************************************)
Phase(label) ==
  CASE label \in {"scan", "return"} -> "applied"
    [] label = "failed" -> "failed"
    [] OTHER -> "pending"

Promise == INSTANCE AtomicStore WITH
  store <- [buckets |-> States(tables), spaces |-> NamespaceStates(tables),
            samples |-> tables.hours],
  calls <- [c \in Clients |->
              IF call[c] = None THEN None
              ELSE [call |-> call[c], phase |-> Phase(pc[c]), answer |-> answer[c]]]

Tables ==
  [rows : [Namespaces \X Buckets -> Column \cup {None}],
   spaces : [Namespaces -> Column \cup {None}],
   hours : [Buckets -> Nat]]

\* What a query may return, and a call with its answer.
Answers ==
  {None} \cup [Namespaces -> [Buckets -> Promise!Limit \cup {None}]]
    \cup [Namespaces -> Promise!Limit \cup {None}] \cup [Buckets -> Nat]

InProgress ==
  [call : Promise!Calls, phase : {"pending", "applied", "failed"}, answer : Answers]

ASSUME StoreAssumption ==
  /\ Clients \subseteq Pods \X {"poller", "handler"}
  /\ PoolSize \in Nat \ {0} /\ MaxSamples \in Nat
  /\ Existing \subseteq Tables
  /\ Observations \subseteq Promise!Observation
  /\ Deltas \subseteq Seq(Buckets)

\* None is none of the things it stands for the absence of.
ASSUME NoneAssumption ==
  /\ None \notin Column /\ None \notin Clients
  /\ None \notin Promise!Calls /\ None \notin InProgress

Init ==
  /\ tables \in Existing
  /\ call = [c \in Clients |-> None]
  /\ pc = [c \in Clients |-> "idle"]
  /\ done = [c \in Clients |-> 0]
  /\ work = [c \in Clients |-> None]
  /\ locker = None
  /\ leased = [p \in Pods |-> 0]
  /\ seeded = [p \in Pods |-> 0]
  /\ answer = [c \in Clients |-> None]

----------------------------------------------------------------------------
(***************************************************************************)
(* The statements, as functions of the rows.                               *)
(***************************************************************************)
Delete(n) == [kind |-> "delete", namespace |-> n]
UpsertState(r) ==
  [kind |-> "state", at |-> <<r.namespace, r.bucket>>, block |-> BindLimit(r.block)]
UpsertNamespace(n, l) == [kind |-> "namespace", at |-> n, block |-> BindLimit(l)]
UpsertActivity(b) == [kind |-> "activity", at |-> b]

Executed(stmt, tab) ==
  CASE stmt.kind = "delete" ->
         [tab EXCEPT !.rows = [k \in DOMAIN @ |->
            IF k[1] = stmt.namespace THEN None ELSE @[k]]]
    [] stmt.kind = "state" -> [tab EXCEPT !.rows[stmt.at] = stmt.block]
    [] stmt.kind = "namespace" -> [tab EXCEPT !.spaces[stmt.at] = stmt.block]
    [] stmt.kind = "activity" -> [tab EXCEPT !.hours[stmt.at] = @ + 1]
    [] OTHER -> [tab EXCEPT !.hours = [b \in Buckets |-> 0]]

Replace(obs) ==
  <<Delete(obs.namespace)>>
    \o [i \in DOMAIN obs.rows |-> UpsertState(obs.rows[i])]
    \o <<UpsertNamespace(obs.namespace, obs.state)>>

Record(deltas) == [i \in DOMAIN deltas |-> UpsertActivity(deltas[i])]

\* One statement, and so a transaction of its own.
Prune == <<[kind |-> "prune"]>>

Statements(what) ==
  CASE what.kind = "replace" -> Replace(what.arg)
    [] what.kind = "record" -> Record(what.arg)
    [] OTHER -> Prune

\* MUTANT: the rows of an observation are not looked at.
ValidAnyway(obs) == TRUE

Valid(obs) == \A i \in DOMAIN obs.rows : obs.rows[i].namespace = obs.namespace

----------------------------------------------------------------------------
Is(c, kinds) == pc[c] # "idle" /\ call[c].kind \in kinds
Writes(c) == Is(c, {"replace", "record", "prune"})
Refused(c) == Is(c, {"replace"}) /\ ~Valid(call[c].arg)
Nothing(c) == Is(c, {"record"}) /\ call[c].arg = <<>>

AllDone(c) == done[c] = Len(Statements(call[c]))

Goto(c, label) == pc' = [pc EXCEPT ![c] = label]
Lease(c, n) == leased' = [leased EXCEPT ![c[1]] = @ + n]

\* New reads both tables; then the poller runs and requests are served.
Calling(c, kind) ==
  CASE seeded[c[1]] = 0 -> c[2] = "poller" /\ kind = "states"
    [] seeded[c[1]] = 1 -> c[2] = "poller" /\ kind = "spaces"
    [] c[2] = "poller" -> kind \in {"replace", "record", "hours", "prune"}
    [] OTHER -> kind = "hours" /\ ~Is(<<c[1], "poller">>, {"spaces"})

Invoke(c, what) ==
  /\ call[c] = None
  /\ Calling(c, what.kind)
  /\ what.kind = "record" => \A b \in Buckets : tables.hours[b] < MaxSamples
  /\ call' = [call EXCEPT ![c] = what]
  /\ seeded' = [seeded EXCEPT ![c[1]] = IF @ = 2 THEN 2 ELSE @ + 1]
  /\ Goto(c, "called")
  /\ UNCHANGED <<tables, done, work, locker, leased, answer>>

\* The early returns: an observation that mixes namespaces, no deltas.
ReturnEarly(c) ==
  /\ pc[c] = "called"
  /\ Refused(c) \/ Nothing(c)
  /\ Goto(c, IF Nothing(c) THEN "return" ELSE "failed")
  /\ UNCHANGED <<tables, call, done, work, locker, leased, answer, seeded>>

\* BeginTx waits for a connection of the pool.
Begin(c) ==
  /\ pc[c] = "called"
  /\ Writes(c) /\ ~Refused(c) /\ ~Nothing(c)
  /\ leased[c[1]] < PoolSize
  /\ Lease(c, 1)
  /\ Goto(c, "run")
  /\ UNCHANGED <<tables, call, done, work, locker, answer, seeded>>

\* So does a query; what it returns is one state of the committed rows.
Query(c) ==
  /\ pc[c] = "called"
  /\ ~Writes(c)
  /\ leased[c[1]] < PoolSize
  /\ Lease(c, 1)
  /\ answer' = [answer EXCEPT ![c] =
       CASE call[c].kind = "states" -> States(tables)
         [] call[c].kind = "spaces" -> NamespaceStates(tables)
         [] OTHER -> tables.hours]
  /\ Goto(c, "scan")
  /\ UNCHANGED <<tables, call, done, work, locker, seeded>>

\* BeginTx or QueryContext returns an error.
NotBegun(c) ==
  /\ pc[c] = "called"
  /\ "error" \in Faults
  /\ Goto(c, "failed")
  /\ UNCHANGED <<tables, call, done, work, locker, leased, answer, seeded>>

\* The first statement of a transaction takes the lock.
Execute(c) ==
  /\ pc[c] = "run" /\ ~AllDone(c)
  /\ locker \in {None, c}
  /\ locker' = c
  /\ done' = [done EXCEPT ![c] = @ + 1]
  /\ work' = [work EXCEPT ![c] =
       Executed(Statements(call[c])[done'[c]], IF locker = c THEN @ ELSE tables)]
  /\ UNCHANGED <<tables, call, pc, leased, answer, seeded>>

\* An error, or the lock of another pod has been waited for too long.
ExecuteFailed(c) ==
  /\ pc[c] = "run" /\ ~AllDone(c)
  /\ "error" \in Faults \/ locker \notin {None, c}
  /\ Goto(c, "rollback")
  /\ done' = [done EXCEPT ![c] = 0]
  /\ work' = [work EXCEPT ![c] = None]
  /\ UNCHANGED <<tables, call, locker, leased, answer, seeded>>

\* MUTANT: an error from Commit is not looked at.
CommitUnchecked(c, took, told) ==
  /\ pc[c] = "run" /\ AllDone(c)
  /\ (took /\ told) \/ ("error" \in Faults /\ ~told)
  /\ tables' = IF took THEN work[c] ELSE tables
  /\ done' = [done EXCEPT ![c] = 0]
  /\ work' = [work EXCEPT ![c] = None]
  /\ locker' = None
  /\ Lease(c, -1)
  /\ Goto(c, "return")
  /\ UNCHANGED <<call, answer, seeded>>

\* A commit that is not confirmed has happened, or not.
Commit(c, took, told) ==
  /\ pc[c] = "run" /\ AllDone(c)
  /\ (took /\ told) \/ ("error" \in Faults /\ ~told)
  /\ tables' = IF took THEN work[c] ELSE tables
  /\ done' = [done EXCEPT ![c] = 0]
  /\ work' = [work EXCEPT ![c] = None]
  /\ locker' = None
  /\ Lease(c, -1)
  /\ Goto(c, IF told THEN "return" ELSE "failed")
  /\ UNCHANGED <<call, answer, seeded>>

\* MUTANT: the transaction is not rolled back when a statement has failed.
RollbackForgotten(c) ==
  /\ pc[c] = "rollback"
  /\ Goto(c, "failed")
  /\ UNCHANGED <<tables, call, done, work, locker, leased, answer, seeded>>

\* The deferred rollback gives lock and connection back.
Rollback(c) ==
  /\ pc[c] = "rollback"
  /\ Goto(c, "failed")
  /\ locker' = IF locker = c THEN None ELSE locker
  /\ Lease(c, -1)
  /\ UNCHANGED <<tables, call, done, work, answer, seeded>>

\* All rows are read and returned, or an error ends the loop; both close them.
Scan(c, read) ==
  /\ pc[c] = "scan"
  /\ read \/ "error" \in Faults
  /\ Lease(c, -1)
  /\ Goto(c, IF read THEN "idle" ELSE "failed")
  /\ call' = [call EXCEPT ![c] = IF read THEN None ELSE @]
  /\ answer' = [answer EXCEPT ![c] = None]
  /\ UNCHANGED <<tables, done, work, locker, seeded>>

Return(c) ==
  /\ pc[c] \in {"return", "failed"}
  /\ call' = [call EXCEPT ![c] = None]
  /\ Goto(c, "idle")
  /\ UNCHANGED <<tables, done, work, locker, leased, answer, seeded>>

\* A pod dies at any point; the database rolls back what it had begun.
Crash(p) ==
  /\ "crash" \in Faults
  /\ call' = [c \in Clients |-> IF c[1] = p THEN None ELSE call[c]]
  /\ pc' = [c \in Clients |-> IF c[1] = p THEN "idle" ELSE pc[c]]
  /\ done' = [c \in Clients |-> IF c[1] = p THEN 0 ELSE done[c]]
  /\ work' = [c \in Clients |-> IF c[1] = p THEN None ELSE work[c]]
  /\ answer' = [c \in Clients |-> IF c[1] = p THEN None ELSE answer[c]]
  /\ locker' = IF locker \in Clients /\ locker[1] = p THEN None ELSE locker
  /\ leased' = [leased EXCEPT ![p] = 0]
  /\ seeded' = [seeded EXCEPT ![p] = 0]
  /\ UNCHANGED tables

Acquire(c) == Begin(c) \/ Query(c)

Step(c) ==
  \/ ReturnEarly(c)
  \/ Execute(c)
  \/ ExecuteFailed(c)
  \/ \E took, told \in BOOLEAN : Commit(c, took, told)
  \/ Rollback(c)
  \/ \E read \in BOOLEAN : Scan(c, read)
  \/ Return(c)

Next ==
  \/ \E c \in Clients :
       \/ \E what \in Promise!Calls : Invoke(c, what)
       \/ Acquire(c)
       \/ NotBegun(c)
       \/ Step(c)
  \/ \E p \in Pods : Crash(p)

Spec == Init /\ [][Next]_vars

\* The pool serves its waiters in order; the database answers every statement.
Fairness == \A c \in Clients : SF_vars(Acquire(c)) /\ WF_vars(Step(c))

FairSpec == Spec /\ Fairness

----------------------------------------------------------------------------
(***************************************************************************)
(* store.go:114-128, for every caller, through errors and crashes at any   *)
(* statement: a replace or a record is seen whole or not at all, a query   *)
(* returns one state of the store, no error means the effect is there, and *)
(* what was known of a threshold comes back as it was.                     *)
(***************************************************************************)
KeepsPromise == Promise!Spec

\* The calls of a pod that have a connection.
Holders(p) == {c \in Clients : c[1] = p /\ pc[c] \in {"run", "rollback", "scan"}}

(***************************************************************************)
(* No connection and no lock is lost or given back twice, whichever of the *)
(* statements, commits and rows fails and whichever pod dies: the          *)
(* connections in use are those of the calls under way, no more than the   *)
(* pool has (sqlite.go:28), and the lock belongs to a transaction that     *)
(* will still commit or roll back.                                         *)
(***************************************************************************)
PoolIsAccounted ==
  /\ \A p \in Pods : leased[p] = Cardinality(Holders(p)) /\ leased[p] <= PoolSize
  /\ locker # None => pc[locker] \in {"run", "rollback"}

(***************************************************************************)
(* No caller waits for ever, with one connection per pod and a writer in   *)
(* each: whatever fails gives its connection and its lock back.            *)
(***************************************************************************)
EveryCallReturns == \A c \in Clients : call[c] # None ~> call[c] = None
=============================================================================
