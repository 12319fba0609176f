------------------------------ MODULE Migrate -------------------------------
(***************************************************************************)
(* The schema migrations a pod runs before anything else: Migrate of       *)
(* internal/store/migrate.go and the files under migrations/.              *)
(*                                                                         *)
(* There is no transaction: every statement of a file is durable by itself *)
(* (DDL commits in MariaDB, SQLite autocommits), and so is the row that    *)
(* records the version. A pod that fails exits and is started again.       *)
(***************************************************************************)
EXTENDS Integers, Sequences, FiniteSetsExt, Functions

CONSTANTS
  None,       \* no version has been read
  Pods,       \* the pods that may run on one database
  MaxDeaths   \* bound: pods killed, or refused by the database, at any step

ASSUME MigrateAssumption ==
  /\ Pods # {}
  /\ MaxDeaths \in Nat
  /\ None \notin Nat

(***************************************************************************)
(* A schema is the set of its tables and indexes and of the columns that   *)
(* come or go after their table. CREATE has IF NOT EXISTS everywhere. The  *)
(* migrations table, which Migrate creates before it reads it and 001      *)
(* creates once more, is always there.                                     *)
(***************************************************************************)
Statement(kind, what, adds) == [kind |-> kind, what |-> what, adds |-> adds]

Create(what) == Statement("create", what, {what})
AddColumn(what) == Statement("add", what, {what})
DropColumn(what) == Statement("drop", what, {})

Migration001 ==
  <<Create("quotas"),
    Statement("create", "state", {"state", "sample_time"})>>
Migration002 == <<DropColumn("sample_time")>>
Migration003 == <<Create("namespace_quotas")>>
Migration004 ==
  <<AddColumn("block_bytes"), AddColumn("block_known"),
    AddColumn("notify_bytes"), AddColumn("notify_known"),
    Create("namespace_state")>>
Migration005 ==
  <<AddColumn("mpu_parts"), Create("activity_hourly"), Create("ns_hour_index")>>

Migrations == <<Migration001, Migration002, Migration003, Migration004, Migration005>>

Latest == Len(Migrations)

\* MUTANT: CREATE without IF NOT EXISTS.
PossibleStrict(stmt, sch) ==
  CASE stmt.kind = "drop" -> stmt.what \in sch
    [] OTHER -> stmt.what \notin sch

Possible(stmt, sch) ==
  CASE stmt.kind = "create" -> TRUE
    [] stmt.kind = "add" -> stmt.what \notin sch
    [] OTHER -> stmt.what \in sch

Result(stmt, sch) ==
  CASE stmt.kind = "drop" -> sch \ {stmt.what}
    [] OTHER -> IF stmt.what \in sch THEN sch ELSE sch \cup stmt.adds

VARIABLES
  schema,    \* the database: what it has
  versions,  \* the database: the rows of the migrations table
  pc,        \* per pod: "down", "read", "apply", "serving"
  current,   \* per pod: local of Migrate, the version it read
  version,   \* per pod: the migration it applies, the loop variable
  done,      \* per pod: statements of that file already executed
  deaths     \* pods killed so far, for the bound

database == <<schema, versions>>
vars == <<database, pc, current, version, done, deaths>>

\* The files up to version v and the first n statements of the next one.
Executed(v, n) ==
  (UNION {Range(Migrations[f]) : f \in 1..v})
    \cup {Migrations[f][i] : f \in {v + 1} \cap 1..Latest, i \in 1..n}

\* What they leave: no file brings back what an earlier one has dropped.
Reached(v, n) ==
  (UNION {s.adds : s \in Executed(v, n)})
    \ {s.what : s \in {x \in Executed(v, n) : x.kind = "drop"}}

TypeOK ==
  /\ schema \subseteq UNION {s.adds : s \in Executed(Latest, 0)}
  /\ versions \subseteq 1..Latest
  /\ pc \in [Pods -> {"down", "read", "apply", "serving"}]
  /\ current \in [Pods -> 0..Latest \cup {None}]
  /\ version \in [Pods -> 1..Latest + 1]
  /\ done \in [Pods -> Nat]
  /\ \A p \in Pods : version[p] <= Latest => done[p] <= Len(Migrations[version[p]])
  /\ deaths \in 0..MaxDeaths

----------------------------------------------------------------------------
\* A database that is new, or that an earlier release has left whole.
Init ==
  /\ \E v \in 0..Latest : schema = Reached(v, 0) /\ versions = 1..v
  /\ pc = [p \in Pods |-> "down"]
  /\ current = [p \in Pods |-> None]
  /\ version = [p \in Pods |-> 1]
  /\ done = [p \in Pods |-> 0]
  /\ deaths = 0

\* The process starts; the migrations table is created if there is none.
Start(p) ==
  /\ pc[p] = "down"
  /\ pc' = [pc EXCEPT ![p] = "read"]
  /\ UNCHANGED <<database, current, version, done, deaths>>

MaxVersion == IF versions = {} THEN 0 ELSE Max(versions)

\* MUTANT: a version is taken for applied if the one before it is.
SkipsEarly(have, v) == have + 1 >= v

Skips(have, v) == have >= v

\* The first file the loop does not skip, Latest + 1 if it skips all.
FirstToApply(have) == Min({v \in 1..Latest : ~Skips(have, v)} \cup {Latest + 1})

ReadVersion(p) ==
  /\ pc[p] = "read"
  /\ current' = [current EXCEPT ![p] = MaxVersion]
  /\ version' = [version EXCEPT ![p] = FirstToApply(current'[p])]
  /\ done' = [done EXCEPT ![p] = 0]
  /\ pc' = [pc EXCEPT ![p] = IF version'[p] > Latest THEN "serving" ELSE "apply"]
  /\ UNCHANGED <<database, deaths>>

NextStatement(p) == Migrations[version[p]][done[p] + 1]

HasStatement(p) == pc[p] = "apply" /\ done[p] < Len(Migrations[version[p]])

\* The pod has an error to report and exits.
Exit(p) ==
  /\ pc' = [pc EXCEPT ![p] = "down"]
  /\ current' = [current EXCEPT ![p] = None]
  /\ version' = [version EXCEPT ![p] = 1]
  /\ done' = [done EXCEPT ![p] = 0]

Execute(p) ==
  /\ HasStatement(p)
  /\ Possible(NextStatement(p), schema)
  /\ schema' = Result(NextStatement(p), schema)
  /\ done' = [done EXCEPT ![p] = @ + 1]
  /\ UNCHANGED <<versions, pc, current, version, deaths>>

ExecuteRefused(p) ==
  /\ HasStatement(p)
  /\ ~Possible(NextStatement(p), schema)
  /\ Exit(p)
  /\ UNCHANGED <<database, deaths>>

\* MUTANT: the driver executes no more than the first statement of a file.
AtRecordAfterFirst(p) == pc[p] = "apply" /\ done[p] >= 1

AtRecord(p) == pc[p] = "apply" /\ done[p] = Len(Migrations[version[p]])

Record(p) ==
  /\ AtRecord(p)
  /\ version[p] \notin versions
  /\ versions' = versions \cup {version[p]}
  /\ version' = [version EXCEPT ![p] = @ + 1]
  /\ done' = [done EXCEPT ![p] = 0]
  /\ pc' = [pc EXCEPT ![p] = IF version'[p] > Latest THEN "serving" ELSE "apply"]
  /\ UNCHANGED <<schema, current, deaths>>

\* MUTANT: the migrations table has room for one row.
RecordRefusedOneRow(p) ==
  /\ AtRecord(p)
  /\ versions # {}
  /\ Exit(p)
  /\ UNCHANGED <<database, deaths>>

\* version is the primary key: another pod was faster.
RecordRefused(p) ==
  /\ AtRecord(p)
  /\ version[p] \in versions
  /\ Exit(p)
  /\ UNCHANGED <<database, deaths>>

\* Killed, or told by a broken connection nothing of what became of a call.
Die(p) ==
  /\ pc[p] # "down"
  /\ deaths < MaxDeaths
  /\ deaths' = deaths + 1
  /\ Exit(p)
  /\ UNCHANGED database

Migrating(p) ==
  \/ ReadVersion(p)
  \/ Execute(p)
  \/ ExecuteRefused(p)
  \/ Record(p)
  \/ RecordRefused(p)

Next == \E p \in Pods : Start(p) \/ Migrating(p) \/ Die(p)

Spec == Init /\ [][Next]_vars

\* Kubernetes restarts a pod that exits, and the database answers.
Fairness == \A p \in Pods : WF_vars(Start(p)) /\ WF_vars(Migrating(p))

FairSpec == Spec /\ Fairness

----------------------------------------------------------------------------
\* Half == n statements of the first file that is not recorded have been executed.
Half(n) ==
  /\ MaxVersion < Latest
  /\ n <= Len(Migrations[MaxVersion + 1])
  /\ schema = Reached(MaxVersion, n)

(***************************************************************************)
(* Whatever pods start, race and die, the database is what its recorded    *)
(* versions say, and at most a beginning of the next file: no file begins  *)
(* before the one before it is recorded, none is recorded before it is     *)
(* complete, none undoes or repeats another.                               *)
(***************************************************************************)
RecordedIsApplied ==
  /\ versions = 1..MaxVersion
  /\ schema = Reached(MaxVersion, 0) \/ \E n \in 1..5 : Half(n)

(***************************************************************************)
(* A pod that serves has the schema its queries are written for.           *)
(***************************************************************************)
ServesOnLatest ==
  \A p \in Pods : pc[p] = "serving" => schema = Reached(Latest, 0)

\* A statement that cannot be executed again has been, its file is not
\* recorded, and no live pod will record it.
Broken ==
  \E n \in 1..5 :
    /\ Half(n)
    /\ \E i \in 1..n : Migrations[MaxVersion + 1][i].kind # "create"
    /\ \A p \in Pods :
         ~(pc[p] = "apply" /\ version[p] = MaxVersion + 1 /\ done[p] = n)

(***************************************************************************)
(* Unless a death leaves such a statement behind, every pod serves in the  *)
(* end, also if several of them migrate one database at the same time and  *)
(* make each other fail.                                                   *)
(***************************************************************************)
AllServe == ([]~Broken) => <>[](\A p \in Pods : pc[p] = "serving")

(***************************************************************************)
(* Only a death leaves such a statement behind: pods that race through the *)
(* files refuse each other statements and rows, but never the one that has *)
(* got furthest, which records the file in the end. After a death no start *)
(* succeeds any more, although 002_drop_sample_time.up.sql:4 has the       *)
(* migrations table guarantee that a DROP runs exactly once.               *)
(***************************************************************************)
OnlyDeathBreaks == [][~Broken /\ Broken' => \E p \in Pods : Die(p)]_vars
=============================================================================
