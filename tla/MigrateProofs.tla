--------------------------- MODULE MigrateProofs ----------------------------
(***************************************************************************)
(* Proofs about Migrate for every set of pods and any number of deaths.    *)
(***************************************************************************)
EXTENDS Migrate, TLAPS

----------------------------------------------------------------------------
(***************************************************************************)
(* What the five files have in common.                                     *)
(***************************************************************************)
StateTable == Statement("create", "state", {"state", "sample_time"})
SampleTime == DropColumn("sample_time")

LEMMA Files ==
  /\ Latest = 5
  /\ Migrations[1] = Migration001 /\ Migrations[2] = Migration002
  /\ Migrations[3] = Migration003 /\ Migrations[4] = Migration004
  /\ Migrations[5] = Migration005
BY DEF Latest, Migrations

LEMMA Lengths ==
  ASSUME NEW f \in 1..Latest
  PROVE  Len(Migrations[f]) \in 1..5 /\ DOMAIN Migrations[f] = 1..Len(Migrations[f])
<1>1. f = 1 \/ f = 2 \/ f = 3 \/ f = 4 \/ f = 5
  BY Files
<1>2. /\ Len(Migration001) = 2 /\ DOMAIN Migration001 = 1..2
      /\ Len(Migration002) = 1 /\ DOMAIN Migration002 = 1..1
      /\ Len(Migration003) = 1 /\ DOMAIN Migration003 = 1..1
      /\ Len(Migration004) = 5 /\ DOMAIN Migration004 = 1..5
      /\ Len(Migration005) = 3 /\ DOMAIN Migration005 = 1..3
  BY DEF Migration001, Migration002, Migration003, Migration004, Migration005
<1> QED BY <1>1, <1>2, Files

\* Every statement adds one thing, which its name determines, but for the state
\* table, which has a column that goes later, and for the statement that drops it.
Columns == {"block_bytes", "block_known", "notify_bytes", "notify_known", "mpu_parts"}

Plain(s) ==
  /\ s = IF s.what \in Columns THEN AddColumn(s.what) ELSE Create(s.what)
  /\ s.what \notin {"state", "sample_time"}

LEMMA EachStatement ==
  ASSUME NEW f \in 1..Latest, NEW i \in 1..Len(Migrations[f])
  PROVE  \/ Plain(Migrations[f][i])
         \/ f = 1 /\ i = 2 /\ Migrations[f][i] = StateTable
         \/ f = 2 /\ i = 1 /\ Migrations[f][i] = SampleTime
<1>1. ASSUME NEW what, what \notin {"state", "sample_time"}
      PROVE  IF what \in Columns THEN Plain(AddColumn(what)) ELSE Plain(Create(what))
  BY <1>1 DEF Plain, Create, AddColumn, Statement
<1>2. CASE f = 1
  <2>1. /\ Migrations[f][1] = Create("quotas") /\ Migrations[f][2] = StateTable
        /\ i = 1 \/ i = 2
    BY <1>2, Files DEF Migration001, StateTable
  <2>2. Plain(Create("quotas"))
    BY <1>1 DEF Columns
  <2> QED BY <1>2, <2>1, <2>2
<1>3. CASE f = 2
  BY <1>3, Files DEF Migration002, SampleTime
<1>4. CASE f = 3
  BY <1>1, <1>4, Files DEF Migration003, Columns
<1>5. CASE f = 4
  <2>1. /\ Migrations[f][1] = AddColumn("block_bytes")
        /\ Migrations[f][2] = AddColumn("block_known")
        /\ Migrations[f][3] = AddColumn("notify_bytes")
        /\ Migrations[f][4] = AddColumn("notify_known")
        /\ Migrations[f][5] = Create("namespace_state")
        /\ i \in 1..5
    BY <1>5, Files DEF Migration004
  <2>2. /\ Plain(AddColumn("block_bytes")) /\ Plain(AddColumn("block_known"))
        /\ Plain(AddColumn("notify_bytes")) /\ Plain(AddColumn("notify_known"))
        /\ Plain(Create("namespace_state"))
    BY <1>1 DEF Columns
  <2> QED BY <2>1, <2>2
<1>6. CASE f = 5
  <2>1. /\ Migrations[f][1] = AddColumn("mpu_parts")
        /\ Migrations[f][2] = Create("activity_hourly")
        /\ Migrations[f][3] = Create("ns_hour_index")
        /\ i \in 1..3
    BY <1>6, Files DEF Migration005
  <2>2. /\ Plain(AddColumn("mpu_parts")) /\ Plain(Create("activity_hourly"))
        /\ Plain(Create("ns_hour_index"))
    BY <1>1 DEF Columns
  <2> QED BY <2>1, <2>2
<1>7. f = 1 \/ f = 2 \/ f = 3 \/ f = 4 \/ f = 5
  BY Files
<1> QED BY <1>2, <1>3, <1>4, <1>5, <1>6, <1>7

----------------------------------------------------------------------------
(***************************************************************************)
(* What a set of executed statements leaves.                               *)
(***************************************************************************)
Left(stmts) ==
  (UNION {s.adds : s \in stmts}) \ {s.what : s \in {x \in stmts : x.kind = "drop"}}

\* The column is dropped from the table that had it.
InOrder(stmts) ==
  \A s \in stmts : Plain(s) \/ s = StateTable \/ (s = SampleTime /\ StateTable \in stmts)

LEMMA Fields ==
  /\ StateTable.kind = "create" /\ StateTable.what = "state"
  /\ StateTable.adds = {"state", "sample_time"}
  /\ SampleTime.kind = "drop" /\ SampleTime.what = "sample_time" /\ SampleTime.adds = {}
  /\ \A s : Plain(s) => /\ s.kind \in {"create", "add"} /\ s.adds = {s.what}
                        /\ s.what # "state" /\ s.what # "sample_time"
  /\ \A s, t : Plain(s) /\ Plain(t) /\ s.what = t.what => s = t
<1>1. ASSUME NEW s, Plain(s)
      PROVE  /\ s.kind \in {"create", "add"} /\ s.adds = {s.what}
             /\ s.what # "state" /\ s.what # "sample_time"
  <2>1. s.what \notin {"state", "sample_time"}
    BY <1>1 DEF Plain
  <2>2. CASE s = AddColumn(s.what)
    BY <2>1, <2>2 DEF AddColumn, Statement
  <2>3. CASE s = Create(s.what)
    BY <2>1, <2>3 DEF Create, Statement
  <2> QED BY <1>1, <2>2, <2>3 DEF Plain
<1>2. \A s, t : Plain(s) /\ Plain(t) /\ s.what = t.what => s = t
  BY DEF Plain
<1> QED BY <1>1, <1>2 DEF StateTable, SampleTime, DropColumn, Statement

LEMMA LeftMember ==
  ASSUME NEW E, NEW x
  PROVE  x \in Left(E) <=> (\E s \in E : x \in s.adds)
                            /\ ~(\E s \in E : s.kind = "drop" /\ s.what = x)
<1>1. x \in UNION {s.adds : s \in E} <=> \E s \in E : x \in s.adds
  OBVIOUS
<1>2. x \in {s.what : s \in {y \in E : y.kind = "drop"}}
        <=> \E s \in E : s.kind = "drop" /\ s.what = x
  OBVIOUS
<1> QED BY <1>1, <1>2 DEF Left

\* A statement that is executed again changes nothing, if it is possible at all.
LEMMA Again ==
  ASSUME NEW E, InOrder(E), NEW s \in E, Possible(s, Left(E))
  PROVE  Result(s, Left(E)) = Left(E)
<1>1. \A t \in E : t.kind = "drop" => t = SampleTime
  BY Fields DEF InOrder
<1>2. CASE s = SampleTime
  <2>1. "sample_time" \notin Left(E)
    BY <1>2, LeftMember, Fields
  <2> QED BY <1>2, <2>1, Fields DEF Possible
<1>3. CASE s # SampleTime
  <2>1. s.kind # "drop" /\ s.what \in s.adds /\ s.what # "sample_time"
    BY <1>3, Fields DEF InOrder
  <2>2. s.what \in Left(E)
    BY <1>1, <2>1, LeftMember, Fields
  <2> QED BY <2>1, <2>2 DEF Result
<1> QED BY <1>2, <1>3

\* One that is executed for the first time does what its file says.
LEMMA Further ==
  ASSUME NEW E, InOrder(E), NEW s, InOrder(E \cup {s}), Possible(s, Left(E))
  PROVE  Result(s, Left(E)) = Left(E \cup {s})
<1>1. CASE s \in E
  <2>1. E \cup {s} = E
    BY <1>1
  <2> QED BY <1>1, <2>1, Again
<1>2. CASE s \notin E /\ s = SampleTime
  <2>1. \A x : x \in Left(E \cup {s}) <=> x \in Left(E) \ {"sample_time"}
    BY <1>2, LeftMember, Fields
  <2>2. Result(s, Left(E)) = Left(E) \ {"sample_time"}
    BY <1>2, Fields DEF Result
  <2> QED BY <2>1, <2>2
<1>3. CASE s \notin E /\ s # SampleTime
  <2>1. Plain(s) \/ s = StateTable
    BY <1>3 DEF InOrder
  <2>2. s.kind # "drop" /\ s.what \in s.adds
    BY <2>1, Fields
  <2>3. \A t \in E : s.what \notin t.adds
    BY <1>3, <2>1, Fields DEF InOrder
  <2>4. \A t \in E : t.kind = "drop" => t.what \notin s.adds
    BY <1>3, <2>1, Fields DEF InOrder
  <2>5. Result(s, Left(E)) = Left(E) \cup s.adds
    BY <2>2, <2>3, LeftMember DEF Result
  <2>6. \A x : x \in Left(E \cup {s}) <=> x \in Left(E) \cup s.adds
    BY <2>2, <2>4, LeftMember
  <2> QED BY <2>5, <2>6
<1> QED BY <1>1, <1>2, <1>3
----------------------------------------------------------------------------
(***************************************************************************)
(* Places in the files: version v and the first n statements after it.     *)
(***************************************************************************)
Place(v, n) ==
  /\ v \in 0..Latest /\ n \in Nat
  /\ v = Latest => n = 0
  /\ v < Latest => n <= Len(Migrations[v + 1])

LEMMA ExecutedMember ==
  ASSUME NEW v, NEW n, Place(v, n), NEW s
  PROVE  s \in Executed(v, n) <=>
           \/ \E f \in 1..v : \E i \in 1..Len(Migrations[f]) : s = Migrations[f][i]
           \/ v < Latest /\ \E i \in 1..n : s = Migrations[v + 1][i]
<1>1. v \in 0..5 /\ Latest = 5
  BY Files DEF Place
<1>2. ASSUME NEW f \in 1..v
      PROVE  s \in Range(Migrations[f])
               <=> \E i \in 1..Len(Migrations[f]) : s = Migrations[f][i]
  <2>1. f \in 1..Latest
    BY <1>1
  <2> QED BY <2>1, Lengths DEF Range
<1>3. s \in UNION {Range(Migrations[f]) : f \in 1..v}
        <=> \E f \in 1..v : s \in Range(Migrations[f])
  OBVIOUS
<1>4. s \in {Migrations[f][i] : f \in {v + 1} \cap 1..Latest, i \in 1..n}
        <=> v < Latest /\ \E i \in 1..n : s = Migrations[v + 1][i]
  <2>1. v + 1 \in 1..Latest <=> v < Latest
    BY <1>1
  <2> QED BY <2>1
<1> QED BY <1>2, <1>3, <1>4 DEF Executed

LEMMA PlaceInOrder == ASSUME NEW v, NEW n, Place(v, n) PROVE InOrder(Executed(v, n))
<1> SUFFICES ASSUME NEW s \in Executed(v, n)
             PROVE  Plain(s) \/ s = StateTable \/ (s = SampleTime /\ StateTable \in Executed(v, n))
  BY DEF InOrder
<1>1. PICK f \in 1..Latest :
        f <= v + 1 /\ \E i \in 1..Len(Migrations[f]) : s = Migrations[f][i]
  <2>1. v \in 0..5 /\ Latest = 5 /\ n \in Nat
    BY Files DEF Place
  <2>2. CASE \E f \in 1..v : \E i \in 1..Len(Migrations[f]) : s = Migrations[f][i]
    BY <2>1, <2>2
  <2>3. CASE v < Latest /\ \E i \in 1..n : s = Migrations[v + 1][i]
    <3>1. v + 1 \in 1..Latest /\ n <= Len(Migrations[v + 1])
      BY <2>1, <2>3 DEF Place
    <3>2. PICK i \in 1..n : s = Migrations[v + 1][i]
      BY <2>3
    <3>3. Len(Migrations[v + 1]) \in Nat
      BY <3>1, Lengths
    <3>4. i \in 1..Len(Migrations[v + 1]) /\ v + 1 <= v + 1
      BY <2>1, <3>1, <3>3
    <3> QED BY <3>1, <3>2, <3>4
  <2> QED BY <2>2, <2>3, ExecutedMember
<1>2. CASE f = 2 /\ s = SampleTime
  <2>1. v \in 1..5
    BY <1>1, <1>2, Files DEF Place
  <2>2. 2 \in 1..Len(Migrations[1]) /\ StateTable = Migrations[1][2]
    BY Files DEF Migration001, StateTable
  <2>3. StateTable \in Executed(v, n)
    BY <2>1, <2>2, ExecutedMember
  <2> QED BY <1>2, <2>3
<1> QED BY <1>1, <1>2, EachStatement

LEMMA ReachedIsLeft == ASSUME NEW v, NEW n PROVE Reached(v, n) = Left(Executed(v, n))
BY DEF Reached, Left

\* A statement that is behind the place, and the one that comes next.
LEMMA Behind ==
  ASSUME NEW v, NEW n, Place(v, n), NEW f \in 1..Latest, NEW i \in 1..Len(Migrations[f]),
         f <= v \/ (f = v + 1 /\ i <= n),
         Possible(Migrations[f][i], Reached(v, n))
  PROVE  Result(Migrations[f][i], Reached(v, n)) = Reached(v, n)
<1>1. Migrations[f][i] \in Executed(v, n)
  <2>1. CASE f <= v
    <3>1. f \in 1..v
      BY <2>1, Files DEF Place
    <3> QED BY <3>1, ExecutedMember
  <2>2. CASE f = v + 1 /\ i <= n
    <3>1. v < Latest /\ i \in 1..n
      BY <2>2, Files DEF Place
    <3> QED BY <2>2, <3>1, ExecutedMember
  <2> QED BY <2>1, <2>2
<1> QED BY <1>1, PlaceInOrder, Again, ReachedIsLeft

LEMMA Forward ==
  ASSUME NEW v, NEW n, Place(v, n), v < Latest, n < Len(Migrations[v + 1]),
         Possible(Migrations[v + 1][n + 1], Reached(v, n))
  PROVE  /\ Place(v, n + 1)
         /\ Result(Migrations[v + 1][n + 1], Reached(v, n)) = Reached(v, n + 1)
<1>1. v \in 0..Latest /\ Latest = 5 /\ n \in Nat /\ v + 1 \in 1..Latest
  BY Files DEF Place
<1>2. Len(Migrations[v + 1]) \in Nat
  BY <1>1, Lengths
<1>3. Place(v, n + 1)
  BY <1>1, <1>2 DEF Place
<1>4. ASSUME NEW s
      PROVE  s \in Executed(v, n + 1)
               <=> s \in Executed(v, n) \cup {Migrations[v + 1][n + 1]}
  <2>1. \A i : i \in 1..(n + 1) <=> i \in 1..n \/ i = n + 1
    BY <1>1
  <2> QED BY <1>3, <2>1, ExecutedMember
<1>5. Executed(v, n + 1) = Executed(v, n) \cup {Migrations[v + 1][n + 1]}
  BY <1>4
<1> QED BY <1>3, <1>5, PlaceInOrder, Further, ReachedIsLeft

\* A file that has been executed to its end is the version it makes.
LEMMA Complete ==
  ASSUME NEW v \in 0..Latest, v < Latest
  PROVE  /\ Place(v + 1, 0) /\ Place(v, Len(Migrations[v + 1]))
         /\ Reached(v, Len(Migrations[v + 1])) = Reached(v + 1, 0)
<1>1. Latest = 5 /\ v + 1 \in 1..Latest
  BY Files
<1>2. Len(Migrations[v + 1]) \in Nat
  BY <1>1, Lengths
<1>3. Place(v, Len(Migrations[v + 1]))
  BY <1>1, <1>2 DEF Place
<1>4. Place(v + 1, 0)
  <2>1. v + 1 < Latest => Len(Migrations[v + 2]) \in Nat
    BY <1>1, Lengths
  <2> QED BY <1>1, <2>1 DEF Place
<1>5. ASSUME NEW s
      PROVE  s \in Executed(v, Len(Migrations[v + 1])) <=> s \in Executed(v + 1, 0)
  <2>1. \A f : f \in 1..(v + 1) <=> f \in 1..v \/ f = v + 1
    BY <1>1
  <2> QED BY <1>1, <1>3, <1>4, <2>1, ExecutedMember
<1> QED BY <1>3, <1>4, <1>5, ReachedIsLeft
----------------------------------------------------------------------------
(***************************************************************************)
(* No two statements of the files are about the same thing, so that a name *)
(* gives the place of its statement.                                       *)
(***************************************************************************)
PlaceOf(what) ==
  CASE what = "quotas" -> <<1, 1>>
    [] what = "state" -> <<1, 2>>
    [] what = "sample_time" -> <<2, 1>>
    [] what = "namespace_quotas" -> <<3, 1>>
    [] what = "block_bytes" -> <<4, 1>>
    [] what = "block_known" -> <<4, 2>>
    [] what = "notify_bytes" -> <<4, 3>>
    [] what = "notify_known" -> <<4, 4>>
    [] what = "namespace_state" -> <<4, 5>>
    [] what = "mpu_parts" -> <<5, 1>>
    [] what = "activity_hourly" -> <<5, 2>>
    [] what = "ns_hour_index" -> <<5, 3>>

LEMMA PlaceOfStatement ==
  ASSUME NEW f \in 1..Latest, NEW i \in 1..Len(Migrations[f])
  PROVE  PlaceOf(Migrations[f][i].what) = <<f, i>>
<1>1. CASE f = 1
  <2>1. /\ Migrations[1][1].what = "quotas" /\ Migrations[1][2].what = "state"
        /\ i = 1 \/ i = 2
    BY <1>1, Files DEF Migration001, Create, Statement
  <2> QED BY <1>1, <2>1 DEF PlaceOf
<1>2. CASE f = 2
  <2>1. Migrations[2][1].what = "sample_time" /\ i = 1
    BY <1>2, Files DEF Migration002, DropColumn, Statement
  <2> QED BY <1>2, <2>1 DEF PlaceOf
<1>3. CASE f = 3
  <2>1. Migrations[3][1].what = "namespace_quotas" /\ i = 1
    BY <1>3, Files DEF Migration003, Create, Statement
  <2> QED BY <1>3, <2>1 DEF PlaceOf
<1>4. CASE f = 4
  <2>1. /\ Migrations[4][1].what = "block_bytes" /\ Migrations[4][2].what = "block_known"
        /\ Migrations[4][3].what = "notify_bytes" /\ Migrations[4][4].what = "notify_known"
        /\ Migrations[4][5].what = "namespace_state"
        /\ i \in 1..5
    BY <1>4, Files DEF Migration004, AddColumn, Create, Statement
  <2>2. PlaceOf("block_bytes") = <<4, 1>>
    BY DEF PlaceOf
  <2>3. PlaceOf("block_known") = <<4, 2>>
    BY DEF PlaceOf
  <2>4. PlaceOf("notify_bytes") = <<4, 3>>
    BY DEF PlaceOf
  <2>5. PlaceOf("notify_known") = <<4, 4>>
    BY DEF PlaceOf
  <2>6. PlaceOf("namespace_state") = <<4, 5>>
    BY DEF PlaceOf
  <2> QED BY <1>4, <2>1, <2>2, <2>3, <2>4, <2>5, <2>6
<1>5. CASE f = 5
  <2>1. /\ Migrations[5][1].what = "mpu_parts" /\ Migrations[5][2].what = "activity_hourly"
        /\ Migrations[5][3].what = "ns_hour_index"
        /\ i \in 1..3
    BY <1>5, Files DEF Migration005, AddColumn, Create, Statement
  <2>2. PlaceOf("mpu_parts") = <<5, 1>>
    BY DEF PlaceOf
  <2>3. PlaceOf("activity_hourly") = <<5, 2>>
    BY DEF PlaceOf
  <2>4. PlaceOf("ns_hour_index") = <<5, 3>>
    BY DEF PlaceOf
  <2> QED BY <1>5, <2>1, <2>2, <2>3, <2>4
<1>6. f = 1 \/ f = 2 \/ f = 3 \/ f = 4 \/ f = 5
  BY Files
<1> QED BY <1>1, <1>2, <1>3, <1>4, <1>5, <1>6

\* What has been executed does not name what the next statement names.
LEMMA NextIsNew ==
  ASSUME NEW v, NEW n, Place(v, n), v < Latest, n < Len(Migrations[v + 1]),
         NEW s \in Executed(v, n)
  PROVE  s.what # Migrations[v + 1][n + 1].what
<1> DEFINE next == Migrations[v + 1][n + 1]
<1>1. v \in 0..5 /\ Latest = 5 /\ n \in Nat /\ v + 1 \in 1..Latest
  BY Files DEF Place
<1>2. Len(Migrations[v + 1]) \in Nat
  BY <1>1, Lengths
<1>3. PlaceOf(next.what) = <<v + 1, n + 1>>
  <2>1. n + 1 \in 1..Len(Migrations[v + 1])
    BY <1>1, <1>2
  <2> QED BY <1>1, <2>1, PlaceOfStatement
<1>4. CASE \E f \in 1..v : \E i \in 1..Len(Migrations[f]) : s = Migrations[f][i]
  <2>1. PICK f \in 1..v : \E i \in 1..Len(Migrations[f]) : s = Migrations[f][i]
    BY <1>4
  <2>2. f \in 1..Latest /\ f # v + 1
    BY <1>1
  <2>3. PICK i \in 1..Len(Migrations[f]) : PlaceOf(s.what) = <<f, i>>
    BY <2>1, <2>2, PlaceOfStatement
  <2> QED BY <1>3, <2>2, <2>3
<1>5. CASE v < Latest /\ \E i \in 1..n : s = Migrations[v + 1][i]
  <2>1. PICK i \in 1..n : s = Migrations[v + 1][i]
    BY <1>5
  <2>2. i \in 1..Len(Migrations[v + 1]) /\ i # n + 1
    BY <1>1, <1>2
  <2>3. PlaceOf(s.what) = <<v + 1, i>>
    BY <1>1, <2>1, <2>2, PlaceOfStatement
  <2> QED BY <1>3, <2>2, <2>3
<1> QED BY <1>4, <1>5, ExecutedMember

\* The first statement that has not been executed is not refused: what it adds
\* is not there, and what it drops is.
LEMMA NextIsPossible ==
  ASSUME NEW v, NEW n, Place(v, n), v < Latest, n < Len(Migrations[v + 1])
  PROVE  Possible(Migrations[v + 1][n + 1], Reached(v, n))
<1> DEFINE next == Migrations[v + 1][n + 1]
           E == Executed(v, n)
<1>1. v \in 0..5 /\ Latest = 5 /\ n \in Nat /\ v + 1 \in 1..Latest
  BY Files DEF Place
<1>2. n + 1 \in 1..Len(Migrations[v + 1])
  BY <1>1, Lengths
<1>3. \/ Plain(next)
      \/ v + 1 = 1 /\ n + 1 = 2 /\ next = StateTable
      \/ v + 1 = 2 /\ n + 1 = 1 /\ next = SampleTime
  BY <1>1, <1>2, EachStatement
<1>4. InOrder(E) /\ Reached(v, n) = Left(E)
  BY PlaceInOrder, ReachedIsLeft
<1>5. \A s \in E : s.what # next.what
  BY NextIsNew
<1> HIDE DEF next, E
<1>6. CASE Plain(next)
  <2>1. next.what \notin Left(E)
    <3>1. ASSUME NEW s \in E PROVE next.what \notin s.adds
      BY <1>4, <1>5, <1>6, Fields DEF InOrder
    <3> QED BY <3>1, LeftMember
  <2>2. next.kind \in {"create", "add"}
    BY <1>6, Fields
  <2> QED BY <1>4, <2>1, <2>2 DEF Possible, next
<1>7. CASE next = StateTable
  BY <1>7, Fields DEF Possible, next
<1>8. CASE v + 1 = 2 /\ n + 1 = 1 /\ next = SampleTime
  <2>1. StateTable \in E
    <3>1. 2 \in 1..Len(Migrations[1]) /\ StateTable = Migrations[1][2]
      BY Files DEF Migration001, StateTable
    <3>2. 1 \in 1..v
      BY <1>1, <1>8
    <3> QED BY <3>1, <3>2, ExecutedMember DEF E
  <2>2. \A s \in E : s.kind # "drop"
    BY <1>4, <1>5, <1>8, Fields DEF InOrder
  <2>3. "sample_time" \in Left(E)
    BY <2>1, <2>2, LeftMember, Fields
  <2> QED BY <1>4, <1>8, <2>3, Fields DEF Possible, next
<1> QED BY <1>3, <1>6, <1>7, <1>8

\* No two places in one file leave the same schema.
LEMMA PlacesDiffer ==
  ASSUME NEW v, NEW a, NEW b, Place(v, a), Place(v, b), v < Latest, a < b
  PROVE  Reached(v, a) # Reached(v, b)
<1> DEFINE m == b - 1
           last == Migrations[v + 1][b]
<1>1. /\ v \in 0..5 /\ Latest = 5 /\ v + 1 \in 1..Latest
      /\ a \in Nat /\ b \in Nat /\ m \in Nat /\ m + 1 = b /\ a <= m
      /\ b <= Len(Migrations[v + 1]) /\ Len(Migrations[v + 1]) \in Nat
  <2>1. v \in 0..5 /\ Latest = 5 /\ v + 1 \in 1..Latest /\ a \in Nat /\ b \in Nat
    BY Files DEF Place
  <2> QED BY <2>1, Lengths DEF Place
<1>2. Place(v, m) /\ m < Len(Migrations[v + 1]) /\ last = Migrations[v + 1][m + 1]
  BY <1>1 DEF Place
<1>3. \A s \in Executed(v, m) : s.what # last.what
  BY <1>1, <1>2, NextIsNew
<1>4. \A s \in Executed(v, a) : s \in Executed(v, m)
  <2>1. \A i \in 1..a : i \in 1..m
    BY <1>1
  <2> QED BY <1>2, <2>1, ExecutedMember
<1>5. last \in Executed(v, b)
  <2>1. b \in 1..b
    BY <1>1
  <2> QED BY <2>1, ExecutedMember
<1>6. /\ InOrder(Executed(v, a)) /\ InOrder(Executed(v, b))
      /\ Reached(v, a) = Left(Executed(v, a)) /\ Reached(v, b) = Left(Executed(v, b))
  BY PlaceInOrder, ReachedIsLeft
<1>7. \/ Plain(last)
      \/ last = StateTable
      \/ v + 1 = 2 /\ b = 1 /\ last = SampleTime
  <2>1. b \in 1..Len(Migrations[v + 1])
    BY <1>1
  <2> QED BY <1>1, <2>1, EachStatement
<1>8. CASE Plain(last) \/ last = StateTable
  <2> HIDE DEF last
  <2>1. last.what \in last.adds /\ last.what # "sample_time"
    BY <1>8, Fields
  <2>2. \A s \in Executed(v, b) : s.kind = "drop" => s.what # last.what
    BY <1>6, <2>1, Fields DEF InOrder
  <2>3. last.what \in Left(Executed(v, b))
    BY <1>5, <2>1, <2>2, LeftMember
  <2>4. \A s \in Executed(v, a) : last.what \notin s.adds
    BY <1>3, <1>4, <1>6, <2>1, Fields DEF InOrder
  <2>5. last.what \notin Left(Executed(v, a))
    BY <2>4, LeftMember
  <2> QED BY <1>6, <2>3, <2>5
<1>9. CASE v + 1 = 2 /\ b = 1 /\ last = SampleTime
  <2>1. a = m
    BY <1>1, <1>9
  <2>2. Possible(last, Reached(v, a))
    BY <1>2, <2>1, NextIsPossible
  <2> HIDE DEF last
  <2>3. "sample_time" \in Reached(v, a)
    BY <1>9, <2>2, Fields DEF Possible
  <2>4. "sample_time" \notin Left(Executed(v, b))
    BY <1>5, <1>9, LeftMember, Fields
  <2> QED BY <1>6, <2>3, <2>4
<1> QED BY <1>7, <1>8, <1>9

----------------------------------------------------------------------------
(***************************************************************************)
(* The invariant: the database is at one place, the versions before it are *)
(* recorded, and no pod that applies a file is further. A pod behind it    *)
(* repeats statements of files that others have executed or recorded.      *)
(***************************************************************************)
At(v, n) ==
  /\ Place(v, n)
  /\ versions = 1..v
  /\ schema = Reached(v, n)
  /\ \A p \in Pods :
       /\ pc[p] = "apply" =>
            /\ version[p] <= v + 1 /\ version[p] <= Latest
            /\ version[p] = v + 1 => done[p] <= n
       /\ pc[p] = "serving" => v = Latest

PodsTyped ==
  /\ pc \in [Pods -> {"down", "read", "apply", "serving"}]
  /\ current \in [Pods -> 0..Latest \cup {None}]
  /\ version \in [Pods -> 1..Latest + 1]
  /\ done \in [Pods -> Nat]
  /\ \A p \in Pods : version[p] <= Latest => done[p] <= Len(Migrations[version[p]])
  /\ deaths \in 0..MaxDeaths

MigrateInv == PodsTyped /\ \E v, n : At(v, n)

LEMMA LargestIs ==
  ASSUME NEW v \in 0..Latest, NEW S, S = 1..v
  PROVE  (IF S = {} THEN 0 ELSE Max(S)) = v
<1>1. CASE v = 0
  BY <1>1
<1>2. CASE v # 0
  <2>1. v \in 1..v /\ \A y \in 1..v : v >= y
    BY <1>2, Files
  <2>2. \A x \in 1..v : (\A y \in 1..v : x >= y) => x = v
    BY <2>1, Files
  <2> QED BY <2>1, <2>2 DEF Max
<1> QED BY <1>1, <1>2

LEMMA MaxVersionIs == ASSUME NEW v \in 0..Latest, versions = 1..v PROVE MaxVersion = v
BY LargestIs DEF MaxVersion

LEMMA FirstIs == ASSUME NEW v \in 0..Latest PROVE FirstToApply(v) = v + 1
<1> DEFINE open == {f \in 1..Latest : ~Skips(v, f)} \cup {Latest + 1}
<1>1. \A f : f \in open <=> f \in (v + 1)..(Latest + 1)
  BY Files DEF Skips
<1>2. open = (v + 1)..(Latest + 1)
  BY <1>1
<1> HIDE DEF open
<1>3. v + 1 \in open /\ \A y \in open : v + 1 <= y
  BY <1>2, Files
<1>4. \A x \in open : (\A y \in open : x <= y) => x = v + 1
  BY <1>2, <1>3, Files
<1>5. Min(open) = v + 1
  BY <1>3, <1>4 DEF Min
<1> QED BY <1>5 DEF FirstToApply, open

LEMMA InitMigrateInv == Init => MigrateInv
<1> SUFFICES ASSUME Init PROVE MigrateInv
  OBVIOUS
<1>1. PICK v \in 0..Latest : schema = Reached(v, 0) /\ versions = 1..v
  BY DEF Init
<1>2. Place(v, 0)
  <2>1. v < Latest => v + 1 \in 1..Latest
    BY Files
  <2>2. v < Latest => Len(Migrations[v + 1]) \in Nat
    BY <2>1, Lengths
  <2> QED BY <2>2 DEF Place
<1>3. At(v, 0)
  BY <1>1, <1>2 DEF Init, At
<1>4. PodsTyped
  <2>1. 1 \in 1..Latest + 1 /\ Len(Migrations[1]) \in Nat /\ 0 \in 0..MaxDeaths
    BY Files, Lengths, MigrateAssumption
  <2> QED BY <2>1 DEF Init, PodsTyped
<1> QED BY <1>3, <1>4 DEF MigrateInv

\* A pod that gives up leaves the database where it is.
LEMMA ExitKeeps ==
  ASSUME MigrateInv, NEW p \in Pods, Exit(p), UNCHANGED database, deaths' \in 0..MaxDeaths
  PROVE  MigrateInv'
<1>1. PICK v, n : At(v, n)
  BY DEF MigrateInv
<1>2. PodsTyped'
  <2>1. 1 \in 1..Latest + 1 /\ Len(Migrations[1]) \in Nat
    BY Files, Lengths
  <2> QED BY <2>1 DEF MigrateInv, PodsTyped, Exit
<1>3. At(v, n)'
  BY <1>1 DEF MigrateInv, PodsTyped, Exit, At, database
<1> QED BY <1>2, <1>3 DEF MigrateInv
LEMMA ReadKeeps ==
  ASSUME MigrateInv, NEW p \in Pods, ReadVersion(p)
  PROVE  MigrateInv'
<1>1. PICK v, n : At(v, n)
  BY DEF MigrateInv
<1>2. v \in 0..Latest /\ Latest = 5 /\ n \in Nat /\ MaxVersion = v /\ FirstToApply(v) = v + 1
  BY <1>1, MaxVersionIs, FirstIs, Files DEF At, Place
<1>3. /\ current' = [current EXCEPT ![p] = v]
      /\ version' = [version EXCEPT ![p] = v + 1]
      /\ done' = [done EXCEPT ![p] = 0]
      /\ pc' = [pc EXCEPT ![p] = IF v + 1 > Latest THEN "serving" ELSE "apply"]
      /\ UNCHANGED <<schema, versions, deaths>>
  BY <1>2 DEF ReadVersion, MigrateInv, PodsTyped, database
<1>4. PodsTyped'
  <2>1. v + 1 \in 1..Latest + 1 /\ (v + 1 <= Latest => Len(Migrations[v + 1]) \in Nat)
    BY <1>2, Lengths
  <2> QED BY <1>2, <1>3, <2>1 DEF MigrateInv, PodsTyped
<1>5. At(v, n)'
  BY <1>1, <1>2, <1>3 DEF MigrateInv, PodsTyped, At
<1> QED BY <1>4, <1>5 DEF MigrateInv

LEMMA ExecuteKeeps ==
  ASSUME MigrateInv, NEW p \in Pods, Execute(p)
  PROVE  MigrateInv'
<1> DEFINE w == version[p]
           d == done[p]
<1>1. PICK v, n : At(v, n)
  BY DEF MigrateInv
<1>2. /\ v \in 0..Latest /\ Latest = 5 /\ n \in Nat /\ d \in Nat
      /\ w \in 1..Latest /\ w <= v + 1 /\ (w = v + 1 => d <= n)
  BY <1>1, Files DEF At, Place, MigrateInv, PodsTyped, Execute, HasStatement
<1>3. /\ Len(Migrations[w]) \in Nat /\ d + 1 \in 1..Len(Migrations[w])
      /\ Possible(Migrations[w][d + 1], Reached(v, n))
      /\ schema' = Result(Migrations[w][d + 1], Reached(v, n))
  BY <1>1, <1>2, Lengths DEF Execute, HasStatement, NextStatement, At
<1>4. done' = [done EXCEPT ![p] = d + 1] /\ UNCHANGED <<versions, pc, current, version, deaths>>
  BY DEF Execute
<1>5. PodsTyped'
  BY <1>2, <1>3, <1>4 DEF MigrateInv, PodsTyped
<1>6. CASE w <= v \/ d + 1 <= n
  <2>1. schema' = Reached(v, n)
    <3> DEFINE i == d + 1
    <3>1. Place(v, n) /\ (w <= v \/ (w = v + 1 /\ i <= n))
      BY <1>1, <1>2, <1>6 DEF At
    <3>2. /\ w \in 1..Latest /\ i \in 1..Len(Migrations[w])
          /\ Possible(Migrations[w][i], Reached(v, n))
          /\ schema' = Result(Migrations[w][i], Reached(v, n))
      BY <1>2, <1>3
    <3> HIDE DEF w, i
    <3> QED BY <3>1, <3>2, Behind
  <2>2. At(v, n)'
    BY <1>1, <1>2, <1>4, <1>6, <2>1 DEF At, MigrateInv, PodsTyped
  <2> QED BY <1>5, <2>2 DEF MigrateInv
<1>7. CASE w = v + 1 /\ d = n
  <2>1. Place(v, n + 1) /\ schema' = Reached(v, n + 1)
    <3>1. Place(v, n)
      BY <1>1 DEF At
    <3>2. v < Latest /\ n < Len(Migrations[v + 1])
      BY <1>2, <1>3, <1>7
    <3>3. /\ Possible(Migrations[v + 1][n + 1], Reached(v, n))
          /\ schema' = Result(Migrations[v + 1][n + 1], Reached(v, n))
      BY <1>3, <1>7
    <3> QED BY <3>1, <3>2, <3>3, Forward
  <2>2. At(v, n + 1)'
    BY <1>1, <1>2, <1>4, <1>7, <2>1 DEF At, MigrateInv, PodsTyped
  <2> QED BY <1>5, <2>2 DEF MigrateInv
<1> QED BY <1>2, <1>6, <1>7

\* A row completes the file that the database is in.
LEMMA RecordMoves ==
  ASSUME MigrateInv, NEW v, NEW n, At(v, n), NEW p \in Pods, Record(p)
  PROVE  /\ v \in 0..Latest /\ v < Latest /\ version[p] = v + 1
         /\ n = Len(Migrations[v + 1]) /\ Place(v + 1, 0)
         /\ versions' = 1..(v + 1) /\ schema = Reached(v + 1, 0)
<1>1. /\ v \in 0..Latest /\ Latest = 5 /\ n \in Nat /\ done[p] \in Nat
      /\ version[p] \in 1..Latest /\ version[p] <= v + 1 /\ version[p] \notin 1..v
  BY Files DEF At, Place, MigrateInv, PodsTyped, Record, AtRecord
<1>2. version[p] = v + 1 /\ v < Latest
  BY <1>1
<1>3. n = Len(Migrations[v + 1])
  <2>1. done[p] <= n /\ done[p] = Len(Migrations[v + 1]) /\ n <= Len(Migrations[v + 1])
    BY <1>1, <1>2 DEF At, Place, Record, AtRecord
  <2> QED BY <1>1, <2>1
<1>4. Place(v + 1, 0) /\ schema = Reached(v + 1, 0)
  BY <1>1, <1>2, <1>3, Complete DEF At
<1>5. versions' = 1..(v + 1)
  <2>1. 1..(v + 1) = (1..v) \cup {v + 1}
    BY <1>1
  <2> QED BY <1>2, <2>1 DEF At, Record
<1> QED BY <1>1, <1>2, <1>3, <1>4, <1>5

LEMMA RecordKeeps ==
  ASSUME MigrateInv, NEW p \in Pods, Record(p)
  PROVE  MigrateInv'
<1>1. PICK v, n : At(v, n)
  BY DEF MigrateInv
<1>2. /\ v \in 0..Latest /\ Latest = 5 /\ v < Latest /\ version[p] = v + 1
      /\ Place(v + 1, 0) /\ versions' = 1..(v + 1) /\ schema = Reached(v + 1, 0)
  BY <1>1, RecordMoves, Files
<1>6. /\ version' = [version EXCEPT ![p] = v + 2]
      /\ done' = [done EXCEPT ![p] = 0]
      /\ pc' = [pc EXCEPT ![p] = IF v + 2 > Latest THEN "serving" ELSE "apply"]
      /\ UNCHANGED <<schema, current, deaths>>
  BY <1>2 DEF Record, MigrateInv, PodsTyped
<1>7. PodsTyped'
  <2>1. v + 2 \in 1..Latest + 1 /\ (v + 2 <= Latest => Len(Migrations[v + 2]) \in Nat)
    BY <1>2, Lengths
  <2> QED BY <1>2, <1>6, <2>1 DEF MigrateInv, PodsTyped
<1>8. ASSUME NEW q \in Pods
      PROVE  /\ pc'[q] = "apply" =>
                  /\ version'[q] <= v + 2 /\ version'[q] <= Latest
                  /\ version'[q] = v + 2 => done'[q] <= 0
             /\ pc'[q] = "serving" => v + 1 = Latest
  <2>1. CASE q = p
    <3>1. version'[p] = v + 2 /\ done'[p] = 0
          /\ pc'[p] = IF v + 2 > Latest THEN "serving" ELSE "apply"
      BY <1>6 DEF MigrateInv, PodsTyped
    <3> QED BY <1>2, <2>1, <3>1
  <2>2. CASE q # p
    <3>1. version'[q] = version[q] /\ done'[q] = done[q] /\ pc'[q] = pc[q]
      BY <1>6, <2>2 DEF MigrateInv, PodsTyped
    <3>2. /\ pc[q] = "apply" => version[q] <= v + 1 /\ version[q] <= Latest
          /\ pc[q] = "serving" => v = Latest
      BY <1>1 DEF At
    <3>3. version[q] \in 1..Latest + 1
      BY DEF MigrateInv, PodsTyped
    <3> QED BY <1>2, <3>1, <3>2, <3>3
  <2> QED BY <2>1, <2>2
<1>9. At(v + 1, 0)'
  <2>1. v + 1 + 1 = v + 2
    BY <1>2
  <2> QED BY <1>2, <1>6, <1>8, <2>1 DEF At
<1> QED BY <1>7, <1>9 DEF MigrateInv

LEMMA NextMigrateInv == MigrateInv /\ [Next]_vars => MigrateInv'
<1> SUFFICES ASSUME MigrateInv, [Next]_vars PROVE MigrateInv'
  OBVIOUS
<1>1. ASSUME NEW p \in Pods, Start(p) PROVE MigrateInv'
  <2>1. PICK v, n : At(v, n)
    BY DEF MigrateInv
  <2>2. At(v, n)'
    BY <1>1, <2>1 DEF Start, At, database, MigrateInv, PodsTyped
  <2>3. PodsTyped'
    BY <1>1 DEF Start, MigrateInv, PodsTyped
  <2> QED BY <2>2, <2>3 DEF MigrateInv
<1>2. ASSUME NEW p \in Pods, ExecuteRefused(p) \/ RecordRefused(p) \/ Die(p)
      PROVE  MigrateInv'
  <2>1. Exit(p) /\ UNCHANGED database
    BY <1>2 DEF ExecuteRefused, RecordRefused, Die
  <2>2. deaths' \in 0..MaxDeaths
    BY <1>2, MigrateAssumption
       DEF ExecuteRefused, RecordRefused, Die, MigrateInv, PodsTyped
  <2> QED BY <2>1, <2>2, ExitKeeps
<1>3. CASE UNCHANGED vars
  <2>1. PICK v, n : At(v, n)
    BY DEF MigrateInv
  <2>2. At(v, n)' /\ PodsTyped'
    BY <1>3, <2>1 DEF vars, database, At, MigrateInv, PodsTyped
  <2> QED BY <2>2 DEF MigrateInv
<1> QED BY <1>1, <1>2, <1>3, ReadKeeps, ExecuteKeeps, RecordKeeps DEF Next, Migrating

LEMMA MigrateInvariant == Spec => []MigrateInv
BY InitMigrateInv, NextMigrateInv, PTL DEF Spec

----------------------------------------------------------------------------
(***************************************************************************)
(* Schema, versions and the variables of Migrate in every pod keep their   *)
(* types.                                                                  *)
(***************************************************************************)
THEOREM MigrateTypeCorrect == Spec => []TypeOK
<1>1. ASSUME MigrateInv PROVE TypeOK
  <2>1. PICK v, n : At(v, n)
    BY <1>1 DEF MigrateInv
  <2>2. versions \subseteq 1..Latest
    BY <2>1, Files DEF At, Place
  <2>3. ASSUME NEW s \in Executed(v, n) PROVE s \in Executed(Latest, 0)
    <3>1. Place(Latest, 0) /\ v \in 0..Latest /\ Latest = 5 /\ n \in Nat
      BY <2>1, Files DEF At, Place
    <3>2. CASE \E f \in 1..v : \E i \in 1..Len(Migrations[f]) : s = Migrations[f][i]
      BY <3>1, <3>2, ExecutedMember
    <3>3. CASE v < Latest /\ \E i \in 1..n : s = Migrations[v + 1][i]
      <4>1. v + 1 \in 1..Latest /\ n <= Len(Migrations[v + 1])
        BY <2>1, <3>1, <3>3 DEF At, Place
      <4>2. \A i \in 1..n : i \in 1..Len(Migrations[v + 1])
        BY <3>1, <4>1, Lengths
      <4> QED BY <3>1, <3>3, <4>1, <4>2, ExecutedMember
    <3> QED BY <2>1, <3>2, <3>3, ExecutedMember DEF At
  <2>4. schema \subseteq UNION {s.adds : s \in Executed(Latest, 0)}
    BY <2>1, <2>3, LeftMember, ReachedIsLeft DEF At
  <2> QED BY <1>1, <2>2, <2>4 DEF MigrateInv, PodsTyped, TypeOK
<1> QED BY <1>1, MigrateInvariant, PTL

(***************************************************************************)
(* Whatever pods start, race, die or are refused: the database is what the *)
(* rows of the migrations table say, and at most a beginning of the next   *)
(* file (migrate.go:44-60).                                                *)
(***************************************************************************)
THEOREM RecordedProof == Spec => []RecordedIsApplied
<1>1. ASSUME MigrateInv PROVE RecordedIsApplied
  <2>1. PICK v, n : At(v, n)
    BY <1>1 DEF MigrateInv
  <2>2. v \in 0..Latest /\ Latest = 5 /\ n \in Nat /\ MaxVersion = v
    BY <2>1, MaxVersionIs, Files DEF At, Place
  <2>3. CASE n = 0
    BY <2>1, <2>2, <2>3 DEF At, RecordedIsApplied
  <2>4. CASE n # 0
    <3>1. v < Latest /\ v + 1 \in 1..Latest /\ n <= Len(Migrations[v + 1])
      BY <2>1, <2>2, <2>4 DEF At, Place
    <3>2. n \in 1..5
      <4> DEFINE size == Len(Migrations[v + 1])
      <4>1. size \in 1..5 /\ n <= size /\ n \in Nat /\ n # 0
        BY <2>2, <2>4, <3>1, Lengths
      <4> HIDE DEF size
      <4> QED BY <4>1
    <3>3. Half(n)
      BY <2>1, <2>2, <3>1 DEF At, Half
    <3> QED BY <2>1, <2>2, <3>2, <3>3 DEF At, RecordedIsApplied
  <2> QED BY <2>3, <2>4
<1> QED BY <1>1, MigrateInvariant, PTL

(***************************************************************************)
(* A pod for which Migrate has returned has the schema of the latest       *)
(* version, and no pod that migrates late takes it away again.             *)
(***************************************************************************)
THEOREM ServesProof == Spec => []ServesOnLatest
<1>1. ASSUME MigrateInv PROVE ServesOnLatest
  <2>1. PICK v, n : At(v, n)
    BY <1>1 DEF MigrateInv
  <2> SUFFICES ASSUME NEW p \in Pods, pc[p] = "serving" PROVE schema = Reached(Latest, 0)
    BY DEF ServesOnLatest
  <2> QED BY <2>1 DEF At, Place
<1> QED BY <1>1, MigrateInvariant, PTL

(***************************************************************************)
(* A pod that has executed as much as the database holds.                  *)
(***************************************************************************)
Furthest(p) ==
  /\ pc[p] = "apply"
  /\ version[p] = MaxVersion + 1
  /\ schema = Reached(MaxVersion, done[p])

\* The database refuses the furthest pod neither a statement nor the row.
LEMMA FurthestIsServed ==
  ASSUME MigrateInv, NEW p \in Pods, Furthest(p)
  PROVE  ~ExecuteRefused(p) /\ ~RecordRefused(p)
<1> DEFINE d == done[p]
<1>1. PICK v, n : At(v, n)
  BY DEF MigrateInv
<1>2. /\ v \in 0..5 /\ Latest = 5 /\ MaxVersion = v /\ versions = 1..v
      /\ version[p] = v + 1 /\ v < Latest /\ v + 1 \in 1..Latest
      /\ schema = Reached(v, d)
  <2>1. v \in 0..Latest /\ Latest = 5 /\ versions = 1..v
    BY <1>1, Files DEF At, Place
  <2>2. MaxVersion = v
    BY <2>1, MaxVersionIs
  <2>3. version[p] = v + 1 /\ schema = Reached(v, d)
    BY <2>2 DEF Furthest
  <2>4. version[p] <= Latest
    BY <1>1 DEF At, Furthest
  <2> QED BY <2>1, <2>2, <2>3, <2>4
<1>3. d \in Nat /\ d <= Len(Migrations[v + 1])
  BY <1>2 DEF MigrateInv, PodsTyped
<1>4. Place(v, d)
  BY <1>2, <1>3 DEF Place
<1>5. ~RecordRefused(p)
  BY <1>2 DEF RecordRefused
<1>6. ~ExecuteRefused(p)
  <2>1. d < Len(Migrations[v + 1]) => Possible(Migrations[v + 1][d + 1], Reached(v, d))
    BY <1>2, <1>4, NextIsPossible
  <2> QED BY <1>2, <2>1 DEF ExecuteRefused, HasStatement, NextStatement
<1> QED BY <1>5, <1>6

(***************************************************************************)
(* Pods that race make those behind them fail, on a column that is there   *)
(* or gone already or on the primary key of the version (migrate.go:52-58),*)
(* and never the furthest one: unless it dies, it goes on until it serves. *)
(***************************************************************************)
THEOREM FurthestProof ==
  Spec => [][\A p \in Pods : Furthest(p) => ~ExecuteRefused(p) /\ ~RecordRefused(p)]_vars
<1>1. MigrateInv /\ [Next]_vars
        => [\A p \in Pods : Furthest(p) => ~ExecuteRefused(p) /\ ~RecordRefused(p)]_vars
  BY FurthestIsServed
<1> QED BY <1>1, MigrateInvariant, PTL DEF Spec

\* A place that the database has reached has a pod that will go on from there, or
\* is broken; so the pod that takes the place away from a database that is not
\* broken goes on, or dies.
LEMMA OnlyDeathStep ==
  ASSUME MigrateInv, MigrateInv', Next, ~Broken, Broken', \A p \in Pods : ~Die(p)
  PROVE  FALSE
<1>1. PICK n \in 1..5 :
        /\ Half(n)'
        /\ \E i \in 1..n : Migrations[MaxVersion' + 1][i].kind # "create"
        /\ \A q \in Pods :
             ~(pc'[q] = "apply" /\ version'[q] = MaxVersion' + 1 /\ done'[q] = n)
  BY DEF Broken
<1>2. PICK v, m : At(v, m)
  BY DEF MigrateInv
<1>3. /\ v \in 0..5 /\ Latest = 5 /\ m \in Nat /\ MaxVersion = v /\ schema = Reached(v, m)
      /\ Place(v, m)
  BY <1>2, MaxVersionIs, Files DEF At, Place
\* If the schema and the versions stay, there was a pod at the place.
<1>4. ASSUME UNCHANGED database
      PROVE  /\ v < Latest /\ n <= Len(Migrations[v + 1]) /\ schema = Reached(v, n)
             /\ \E q \in Pods : /\ pc[q] = "apply" /\ version[q] = v + 1 /\ done[q] = n
                              /\ ~(pc'[q] = "apply" /\ version'[q] = v + 1 /\ done'[q] = n)
  <2>1. MaxVersion' = MaxVersion
    BY <1>4 DEF database, MaxVersion
  <2>2. Half(n)
    BY <1>1, <1>4, <2>1 DEF Half, database
  <2>3. \E q \in Pods : pc[q] = "apply" /\ version[q] = MaxVersion + 1 /\ done[q] = n
    BY <1>1, <2>1, <2>2 DEF Broken
  <2> QED BY <1>1, <1>3, <2>1, <2>2, <2>3 DEF Half
<1>5. ASSUME NEW p \in Pods, Start(p) \/ ReadVersion(p) \/ ExecuteRefused(p) \/ RecordRefused(p)
      PROVE  FALSE
  <2>1. UNCHANGED database
    BY <1>5 DEF Start, ReadVersion, ExecuteRefused, RecordRefused, database
  <2>2. PICK q \in Pods :
          /\ pc[q] = "apply" /\ version[q] = v + 1 /\ done[q] = n
          /\ ~(pc'[q] = "apply" /\ version'[q] = v + 1 /\ done'[q] = n)
    BY <1>4, <2>1
  <2>3. q = p
    BY <1>5, <2>2
       DEF MigrateInv, PodsTyped, Start, ReadVersion, ExecuteRefused, RecordRefused, Exit
  <2>4. Furthest(p)
    BY <1>3, <1>4, <2>1, <2>2, <2>3 DEF Furthest
  <2> QED BY <1>5, <2>2, <2>3, <2>4, FurthestIsServed DEF Start, ReadVersion
<1>6. ASSUME NEW p \in Pods, Execute(p) PROVE FALSE
  <2>1. /\ MaxVersion' = v /\ UNCHANGED <<versions, pc, version>>
        /\ done' = [done EXCEPT ![p] = @ + 1]
    BY <1>3, <1>6 DEF Execute, MaxVersion
  <2>2. v < Latest /\ n <= Len(Migrations[v + 1]) /\ schema' = Reached(v, n) /\ Place(v, n)
    BY <1>1, <1>3, <2>1 DEF Half, Place
  <2> DEFINE w == version[p]
             d == done[p]
  <2>3. /\ w \in 1..Latest /\ d \in Nat /\ pc[p] = "apply"
        /\ w <= v + 1 /\ (w = v + 1 => d <= m)
        /\ d + 1 \in 1..Len(Migrations[w])
        /\ Possible(Migrations[w][d + 1], Reached(v, m))
        /\ schema' = Result(Migrations[w][d + 1], Reached(v, m))
    <3>1. w \in 1..Latest /\ d \in Nat /\ pc[p] = "apply" /\ w <= v + 1 /\ (w = v + 1 => d <= m)
      BY <1>2, <1>3, <1>6 DEF At, MigrateInv, PodsTyped, Execute, HasStatement
    <3>2. Len(Migrations[w]) \in Nat
      BY <3>1, Lengths
    <3> QED BY <1>3, <1>6, <3>1, <3>2 DEF Execute, HasStatement, NextStatement
  <2>4. CASE w <= v \/ d + 1 <= m
    <3>1. schema' = Reached(v, m)
      <4> DEFINE i == d + 1
      <4>1. w <= v \/ (w = v + 1 /\ i <= m)
        BY <1>3, <2>3, <2>4
      <4>2. /\ w \in 1..Latest /\ i \in 1..Len(Migrations[w])
            /\ Possible(Migrations[w][i], Reached(v, m))
            /\ schema' = Result(Migrations[w][i], Reached(v, m))
        BY <2>3
      <4> HIDE DEF w, i
      <4> QED BY <1>3, <4>1, <4>2, Behind
    <3>2. n = m
      <4>1. ~(n < m) /\ ~(m < n)
        BY <1>3, <2>2, <3>1, PlacesDiffer
      <4> QED BY <1>3, <4>1
    <3>3. PICK q \in Pods :
            /\ pc[q] = "apply" /\ version[q] = v + 1 /\ done[q] = n
            /\ ~(pc'[q] = "apply" /\ version'[q] = v + 1 /\ done'[q] = n)
      BY <1>3, <1>4, <1>6, <2>1, <3>1 DEF database
    <3>4. q = p
      BY <2>1, <3>3 DEF MigrateInv, PodsTyped
    <3> QED BY <1>3, <2>3, <2>4, <3>2, <3>3, <3>4
  <2>5. CASE w = v + 1 /\ d = m
    <3>1. Place(v, m + 1) /\ schema' = Reached(v, m + 1)
      <4>1. m < Len(Migrations[v + 1])
        <5>1. v + 1 \in 1..Latest /\ m + 1 \in 1..Len(Migrations[v + 1])
          BY <2>3, <2>5
        <5> QED BY <1>3, <5>1, Lengths
      <4>2. /\ Possible(Migrations[v + 1][m + 1], Reached(v, m))
            /\ schema' = Result(Migrations[v + 1][m + 1], Reached(v, m))
        BY <2>3, <2>5
      <4> QED BY <1>3, <2>2, <4>1, <4>2, Forward
    <3>2. n = m + 1
      <4>1. ~(n < m + 1) /\ ~(m + 1 < n)
        BY <2>2, <3>1, PlacesDiffer
      <4> QED BY <1>3, <4>1
    <3>3. pc'[p] = "apply" /\ version'[p] = v + 1 /\ done'[p] = n
      BY <2>1, <2>3, <2>5, <3>2 DEF MigrateInv, PodsTyped
    <3> QED BY <1>1, <2>1, <3>3
  <2> QED BY <1>3, <2>3, <2>4, <2>5
<1>7. ASSUME NEW p \in Pods, Record(p) PROVE FALSE
  <2>1. /\ v < Latest /\ m = Len(Migrations[v + 1]) /\ versions' = 1..(v + 1)
        /\ schema' = Reached(v + 1, 0) /\ Place(v + 1, 0)
    BY <1>2, <1>7, RecordMoves DEF Record
  <2>2. MaxVersion' = v + 1
    <3>1. v + 1 \in 0..Latest
      BY <1>3, <2>1
    <3> QED BY <2>1, <3>1, LargestIs DEF MaxVersion
  <2>3. v + 1 < Latest /\ n <= Len(Migrations[v + 1 + 1]) /\ schema' = Reached(v + 1, n)
    BY <1>1, <2>2 DEF Half
  <2>4. Place(v + 1, n) /\ n \in Nat /\ 0 < n
    BY <1>3, <2>3 DEF Place
  <2> QED BY <2>1, <2>3, <2>4, PlacesDiffer DEF Record
<1> QED BY <1>5, <1>6, <1>7 DEF Next, Migrating

(***************************************************************************)
(* A database on which no pod can start any more is the work of a pod that *)
(* was killed, or lost its connection, inside a file (migrate.go:51-58),   *)
(* and never of pods that race, however many there are.                    *)
(***************************************************************************)
THEOREM OnlyDeathProof == Spec => OnlyDeathBreaks
<1>1. MigrateInv /\ MigrateInv' /\ [Next]_vars
        => [~Broken /\ Broken' => \E p \in Pods : Die(p)]_vars
  BY OnlyDeathStep
<1> QED BY <1>1, MigrateInvariant, PTL DEF Spec, OnlyDeathBreaks
=============================================================================
