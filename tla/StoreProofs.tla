---------------------------- MODULE StoreProofs -----------------------------
(***************************************************************************)
(* The store over SQL implements AtomicStore, for every number of pods,    *)
(* clients, namespaces and buckets, every observation and every delta.     *)
(***************************************************************************)
EXTENDS ObservationStore, FiniteSetTheorems, SequenceTheorems, WellFoundedInduction, TLAPS

Store == [buckets |-> States(tables), spaces |-> NamespaceStates(tables),
          samples |-> tables.hours]

CallOf(c) ==
  IF call[c] = None THEN None
  ELSE [call |-> call[c], phase |-> Phase(pc[c]), answer |-> answer[c]]

\* The keys of the table bucket_states.
Keys == Namespaces \X Buckets

----------------------------------------------------------------------------
(***************************************************************************)
(* Thresholds and their columns.                                           *)
(***************************************************************************)
LEMMA BoundIsColumn == \A l \in Promise!Limit : BindLimit(l) \in Column /\ BindLimit(l) # None
BY NoneAssumption DEF BindLimit, Column, Promise!Limit

\* What was known of a threshold comes back as it was.
LEMMA ScanBind == \A l \in Promise!Limit : Scanned(BindLimit(l)) = l
<1> SUFFICES ASSUME NEW l \in Promise!Limit PROVE Scanned(BindLimit(l)) = l
  OBVIOUS
<1>1. /\ l = [known |-> l.known, bytes |-> l.bytes] /\ l.known \in BOOLEAN
      /\ l.known \/ l.bytes = None
  BY DEF Promise!Limit
<1>2. Scanned(BindLimit(l)) = ScanLimit(BindLimit(l))
  BY BoundIsColumn DEF Scanned
<1>3. CASE l.known
  <2>1. BindLimit(l) = [bytes |-> l.bytes, known |-> 1]
    BY <1>3 DEF BindLimit
  <2>2. ScanLimit(BindLimit(l)) = [known |-> TRUE, bytes |-> l.bytes]
    BY <2>1 DEF ScanLimit
  <2>3. l.known = TRUE
    BY <1>1, <1>3
  <2> QED BY <1>1, <1>2, <2>2, <2>3
<1>4. CASE ~l.known
  BY <1>1, <1>2, <1>4 DEF ScanLimit, BindLimit
<1> QED BY <1>3, <1>4

LEMMA ScannedType ==
  \A col \in Column \cup {None} : Scanned(col) \in Promise!Limit \cup {None}
BY DEF Scanned, ScanLimit, Column, Promise!Limit

LEMMA StatesType ==
  ASSUME NEW tab \in Tables
  PROVE  /\ States(tab) \in [Namespaces -> [Buckets -> Promise!Limit \cup {None}]]
         /\ NamespaceStates(tab) \in [Namespaces -> Promise!Limit \cup {None}]
BY ScannedType DEF Tables, States, NamespaceStates

----------------------------------------------------------------------------
(***************************************************************************)
(* The statements of a transaction.                                        *)
(***************************************************************************)
LEMMA ReplaceStatements ==
  ASSUME NEW obs \in Promise!Observation
  PROVE  LET n == Len(obs.rows) IN
         /\ n \in Nat
         /\ Len(Replace(obs)) = n + 2
         /\ Replace(obs)[1] = Delete(obs.namespace)
         /\ \A i \in 1..n : Replace(obs)[i + 1] = UpsertState(obs.rows[i])
         /\ Replace(obs)[n + 2] = UpsertNamespace(obs.namespace, obs.state)
<1> DEFINE n == Len(obs.rows)
           ups == [i \in DOMAIN obs.rows |-> UpsertState(obs.rows[i])]
           S == {UpsertState(obs.rows[i]) : i \in DOMAIN obs.rows}
                  \cup {Delete(obs.namespace), UpsertNamespace(obs.namespace, obs.state)}
           del == <<Delete(obs.namespace)>>
           last == <<UpsertNamespace(obs.namespace, obs.state)>>
<1>1. n \in Nat /\ DOMAIN obs.rows = 1..n
  BY DEF Promise!Observation
<1>2. ups \in Seq(S) /\ del \in Seq(S) /\ last \in Seq(S)
  BY <1>1
<1>3. Len(ups) = n /\ Len(del) = 1 /\ Len(last) = 1
  BY <1>1
<1>4. /\ del[1] = Delete(obs.namespace)
      /\ last[1] = UpsertNamespace(obs.namespace, obs.state)
      /\ \A i \in 1..n : ups[i] = UpsertState(obs.rows[i])
  BY <1>1
<1>5. Replace(obs) = del \o ups \o last
  BY DEF Replace
<1> HIDE DEF n, ups, S, del, last
<1>6. /\ del \o ups \in Seq(S) /\ Len(del \o ups) = n + 1
      /\ (del \o ups)[1] = del[1]
      /\ \A i \in 1..n : (del \o ups)[i + 1] = ups[i]
  <2>1. /\ del \o ups \in Seq(S)
        /\ Len(del \o ups) = Len(del) + Len(ups)
        /\ \A i \in 1..Len(del) + Len(ups) :
             (del \o ups)[i] = IF i <= Len(del) THEN del[i] ELSE ups[i - Len(del)]
    BY <1>2, ConcatProperties
  <2>2. ASSUME NEW i \in 1..n
        PROVE  (del \o ups)[i + 1] = ups[i]
    BY <1>1, <1>3, <2>1
  <2> QED BY <1>1, <1>3, <2>1, <2>2
<1> DEFINE front == del \o ups
<1>7. /\ Len(front \o last) = n + 2
      /\ \A i \in 1..n + 1 : (front \o last)[i] = front[i]
      /\ (front \o last)[n + 2] = last[1]
  <2> HIDE DEF front
  <2> QED BY <1>1, <1>2, <1>3, <1>6 DEF front
<1>8. Replace(obs) = front \o last
  BY <1>5 DEF front
<1> HIDE DEF front
<1>9. Replace(obs)[1] = Delete(obs.namespace)
  <2>1. front[1] = del[1] /\ 1 \in 1..n + 1
    BY <1>1, <1>6 DEF front
  <2>2. (front \o last)[1] = front[1]
    BY <1>7, <2>1
  <2> QED BY <1>4, <1>8, <2>1, <2>2
<1>10. ASSUME NEW i \in 1..n
       PROVE  Replace(obs)[i + 1] = UpsertState(obs.rows[i])
  <2>1. front[i + 1] = ups[i] /\ i + 1 \in 1..n + 1
    BY <1>1, <1>6 DEF front
  <2>2. (front \o last)[i + 1] = front[i + 1]
    BY <1>7, <2>1
  <2> QED BY <1>4, <1>8, <2>1, <2>2
<1>11. Len(Replace(obs)) = n + 2 /\ Replace(obs)[n + 2] = UpsertNamespace(obs.namespace, obs.state)
  BY <1>4, <1>7, <1>8
<1> QED BY <1>1, <1>9, <1>10, <1>11 DEF n

\* What each statement makes of the rows.
LEMMA ExecutedFacts ==
  ASSUME NEW tab \in Tables
  PROVE  /\ \A n \in Namespaces :
              Executed(Delete(n), tab) =
                [rows |-> [k \in Keys |-> IF k[1] = n THEN None ELSE tab.rows[k]],
                 spaces |-> tab.spaces, hours |-> tab.hours]
         /\ \A r \in Promise!StateRow :
              Executed(UpsertState(r), tab) =
                [rows |-> [k \in Keys |-> IF k = <<r.namespace, r.bucket>> THEN BindLimit(r.block)
                                          ELSE tab.rows[k]],
                 spaces |-> tab.spaces, hours |-> tab.hours]
         /\ \A n \in Namespaces : \A l :
              Executed(UpsertNamespace(n, l), tab) =
                [rows |-> tab.rows,
                 spaces |-> [m \in Namespaces |-> IF m = n THEN BindLimit(l) ELSE tab.spaces[m]],
                 hours |-> tab.hours]
         /\ \A b \in Buckets :
              Executed(UpsertActivity(b), tab) =
                [rows |-> tab.rows, spaces |-> tab.spaces,
                 hours |-> [d \in Buckets |-> IF d = b THEN tab.hours[d] + 1 ELSE tab.hours[d]]]
         /\ Executed([kind |-> "prune"], tab) =
              [rows |-> tab.rows, spaces |-> tab.spaces, hours |-> [b \in Buckets |-> 0]]
<1>1. /\ tab = [rows |-> tab.rows, spaces |-> tab.spaces, hours |-> tab.hours]
      /\ tab.rows = [k \in Keys |-> tab.rows[k]]
      /\ tab.spaces = [n \in Namespaces |-> tab.spaces[n]]
      /\ tab.hours = [b \in Buckets |-> tab.hours[b]]
  BY DEF Tables, Keys
<1>2. ASSUME NEW n \in Namespaces
      PROVE  Executed(Delete(n), tab) =
                [rows |-> [k \in Keys |-> IF k[1] = n THEN None ELSE tab.rows[k]],
                 spaces |-> tab.spaces, hours |-> tab.hours]
  BY <1>1 DEF Executed, Delete
<1>3. ASSUME NEW r \in Promise!StateRow
      PROVE  Executed(UpsertState(r), tab) =
                [rows |-> [k \in Keys |-> IF k = <<r.namespace, r.bucket>> THEN BindLimit(r.block)
                                          ELSE tab.rows[k]],
                 spaces |-> tab.spaces, hours |-> tab.hours]
  BY <1>1 DEF Executed, UpsertState
<1>4. ASSUME NEW n \in Namespaces, NEW l
      PROVE  Executed(UpsertNamespace(n, l), tab) =
                [rows |-> tab.rows,
                 spaces |-> [m \in Namespaces |-> IF m = n THEN BindLimit(l) ELSE tab.spaces[m]],
                 hours |-> tab.hours]
  BY <1>1 DEF Executed, UpsertNamespace
<1>5. ASSUME NEW b \in Buckets
      PROVE  Executed(UpsertActivity(b), tab) =
                [rows |-> tab.rows, spaces |-> tab.spaces,
                 hours |-> [d \in Buckets |-> IF d = b THEN tab.hours[d] + 1 ELSE tab.hours[d]]]
  BY <1>1 DEF Executed, UpsertActivity
<1>6. Executed([kind |-> "prune"], tab) =
        [rows |-> tab.rows, spaces |-> tab.spaces, hours |-> [b \in Buckets |-> 0]]
  BY <1>1 DEF Executed
<1> QED BY <1>2, <1>3, <1>4, <1>5, <1>6

----------------------------------------------------------------------------
(***************************************************************************)
(* The rows after the first n statements.                                  *)
(***************************************************************************)
\* The column of bucket b after the first n rows of an observation.
Latest(rows, b, n) ==
  LET at == {i \in DOMAIN rows : i <= n /\ rows[i].bucket = b}
  IN  IF at = {} THEN None
      ELSE BindLimit(rows[CHOOSE i \in at : \A j \in at : j <= i].block)

\* How often b is among the first n deltas.
Seen(deltas, b, n) == Cardinality({i \in DOMAIN deltas : i <= n /\ deltas[i] = b})

Replaced(obs, n, tab) ==
  [rows |-> [k \in Keys |-> IF k[1] = obs.namespace THEN Latest(obs.rows, k[2], n - 1)
                            ELSE tab.rows[k]],
   spaces |-> [m \in Namespaces |->
                 IF m = obs.namespace /\ n = Len(obs.rows) + 2 THEN BindLimit(obs.state)
                 ELSE tab.spaces[m]],
   hours |-> tab.hours]

Recorded(deltas, n, tab) ==
  [rows |-> tab.rows, spaces |-> tab.spaces,
   hours |-> [b \in Buckets |-> tab.hours[b] + Seen(deltas, b, n)]]

Pruned(tab) == [rows |-> tab.rows, spaces |-> tab.spaces, hours |-> [b \in Buckets |-> 0]]

After(what, n, tab) ==
  IF n = 0 THEN tab
  ELSE CASE what.kind = "replace" -> Replaced(what.arg, n, tab)
         [] what.kind = "record" -> Recorded(what.arg, n, tab)
         [] OTHER -> Pruned(tab)

\* A call that gets as far as a transaction.
Writing(what) ==
  \/ what \in [kind : {"replace"}, arg : Observations] /\ Valid(what.arg)
  \/ what \in [kind : {"record"}, arg : Deltas] /\ what.arg # <<>>
  \/ what \in [kind : {"prune"}, arg : {None}]

\* Of some indices there is a last one.
LEMMA LargestIndex ==
  ASSUME NEW n \in Nat, NEW at, at \subseteq 1..n, at # {}
  PROVE  \E i \in at : \A j \in at : j <= i
<1> DEFINE T == {m \in Nat : \E i \in at : m = n - i}
<1>1. IsWellFoundedOn(OpToRel(<, Nat), Nat)
  BY NatLessThanWellFounded
<1>2. T # {} /\ T \subseteq Nat
  <2>1. PICK i \in at : TRUE
    OBVIOUS
  <2>2. n - i \in Nat
    BY <2>1
  <2> QED BY <2>1, <2>2
<1>3. PICK x : x \in T /\ \A y \in T : <<y, x>> \notin OpToRel(<, Nat)
  <2> HIDE DEF T
  <2> QED BY <1>1, <1>2, WFMin
<1>4. PICK i \in at : x = n - i
  BY <1>3
<1>5. ASSUME NEW j \in at
      PROVE  j <= i
  <2>1. n - j \in T /\ n - j \in Nat /\ x \in Nat
    <3>1. j \in 1..n /\ x \in Nat
      BY <1>3
    <3>2. n - j \in Nat
      BY <3>1
    <3> QED BY <3>1, <3>2
  <2>2. ~(n - j < x)
    BY <1>3, <2>1 DEF OpToRel
  <2> QED BY <1>4, <2>1, <2>2
<1> QED BY <1>4, <1>5

LEMMA LatestNext ==
  ASSUME NEW rows \in Seq(Promise!StateRow), NEW n \in 0 .. Len(rows) - 1, NEW b
  PROVE  Latest(rows, b, n + 1)
           = IF rows[n + 1].bucket = b THEN BindLimit(rows[n + 1].block) ELSE Latest(rows, b, n)
<1> DEFINE at == {i \in DOMAIN rows : i <= n /\ rows[i].bucket = b}
           next == {i \in DOMAIN rows : i <= n + 1 /\ rows[i].bucket = b}
<1>1. Len(rows) \in Nat /\ DOMAIN rows = 1..Len(rows) /\ n + 1 \in DOMAIN rows
  OBVIOUS
<1>2. CASE rows[n + 1].bucket = b
  <2>1. /\ n + 1 \in next /\ \A j \in next : j <= n + 1
        /\ \A i \in next : (\A j \in next : j <= i) => i = n + 1
    BY <1>1, <1>2
  <2> HIDE DEF next
  <2>2. (CHOOSE i \in next : \A j \in next : j <= i) = n + 1
    BY <2>1
  <2> QED BY <1>2, <2>1, <2>2 DEF Latest, next
<1>3. CASE rows[n + 1].bucket # b
  <2>1. next = at
    BY <1>1, <1>3
  <2> DEFINE block(s) == IF s = {} THEN None
                         ELSE BindLimit(rows[CHOOSE i \in s : \A j \in s : j <= i].block)
  <2>2. Latest(rows, b, n + 1) = block(next) /\ Latest(rows, b, n) = block(at)
    BY DEF Latest
  <2> HIDE DEF next, at, block
  <2> QED BY <1>3, <2>1, <2>2
<1> QED BY <1>2, <1>3

LEMMA LatestEnds ==
  ASSUME NEW rows \in Seq(Promise!StateRow), NEW b
  PROVE  /\ Latest(rows, b, 0) = None
         /\ \A n \in Nat : n >= Len(rows) => Scanned(Latest(rows, b, n)) = Promise!LastRow(rows, b)
         /\ \A n \in Nat : Latest(rows, b, n) \in Column \cup {None}
<1>1. Len(rows) \in Nat /\ DOMAIN rows = 1..Len(rows)
  OBVIOUS
<1>2. Latest(rows, b, 0) = None
  <2>1. {i \in DOMAIN rows : i <= 0 /\ rows[i].bucket = b} = {}
    BY <1>1
  <2> QED BY <2>1 DEF Latest
<1> DEFINE at(n) == {i \in DOMAIN rows : i <= n /\ rows[i].bucket = b}
           last(n) == CHOOSE i \in at(n) : \A j \in at(n) : j <= i
<1>3. ASSUME NEW n \in Nat, at(n) # {}
      PROVE  /\ last(n) \in DOMAIN rows
             /\ rows[last(n)].block \in Promise!Limit
  <2> DEFINE S == at(n)
  <2>1. S \subseteq 1..Len(rows) /\ S # {}
    BY <1>1, <1>3
  <2> HIDE DEF S
  <2>2. \E i \in S : \A j \in S : j <= i
    BY <1>1, <2>1, LargestIndex
  <2>3. (CHOOSE i \in S : \A j \in S : j <= i) \in S
    BY <2>2
  <2>4. last(n) \in DOMAIN rows
    BY <1>1, <2>1, <2>3 DEF S
  <2> HIDE DEF last
  <2>5. rows[last(n)] \in Promise!StateRow
    BY <2>4
  <2> QED BY <2>4, <2>5 DEF Promise!StateRow
<1>4. \A n : Latest(rows, b, n) = IF at(n) = {} THEN None ELSE BindLimit(rows[last(n)].block)
  BY DEF Latest
<1>5. ASSUME NEW n \in Nat
      PROVE  Latest(rows, b, n) \in Column \cup {None}
  <2> HIDE DEF at, last
  <2> QED BY <1>3, <1>4, BoundIsColumn
<1>6. ASSUME NEW n \in Nat, n >= Len(rows)
      PROVE  Scanned(Latest(rows, b, n)) = Promise!LastRow(rows, b)
  <2> DEFINE all == {i \in DOMAIN rows : rows[i].bucket = b}
  <2>1. at(n) = all
    BY <1>1, <1>6
  <2>2. Promise!LastRow(rows, b)
          = IF all = {} THEN None ELSE rows[CHOOSE i \in all : \A j \in all : j <= i].block
    BY DEF Promise!LastRow
  <2>3. Promise!LastRow(rows, b) = IF at(n) = {} THEN None ELSE rows[last(n)].block
    <3> HIDE DEF at, all
    <3> QED BY <2>1, <2>2
  <2> HIDE DEF at, last, all
  <2>4. CASE at(n) = {}
    BY <1>4, <2>3, <2>4 DEF Scanned
  <2>5. CASE at(n) # {}
    BY <1>3, <1>4, <2>3, <2>5, ScanBind
  <2> QED BY <2>4, <2>5
<1> QED BY <1>2, <1>5, <1>6

LEMMA SeenCounts ==
  ASSUME NEW deltas \in Seq(Buckets), NEW b, NEW n
  PROVE  LET at == {i \in DOMAIN deltas : i <= n /\ deltas[i] = b} IN
         IsFiniteSet(at) /\ Cardinality(at) \in Nat /\ Seen(deltas, b, n) = Cardinality(at)
<1> DEFINE at == {i \in DOMAIN deltas : i <= n /\ deltas[i] = b}
<1>1. IsFiniteSet(DOMAIN deltas)
  <2>1. Len(deltas) \in Nat /\ DOMAIN deltas = 1..Len(deltas)
    OBVIOUS
  <2> QED BY <2>1, FS_Interval
<1>2. at \subseteq DOMAIN deltas
  OBVIOUS
<1>3. Seen(deltas, b, n) = Cardinality(at)
  BY DEF Seen
<1> HIDE DEF at
<1>4. IsFiniteSet(at) /\ Cardinality(at) \in Nat
  BY <1>1, <1>2, FS_Subset, FS_CardinalityType
<1> QED BY <1>3, <1>4 DEF at

LEMMA SeenStep ==
  ASSUME NEW deltas \in Seq(Buckets), NEW b, NEW n \in Nat, n < Len(deltas)
  PROVE  Seen(deltas, b, n + 1) = Seen(deltas, b, n) + IF deltas[n + 1] = b THEN 1 ELSE 0
<1> DEFINE at(k) == {i \in DOMAIN deltas : i <= k /\ deltas[i] = b}
<1>1. n + 1 \in DOMAIN deltas /\ \A i \in DOMAIN deltas : i \in Int
  OBVIOUS
<1>2. /\ IsFiniteSet(at(n)) /\ Cardinality(at(n)) \in Nat
      /\ Seen(deltas, b, n) = Cardinality(at(n))
      /\ Seen(deltas, b, n + 1) = Cardinality(at(n + 1))
  BY SeenCounts
<1>3. CASE deltas[n + 1] = b
  <2>1. at(n + 1) = at(n) \cup {n + 1} /\ n + 1 \notin at(n)
    BY <1>1, <1>3
  <2> HIDE DEF at
  <2>2. Cardinality(at(n) \cup {n + 1}) = Cardinality(at(n)) + 1
    BY <1>2, <2>1, FS_AddElement
  <2> QED BY <1>2, <1>3, <2>1, <2>2
<1>4. CASE deltas[n + 1] # b
  <2>1. at(n + 1) = at(n)
    BY <1>1, <1>4
  <2> HIDE DEF at
  <2> QED BY <1>2, <1>4, <2>1
<1> QED BY <1>3, <1>4

LEMMA SeenFacts ==
  ASSUME NEW deltas \in Seq(Buckets), NEW b
  PROVE  /\ Seen(deltas, b, 0) = 0
         /\ \A n \in Nat : Seen(deltas, b, n) \in Nat
         /\ Seen(deltas, b, Len(deltas)) = Promise!HowOften(deltas, b)
<1> DEFINE at(n) == {i \in DOMAIN deltas : i <= n /\ deltas[i] = b}
<1>1. Len(deltas) \in Nat /\ DOMAIN deltas = 1..Len(deltas)
  OBVIOUS
<1>2. \A n : Cardinality(at(n)) \in Nat /\ Seen(deltas, b, n) = Cardinality(at(n))
  BY SeenCounts
<1>3. Seen(deltas, b, 0) = 0
  <2>1. at(0) = {}
    BY <1>1
  <2> QED BY <1>2, <2>1, FS_EmptySet
<1>4. Seen(deltas, b, Len(deltas)) = Promise!HowOften(deltas, b)
  <2> DEFINE all == {i \in DOMAIN deltas : deltas[i] = b}
  <2>1. at(Len(deltas)) = all
    BY <1>1
  <2>2. Promise!HowOften(deltas, b) = Cardinality(all)
    <3>1. Promise!Cardinality(all) = Cardinality(all)
      BY DEF Promise!Cardinality, Cardinality
    <3> QED BY <3>1 DEF Promise!HowOften
  <2> HIDE DEF at, all
  <2> QED BY <1>2, <2>1, <2>2
<1> HIDE DEF at
<1> QED BY <1>2, <1>3, <1>4

----------------------------------------------------------------------------
(***************************************************************************)
(* Each statement of a transaction goes one further, the last one brings   *)
(* about the effect.                                                       *)
(***************************************************************************)
Reached(what, n, tab) ==
  /\ After(what, n, tab) \in Tables
  /\ n < Len(Statements(what)) =>
       Executed(Statements(what)[n + 1], After(what, n, tab)) = After(what, n + 1, tab)

LEMMA ReplaceReached ==
  ASSUME NEW obs \in Promise!Observation, NEW what, what = [kind |-> "replace", arg |-> obs],
         Valid(obs), NEW tab \in Tables
  PROVE  /\ Len(Statements(what)) \in Nat \ {0}
         /\ \A n \in 0 .. Len(Statements(what)) : Reached(what, n, tab)
<1> DEFINE L == Len(obs.rows)
<1>1. Statements(what) = Replace(obs) /\ \A n : n # 0 => After(what, n, tab) = Replaced(obs, n, tab)
  BY DEF Statements, After
<1>2. /\ L \in Nat /\ obs.rows \in Seq(Promise!StateRow)
      /\ obs.namespace \in Namespaces /\ obs.state \in Promise!Limit
  BY DEF Promise!Observation
<1>3. /\ Len(Statements(what)) = L + 2
      /\ Statements(what)[1] = Delete(obs.namespace)
      /\ \A i \in 1..L : Statements(what)[i + 1] = UpsertState(obs.rows[i])
      /\ Statements(what)[L + 2] = UpsertNamespace(obs.namespace, obs.state)
  BY <1>1, ReplaceStatements
<1> HIDE DEF L
<1>4. ASSUME NEW n \in Nat, n # 0
      PROVE  Replaced(obs, n, tab) \in Tables
  <2>1. n - 1 \in Nat
    BY <1>4
  <2>2. \A b : Latest(obs.rows, b, n - 1) \in Column \cup {None}
    BY <1>2, <2>1, LatestEnds
  <2>3. BindLimit(obs.state) \in Column
    BY <1>2, BoundIsColumn
  <2> QED BY <2>2, <2>3 DEF Replaced, Tables, Keys
<1>5. After(what, 0, tab) = tab
  BY DEF After
<1>6. \A n \in Nat : After(what, n, tab) \in Tables
  BY <1>1, <1>4, <1>5
<1>7. ASSUME NEW n \in 0 .. L + 1
      PROVE  Executed(Statements(what)[n + 1], After(what, n, tab)) = After(what, n + 1, tab)
  <2> DEFINE t == After(what, n, tab)
  <2>1. t \in Tables /\ After(what, n + 1, tab) = Replaced(obs, n + 1, tab)
    BY <1>1, <1>2, <1>6
  <2>2. CASE n = 0
    <3>1. \A b : Latest(obs.rows, b, (0 + 1) - 1) = None
      BY <1>2, LatestEnds
    <3>2. Statements(what)[n + 1] = Delete(obs.namespace) /\ t = tab /\ 0 + 1 # L + 2
      BY <1>2, <1>3, <1>5, <2>2
    <3>3. Executed(Delete(obs.namespace), tab) =
            [rows |-> [k \in Keys |-> IF k[1] = obs.namespace THEN None ELSE tab.rows[k]],
             spaces |-> tab.spaces, hours |-> tab.hours]
      BY <1>2, ExecutedFacts
    <3>4. tab.spaces = [m \in Namespaces |-> tab.spaces[m]]
      BY DEF Tables
    <3>5. Replaced(obs, 0 + 1, tab) =
            [rows |-> [k \in Keys |-> IF k[1] = obs.namespace THEN None ELSE tab.rows[k]],
             spaces |-> [m \in Namespaces |-> tab.spaces[m]], hours |-> tab.hours]
      BY <3>1, <3>2 DEF Replaced, L
    <3> QED BY <2>1, <2>2, <3>2, <3>3, <3>4, <3>5
  <2>3. CASE n \in 1..L
    <3> DEFINE r == obs.rows[n]
    <3>1. /\ n \in DOMAIN obs.rows /\ r \in Promise!StateRow
          /\ n - 1 \in 0 .. L - 1 /\ (n - 1) + 1 = n /\ (n + 1) - 1 = n
          /\ n # L + 2 /\ n + 1 # L + 2 /\ n # 0
      BY <1>2, <2>3 DEF L
    <3>2. r.namespace = obs.namespace /\ Statements(what)[n + 1] = UpsertState(r)
      BY <1>3, <2>3, <3>1 DEF Valid
    <3>3. \A b : Latest(obs.rows, b, n) = IF r.bucket = b THEN BindLimit(r.block)
                                          ELSE Latest(obs.rows, b, n - 1)
      <4> DEFINE m == n - 1
      <4>1. m \in 0 .. Len(obs.rows) - 1 /\ m + 1 = n
        BY <3>1 DEF L
      <4> HIDE DEF m
      <4>2. \A b : Latest(obs.rows, b, m + 1)
                     = IF obs.rows[m + 1].bucket = b THEN BindLimit(obs.rows[m + 1].block)
                       ELSE Latest(obs.rows, b, m)
        BY <1>2, <4>1, LatestNext
      <4>3. \A b : Latest(obs.rows, b, n)
                     = IF obs.rows[n].bucket = b THEN BindLimit(obs.rows[n].block)
                       ELSE Latest(obs.rows, b, m)
        BY <4>1, <4>2
      <4> QED BY <4>3 DEF m
    <3>4. t = [rows |-> [k \in Keys |-> IF k[1] = obs.namespace THEN Latest(obs.rows, k[2], n - 1)
                                        ELSE tab.rows[k]],
               spaces |-> [m \in Namespaces |-> tab.spaces[m]], hours |-> tab.hours]
      BY <1>1, <3>1 DEF Replaced, L
    <3>5. Replaced(obs, n + 1, tab) =
              [rows |-> [k \in Keys |-> IF k[1] = obs.namespace THEN Latest(obs.rows, k[2], n)
                                        ELSE tab.rows[k]],
               spaces |-> [m \in Namespaces |-> tab.spaces[m]], hours |-> tab.hours]
      BY <3>1 DEF Replaced, L
    <3> HIDE DEF r, t
    <3>6. Executed(UpsertState(r), t) =
                [rows |-> [k \in Keys |-> IF k = <<r.namespace, r.bucket>> THEN BindLimit(r.block)
                                          ELSE t.rows[k]],
                 spaces |-> t.spaces, hours |-> t.hours]
      BY <2>1, <3>1, ExecutedFacts
    <3>7. ASSUME NEW k \in Keys
          PROVE  (IF k = <<r.namespace, r.bucket>> THEN BindLimit(r.block) ELSE t.rows[k])
                   = (IF k[1] = obs.namespace THEN Latest(obs.rows, k[2], n) ELSE tab.rows[k])
      <4>1. t.rows[k] = IF k[1] = obs.namespace THEN Latest(obs.rows, k[2], n - 1) ELSE tab.rows[k]
        BY <3>4
      <4>2. k = <<r.namespace, r.bucket>> <=> k[1] = obs.namespace /\ r.bucket = k[2]
        BY <3>2 DEF Keys
      <4> QED BY <3>3, <4>1, <4>2
    <3>8. t.spaces = [m \in Namespaces |-> tab.spaces[m]] /\ t.hours = tab.hours
      BY <3>4
    <3> QED BY <2>1, <3>2, <3>5, <3>6, <3>7, <3>8 DEF t
  <2>4. CASE n = L + 1
    <3>1. n # 0 /\ n # L + 2 /\ n + 1 = L + 2 /\ (n + 1) - 1 = L + 1 /\ n - 1 = L
      BY <1>2, <2>4
    <3>2. Statements(what)[n + 1] = UpsertNamespace(obs.namespace, obs.state)
      BY <1>3, <3>1
    <3>3. \A b : Latest(obs.rows, b, L) = Latest(obs.rows, b, L + 1)
      <4> SUFFICES ASSUME NEW b PROVE Latest(obs.rows, b, L) = Latest(obs.rows, b, L + 1)
        OBVIOUS
      <4> DEFINE at(k) == {i \in DOMAIN obs.rows : i <= k /\ obs.rows[i].bucket = b}
                 block(s) == IF s = {} THEN None
                   ELSE BindLimit(obs.rows[CHOOSE i \in s : \A j \in s : j <= i].block)
      <4>1. at(L) = at(L + 1)
        BY <1>2 DEF L
      <4>2. Latest(obs.rows, b, L) = block(at(L)) /\ Latest(obs.rows, b, L + 1) = block(at(L + 1))
        BY DEF Latest
      <4> HIDE DEF at, block
      <4> QED BY <4>1, <4>2
    <3>4. t = [rows |-> [k \in Keys |-> IF k[1] = obs.namespace THEN Latest(obs.rows, k[2], L)
                                        ELSE tab.rows[k]],
               spaces |-> [m \in Namespaces |-> tab.spaces[m]], hours |-> tab.hours]
      BY <1>1, <3>1 DEF Replaced, L
    <3>5. Replaced(obs, n + 1, tab) =
              [rows |-> [k \in Keys |-> IF k[1] = obs.namespace THEN Latest(obs.rows, k[2], L)
                                        ELSE tab.rows[k]],
               spaces |-> [m \in Namespaces |-> IF m = obs.namespace THEN BindLimit(obs.state)
                                                ELSE tab.spaces[m]],
               hours |-> tab.hours]
      BY <3>1, <3>3 DEF Replaced, L
    <3> HIDE DEF t
    <3>6. Executed(UpsertNamespace(obs.namespace, obs.state), t) =
                [rows |-> t.rows,
                 spaces |-> [m \in Namespaces |-> IF m = obs.namespace THEN BindLimit(obs.state)
                                                  ELSE t.spaces[m]],
                 hours |-> t.hours]
      BY <1>2, <2>1, ExecutedFacts
    <3>7. \A m \in Namespaces : t.spaces[m] = tab.spaces[m]
      BY <3>4
    <3>8. t.hours = tab.hours
          /\ t.rows = [k \in Keys |-> IF k[1] = obs.namespace THEN Latest(obs.rows, k[2], L)
                                      ELSE tab.rows[k]]
      BY <3>4
    <3> QED BY <2>1, <3>2, <3>5, <3>6, <3>7, <3>8 DEF t
  <2> QED BY <1>2, <2>2, <2>3, <2>4
<1> QED BY <1>2, <1>3, <1>6, <1>7 DEF Reached

LEMMA RecordReached ==
  ASSUME NEW deltas \in Seq(Buckets), NEW what, what = [kind |-> "record", arg |-> deltas],
         deltas # <<>>, NEW tab \in Tables
  PROVE  /\ Len(Statements(what)) \in Nat \ {0}
         /\ \A n \in 0 .. Len(Statements(what)) : Reached(what, n, tab)
<1> DEFINE L == Len(deltas)
<1>1. Statements(what) = Record(deltas) /\ \A n : n # 0 => After(what, n, tab) = Recorded(deltas, n, tab)
  BY DEF Statements, After
<1>2. L \in Nat \ {0} /\ DOMAIN deltas = 1..L
  OBVIOUS
<1>3. /\ Len(Statements(what)) = L
      /\ \A i \in 1..L : Statements(what)[i] = UpsertActivity(deltas[i])
  BY <1>1, <1>2 DEF Record
<1> HIDE DEF L
<1>4. tab.hours \in [Buckets -> Nat]
  BY DEF Tables
<1>5. ASSUME NEW n \in Nat
      PROVE  Recorded(deltas, n, tab) \in Tables
  <2>1. \A b : Seen(deltas, b, n) \in Nat
    BY SeenFacts
  <2>2. \A b \in Buckets : tab.hours[b] + Seen(deltas, b, n) \in Nat
    BY <1>4, <2>1
  <2> QED BY <2>2 DEF Recorded, Tables
<1>6. After(what, 0, tab) = tab
  BY DEF After
<1>7. \A n \in Nat : After(what, n, tab) \in Tables
  BY <1>1, <1>5, <1>6
<1>8. \A n \in Nat : After(what, n, tab) = Recorded(deltas, n, tab)
  <2>1. \A b \in Buckets : tab.hours[b] + Seen(deltas, b, 0) = tab.hours[b]
    <3>1. \A b : Seen(deltas, b, 0) = 0
      BY SeenFacts
    <3> QED BY <1>4, <3>1
  <2>2. tab = [rows |-> tab.rows, spaces |-> tab.spaces, hours |-> tab.hours]
        /\ tab.hours = [b \in Buckets |-> tab.hours[b]]
    BY DEF Tables
  <2>3. Recorded(deltas, 0, tab) = tab
    BY <2>1, <2>2 DEF Recorded
  <2> QED BY <1>1, <1>6, <2>3
<1>9. ASSUME NEW n \in 0 .. L - 1
      PROVE  Executed(Statements(what)[n + 1], After(what, n, tab)) = After(what, n + 1, tab)
  <2> DEFINE t == Recorded(deltas, n, tab)
  <2>1. /\ n \in Nat /\ n + 1 \in 1..L /\ deltas[n + 1] \in Buckets
        /\ t \in Tables
    BY <1>2, <1>5
  <2>2. \A b \in Buckets : t.hours[b] = tab.hours[b] + Seen(deltas, b, n)
    BY DEF Recorded
  <2>3. t.rows = tab.rows /\ t.spaces = tab.spaces
    BY DEF Recorded
  <2> HIDE DEF t
  <2>4. Executed(UpsertActivity(deltas[n + 1]), t) =
          [rows |-> t.rows, spaces |-> t.spaces,
           hours |-> [b \in Buckets |-> IF b = deltas[n + 1] THEN t.hours[b] + 1 ELSE t.hours[b]]]
    BY <2>1, ExecutedFacts
  <2>5. ASSUME NEW b \in Buckets
        PROVE  (IF b = deltas[n + 1] THEN t.hours[b] + 1 ELSE t.hours[b])
                 = tab.hours[b] + Seen(deltas, b, n + 1)
    <3>1. tab.hours[b] \in Nat /\ Seen(deltas, b, n) \in Nat
      BY <1>4, <2>1, SeenFacts
    <3>2. Seen(deltas, b, n + 1) = Seen(deltas, b, n) + IF deltas[n + 1] = b THEN 1 ELSE 0
      <4>1. n < Len(deltas)
        <5>1. L = Len(deltas) /\ L \in Nat
          BY <1>2 DEF L
        <5> QED BY <2>1, <5>1
      <4> QED BY <2>1, <4>1, SeenStep
    <3>3. t.hours[b] = tab.hours[b] + Seen(deltas, b, n)
      BY <2>2
    <3> QED BY <3>1, <3>2, <3>3
  <2>6. Recorded(deltas, n + 1, tab) =
          [rows |-> tab.rows, spaces |-> tab.spaces,
           hours |-> [b \in Buckets |-> tab.hours[b] + Seen(deltas, b, n + 1)]]
    BY DEF Recorded
  <2>7. Executed(UpsertActivity(deltas[n + 1]), t) = Recorded(deltas, n + 1, tab)
    BY <2>3, <2>4, <2>5, <2>6
  <2> QED BY <1>3, <1>8, <2>1, <2>7 DEF t
<1> QED BY <1>2, <1>3, <1>7, <1>9 DEF Reached

LEMMA PruneReached ==
  ASSUME NEW what, what = [kind |-> "prune", arg |-> None], NEW tab \in Tables
  PROVE  /\ Len(Statements(what)) \in Nat \ {0}
         /\ \A n \in 0 .. Len(Statements(what)) : Reached(what, n, tab)
<1>1. Statements(what) = <<[kind |-> "prune"]>> /\ After(what, 0, tab) = tab
  BY DEF Statements, After, Prune
<1>2. After(what, 1, tab) = Pruned(tab)
  BY DEF After
<1>3. Pruned(tab) \in Tables
  BY DEF Pruned, Tables
<1>4. Executed([kind |-> "prune"], tab) = Pruned(tab)
  BY ExecutedFacts DEF Pruned
<1>5. Len(Statements(what)) = 1 /\ Statements(what)[0 + 1] = [kind |-> "prune"]
  BY <1>1
<1>6. Reached(what, 0, tab) /\ Reached(what, 1, tab)
  BY <1>1, <1>2, <1>3, <1>4, <1>5 DEF Reached
<1>7. ASSUME NEW n \in 0 .. Len(Statements(what))
      PROVE  Reached(what, n, tab)
  <2>1. n = 0 \/ n = 1
    BY <1>5
  <2> QED BY <1>6, <2>1
<1> QED BY <1>5, <1>7

LEMMA StatementsReach ==
  ASSUME NEW what, Writing(what), NEW tab \in Tables
  PROVE  /\ Len(Statements(what)) \in Nat \ {0}
         /\ \A n \in 0 .. Len(Statements(what)) : Reached(what, n, tab)
<1>1. CASE what \in [kind : {"replace"}, arg : Observations] /\ Valid(what.arg)
  <2>1. what = [kind |-> "replace", arg |-> what.arg] /\ what.arg \in Promise!Observation
    BY <1>1, StoreAssumption
  <2> QED BY <1>1, <2>1, ReplaceReached
<1>2. CASE what \in [kind : {"record"}, arg : Deltas] /\ what.arg # <<>>
  <2>1. what = [kind |-> "record", arg |-> what.arg] /\ what.arg \in Seq(Buckets)
    BY <1>2, StoreAssumption
  <2> QED BY <1>2, <2>1, RecordReached
<1>3. CASE what \in [kind : {"prune"}, arg : {None}]
  <2>1. what = [kind |-> "prune", arg |-> None]
    BY <1>3
  <2> QED BY <2>1, PruneReached
<1> QED BY <1>1, <1>2, <1>3 DEF Writing

\* A transaction that is through is the effect AtomicStore speaks of.
LEMMA ThroughIsEffect ==
  ASSUME NEW what, Writing(what), tables \in Tables,
         NEW tab, tab = After(what, Len(Statements(what)), tables)
  PROVE  [buckets |-> States(tab), spaces |-> NamespaceStates(tab), samples |-> tab.hours]
           = Promise!Effect(what)
<1> DEFINE n == Len(Statements(what))
           s == [buckets |-> States(tables), spaces |-> NamespaceStates(tables),
                 samples |-> tables.hours]
<1>1. n \in Nat \ {0}
  BY StatementsReach
<1>2. CASE what \in [kind : {"replace"}, arg : Observations] /\ Valid(what.arg)
  <2> DEFINE obs == what.arg
             L == Len(obs.rows)
  <2>1. /\ what = [kind |-> "replace", arg |-> obs] /\ obs \in Promise!Observation
        /\ L \in Nat /\ obs.rows \in Seq(Promise!StateRow)
        /\ obs.namespace \in Namespaces /\ obs.state \in Promise!Limit
    BY <1>2, StoreAssumption DEF Promise!Observation
  <2>2. n = L + 2
    BY <2>1, ReplaceStatements DEF Statements
  <2> HIDE DEF n
  <2>3. tab = Replaced(obs, n, tables)
    BY <1>1, <2>1 DEF After, n
  <2>4. Promise!Effect(what) = [s EXCEPT
          !.buckets[obs.namespace] = [b \in Buckets |-> Promise!LastRow(obs.rows, b)],
          !.spaces[obs.namespace] = obs.state]
    BY <2>1 DEF Promise!Effect, Promise!AfterReplace
  <2>5. Promise!Effect(what) =
          [buckets |-> [m \in Namespaces |->
             IF m = obs.namespace THEN [b \in Buckets |-> Promise!LastRow(obs.rows, b)]
             ELSE States(tables)[m]],
           spaces |-> [m \in Namespaces |->
             IF m = obs.namespace THEN obs.state ELSE NamespaceStates(tables)[m]],
           samples |-> tables.hours]
    <3> DEFINE rows == [b \in Buckets |-> Promise!LastRow(obs.rows, b)]
               states == States(tables)
               spaces == NamespaceStates(tables)
    <3>1. states = [m \in Namespaces |-> states[m]] /\ spaces = [m \in Namespaces |-> spaces[m]]
      BY DEF States, NamespaceStates
    <3>2. s = [buckets |-> states, spaces |-> spaces, samples |-> tables.hours]
      OBVIOUS
    <3>3. Promise!Effect(what)
            = [s EXCEPT !.buckets[obs.namespace] = rows, !.spaces[obs.namespace] = obs.state]
      BY <2>4
    <3> HIDE DEF rows, states, spaces, s
    <3>4. Promise!Effect(what) =
            [buckets |-> [m \in Namespaces |-> IF m = obs.namespace THEN rows ELSE states[m]],
             spaces |-> [m \in Namespaces |-> IF m = obs.namespace THEN obs.state ELSE spaces[m]],
             samples |-> tables.hours]
      <4>1. Promise!Effect(what) = [buckets |-> [states EXCEPT ![obs.namespace] = rows],
                                    spaces |-> [spaces EXCEPT ![obs.namespace] = obs.state],
                                    samples |-> tables.hours]
        BY <3>2, <3>3
      <4>2. [states EXCEPT ![obs.namespace] = rows]
              = [m \in Namespaces |-> IF m = obs.namespace THEN rows ELSE states[m]]
        BY <3>1
      <4>3. [spaces EXCEPT ![obs.namespace] = obs.state]
              = [m \in Namespaces |-> IF m = obs.namespace THEN obs.state ELSE spaces[m]]
        BY <3>1
      <4> QED BY <4>1, <4>2, <4>3
    <3> QED BY <3>4 DEF rows, states, spaces
  <2>6. ASSUME NEW m \in Namespaces, NEW b \in Buckets
        PROVE  Scanned(tab.rows[<<m, b>>])
                 = IF m = obs.namespace THEN Promise!LastRow(obs.rows, b)
                   ELSE Scanned(tables.rows[<<m, b>>])
    <3>1. tab.rows[<<m, b>>] = IF m = obs.namespace THEN Latest(obs.rows, b, n - 1)
                               ELSE tables.rows[<<m, b>>]
      BY <2>3 DEF Replaced, Keys
    <3>2. n - 1 \in Nat /\ n - 1 >= L
      BY <2>1, <2>2
    <3>3. Scanned(Latest(obs.rows, b, n - 1)) = Promise!LastRow(obs.rows, b)
      BY <2>1, <3>2, LatestEnds
    <3> QED BY <3>1, <3>3
  <2>7. ASSUME NEW m \in Namespaces
        PROVE  Scanned(tab.spaces[m])
                 = IF m = obs.namespace THEN obs.state ELSE Scanned(tables.spaces[m])
    <3>1. tab.spaces[m] = IF m = obs.namespace THEN BindLimit(obs.state) ELSE tables.spaces[m]
      BY <2>2, <2>3 DEF Replaced
    <3> QED BY <2>1, <3>1, ScanBind
  <2>8. States(tab) = [m \in Namespaces |->
             IF m = obs.namespace THEN [b \in Buckets |-> Promise!LastRow(obs.rows, b)]
             ELSE States(tables)[m]]
    BY <2>6 DEF States
  <2>9. NamespaceStates(tab) = [m \in Namespaces |->
             IF m = obs.namespace THEN obs.state ELSE NamespaceStates(tables)[m]]
    BY <2>7 DEF NamespaceStates
  <2>10. tab.hours = tables.hours
    BY <2>3 DEF Replaced
  <2> QED BY <2>5, <2>8, <2>9, <2>10
<1>3. CASE what \in [kind : {"record"}, arg : Deltas] /\ what.arg # <<>>
  <2> DEFINE deltas == what.arg
  <2>1. /\ what = [kind |-> "record", arg |-> deltas] /\ deltas \in Seq(Buckets)
    BY <1>3, StoreAssumption
  <2>2. n = Len(deltas)
    BY <2>1 DEF Statements, Record
  <2> HIDE DEF n
  <2>3. tab = Recorded(deltas, n, tables)
    BY <1>1, <2>1 DEF After, n
  <2>4. Promise!Effect(what) = [s EXCEPT !.samples =
           [b \in Buckets |-> s.samples[b] + Promise!HowOften(deltas, b)]]
    BY <2>1 DEF Promise!Effect, Promise!AfterRecord
  <2>5. \A b \in Buckets : Seen(deltas, b, n) = Promise!HowOften(deltas, b)
    BY <2>1, <2>2, SeenFacts
  <2>6. tab.hours = [b \in Buckets |-> tables.hours[b] + Promise!HowOften(deltas, b)]
    BY <2>3, <2>5 DEF Recorded
  <2>7. States(tab) = States(tables) /\ NamespaceStates(tab) = NamespaceStates(tables)
    BY <2>3 DEF Recorded, States, NamespaceStates
  <2> QED BY <2>4, <2>6, <2>7
<1>4. CASE what \in [kind : {"prune"}, arg : {None}]
  <2>1. what = [kind |-> "prune", arg |-> None]
    BY <1>4
  <2>2. tab = Pruned(tables)
    BY <1>1, <2>1 DEF After
  <2>3. Promise!Effect(what) = [s EXCEPT !.samples = [b \in Buckets |-> 0]]
    BY <2>1 DEF Promise!Effect
  <2>4. States(tab) = States(tables) /\ NamespaceStates(tab) = NamespaceStates(tables)
    BY <2>2 DEF Pruned, States, NamespaceStates
  <2>5. tab.hours = [b \in Buckets |-> 0]
    BY <2>2 DEF Pruned
  <2> QED BY <2>3, <2>4, <2>5
<1> QED BY <1>2, <1>3, <1>4 DEF Writing

----------------------------------------------------------------------------
(***************************************************************************)
(* The inductive invariant.                                                *)
(***************************************************************************)
Labels == {"idle", "called", "run", "rollback", "scan", "return", "failed"}

Typed ==
  /\ tables \in Tables
  /\ call \in [Clients -> Promise!Calls \cup {None}]
  /\ pc \in [Clients -> Labels]
  /\ done \in [Clients -> Nat]
  /\ work \in [Clients -> Tables \cup {None}]
  /\ answer \in [Clients -> Answers]
  /\ locker \in Clients \cup {None}

\* A client that is not in a call has nothing, and answers are held by
\* queries.
Quiet ==
  \A c \in Clients :
    /\ call[c] = None <=> pc[c] = "idle"
    /\ pc[c] \in {"run", "rollback"} => Writing(call[c])
    /\ pc[c] # "scan" => answer[c] = None
    /\ pc[c] # "run" => done[c] = 0

\* What a transaction has done so far is what its statements make of the
\* committed rows, and only the transaction that has the lock has done
\* anything.
Isolated ==
  \A c \in Clients :
    /\ locker = c => pc[c] \in {"run", "rollback"}
    /\ pc[c] = "run" =>
         /\ done[c] <= Len(Statements(call[c]))
         /\ locker = c <=> done[c] # 0
         /\ done[c] # 0 => work[c] = After(call[c], done[c], tables)

StoreInv == Typed /\ Quiet /\ Isolated

LEMMA CallFacts ==
  ASSUME NEW what \in Promise!Calls
  PROVE  /\ what # None
         /\ what.kind \in {"replace", "record", "prune", "states", "spaces", "hours"}
         /\ what.kind = "replace" => what \in [kind : {"replace"}, arg : Observations]
         /\ what.kind = "record" => what \in [kind : {"record"}, arg : Deltas]
         /\ what.kind = "prune" => what \in [kind : {"prune"}, arg : {None}]
BY NoneAssumption DEF Promise!Calls

LEMMA StoreInitInv == Init => StoreInv
<1> SUFFICES ASSUME Init PROVE StoreInv
  OBVIOUS
<1>1. Typed
  BY StoreAssumption DEF Init, Typed, Labels, Answers
<1> QED BY <1>1, NoneAssumption DEF Init, StoreInv, Quiet, Isolated

\* The call of a client that has begun a transaction.
LEMMA WritingCall ==
  ASSUME StoreInv, NEW c \in Clients, pc[c] \in {"run", "rollback"}
  PROVE  /\ Writing(call[c])
         /\ Len(Statements(call[c])) \in Nat \ {0}
         /\ \A n \in 0 .. Len(Statements(call[c])) : Reached(call[c], n, tables)
BY StatementsReach DEF StoreInv, Typed, Quiet

LEMMA BeginGood ==
  ASSUME StoreInv, NEW c \in Clients, Begin(c)
  PROVE  StoreInv'
<1>1. pc' = [pc EXCEPT ![c] = "run"] /\ pc[c] = "called"
      /\ UNCHANGED <<tables, call, done, work, locker, answer>>
  BY DEF Begin, Goto
<1>2. Writing(call[c])
  <2>1. call[c] \in Promise!Calls
    BY <1>1 DEF StoreInv, Typed, Quiet
  <2>2. /\ call[c].kind \in {"replace", "record", "prune"}
        /\ call[c].kind = "replace" => Valid(call[c].arg)
        /\ call[c].kind = "record" => call[c].arg # <<>>
    BY <1>1 DEF Begin, Writes, Refused, Nothing, Is
  <2> QED BY <2>1, <2>2, CallFacts DEF Writing
<1>3. Len(Statements(call[c])) \in Nat /\ done[c] = 0 /\ locker # c
  BY <1>1, <1>2, StatementsReach DEF StoreInv, Typed, Quiet, Isolated
<1>4. Typed'
  BY <1>1 DEF StoreInv, Typed, Labels
<1>5. Quiet'
  BY <1>1, <1>2 DEF StoreInv, Typed, Quiet
<1>6. Isolated'
  BY <1>1, <1>3 DEF StoreInv, Typed, Isolated
<1> QED BY <1>4, <1>5, <1>6 DEF StoreInv

LEMMA ExecuteGood ==
  ASSUME StoreInv, NEW c \in Clients, Execute(c)
  PROVE  StoreInv'
<1> DEFINE n == done[c]
           L == Len(Statements(call[c]))
           t == Executed(Statements(call[c])[n + 1], IF locker = c THEN work[c] ELSE tables)
<1>1. /\ pc[c] = "run" /\ n # L /\ locker \in {None, c} /\ locker' = c
      /\ done' = [done EXCEPT ![c] = n + 1]
      /\ UNCHANGED <<tables, call, pc, answer>>
  BY DEF Execute, AllDone
<1>2. /\ n \in Nat /\ L \in Nat /\ n <= L
      /\ \A i \in 0..L : Reached(call[c], i, tables)
      /\ locker = c <=> n # 0
      /\ n # 0 => work[c] = After(call[c], n, tables)
      /\ done \in [Clients -> Nat] /\ work \in [Clients -> Tables \cup {None}]
  BY <1>1, WritingCall DEF StoreInv, Typed, Isolated
<1>3. done'[c] = n + 1
  BY <1>1, <1>2
<1>4. work' = [work EXCEPT ![c] = t]
  BY <1>3 DEF Execute
<1>5. n \in 0..L /\ n + 1 \in 0..L /\ n < L
  BY <1>1, <1>2
<1>6. t = After(call[c], n + 1, tables) /\ t \in Tables
  <2>1. (IF locker = c THEN work[c] ELSE tables) = After(call[c], n, tables)
    <3>1. n = 0 => After(call[c], n, tables) = tables
      BY DEF After
    <3> QED BY <1>2, <3>1
  <2> QED BY <1>2, <1>5, <2>1 DEF Reached
<1> HIDE DEF n, L, t
<1>7. Typed'
  BY <1>1, <1>2, <1>4, <1>6 DEF StoreInv, Typed
<1>8. Quiet'
  BY <1>1, <1>2 DEF StoreInv, Typed, Quiet
<1>9. Isolated'
  <2> SUFFICES ASSUME NEW d \in Clients
               PROVE  /\ locker' = d => pc[d] \in {"run", "rollback"}
                      /\ pc[d] = "run" =>
                           /\ done'[d] <= Len(Statements(call[d]))
                           /\ locker' = d <=> done'[d] # 0
                           /\ done'[d] # 0 => work'[d] = After(call[d], done'[d], tables)
    BY <1>1 DEF Isolated
  <2>1. CASE d = c
    BY <1>1, <1>2, <1>3, <1>4, <1>5, <1>6, <2>1 DEF L
  <2>2. CASE d # c
    <3>1. done'[d] = done[d] /\ work'[d] = work[d] /\ locker' # d /\ locker # d
      BY <1>1, <1>2, <1>4, <2>2, NoneAssumption
    <3> QED BY <3>1 DEF StoreInv, Isolated
  <2> QED BY <2>1, <2>2
<1> QED BY <1>7, <1>8, <1>9 DEF StoreInv

LEMMA CommitGood ==
  ASSUME StoreInv, NEW c \in Clients, NEW took \in BOOLEAN, NEW told \in BOOLEAN,
         Commit(c, took, told)
  PROVE  /\ StoreInv'
         /\ took => tables' = After(call[c], Len(Statements(call[c])), tables)
<1> DEFINE L == Len(Statements(call[c]))
           label == IF told THEN "return" ELSE "failed"
<1>1. /\ pc[c] = "run" /\ done[c] = L /\ locker' = None
      /\ tables' = IF took THEN work[c] ELSE tables
      /\ done' = [done EXCEPT ![c] = 0]
      /\ work' = [work EXCEPT ![c] = None]
      /\ pc' = [pc EXCEPT ![c] = label]
      /\ UNCHANGED <<call, answer>>
  BY DEF Commit, AllDone, Goto
<1>2. L \in Nat \ {0} /\ Reached(call[c], L, tables)
  BY <1>1, WritingCall
<1>3. locker = c /\ work[c] = After(call[c], L, tables) /\ work[c] \in Tables
  BY <1>1, <1>2 DEF StoreInv, Isolated, Reached
<1> HIDE DEF L
<1>4. Typed'
  BY <1>1, <1>3 DEF StoreInv, Typed, Labels
<1>5. Quiet'
  BY <1>1 DEF StoreInv, Typed, Quiet
<1>6. Isolated'
  <2> SUFFICES ASSUME NEW d \in Clients
               PROVE  /\ locker' # d
                      /\ pc'[d] = "run" =>
                           /\ done'[d] <= Len(Statements(call[d]))
                           /\ done'[d] = 0
    BY <1>1 DEF Isolated
  <2>1. CASE d = c
    BY <1>1, <2>1, NoneAssumption DEF StoreInv, Typed
  <2>2. CASE d # c
    <3>1. pc'[d] = pc[d] /\ done'[d] = done[d]
      BY <1>1, <2>2 DEF StoreInv, Typed
    <3> QED BY <1>1, <1>3, <2>2, <3>1, NoneAssumption DEF StoreInv, Isolated
  <2> QED BY <2>1, <2>2
<1>7. took => tables' = After(call[c], L, tables)
  BY <1>1, <1>3
<1> QED BY <1>4, <1>5, <1>6, <1>7 DEF StoreInv, L

\* A step of c that neither begins nor does work on the tables.
LEMMA PlainStepGood ==
  ASSUME StoreInv, NEW c \in Clients, NEW label \in Labels \ {"run"},
         pc' = [pc EXCEPT ![c] = label],
         tables' = tables,
         done' = [done EXCEPT ![c] = 0],
         call' \in [Clients -> Promise!Calls \cup {None}],
         answer' \in [Clients -> Answers],
         work' \in [Clients -> Tables \cup {None}],
         \A d \in Clients : d # c =>
           call'[d] = call[d] /\ answer'[d] = answer[d] /\ work'[d] = work[d],
         call'[c] = None <=> label = "idle",
         label = "rollback" => Writing(call'[c]),
         label # "scan" => answer'[c] = None,
         \/ locker' = locker /\ (locker = c => label = "rollback")
         \/ locker' = None /\ locker = c
  PROVE  StoreInv'
<1>1. /\ pc'[c] = label /\ done'[c] = 0
      /\ \A d \in Clients : d # c => pc'[d] = pc[d] /\ done'[d] = done[d]
  BY DEF StoreInv, Typed
<1>2. Typed'
  BY DEF StoreInv, Typed, Labels
<1>3. Quiet'
  <2> SUFFICES ASSUME NEW d \in Clients
               PROVE  /\ call'[d] = None <=> pc'[d] = "idle"
                      /\ pc'[d] \in {"run", "rollback"} => Writing(call'[d])
                      /\ pc'[d] # "scan" => answer'[d] = None
                      /\ pc'[d] # "run" => done'[d] = 0
    BY DEF Quiet
  <2>1. CASE d = c
    BY <1>1, <2>1
  <2>2. CASE d # c
    BY <1>1, <2>2 DEF StoreInv, Quiet
  <2> QED BY <2>1, <2>2
<1>4. Isolated'
  <2> SUFFICES ASSUME NEW d \in Clients
               PROVE  /\ locker' = d => pc'[d] \in {"run", "rollback"}
                      /\ pc'[d] = "run" =>
                           /\ done'[d] <= Len(Statements(call'[d]))
                           /\ locker' = d <=> done'[d] # 0
                           /\ done'[d] # 0 => work'[d] = After(call'[d], done'[d], tables)
    BY DEF Isolated
  <2>1. CASE d = c
    BY <1>1, <2>1, NoneAssumption DEF StoreInv, Typed
  <2>2. CASE d # c
    <3>1. /\ pc'[d] = pc[d] /\ done'[d] = done[d] /\ call'[d] = call[d] /\ work'[d] = work[d]
          /\ locker' = d <=> locker = d
      BY <1>1, <2>2, NoneAssumption
    <3> QED BY <3>1 DEF StoreInv, Isolated
  <2> QED BY <2>1, <2>2
<1> QED BY <1>2, <1>3, <1>4 DEF StoreInv

LEMMA StoreNextInv == StoreInv /\ [Next]_vars => StoreInv'
<1> SUFFICES ASSUME StoreInv, [Next]_vars PROVE StoreInv'
  OBVIOUS
<1> USE DEF Goto
<1>1. /\ call \in [Clients -> Promise!Calls \cup {None}]
      /\ answer \in [Clients -> Answers] /\ work \in [Clients -> Tables \cup {None}]
      /\ done \in [Clients -> Nat] /\ None \in Answers
      /\ \A d \in Clients : /\ locker = d => pc[d] \in {"run", "rollback"}
                            /\ call[d] = None <=> pc[d] = "idle"
                            /\ pc[d] # "scan" => answer[d] = None
                            /\ pc[d] # "run" => done[d] = 0
                            /\ pc[d] \in {"run", "rollback"} => Writing(call[d])
  BY DEF StoreInv, Typed, Quiet, Isolated, Answers
<1>2. \A d \in Clients : done[d] = 0 => done = [done EXCEPT ![d] = 0]
  BY <1>1
<1>3. ASSUME NEW c \in Clients, NEW what \in Promise!Calls, Invoke(c, what)
      PROVE  StoreInv'
  <2>1. /\ pc' = [pc EXCEPT ![c] = "called"] /\ call' = [call EXCEPT ![c] = what]
        /\ pc[c] = "idle" /\ UNCHANGED <<tables, done, work, locker, answer>>
    BY <1>1, <1>3 DEF Invoke
  <2>2. what # None /\ locker # c /\ answer[c] = None /\ done[c] = 0
    BY <1>1, <2>1, CallFacts
  <2>3. "called" \in Labels \ {"run"}
    BY DEF Labels
  <2> QED BY <1>1, <1>2, <2>1, <2>2, <2>3, PlainStepGood
<1>4. ASSUME NEW c \in Clients, NEW label \in {"return", "failed"},
             pc[c] = "called", Goto(c, label), UNCHANGED <<tables, call, done, work, locker, answer>>
      PROVE  StoreInv'
  <2>1. locker # c /\ answer[c] = None /\ done[c] = 0 /\ call[c] # None
    BY <1>1, <1>4
  <2>2. label \in Labels \ {"run"}
    BY DEF Labels
  <2> QED BY <1>1, <1>2, <1>4, <2>1, <2>2, PlainStepGood
<1>5. ASSUME NEW c \in Clients, ReturnEarly(c)
      PROVE  StoreInv'
  <2> DEFINE label == IF Nothing(c) THEN "return" ELSE "failed"
  <2>1. label \in {"return", "failed"}
    OBVIOUS
  <2>2. pc[c] = "called" /\ Goto(c, label) /\ UNCHANGED <<tables, call, done, work, locker, answer>>
    BY <1>5 DEF ReturnEarly
  <2> HIDE DEF label
  <2> QED BY <1>4, <2>1, <2>2
<1>6. ASSUME NEW c \in Clients, NotBegun(c)
      PROVE  StoreInv'
  BY <1>4, <1>6 DEF NotBegun
<1>7. ASSUME NEW c \in Clients, Query(c)
      PROVE  StoreInv'
  <2> DEFINE found == CASE call[c].kind = "states" -> States(tables)
                        [] call[c].kind = "spaces" -> NamespaceStates(tables)
                        [] OTHER -> tables.hours
  <2>1. /\ pc' = [pc EXCEPT ![c] = "scan"] /\ answer' = [answer EXCEPT ![c] = found]
        /\ pc[c] = "called" /\ UNCHANGED <<tables, call, done, work, locker>>
    BY <1>7 DEF Query
  <2>2. locker # c /\ done[c] = 0 /\ call[c] # None
    BY <1>1, <2>1
  <2>3. found \in Answers
    BY StatesType DEF StoreInv, Typed, Tables, Answers
  <2>4. "scan" \in Labels \ {"run"}
    BY DEF Labels
  <2> HIDE DEF found
  <2>5. answer' \in [Clients -> Answers] /\ \A d \in Clients : d # c => answer'[d] = answer[d]
    BY <1>1, <2>1, <2>3
  <2> QED BY <1>1, <1>2, <2>1, <2>2, <2>4, <2>5, PlainStepGood
<1>8. ASSUME NEW c \in Clients, ExecuteFailed(c)
      PROVE  StoreInv'
  <2>1. /\ pc' = [pc EXCEPT ![c] = "rollback"] /\ done' = [done EXCEPT ![c] = 0]
        /\ work' = [work EXCEPT ![c] = None]
        /\ pc[c] = "run" /\ UNCHANGED <<tables, call, locker, answer>>
    BY <1>8 DEF ExecuteFailed
  <2>2. Writing(call[c]) /\ answer[c] = None /\ call[c] # None
    BY <1>1, <2>1
  <2>3. "rollback" \in Labels \ {"run"}
    BY DEF Labels
  <2>4. /\ work' \in [Clients -> Tables \cup {None}]
        /\ \A d \in Clients : d # c => work'[d] = work[d]
    BY <1>1, <2>1
  <2> QED BY <1>1, <2>1, <2>2, <2>3, <2>4, PlainStepGood
<1>9. ASSUME NEW c \in Clients, Rollback(c)
      PROVE  StoreInv'
  <2>1. /\ pc' = [pc EXCEPT ![c] = "failed"]
        /\ locker' = IF locker = c THEN None ELSE locker
        /\ pc[c] = "rollback" /\ UNCHANGED <<tables, call, done, work, answer>>
    BY <1>9 DEF Rollback
  <2>2. answer[c] = None /\ call[c] # None /\ done[c] = 0
    BY <1>1, <2>1
  <2>3. "failed" \in Labels \ {"run"}
    BY DEF Labels
  <2>4. \/ locker' = locker /\ locker # c
        \/ locker' = None /\ locker = c
    BY <2>1
  <2> QED BY <1>1, <1>2, <2>1, <2>2, <2>3, <2>4, PlainStepGood
<1>10. ASSUME NEW c \in Clients, NEW read \in BOOLEAN, Scan(c, read)
       PROVE  StoreInv'
  <2> DEFINE label == IF read THEN "idle" ELSE "failed"
  <2>1. /\ pc' = [pc EXCEPT ![c] = label]
        /\ call' = [call EXCEPT ![c] = IF read THEN None ELSE call[c]]
        /\ answer' = [answer EXCEPT ![c] = None]
        /\ pc[c] = "scan" /\ UNCHANGED <<tables, done, work, locker>>
    BY <1>10 DEF Scan
  <2>2. locker # c /\ done[c] = 0 /\ call[c] # None
    BY <1>1, <2>1
  <2>3. label \in Labels \ {"run"} /\ label # "rollback"
    BY DEF Labels
  <2>4. /\ answer' \in [Clients -> Answers] /\ answer'[c] = None
        /\ call' \in [Clients -> Promise!Calls \cup {None}]
        /\ call'[c] = None <=> label = "idle"
        /\ \A d \in Clients : d # c => answer'[d] = answer[d] /\ call'[d] = call[d]
    BY <1>1, <2>1, <2>2
  <2> HIDE DEF label
  <2> QED BY <1>1, <1>2, <2>1, <2>2, <2>3, <2>4, PlainStepGood
<1>11. ASSUME NEW c \in Clients, Return(c)
       PROVE  StoreInv'
  <2>1. /\ pc' = [pc EXCEPT ![c] = "idle"] /\ call' = [call EXCEPT ![c] = None]
        /\ pc[c] \in {"return", "failed"} /\ UNCHANGED <<tables, done, work, locker, answer>>
    BY <1>11 DEF Return
  <2>2. locker # c /\ done[c] = 0 /\ answer[c] = None
    BY <1>1, <2>1
  <2>3. "idle" \in Labels \ {"run"}
    BY DEF Labels
  <2>4. /\ call' \in [Clients -> Promise!Calls \cup {None}] /\ call'[c] = None
        /\ \A d \in Clients : d # c => call'[d] = call[d]
    BY <1>1, <2>1
  <2> QED BY <1>1, <1>2, <2>1, <2>2, <2>3, <2>4, PlainStepGood
<1>12. ASSUME NEW p \in Pods, Crash(p)
       PROVE  StoreInv'
  <2>1. /\ tables' = tables
        /\ \A d \in Clients : d[1] = p =>
             call'[d] = None /\ pc'[d] = "idle" /\ done'[d] = 0 /\ answer'[d] = None
        /\ \A d \in Clients : d[1] # p =>
             call'[d] = call[d] /\ pc'[d] = pc[d] /\ done'[d] = done[d] /\ answer'[d] = answer[d]
             /\ work'[d] = work[d] /\ (locker' = d <=> locker = d)
        /\ \A d \in Clients : locker' = d => d[1] # p /\ locker = d
    BY <1>12, NoneAssumption DEF Crash
  <2>2. Typed'
    BY <1>12 DEF Crash, StoreInv, Typed, Labels, Answers
  <2>3. Quiet' /\ Isolated'
    BY <2>1 DEF StoreInv, Quiet, Isolated
  <2> QED BY <2>2, <2>3 DEF StoreInv
<1>13. CASE UNCHANGED vars
  BY <1>13 DEF vars, session, StoreInv, Typed, Quiet, Isolated
<1> QED BY <1>3, <1>5, <1>6, <1>7, <1>8, <1>9, <1>10, <1>11, <1>12, <1>13,
           BeginGood, ExecuteGood, CommitGood DEF Next, Acquire, Step

----------------------------------------------------------------------------
(***************************************************************************)
(* Connections. A pod has a poller and at most one handler here, so that   *)
(* the calls it has under way can be counted.                              *)
(***************************************************************************)
Connected == {"run", "rollback", "scan"}

PoolInv ==
  /\ leased \in [Pods -> 0..PoolSize]
  /\ \A p \in Pods : leased[p] = Cardinality(Holders(p))

LEMMA ClientsOfPod ==
  ASSUME NEW p, NEW S, S \subseteq Clients, \A c \in S : c[1] = p
  PROVE  IsFiniteSet(S)
<1> DEFINE Two == {<<p, "poller">>} \cup {<<p, "handler">>}
<1>1. IsFiniteSet(Two)
  BY FS_Singleton, FS_AddElement
<1>2. S \subseteq Two
  BY StoreAssumption
<1> QED BY <1>1, <1>2, FS_Subset

LEMMA ClientPod == \A c \in Clients : c[1] \in Pods
BY StoreAssumption

\* A call gets a connection, gives it back, or goes on as it is.
LEMMA LeaseKeeps ==
  ASSUME PoolInv, pc \in [Clients -> Labels], NEW c \in Clients, NEW label,
         pc' = [pc EXCEPT ![c] = label],
         \/ leased' = leased /\ (pc[c] \in Connected <=> label \in Connected)
         \/ /\ pc[c] \notin Connected /\ label \in Connected
            /\ leased[c[1]] < PoolSize /\ Lease(c, 1)
         \/ pc[c] \in Connected /\ label \notin Connected /\ Lease(c, -1)
  PROVE  PoolInv'
<1> DEFINE p == c[1]
           H(q) == {d \in Clients : d[1] = q /\ pc[d] \in Connected}
           G(q) == {d \in Clients : d[1] = q /\ pc'[d] \in Connected}
<1>1. \A q : Holders(q) = H(q) /\ Holders(q)' = G(q)
  BY DEF Holders, Connected
<1>2. p \in Pods /\ PoolSize \in Nat \ {0}
  BY ClientPod, StoreAssumption
<1>3. leased \in [Pods -> 0..PoolSize] /\ \A q \in Pods : leased[q] = Cardinality(H(q))
  BY <1>1 DEF PoolInv
<1>4. \A q \in Pods : q # p => G(q) = H(q)
  OBVIOUS
<1>5. IsFiniteSet(H(p))
  BY ClientsOfPod
<1>6. G(p) = IF label \in Connected THEN H(p) \cup {c} ELSE H(p) \ {c}
  OBVIOUS
<1>7. c \in H(p) <=> pc[c] \in Connected
  OBVIOUS
<1> HIDE DEF H, G, p
<1>8. Cardinality(G(p)) = IF label \in Connected
                          THEN IF c \in H(p) THEN Cardinality(H(p)) ELSE Cardinality(H(p)) + 1
                          ELSE IF c \in H(p) THEN Cardinality(H(p)) - 1 ELSE Cardinality(H(p))
  BY <1>5, <1>6, FS_AddElement, FS_RemoveElement
<1>9. leased'[p] = Cardinality(G(p)) /\ leased'[p] \in 0..PoolSize
  <2>1. Cardinality(H(p)) \in Nat /\ Cardinality(H(p)) = leased[p] /\ leased[p] \in 0..PoolSize
    BY <1>2, <1>3, <1>5, FS_CardinalityType
  <2>2. c \in H(p) => Cardinality(H(p)) # 0
    BY <1>5, FS_EmptySet
  <2>3. leased' = leased \/ leased' = [leased EXCEPT ![p] = @ + 1]
                         \/ leased' = [leased EXCEPT ![p] = @ + (-1)]
    BY DEF Lease, p
  <2>4. CASE leased' = leased /\ (pc[c] \in Connected <=> label \in Connected)
    BY <1>7, <1>8, <2>1, <2>4
  <2>5. CASE /\ pc[c] \notin Connected /\ label \in Connected
             /\ leased[c[1]] < PoolSize /\ Lease(c, 1)
    <3>1. leased'[p] = leased[p] + 1 /\ leased[p] < PoolSize
      BY <1>2, <1>3, <2>5 DEF Lease, p
    <3> QED BY <1>2, <1>7, <1>8, <2>1, <2>5, <3>1
  <2>6. CASE pc[c] \in Connected /\ label \notin Connected /\ Lease(c, -1)
    <3>1. leased'[p] = leased[p] + (-1)
      BY <1>2, <1>3, <2>6 DEF Lease, p
    <3> QED BY <1>2, <1>7, <1>8, <2>1, <2>2, <2>6, <3>1
  <2> QED BY <2>4, <2>5, <2>6
<1>10. \A q \in Pods : q # p => leased'[q] = leased[q]
  BY <1>3 DEF Lease, p
<1>11. leased' \in [Pods -> 0..PoolSize]
  <2>1. leased' = [q \in Pods |-> leased'[q]]
    BY <1>3 DEF Lease
  <2>2. \A q \in Pods : leased'[q] \in 0..PoolSize
    BY <1>3, <1>9, <1>10
  <2> QED BY <2>1, <2>2
<1>12. \A q \in Pods : leased'[q] = Cardinality(G(q))
  BY <1>3, <1>4, <1>9, <1>10
<1> QED BY <1>1, <1>11, <1>12 DEF PoolInv

LEMMA StepPoolInv == StoreInv /\ PoolInv /\ [Next]_vars => PoolInv'
<1> SUFFICES ASSUME StoreInv, PoolInv, [Next]_vars PROVE PoolInv'
  OBVIOUS
<1> USE DEF Connected
<1>1. pc \in [Clients -> Labels]
  BY DEF StoreInv, Typed
<1>2. ASSUME pc' = pc, leased' = leased
      PROVE  PoolInv'
  <2>1. \A q : Holders(q)' = Holders(q)
    BY <1>2 DEF Holders
  <2> QED BY <1>2, <2>1 DEF PoolInv
<1>3. ASSUME NEW c \in Clients, NEW label, pc' = [pc EXCEPT ![c] = label],
             \/ leased' = leased /\ (pc[c] \in Connected <=> label \in Connected)
             \/ /\ pc[c] \notin Connected /\ label \in Connected
                /\ leased[c[1]] < PoolSize /\ Lease(c, 1)
             \/ pc[c] \in Connected /\ label \notin Connected /\ Lease(c, -1)
      PROVE  PoolInv'
  BY <1>1, <1>3, LeaseKeeps
<1>4. ASSUME NEW c \in Clients, NEW what \in Promise!Calls, Invoke(c, what)
      PROVE  PoolInv'
  <2>1. pc[c] = "idle" /\ pc' = [pc EXCEPT ![c] = "called"] /\ leased' = leased
    BY <1>4 DEF Invoke, Goto, StoreInv, Quiet
  <2> QED BY <1>3, <2>1
<1>5. ASSUME NEW c \in Clients, ReturnEarly(c) \/ NotBegun(c)
      PROVE  PoolInv'
  <2>1. PICK label \in {"return", "failed"} :
          pc[c] = "called" /\ pc' = [pc EXCEPT ![c] = label] /\ leased' = leased
    BY <1>5 DEF ReturnEarly, NotBegun, Goto
  <2> QED BY <1>3, <2>1
<1>6. ASSUME NEW c \in Clients, Acquire(c)
      PROVE  PoolInv'
  <2>1. PICK label \in {"run", "scan"} :
          /\ pc[c] = "called" /\ pc' = [pc EXCEPT ![c] = label]
          /\ leased[c[1]] < PoolSize /\ Lease(c, 1)
    BY <1>6 DEF Acquire, Begin, Query, Goto
  <2> QED BY <1>3, <2>1
<1>7. ASSUME NEW c \in Clients, Execute(c)
      PROVE  PoolInv'
  BY <1>2, <1>7 DEF Execute
<1>8. ASSUME NEW c \in Clients, ExecuteFailed(c)
      PROVE  PoolInv'
  <2>1. pc[c] = "run" /\ pc' = [pc EXCEPT ![c] = "rollback"] /\ leased' = leased
    BY <1>8 DEF ExecuteFailed, Goto
  <2> QED BY <1>3, <2>1
<1>9. ASSUME NEW c \in Clients, NEW took \in BOOLEAN, NEW told \in BOOLEAN,
             NEW read \in BOOLEAN, Commit(c, took, told) \/ Rollback(c) \/ Scan(c, read)
      PROVE  PoolInv'
  <2>1. PICK label \in {"return", "failed", "idle"} :
          pc[c] \in Connected /\ pc' = [pc EXCEPT ![c] = label] /\ Lease(c, -1)
    BY <1>9 DEF Commit, Rollback, Scan, Goto
  <2> QED BY <1>3, <2>1
<1>10. ASSUME NEW c \in Clients, Return(c)
       PROVE  PoolInv'
  <2>1. pc[c] \in {"return", "failed"} /\ pc' = [pc EXCEPT ![c] = "idle"] /\ leased' = leased
    BY <1>10 DEF Return, Goto
  <2> QED BY <1>3, <2>1
<1>11. ASSUME NEW p \in Pods, Crash(p)
       PROVE  PoolInv'
  <2>1. /\ leased' = [leased EXCEPT ![p] = 0]
        /\ pc' = [c \in Clients |-> IF c[1] = p THEN "idle" ELSE pc[c]]
    BY <1>11 DEF Crash
  <2>2. Holders(p)' = {} /\ \A q : q # p => Holders(q)' = Holders(q)
    BY <2>1 DEF Holders
  <2>3. PoolSize \in Nat
    BY StoreAssumption
  <2>4. leased' \in [Pods -> 0..PoolSize]
    BY <2>1, <2>3 DEF PoolInv
  <2>5. \A q \in Pods : leased'[q] = Cardinality(Holders(q)')
    BY <2>1, <2>2, FS_EmptySet DEF PoolInv
  <2> QED BY <2>4, <2>5 DEF PoolInv
<1>12. CASE UNCHANGED vars
  BY <1>2, <1>12 DEF vars, session
<1> QED BY <1>4, <1>5, <1>6, <1>7, <1>8, <1>9, <1>10, <1>11, <1>12 DEF Next, Step

\* Whatever fails and whichever pod dies, and whatever SetMaxOpenConns is: the
\* connections in use are those of the calls under way, and the lock belongs to a
\* transaction, so that the deferred Rollback and rows.Close lose neither.
THEOREM PoolProof == Spec => []PoolIsAccounted
<1>1. Init => PoolInv
  <2> SUFFICES ASSUME Init PROVE PoolInv
    OBVIOUS
  <2>1. leased = [p \in Pods |-> 0] /\ \A p : Holders(p) = {}
    BY DEF Init, Holders
  <2>2. PoolSize \in Nat
    BY StoreAssumption
  <2> QED BY <2>1, <2>2, FS_EmptySet DEF PoolInv
<1>2. StoreInv /\ PoolInv => PoolIsAccounted
  <2> SUFFICES ASSUME StoreInv, PoolInv PROVE PoolIsAccounted
    OBVIOUS
  <2>1. locker # None => pc[locker] \in {"run", "rollback"}
    BY DEF StoreInv, Typed, Isolated
  <2>2. PoolSize \in Nat
    BY StoreAssumption
  <2>3. \A p \in Pods : leased[p] = Cardinality(Holders(p)) /\ leased[p] <= PoolSize
    BY <2>2 DEF PoolInv
  <2> QED BY <2>1, <2>3 DEF PoolIsAccounted
<1> QED BY <1>1, <1>2, StoreInitInv, StoreNextInv, StepPoolInv, PTL DEF Spec

----------------------------------------------------------------------------
(***************************************************************************)
(* Every step is a step of AtomicStore, or none.                           *)
(***************************************************************************)
Calls == [c \in Clients |-> CallOf(c)]

\* A call whose phase and answer are set.
Set(r, phase, found) == [r EXCEPT !.phase = phase, !.answer = found]

LEMMA PhaseAndAnswer ==
  ASSUME NEW r, NEW what, NEW before, NEW was, NEW phase, NEW found,
         r = [call |-> what, phase |-> before, answer |-> was]
  PROVE  Set(r, phase, found) = [call |-> what, phase |-> phase, answer |-> found]
<1> DEFINE q == [r EXCEPT !.phase = phase]
<1>1. q = [call |-> what, phase |-> phase, answer |-> was]
  OBVIOUS
<1>2. Set(r, phase, found) = [q EXCEPT !.answer = found]
  BY DEF Set
<1> HIDE DEF q
<1>3. [q EXCEPT !.answer = found] = [call |-> what, phase |-> phase, answer |-> found]
  BY <1>1
<1> QED BY <1>2, <1>3

\* What AtomicStore's actions say, of the call as a record.
LEMMA PromisedActions ==
  ASSUME StoreInv, NEW c \in Clients, call[c] # None
  PROVE  /\ Calls[c] # None
         /\ Calls[c] = [call |-> call[c], phase |-> Phase(pc[c]), answer |-> answer[c]]
<1>1. CallOf(c) \in InProgress
  <2>1. call[c] \in Promise!Calls /\ answer[c] \in Answers
    BY DEF StoreInv, Typed
  <2>2. Phase(pc[c]) \in {"pending", "applied", "failed"}
    BY DEF Phase
  <2> QED BY <2>1, <2>2 DEF CallOf, InProgress
<1>2. CallOf(c) = [call |-> call[c], phase |-> Phase(pc[c]), answer |-> answer[c]]
  BY DEF CallOf
<1> QED BY <1>1, <1>2, NoneAssumption DEF Calls

\* One client has made a step.
OnlyStep(c) ==
  \A d \in Clients : d # c => call'[d] = call[d] /\ pc'[d] = pc[d] /\ answer'[d] = answer[d]

LEMMA OneCallChanges ==
  ASSUME NEW c \in Clients, OnlyStep(c)
  PROVE  Calls' = [Calls EXCEPT ![c] = CallOf(c)']
BY DEF OnlyStep, Calls, CallOf

LEMMA NoCallChanges ==
  ASSUME \A c \in Clients : call'[c] = call[c] /\ Phase(pc'[c]) = Phase(pc[c])
                            /\ answer'[c] = answer[c]
  PROVE  Calls' = Calls
BY DEF Calls, CallOf

LEMMA StutterIsStutter ==
  ASSUME UNCHANGED tables, Calls' = Calls
  PROVE  UNCHANGED Promise!vars
BY DEF Promise!vars, Calls, CallOf, States, NamespaceStates

LEMMA ApplyIsApply ==
  ASSUME StoreInv, NEW c \in Clients, OnlyStep(c), call[c] # None, call'[c] = call[c],
         Phase(pc[c]) = "pending", NEW phase \in {"applied", "failed"}, Phase(pc'[c]) = phase,
         Store' = Promise!Effect(call[c]),
         answer'[c] = IF phase = "failed" THEN None ELSE Promise!Answer(call[c])
  PROVE  Promise!Next
<1> DEFINE next == [call |-> call[c], phase |-> phase,
                    answer |-> IF phase = "failed" THEN None ELSE Promise!Answer(call[c])]
<1>1. Calls[c] # None /\ Calls[c] = [call |-> call[c], phase |-> "pending", answer |-> answer[c]]
  BY PromisedActions
<1>2. Calls' = [Calls EXCEPT ![c] = next]
  <2>1. CallOf(c)' = next
    BY DEF CallOf
  <2> HIDE DEF next
  <2> QED BY <2>1, OneCallChanges
<1>3. Calls' = [Calls EXCEPT ![c].phase = phase,
        ![c].answer = IF phase = "failed" THEN None ELSE Promise!Answer(Calls[c].call)]
  <2>1. DOMAIN Calls = Clients /\ Calls[c].call = call[c]
    BY <1>1 DEF Calls
  <2> DEFINE found == IF phase = "failed" THEN None ELSE Promise!Answer(call[c])
  <2>2. [Calls EXCEPT ![c].phase = phase, ![c].answer = found] = [Calls EXCEPT ![c] = next]
    <3> DEFINE f == Calls
               r == Calls[c]
    <3> HIDE DEF found, r
    <3>0. r = [call |-> call[c], phase |-> "pending", answer |-> answer[c]]
      BY <1>1 DEF r
    <3>1. Set(r, phase, found)
            = [call |-> call[c], phase |-> phase, answer |-> found]
      BY <3>0, PhaseAndAnswer
    <3>2. next = [call |-> call[c], phase |-> phase, answer |-> found]
      BY DEF found
    <3> HIDE DEF f, next
    <3>3. [f EXCEPT ![c].phase = phase, ![c].answer = found]
            = [f EXCEPT ![c] = [f[c] EXCEPT !.phase = phase, !.answer = found]]
      BY <2>1 DEF f
    <3> QED BY <3>1, <3>2, <3>3 DEF f, r, Set
  <2> QED BY <1>2, <2>1, <2>2
<1>4. Promise!Apply(c, phase)
  BY <1>1, <1>3 DEF Promise!Apply, Calls, CallOf, Store
<1> QED BY <1>4 DEF Promise!Next

LEMMA FailIsFail ==
  ASSUME StoreInv, NEW c \in Clients, OnlyStep(c), call[c] # None, call'[c] = call[c],
         Phase(pc[c]) \in {"pending", "applied"}, Phase(pc'[c]) = "failed",
         UNCHANGED tables, answer'[c] = None
  PROVE  Promise!Next
<1> DEFINE next == [call |-> call[c], phase |-> "failed", answer |-> None]
<1>1. /\ Calls[c] # None
      /\ Calls[c] = [call |-> call[c], phase |-> Phase(pc[c]), answer |-> answer[c]]
  BY PromisedActions
<1>2. Calls' = [Calls EXCEPT ![c] = next]
  <2>1. CallOf(c)' = next
    BY DEF CallOf
  <2> HIDE DEF next
  <2> QED BY <2>1, OneCallChanges
<1>3. Calls' = [Calls EXCEPT ![c].phase = "failed", ![c].answer = None]
  <2>1. DOMAIN Calls = Clients
    BY DEF Calls
  <2> DEFINE f == Calls
             r == Calls[c]
  <2> HIDE DEF r
  <2>4. r = [call |-> call[c], phase |-> Phase(pc[c]), answer |-> answer[c]]
    BY <1>1 DEF r
  <2>2. Set(r, "failed", None) = next
    BY <2>4, PhaseAndAnswer
  <2> HIDE DEF f, next
  <2>3. [f EXCEPT ![c].phase = "failed", ![c].answer = None]
          = [f EXCEPT ![c] = [f[c] EXCEPT !.phase = "failed", !.answer = None]]
    BY <2>1 DEF f
  <2> QED BY <1>2, <2>2, <2>3 DEF f, r, Set
<1>4. Promise!Fail(c)
  BY <1>1, <1>3 DEF Promise!Fail, Calls, CallOf, States, NamespaceStates
<1> QED BY <1>4 DEF Promise!Next

LEMMA ReturnIsReturn ==
  ASSUME StoreInv, NEW c \in Clients, OnlyStep(c), call[c] # None, call'[c] = None,
         Phase(pc[c]) \in {"applied", "failed"}, UNCHANGED tables
  PROVE  Promise!Next
<1>1. /\ Calls[c] # None
      /\ Calls[c] = [call |-> call[c], phase |-> Phase(pc[c]), answer |-> answer[c]]
  BY PromisedActions
<1>2. Calls' = [Calls EXCEPT ![c] = None]
  <2>1. CallOf(c)' = None
    BY DEF CallOf
  <2> QED BY <2>1, OneCallChanges
<1>3. Promise!Return(c)
  BY <1>1, <1>2 DEF Promise!Return, Calls, CallOf, States, NamespaceStates
<1> QED BY <1>3 DEF Promise!Next

LEMMA InvokeIsInvoke ==
  ASSUME StoreInv, NEW c \in Clients, NEW what \in Promise!Calls, Invoke(c, what)
  PROVE  Promise!Next
<1>1. /\ call[c] = None /\ call' = [call EXCEPT ![c] = what]
      /\ pc' = [pc EXCEPT ![c] = "called"] /\ UNCHANGED <<tables, answer>>
  BY DEF Invoke, Goto
<1>2. /\ answer[c] = None /\ what # None
      /\ call' \in [Clients -> Promise!Calls \cup {None}] /\ call'[c] = what /\ pc'[c] = "called"
  <2>1. call \in [Clients -> Promise!Calls \cup {None}] /\ pc \in [Clients -> Labels]
    BY DEF StoreInv, Typed
  <2>2. answer[c] = None
    BY <1>1 DEF StoreInv, Quiet
  <2> QED BY <1>1, <2>1, <2>2, CallFacts
<1>3. OnlyStep(c)
  BY <1>1 DEF OnlyStep, StoreInv, Typed
<1>4. Calls' = [Calls EXCEPT ![c] = [call |-> what, phase |-> "pending", answer |-> None]]
  <2>1. CallOf(c)' = [call |-> what, phase |-> "pending", answer |-> None]
    BY <1>1, <1>2 DEF CallOf, Phase
  <2> QED BY <1>3, <2>1, OneCallChanges
<1>5. Promise!Invoke(c, what)
  BY <1>1, <1>4 DEF Promise!Invoke, Calls, CallOf, States, NamespaceStates
<1> QED BY <1>5 DEF Promise!Next

\* A step of c's call that goes to a label and leaves the tables as they are.
LEMMA GotoFacts ==
  ASSUME StoreInv, NEW c \in Clients, NEW label, Goto(c, label), UNCHANGED <<tables, call>>,
         UNCHANGED answer \/ \E found : answer' = [answer EXCEPT ![c] = found]
  PROVE  OnlyStep(c) /\ pc'[c] = label /\ call'[c] = call[c]
<1>1. answer \in [Clients -> Answers] /\ pc \in [Clients -> Labels]
  BY DEF StoreInv, Typed
<1> QED BY <1>1 DEF OnlyStep, Goto

LEMMA ReturnEarlySteps ==
  ASSUME StoreInv, NEW c \in Clients, ReturnEarly(c)
  PROVE  Promise!Next
<1>1. /\ pc[c] = "called" /\ call[c] # None /\ answer[c] = None /\ UNCHANGED <<tables, call, answer>>
  BY DEF ReturnEarly, StoreInv, Quiet
<1>2. Phase(pc[c]) = "pending"
  BY <1>1 DEF Phase
<1>3. CASE Nothing(c)
  <2>1. call[c].kind = "record" /\ call[c].arg = <<>>
    BY <1>3 DEF Nothing, Is
  <2>2. Goto(c, "return")
    BY <1>3 DEF ReturnEarly
  <2>3. Promise!Effect(call[c]) = Store
    <3>1. \A b \in Buckets : Promise!HowOften(<<>>, b) = 0
      <4> SUFFICES ASSUME NEW b \in Buckets PROVE Promise!HowOften(<<>>, b) = 0
        OBVIOUS
      <4>1. {i \in DOMAIN <<>> : <<>>[i] = b} = {}
        OBVIOUS
      <4>2. Promise!HowOften(<<>>, b) = Cardinality({})
        BY <4>1 DEF Promise!HowOften, Promise!Cardinality, Cardinality
      <4> QED BY <4>2, FS_EmptySet
    <3>2. tables.hours \in [Buckets -> Nat]
      BY DEF StoreInv, Typed, Tables
    <3>3. [b \in Buckets |-> tables.hours[b] + Promise!HowOften(<<>>, b)] = tables.hours
      BY <3>1, <3>2
    <3>4. Promise!Effect(call[c]) = Promise!AfterRecord(<<>>)
      BY <2>1 DEF Promise!Effect
    <3>5. Promise!AfterRecord(<<>>)
            = [Store EXCEPT !.samples =
                 [b \in Buckets |-> tables.hours[b] + Promise!HowOften(<<>>, b)]]
      BY DEF Promise!AfterRecord, Store
    <3> QED BY <3>3, <3>4, <3>5 DEF Store
  <2>4. Promise!Answer(call[c]) = None
    BY <2>1 DEF Promise!Answer
  <2>5. OnlyStep(c) /\ pc'[c] = "return" /\ Phase(pc'[c]) = "applied"
    BY <1>1, <2>2, GotoFacts DEF Phase
  <2>6. Store' = Store
    BY <1>1 DEF Store, States, NamespaceStates
  <2> QED BY <1>1, <1>2, <2>3, <2>4, <2>5, <2>6, ApplyIsApply
<1>4. CASE ~Nothing(c)
  <2>1. Goto(c, "failed")
    BY <1>4 DEF ReturnEarly
  <2>2. OnlyStep(c) /\ Phase(pc'[c]) = "failed"
    BY <1>1, <2>1, GotoFacts DEF Phase
  <2> QED BY <1>1, <1>2, <2>2, FailIsFail
<1> QED BY <1>3, <1>4

LEMMA QuerySteps ==
  ASSUME StoreInv, NEW c \in Clients, Query(c)
  PROVE  Promise!Next
<1> DEFINE found == CASE call[c].kind = "states" -> States(tables)
                      [] call[c].kind = "spaces" -> NamespaceStates(tables)
                      [] OTHER -> tables.hours
<1>1. /\ pc[c] = "called" /\ call[c] # None /\ ~Writes(c) /\ UNCHANGED <<tables, call>>
      /\ Goto(c, "scan") /\ answer' = [answer EXCEPT ![c] = found]
  BY DEF Query, StoreInv, Quiet
<1>2. call[c].kind \in {"states", "spaces", "hours"}
  <2>1. call[c] \in Promise!Calls
    BY <1>1 DEF StoreInv, Typed
  <2> QED BY <1>1, <2>1, CallFacts DEF Writes, Is
<1>3. Promise!Effect(call[c]) = Store /\ Promise!Answer(call[c]) = found
  BY <1>2 DEF Promise!Effect, Promise!Answer, Store
<1>4. answer'[c] = found
  BY <1>1 DEF StoreInv, Typed
<1> HIDE DEF found
<1>5. OnlyStep(c) /\ Phase(pc'[c]) = "applied" /\ Phase(pc[c]) = "pending"
  <2>1. UNCHANGED answer \/ \E any : answer' = [answer EXCEPT ![c] = any]
    BY <1>1
  <2>2. OnlyStep(c) /\ pc'[c] = "scan"
    BY <1>1, <2>1, GotoFacts
  <2> QED BY <1>1, <2>2 DEF Phase
<1>6. Store' = Store
  BY <1>1 DEF Store, States, NamespaceStates
<1> QED BY <1>1, <1>3, <1>4, <1>5, <1>6, ApplyIsApply

LEMMA NotBegunSteps ==
  ASSUME StoreInv, NEW c \in Clients, NotBegun(c)
  PROVE  Promise!Next
<1>1. /\ pc[c] = "called" /\ call[c] # None /\ answer[c] = None
      /\ UNCHANGED <<tables, call, answer>> /\ Goto(c, "failed")
  BY DEF NotBegun, StoreInv, Quiet
<1>2. OnlyStep(c) /\ Phase(pc'[c]) = "failed" /\ Phase(pc[c]) = "pending"
  BY <1>1, GotoFacts DEF Phase
<1> QED BY <1>1, <1>2, FailIsFail

LEMMA CommitSteps ==
  ASSUME StoreInv, NEW c \in Clients, NEW took \in BOOLEAN, NEW told \in BOOLEAN,
         Commit(c, took, told)
  PROVE  Promise!Next
<1> DEFINE label == IF told THEN "return" ELSE "failed"
<1>1. /\ pc[c] = "run" /\ call[c] # None /\ answer[c] = None
      /\ UNCHANGED <<call, answer>> /\ pc' = [pc EXCEPT ![c] = label]
      /\ ~took => tables' = tables /\ ~told
      /\ Writing(call[c]) /\ tables \in Tables /\ pc \in [Clients -> Labels]
  BY DEF Commit, Goto, StoreInv, Quiet, Typed
<1>2. /\ OnlyStep(c) /\ Phase(pc[c]) = "pending"
      /\ Phase(pc'[c]) = IF told THEN "applied" ELSE "failed"
  BY <1>1 DEF OnlyStep, Phase
<1>3. CASE took
  <2>1. tables' = After(call[c], Len(Statements(call[c])), tables)
    BY <1>3, CommitGood
  <2> DEFINE tab == tables'
  <2>2. [buckets |-> States(tab), spaces |-> NamespaceStates(tab), samples |-> tab.hours]
          = Promise!Effect(call[c])
    <3>1. tab = After(call[c], Len(Statements(call[c])), tables)
      BY <2>1
    <3> HIDE DEF tab
    <3> QED BY <1>1, <3>1, ThroughIsEffect
  <2>3. Store' = Promise!Effect(call[c])
    BY <2>2 DEF Store, States, NamespaceStates
  <2>4. Promise!Answer(call[c]) = None
    BY <1>1 DEF Writing, Promise!Answer
  <2>5. CASE told
    BY <1>1, <1>2, <2>3, <2>4, <2>5, ApplyIsApply
  <2>6. CASE ~told
    BY <1>1, <1>2, <2>3, <2>6, ApplyIsApply
  <2> QED BY <2>5, <2>6
<1>4. CASE ~took
  BY <1>1, <1>2, <1>4, FailIsFail
<1> QED BY <1>3, <1>4

LEMMA RollbackSteps ==
  ASSUME StoreInv, NEW c \in Clients, Rollback(c)
  PROVE  Promise!Next
<1>1. /\ pc[c] = "rollback" /\ call[c] # None /\ answer[c] = None
      /\ UNCHANGED <<tables, call, answer>> /\ Goto(c, "failed")
  BY DEF Rollback, StoreInv, Quiet
<1>2. OnlyStep(c) /\ Phase(pc'[c]) = "failed" /\ Phase(pc[c]) = "pending"
  BY <1>1, GotoFacts DEF Phase
<1> QED BY <1>1, <1>2, FailIsFail

LEMMA ScanSteps ==
  ASSUME StoreInv, NEW c \in Clients, NEW read \in BOOLEAN, Scan(c, read)
  PROVE  Promise!Next
<1>1. /\ pc[c] = "scan" /\ call[c] # None /\ UNCHANGED tables
      /\ pc' = [pc EXCEPT ![c] = IF read THEN "idle" ELSE "failed"]
      /\ call' = [call EXCEPT ![c] = IF read THEN None ELSE @]
      /\ answer' = [answer EXCEPT ![c] = None]
      /\ pc \in [Clients -> Labels] /\ answer \in [Clients -> Answers]
      /\ call \in [Clients -> Promise!Calls \cup {None}]
  BY DEF Scan, Goto, StoreInv, Quiet, Typed
<1>2. OnlyStep(c) /\ Phase(pc[c]) = "applied"
  BY <1>1 DEF OnlyStep, Phase
<1>3. CASE read
  <2>1. call'[c] = None
    BY <1>1, <1>3
  <2> QED BY <1>1, <1>2, <2>1, ReturnIsReturn
<1>4. CASE ~read
  <2>1. call'[c] = call[c] /\ answer'[c] = None /\ Phase(pc'[c]) = "failed"
    BY <1>1, <1>4 DEF Phase
  <2> QED BY <1>1, <1>2, <2>1, FailIsFail
<1> QED BY <1>3, <1>4

LEMMA ReturnSteps ==
  ASSUME StoreInv, NEW c \in Clients, Return(c)
  PROVE  Promise!Next
<1>1. /\ pc[c] \in {"return", "failed"} /\ call[c] # None /\ UNCHANGED <<tables, answer>>
      /\ pc' = [pc EXCEPT ![c] = "idle"] /\ call' = [call EXCEPT ![c] = None]
      /\ pc \in [Clients -> Labels] /\ call \in [Clients -> Promise!Calls \cup {None}]
  BY DEF Return, Goto, StoreInv, Quiet, Typed
<1>2. OnlyStep(c) /\ Phase(pc[c]) \in {"applied", "failed"} /\ call'[c] = None
  BY <1>1 DEF OnlyStep, Phase
<1> QED BY <1>1, <1>2, ReturnIsReturn

LEMMA CrashSteps ==
  ASSUME StoreInv, NEW p \in Pods, Crash(p)
  PROVE  Promise!Next
<1> DEFINE gone == {c \in Clients : c[1] = p}
<1>1. Calls' = [c \in Clients |-> IF c \in gone THEN None ELSE Calls[c]]
  <2>1. \A c \in Clients : CallOf(c)' = IF c \in gone THEN None ELSE Calls[c]
    BY DEF Crash, CallOf, Calls
  <2> HIDE DEF gone
  <2> QED BY <2>1 DEF Calls
<1>2. gone \in SUBSET Clients /\ UNCHANGED tables
  BY DEF Crash
<1> HIDE DEF gone
<1>3. Promise!Vanish(gone)
  BY <1>1, <1>2 DEF Promise!Vanish, Calls, CallOf, States, NamespaceStates
<1> QED BY <1>2, <1>3 DEF Promise!Next

\* Beginning, a statement and its failure are not seen.
LEMMA InsideSteps ==
  ASSUME StoreInv, NEW c \in Clients, Begin(c) \/ Execute(c) \/ ExecuteFailed(c)
  PROVE  UNCHANGED Promise!vars
<1>1. pc \in [Clients -> Labels] /\ UNCHANGED <<tables, call, answer>>
  BY DEF StoreInv, Typed, Begin, Execute, ExecuteFailed
<1>2. \A d \in Clients : Phase(pc'[d]) = Phase(pc[d])
  BY <1>1 DEF Begin, Execute, ExecuteFailed, Goto, Phase
<1> QED BY <1>1, <1>2, NoCallChanges, StutterIsStutter

----------------------------------------------------------------------------
LEMMA StoreInitMaps == Init => Promise!Init
<1> SUFFICES ASSUME Init PROVE Promise!Init
  OBVIOUS
<1>1. tables \in Tables
  BY StoreAssumption DEF Init
<1>2. Store \in [buckets : [Namespaces -> [Buckets -> Promise!Limit \cup {None}]],
                spaces : [Namespaces -> Promise!Limit \cup {None}],
                samples : [Buckets -> Nat]]
  <2>1. tables.hours \in [Buckets -> Nat]
    BY <1>1 DEF Tables
  <2> QED BY <1>1, <2>1, StatesType DEF Store
<1>3. Calls = [c \in Clients |-> None]
  BY DEF Init, Calls, CallOf
<1> QED BY <1>2, <1>3 DEF Promise!Init, Store, Calls, CallOf

LEMMA StoreStepMaps == StoreInv /\ [Next]_vars => [Promise!Next]_(Promise!vars)
<1> SUFFICES ASSUME StoreInv, [Next]_vars PROVE Promise!Next \/ UNCHANGED Promise!vars
  OBVIOUS
<1>1. CASE UNCHANGED vars
  <2>1. UNCHANGED <<tables, call, pc, answer>>
    BY <1>1 DEF vars, session
  <2> QED BY <2>1, NoCallChanges, StutterIsStutter
<1>2. CASE Next
  BY <1>2, InvokeIsInvoke, ReturnEarlySteps, QuerySteps, NotBegunSteps, CommitSteps,
     RollbackSteps, ScanSteps, ReturnSteps, CrashSteps, InsideSteps DEF Next, Acquire, Step
<1> QED BY <1>1, <1>2

(***************************************************************************)
(* The transactions and queries of store.go:114-128, run statement by      *)
(* statement against one database by any number of pods, through errors,   *)
(* commits that are not confirmed and crashes, do what AtomicStore says:   *)
(* each call takes effect whole at one moment, or not at all.              *)
(***************************************************************************)
THEOREM StoreProof == Spec => KeepsPromise
<1>1. Init => StoreInv
  BY StoreInitInv
<1>2. StoreInv /\ [Next]_vars => StoreInv'
  BY StoreNextInv
<1>3. Init => Promise!Init
  BY StoreInitMaps
<1>4. StoreInv /\ [Next]_vars => [Promise!Next]_(Promise!vars)
  BY StoreStepMaps
<1> QED BY <1>1, <1>2, <1>3, <1>4, PTL DEF Spec, KeepsPromise, Promise!Spec

=============================================================================
