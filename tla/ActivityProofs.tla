--------------------------- MODULE ActivityProofs ---------------------------
(***************************************************************************)
(* Proofs about Activity and History for every clock, every lookback and   *)
(* retention, every publication of ECS and every set of faults.            *)
(***************************************************************************)
EXTENDS History, FiniteSetTheorems, TLAPS

----------------------------------------------------------------------------
(***************************************************************************)
(* Sums over the hourly rows. The prover has no induction over the         *)
(* naturals for operators; over sets the well-foundedness of < gives it.   *)
(***************************************************************************)

\* Induction over the naturals, for a set of them.
LEMMA NaturalsFromZero ==
  ASSUME NEW S, 0 \in S, \A n \in Nat : n \in S => n + 1 \in S
  PROVE  Nat \subseteq S
<1> DEFINE T == Nat \ S
<1> SUFFICES ASSUME T # {} PROVE FALSE
  OBVIOUS
<1>1. IsWellFoundedOn(OpToRel(<, Nat), Nat)
  BY NatLessThanWellFounded
<1>2. PICK x : x \in T /\ \A y \in T : <<y, x>> \notin OpToRel(<, Nat)
  <2>1. T \subseteq Nat
    OBVIOUS
  <2> HIDE DEF T
  <2> QED BY <1>1, <2>1, WFMin
<1>3. x \in Nat /\ x # 0
  BY <1>2
<1>4. x - 1 \in Nat /\ (x - 1) + 1 = x
  BY <1>3
<1>5. x - 1 \in T
  BY <1>2, <1>4
<1>6. <<x - 1, x>> \in OpToRel(<, Nat)
  BY <1>3, <1>4 DEF OpToRel
<1> QED BY <1>2, <1>5, <1>6

\* f adds up the first n hours.
AddsUp(rows, f, n) ==
  \A i \in 0..n :
    f[i] = IF i = 0 THEN 0 ELSE f[i - 1] + rows[i - 1].up - rows[i - 1].down

LEMMA AddsUpUnique ==
  ASSUME NEW rows, NEW f, NEW g, NEW n \in Nat, NEW m \in Nat,
         AddsUp(rows, f, n), AddsUp(rows, g, m)
  PROVE  \A i \in 0..n : i <= m => f[i] = g[i]
<1> DEFINE S == {i \in Nat : i <= n /\ i <= m => f[i] = g[i]}
<1>1. 0 \in S
  BY DEF AddsUp
<1>2. \A i \in Nat : i \in S => i + 1 \in S
  <2> SUFFICES ASSUME NEW i \in Nat, i \in S, i + 1 <= n, i + 1 <= m
               PROVE  f[i + 1] = g[i + 1]
    OBVIOUS
  <2>1. f[i] = g[i]
    OBVIOUS
  <2>2. (i + 1) - 1 = i /\ i + 1 # 0 /\ i + 1 \in 0..n /\ i + 1 \in 0..m
    OBVIOUS
  <2> QED BY <2>1, <2>2 DEF AddsUp
<1>3. Nat \subseteq S
  <2> HIDE DEF S
  <2> QED BY <1>1, <1>2, NaturalsFromZero
<1> QED BY <1>3

LEMMA AddsUpExists ==
  ASSUME NEW rows
  PROVE  \A n \in Nat : \E f : AddsUp(rows, f, n)
<1> DEFINE S == {n \in Nat : \E f : AddsUp(rows, f, n)}
<1>1. 0 \in S
  <2>1. AddsUp(rows, [i \in Nat |-> 0], 0)
    BY DEF AddsUp
  <2> QED BY <2>1
<1>2. \A n \in Nat : n \in S => n + 1 \in S
  <2> SUFFICES ASSUME NEW n \in Nat, NEW f, AddsUp(rows, f, n)
               PROVE  \E g : AddsUp(rows, g, n + 1)
    OBVIOUS
  <2> DEFINE g == [i \in Nat |-> IF i <= n THEN f[i] ELSE f[n] + rows[n].up - rows[n].down]
  <2>1. ASSUME NEW i \in 0..n + 1
        PROVE  g[i] = IF i = 0 THEN 0 ELSE g[i - 1] + rows[i - 1].up - rows[i - 1].down
    <3>1. CASE i <= n
      <4>1. g[i] = f[i] /\ (i # 0 => g[i - 1] = f[i - 1])
        BY <3>1
      <4>2. f[i] = IF i = 0 THEN 0 ELSE f[i - 1] + rows[i - 1].up - rows[i - 1].down
        BY <3>1 DEF AddsUp
      <4> HIDE DEF g
      <4> QED BY <4>1, <4>2
    <3>2. CASE i = n + 1
      <4>1. i # 0 /\ i - 1 = n /\ i \in Nat /\ ~(i <= n)
        BY <3>2
      <4>2. g[i] = f[n] + rows[n].up - rows[n].down /\ g[n] = f[n]
        BY <4>1
      <4> HIDE DEF g
      <4> QED BY <4>1, <4>2
    <3> QED BY <3>1, <3>2
  <2>2. AddsUp(rows, g, n + 1)
    <3> HIDE DEF g
    <3> QED BY <2>1 DEF AddsUp
  <2> QED BY <2>2
<1>3. Nat \subseteq S
  <2> HIDE DEF S
  <2> QED BY <1>1, <1>2, NaturalsFromZero
<1> QED BY <1>3

\* The recursive definition of NetOf is one.
LEMMA NetOfDef ==
  ASSUME NEW rows
  PROVE  /\ NetOf(rows, 0) = 0
         /\ \A n \in Nat : NetOf(rows, n + 1) = NetOf(rows, n) + rows[n].up - rows[n].down
<1> DEFINE Def(g) == [i \in Nat |-> IF i = 0 THEN 0 ELSE g[i - 1] + rows[i - 1].up - rows[i - 1].down]
           net == CHOOSE g : g = Def(g)
           h == [i \in Nat |-> (CHOOSE f : AddsUp(rows, f, i))[i]]
<1>1. \A n \in Nat : NetOf(rows, n) = net[n]
  BY DEF NetOf
<1>2. \A n \in Nat : AddsUp(rows, CHOOSE f : AddsUp(rows, f, n), n)
  BY AddsUpExists
<1>3. ASSUME NEW n \in Nat
      PROVE  h[n] = IF n = 0 THEN 0 ELSE h[n - 1] + rows[n - 1].up - rows[n - 1].down
  <2> DEFINE f == CHOOSE f : AddsUp(rows, f, n)
  <2>1. AddsUp(rows, f, n) /\ h[n] = f[n]
    BY <1>2
  <2>2. ASSUME n # 0
        PROVE  h[n - 1] = f[n - 1]
    <3> DEFINE e == CHOOSE e : AddsUp(rows, e, n - 1)
    <3>1. n - 1 \in Nat /\ n - 1 \in 0..n - 1
      BY <2>2
    <3>2. AddsUp(rows, e, n - 1) /\ h[n - 1] = e[n - 1]
      BY <1>2, <3>1
    <3> HIDE DEF e, f, h
    <3>3. e[n - 1] = f[n - 1]
      BY <2>1, <3>1, <3>2, AddsUpUnique
    <3> QED BY <3>2, <3>3
  <2>3. n \in 0..n
    OBVIOUS
  <2> HIDE DEF f, h
  <2> QED BY <2>1, <2>2, <2>3 DEF AddsUp
<1>4. h = Def(h)
  <2>1. h = [i \in Nat |-> h[i]]
    OBVIOUS
  <2> HIDE DEF h
  <2> QED BY <1>3, <2>1
<1>5. net = Def(net)
  <2> HIDE DEF h, Def
  <2> QED BY <1>4
<1>6. \A n \in Nat : net[n] = IF n = 0 THEN 0 ELSE net[n - 1] + rows[n - 1].up - rows[n - 1].down
  <2> HIDE DEF net
  <2> QED BY <1>5
<1> HIDE DEF net
<1>7. \A n \in Nat : n + 1 \in Nat /\ n + 1 # 0 /\ (n + 1) - 1 = n
  OBVIOUS
<1> QED BY <1>1, <1>6, <1>7

\* One row that changes by d changes the sums it is in by d.
LEMMA NetOfChanged ==
  ASSUME NEW N \in Nat, NEW rows, NEW next, NEW k \in 0..N, NEW d \in Int,
         \A h \in 0..N : /\ rows[h].up \in Int /\ rows[h].down \in Int
                         /\ next[h].up \in Int /\ next[h].down \in Int
                         /\ h # k => next[h] = rows[h],
         next[k].up - next[k].down = rows[k].up - rows[k].down + d
  PROVE  /\ NetOf(rows, N + 1) \in Int
         /\ NetOf(next, N + 1) = NetOf(rows, N + 1) + d
<1> DEFINE S == {n \in Nat : n <= N + 1 =>
                   /\ NetOf(rows, n) \in Int
                   /\ NetOf(next, n) = NetOf(rows, n) + IF k < n THEN d ELSE 0}
<1>1. 0 \in S
  BY NetOfDef
<1>2. \A n \in Nat : n \in S => n + 1 \in S
  <2> SUFFICES ASSUME NEW n \in Nat, n \in S, n + 1 <= N + 1
               PROVE  /\ NetOf(rows, n + 1) \in Int
                      /\ NetOf(next, n + 1) = NetOf(rows, n + 1) + IF k < n + 1 THEN d ELSE 0
    OBVIOUS
  <2>1. /\ NetOf(rows, n) \in Int
        /\ NetOf(next, n) = NetOf(rows, n) + IF k < n THEN d ELSE 0
        /\ n \in 0..N
    OBVIOUS
  <2>2. /\ NetOf(rows, n + 1) = NetOf(rows, n) + rows[n].up - rows[n].down
        /\ NetOf(next, n + 1) = NetOf(next, n) + next[n].up - next[n].down
    BY NetOfDef
  <2>3. CASE n = k
    <3>1. NetOf(next, n) = NetOf(rows, n)
      BY <2>1, <2>3
    <3>2. next[n].up - next[n].down = rows[n].up - rows[n].down + d
      BY <2>3
    <3> QED BY <2>1, <2>2, <2>3, <3>1, <3>2
  <2>4. CASE n # k
    <3>1. next[n] = rows[n] /\ (k < n <=> k < n + 1)
      BY <2>1, <2>4
    <3> QED BY <2>1, <2>2, <3>1
  <2> QED BY <2>3, <2>4
<1>3. Nat \subseteq S
  <2> HIDE DEF S
  <2> QED BY <1>1, <1>2, NaturalsFromZero
<1> QED BY <1>3

----------------------------------------------------------------------------
(***************************************************************************)
(* The inductive invariants.                                               *)
(***************************************************************************)
InPoll == pc \in {"persist", "record", "aggregate", "publish"}

\* What a poll holds is the latest publication; outside of a poll it holds
\* nothing, and without a process there is no baseline.
Local ==
  /\ pc = "down" => base = None
  /\ ~InPoll => sample = None
  /\ sample \in {published, None}
  /\ published.number >= 1
  /\ folded <= published.number

ActInv == TypeOK /\ Local

\* Until the clock is set back, what is kept of a sample is from the past.
Ordered ==
  "clock" \notin harm =>
    /\ row # None => row.at <= now
    /\ base # None => base.at <= now /\ (InPoll => base.at < now)

SameCounters(a, b) ==
  a # None => b # None /\ b.objects = a.objects /\ b.parts = a.parts

\* Until a row cannot be written, the durable row follows the baseline, and
\* after ReplaceObservation the sample.
RowFollows ==
  harm \cap {"persist", "clock"} = {} =>
    /\ pc \in {"idle", "persist"} => SameCounters(base, row)
    /\ pc \in {"record", "aggregate", "publish"} =>
         /\ SameCounters(sample, row)
         /\ sample = None => row = None

RestartInv == ActInv /\ Ordered /\ RowFollows

\* A bucket without a change has the same counters everywhere.
Still(b) == b # None => b.objects = published.objects /\ b.parts = 0

IdleInv ==
  ~stirred =>
    /\ published.parts = 0
    /\ Still(row) /\ Still(base)
    /\ \A h \in HourBuckets : hours[h].active = 0
    /\ counters.busy = 0 /\ shown.busy = 0

\* What the store keeps of a stamp.
Cut(uptodate) == uptodate - (uptodate % Second)

\* If the latest publication is in the history, a stamped baseline is that
\* publication, but for a fraction of a second.
Caught(b) ==
  b # None /\ b.uptodate # 0 /\ published.uptodate # 0 /\ folded = published.number =>
    /\ b.uptodate \in {published.uptodate, Cut(published.uptodate)}
    /\ b.objects = published.objects
    /\ b.parts = published.parts

FoldedInv ==
  "persist" \notin harm =>
    /\ Caught(row)
    /\ pc \in {"aggregate", "publish"} => Caught(NextBase(base, sample))
    /\ pc \notin {"aggregate", "publish"} => Caught(base)
    /\ pc \in {"record", "aggregate", "publish"} /\ sample # None =>
         row # None /\ row.uptodate = Cut(sample.uptodate)
         /\ row.objects = sample.objects /\ row.parts = sample.parts

\* An hour that had a row and has none is behind the retention, unless the clock was
\* set back.
PrunedInv ==
  "clock" \notin harm =>
    \A h \in ever : hours[h].samples = 0 => h * TicksPerHour < now - ActivityRetention

\* The history adds up to the row a restart would begin with, and while there is
\* a process to the baseline it holds or is about to hold. A bucket that has no
\* baseline has no row, so that no process begins with one it knows nothing of.
NetInv ==
  harm \subseteq {"clock"} =>
    /\ pc = "down" /\ row # None => Movement = row.objects - origin
    /\ pc \in {"idle", "persist", "record"} /\ base # None => Movement = base.objects - origin
    /\ pc \in {"idle", "persist"} /\ base = None => row = None
    /\ pc \in {"persist", "record"} /\ base = None /\ sample # None =>
         Movement = sample.objects - origin
    /\ pc \in {"aggregate", "publish"} /\ sample # None =>
         Movement = NextBase(base, sample).objects - origin
    /\ pc \in {"record", "aggregate", "publish"} =>
         /\ sample = None => row = None
         /\ sample # None => row # None /\ row.objects = sample.objects

----------------------------------------------------------------------------
(***************************************************************************)
(* Types.                                                                  *)
(***************************************************************************)
LEMMA HourFacts ==
  /\ \A t \in Int : /\ HourBucket(t) \in Int
                    /\ TicksPerHour * HourBucket(t) <= t
                    /\ t < TicksPerHour * (HourBucket(t) + 1)
  /\ \A t \in 0..MaxTime : HourBucket(t) \in HourBuckets
  /\ HourBucket(MaxTime) \in Nat
<1>1. TicksPerHour \in Nat \ {0} /\ MaxTime \in Nat
  BY ActivityAssumption
<1>2. ASSUME NEW t \in Int
      PROVE  /\ HourBucket(t) \in Int
             /\ TicksPerHour * HourBucket(t) <= t
             /\ t < TicksPerHour * (HourBucket(t) + 1)
  BY <1>1 DEF HourBucket
<1>3. ASSUME NEW t \in Nat
      PROVE  HourBucket(t) \in Nat
  BY <1>1 DEF HourBucket
<1>4. ASSUME NEW t \in 0..MaxTime
      PROVE  HourBucket(t) <= HourBucket(MaxTime)
  <2>1. TicksPerHour * HourBucket(t) < TicksPerHour * (HourBucket(MaxTime) + 1)
    BY <1>1, <1>2
  <2>2. HourBucket(t) \in Int /\ HourBucket(MaxTime) \in Int
    BY <1>1, <1>2
  <2>3. HourBucket(t) < HourBucket(MaxTime) + 1
    BY <1>1, <2>1, <2>2
  <2> QED BY <2>2, <2>3
<1> QED BY <1>1, <1>2, <1>3, <1>4 DEF HourBuckets

\* An hour of a poll's measurements is one.
LEMMA FoldType ==
  ASSUME NEW h \in Hour, NEW b \in Baseline \cup {None}, NEW o \in Sample, Known(b)
  PROVE  /\ Fold(h, b, o) \in Hour
         /\ Fold(h, b, o).samples = h.samples + 1
         /\ Fold(h, b, o).active = h.active + IF Moving(b, o) THEN 1 ELSE 0
         /\ Fold(h, b, o).up - Fold(h, b, o).down
              = h.up - h.down + (o.objects - b.objects)
<1>1. /\ o.objects \in Nat /\ o.parts \in Parts /\ b.objects \in Nat
      /\ h.samples \in Nat /\ h.active \in Nat /\ h.up \in Nat /\ h.down \in Nat
      /\ h.parts \in Parts \cup {0}
  BY ActivityAssumption DEF Sample, Hour, Baseline, Known
<1> DEFINE d == o.objects - b.objects
           p == IF o.parts > h.parts THEN o.parts ELSE h.parts
           a == h.active + IF Moving(b, o) THEN 1 ELSE 0
<1>2. d \in Int /\ p \in Parts \cup {0} /\ a \in Nat /\ ObjectsDelta(b, o) = d
  BY <1>1 DEF ObjectsDelta
<1>3. /\ Positive(d) \in Nat /\ Positive(-d) \in Nat
      /\ Positive(d) - Positive(-d) = d
  BY <1>2 DEF Positive
<1>4. Fold(h, b, o) = [samples |-> h.samples + 1, active |-> a,
                       up |-> h.up + Positive(d), down |-> h.down + Positive(-d),
                       parts |-> p]
  BY <1>2 DEF Fold
<1> HIDE DEF d, p, a
<1>5. Fold(h, b, o) \in Hour
  BY <1>1, <1>2, <1>3, <1>4 DEF Hour
<1>6. Fold(h, b, o).up - Fold(h, b, o).down = h.up - h.down + d
  BY <1>1, <1>2, <1>3, <1>4
<1> QED BY <1>4, <1>5, <1>6 DEF a, d

LEMMA NetOfType ==
  ASSUME NEW rows \in [HourBuckets -> Hour]
  PROVE  NetOf(rows, HourBucket(MaxTime) + 1) \in Int
<1> DEFINE N == HourBucket(MaxTime)
<1>1. \A h \in HourBuckets : rows[h].up \in Int /\ rows[h].down \in Int
  BY DEF Hour
<1>2. N \in Nat /\ HourBuckets = 0..N
  BY HourFacts DEF HourBuckets
<1> HIDE DEF N
<1>3. N \in 0..N /\ rows[N].up - rows[N].down = rows[N].up - rows[N].down + 0
  BY <1>1, <1>2
<1>4. NetOf(rows, N + 1) \in Int
  BY <1>1, <1>2, <1>3, NetOfChanged
<1> QED BY <1>4 DEF N

LEMMA MovementType ==
  hours \in [HourBuckets -> Hour] /\ forgotten \in Int => Net \in Int /\ Movement \in Int
BY NetOfType DEF Net, Movement

\* The counters of some hours are numbers.
LEMMA CountersType ==
  ASSUME NEW seen, seen \subseteq HourBuckets
  PROVE  CountersOf(seen).busy \in Nat /\ CountersOf(seen).observed \in Nat
<1> DEFINE busy == {h \in seen : hours[h].active > 0}
<1>1. IsFiniteSet(HourBuckets)
  BY HourFacts, FS_Interval DEF HourBuckets
<1>2. IsFiniteSet(seen) /\ IsFiniteSet(busy)
  BY <1>1, FS_Subset
<1>3. Cardinality(seen) \in Nat /\ Cardinality(busy) \in Nat
  <2> HIDE DEF busy
  <2> QED BY <1>2, FS_CardinalityType
<1> HIDE DEF busy
<1>4. CountersOf(seen) = IF sample = None THEN NotShown
        ELSE [known |-> Known(base), busy |-> Cardinality(busy),
              observed |-> Cardinality(seen),
              hot |-> IsHot(Cardinality(busy), Cardinality(seen))]
  BY DEF CountersOf, busy
<1> QED BY <1>3, <1>4 DEF NotShown

LEMMA SampleFacts ==
  ASSUME NEW o \in Sample
  PROVE  o.objects \in Nat /\ o.parts \in Nat /\ o.uptodate \in Nat /\ o.number \in Nat
<1>1. o.objects \in Objects /\ o.parts \in Parts
  BY DEF Sample
<1>2. Objects \subseteq Nat /\ Parts \subseteq Nat
  BY ActivityAssumption
<1> QED BY <1>1, <1>2 DEF Sample

\* What ECS publishes is a sample, stamped or not.
LEMMA NewPublicationsType ==
  ASSUME NEW n \in Nat, NEW o \in NewPublications(n)
  PROVE  o \in Sample /\ o.number = n
<1>1. o \in [objects : Objects, parts : Parts,
             uptodate : {0} \cup {n * Second + f : f \in Fractions}, number : {n}]
  BY DEF NewPublications
<1>2. \A f \in Fractions : n * Second + f \in Nat
  <2>1. Second \in Nat /\ \A f \in Fractions : f \in Nat
    BY ActivityAssumption
  <2>2. n * Second \in Nat
    BY <2>1
  <2> QED BY <2>1, <2>2
<1>3. o.uptodate \in Nat
  BY <1>1, <1>2
<1> QED BY <1>1, <1>3 DEF Sample

LEMMA PublicationFacts ==
  ASSUME NEW o, ActInv, o \in Publications
  PROVE  /\ o \in Sample
         /\ o.number >= 1
         /\ o = published \/ o.number = published.number + 1
<1>1. published \in Sample /\ published.number \in Nat /\ published.number >= 1
  BY DEF ActInv, TypeOK, Local, Sample
<1>2. CASE o = published
  BY <1>1, <1>2
<1>3. CASE o \in NewPublications(published.number + 1)
  BY <1>1, <1>3, NewPublicationsType
<1> QED BY <1>2, <1>3 DEF Publications

\* A sample as a baseline, and what the store keeps of it.
LEMMA BaselineOf ==
  ASSUME NEW o \in Sample, now \in 0..MaxTime
  PROVE  /\ AsBaseline(o) \in Baseline /\ AsBaseline(o) # None
         /\ AsBaseline(o).at = now /\ AsBaseline(o).objects = o.objects
         /\ AsBaseline(o).parts = o.parts /\ AsBaseline(o).uptodate = o.uptodate
<1>1. AsBaseline(o) = [at |-> now, objects |-> o.objects, parts |-> o.parts,
                       uptodate |-> o.uptodate]
  BY DEF AsBaseline
<1>2. AsBaseline(o) \in Baseline
  BY <1>1 DEF Baseline, Sample
<1> QED BY <1>1, <1>2, NoneAssumption

LEMMA RowOf ==
  ASSUME NEW o \in Sample, now \in 0..MaxTime
  PROVE  LET b == Stored(AsBaseline(o))
         IN  /\ b \in Baseline /\ b # None
             /\ b.at = now /\ b.objects = o.objects /\ b.parts = o.parts
             /\ b.uptodate = Cut(o.uptodate)
<1> DEFINE c == Cut(o.uptodate)
<1>1. c \in Nat
  <2>1. o.uptodate \in Nat /\ Second \in Nat \ {0}
    BY ActivityAssumption DEF Sample
  <2>2. o.uptodate % Second \in Nat /\ o.uptodate % Second <= o.uptodate
    BY <2>1
  <2> QED BY <2>1, <2>2 DEF Cut
<1>2. Stored(AsBaseline(o)) = [at |-> now, objects |-> o.objects, parts |-> o.parts,
                               uptodate |-> c]
  BY DEF Stored, AsBaseline, Cut
<1> HIDE DEF c
<1>3. Stored(AsBaseline(o)) \in Baseline
  BY <1>1, <1>2 DEF Baseline, Sample
<1> QED BY <1>2, <1>3, NoneAssumption DEF c

LEMMA InitActInv == Init => ActInv
<1> SUFFICES ASSUME Init PROVE ActInv
  OBVIOUS
<1> USE DEF Init
<1>1. MaxTime \in Nat /\ MaxSetBacks \in Nat
  BY ActivityAssumption
<1>2. published \in Sample /\ published.number = 1
  BY NewPublicationsType
<1>3. NoHour \in Hour /\ NotShown.busy = 0 /\ NotShown.observed = 0
  BY DEF NoHour, Hour, NotShown
<1>4. stirred \in BOOLEAN
  OBVIOUS
<1>5. TypeOK
  BY <1>1, <1>2, <1>3, <1>4 DEF TypeOK
<1> QED BY <1>2, <1>5 DEF ActInv, Local, InPoll

LEMMA StepActInv == ActInv /\ [Next]_vars => ActInv'
<1> SUFFICES ASSUME ActInv, [Next]_vars PROVE ActInv'
  OBVIOUS
<1> USE DEF ActInv, TypeOK, Local, InPoll, history
<1>1. ASSUME NEW read \in BOOLEAN, Start(read)
      PROVE  ActInv'
  BY <1>1 DEF Start, HarmKinds
<1>2. CASE ClockSetBack
  <2>1. /\ now' \in 0..MaxTime /\ setBacks' \in 0..MaxSetBacks
        /\ harm' \subseteq HarmKinds
    BY <1>2, ActivityAssumption DEF ClockSetBack, HarmKinds
  <2> QED BY <1>2, <2>1 DEF ClockSetBack
<1>3. ASSUME NEW gap \in 1..MaxGap, NEW o \in Publications, NEW billed \in BOOLEAN,
             BillingAnswered(gap, o, billed)
      PROVE  ActInv'
  <2>1. now' \in 0..MaxTime
    BY <1>3, ActivityAssumption DEF BillingAnswered
  <2>2. /\ o \in Sample /\ o.number >= 1
        /\ folded <= o.number
    <3>1. published.number \in Nat /\ folded \in Nat
      BY DEF Sample
    <3> QED BY <3>1, PublicationFacts
  <2>3. stirred' \in BOOLEAN
    BY <1>3 DEF BillingAnswered
  <2>4. origin' \in Int
    <3>1. Movement \in Int
      BY MovementType
    <3>2. o.objects \in Int
      BY <2>2, SampleFacts
    <3> QED BY <1>3, <3>1, <3>2 DEF BillingAnswered
  <2> QED BY <1>3, <2>1, <2>2, <2>3, <2>4 DEF BillingAnswered
<1>4. CASE Replaced
  <2>1. row' \in Baseline \cup {None}
    BY <1>4, RowOf DEF Replaced
  <2> QED BY <1>4, <2>1 DEF Replaced
<1>5. CASE ReplaceFailed
  BY <1>5 DEF ReplaceFailed, HarmKinds
<1>6. CASE Recorded
  <2>1. sample \in Sample /\ sample = published /\ base \in Baseline \cup {None}
        /\ Known(base)
    BY <1>6 DEF Recorded, HasDelta, Recordable
  <2>2. HourBucket(now) \in HourBuckets
    BY HourFacts
  <2>3. Fold(hours[HourBucket(now)], base, sample) \in Hour
    BY <2>1, <2>2, FoldType
  <2>4. hours' \in [HourBuckets -> Hour]
    BY <1>6, <2>2, <2>3 DEF Recorded
  <2>5. folded' \in Nat /\ folded' <= published.number /\ ever' \subseteq HourBuckets
    BY <1>6, <2>1, <2>2 DEF Recorded, Sample
  <2> QED BY <1>6, <2>4, <2>5 DEF Recorded
<1>7. CASE NotRecorded
  BY <1>7 DEF NotRecorded, HarmKinds
<1>8. ASSUME NEW queried \in BOOLEAN, NEW pruned \in BOOLEAN, Aggregated(queried, pruned)
      PROVE  ActInv'
  <2>1. (IF queried THEN Window ELSE {}) \subseteq HourBuckets
    BY DEF Window, Present
  <2>2. counters'.busy \in Nat /\ counters'.observed \in Nat
    BY <1>8, <2>1, CountersType DEF Aggregated
  <2>3. hours' \in [HourBuckets -> Hour]
    BY <1>8 DEF Aggregated, NoHour, Hour
  <2>4. forgotten' \in Int
    <3>1. Net \in Int /\ Net' \in Int
      BY <2>3, NetOfType DEF Net
    <3> QED BY <1>8, <3>1 DEF Aggregated
  <2> QED BY <1>8, <2>2, <2>3, <2>4 DEF Aggregated
<1>9. CASE Published
  <2>1. base' \in Baseline \cup {None}
    BY <1>9 DEF Published, NextBase, AsBaseline, Baseline, Sample
  <2> QED BY <1>9, <2>1 DEF Published, NotShown
<1>10. CASE Crash
  BY <1>10 DEF Crash, NotShown, HarmKinds
<1>11. CASE UNCHANGED vars
  BY <1>11 DEF vars
<1> QED BY <1>1, <1>2, <1>3, <1>4, <1>5, <1>6, <1>7, <1>8, <1>9, <1>10, <1>11 DEF Next

\* The variables of computeActivity and the activity store keep their types, and
\* what a poll of pollOnce holds has been published by ECS.
THEOREM ActivityTypeCorrect == Spec => []TypeOK
<1>1. ActInv => TypeOK
  BY DEF ActInv
<1> QED BY <1>1, InitActInv, StepActInv, PTL DEF Spec

----------------------------------------------------------------------------
(***************************************************************************)
(* The durable row and the baseline.                                       *)
(***************************************************************************)
LEMMA StepOrdered == ActInv /\ Ordered /\ [Next]_vars => Ordered'
<1> SUFFICES ASSUME ActInv, Ordered, [Next]_vars, "clock" \notin harm'
             PROVE  /\ row' # None => row'.at <= now'
                    /\ base' # None => base'.at <= now' /\ (InPoll' => base'.at < now')
  BY DEF Ordered
<1> DEFINE Goal == /\ row' # None => row'.at <= now'
                   /\ base' # None => base'.at <= now' /\ (InPoll' => base'.at < now')
<1> USE DEF InPoll, history
<1>1. /\ now \in Nat
      /\ row # None => row.at \in Nat
      /\ base # None => base.at \in Nat
  BY ActivityAssumption DEF ActInv, TypeOK, Baseline
<1>3. "clock" \notin harm
  BY DEF Next, Start, ClockSetBack, BillingAnswered, Replaced, ReplaceFailed, Recorded,
         NotRecorded, Aggregated, Published, Crash, vars
<1>4. /\ row # None => row.at <= now
      /\ base # None => base.at <= now /\ (InPoll => base.at < now)
  BY <1>3 DEF Ordered
<1>2. ASSUME NEW read \in BOOLEAN, Start(read)
      PROVE  Goal
  <2>1. now' = now /\ row' = row /\ base' \in {row, None} /\ ~InPoll'
    BY <1>2 DEF Start
  <2> QED BY <1>4, <2>1
<1>5. CASE ClockSetBack
  BY <1>5 DEF ClockSetBack
<1>6. ASSUME NEW gap \in 1..MaxGap, NEW o \in Publications, NEW billed \in BOOLEAN,
             BillingAnswered(gap, o, billed)
      PROVE  Goal
  <2>1. now' = now + gap /\ row' = row /\ base' = base /\ gap \in Nat /\ gap >= 1
    BY <1>6, ActivityAssumption DEF BillingAnswered
  <2> QED BY <1>1, <1>4, <2>1
<1>7. CASE Replaced
  <2>1. row' = None \/ row'.at = now
    BY <1>7, RowOf DEF Replaced, ActInv, TypeOK
  <2> QED BY <1>1, <1>4, <1>7, <2>1 DEF Replaced
<1>8. CASE ReplaceFailed \/ Recorded \/ NotRecorded
           \/ (\E queried, pruned \in BOOLEAN : Aggregated(queried, pruned))
  BY <1>4, <1>8 DEF ReplaceFailed, Recorded, NotRecorded, Aggregated
<1>9. CASE Published
  <2>1. base' = None \/ base'.at = now \/ base' = base
    BY <1>9 DEF Published, NextBase, AsBaseline
  <2> QED BY <1>1, <1>4, <1>9, <2>1 DEF Published
<1>10. CASE Crash
  BY <1>4, <1>10 DEF Crash
<1>11. CASE UNCHANGED vars
  BY <1>4, <1>11 DEF vars
<1> QED BY <1>1, <1>2, <1>4, <1>5, <1>6, <1>7, <1>8, <1>9, <1>10, <1>11 DEF Next

LEMMA StepRowFollows == ActInv /\ Ordered /\ RowFollows /\ [Next]_vars => RowFollows'
<1> SUFFICES ASSUME ActInv, Ordered, RowFollows, [Next]_vars,
                    harm' \cap {"persist", "clock"} = {}
             PROVE  /\ pc' \in {"idle", "persist"} => SameCounters(base', row')
                    /\ pc' \in {"record", "aggregate", "publish"} =>
                         /\ SameCounters(sample', row')
                         /\ sample' = None => row' = None
  BY DEF RowFollows, SameCounters
<1> DEFINE Goal == /\ pc' \in {"idle", "persist"} => SameCounters(base', row')
                   /\ pc' \in {"record", "aggregate", "publish"} =>
                        /\ SameCounters(sample', row')
                        /\ sample' = None => row' = None
<1> USE DEF SameCounters, history
<1>1. harm \subseteq harm'
  BY DEF Next, Start, ClockSetBack, BillingAnswered, Replaced, ReplaceFailed, Recorded,
         NotRecorded, Aggregated, Published, Crash, vars
<1>2. /\ "clock" \notin harm
      /\ pc \in {"idle", "persist"} => SameCounters(base, row)
      /\ pc \in {"record", "aggregate", "publish"} =>
           /\ SameCounters(sample, row)
           /\ sample = None => row = None
  BY <1>1 DEF RowFollows
<1>3. ASSUME NEW read \in BOOLEAN, Start(read)
      PROVE  Goal
  BY <1>3 DEF Start
<1>4. CASE ClockSetBack
  BY <1>4 DEF ClockSetBack
<1>5. ASSUME NEW gap \in 1..MaxGap, NEW o \in Publications, NEW billed \in BOOLEAN,
             BillingAnswered(gap, o, billed)
      PROVE  Goal
  BY <1>2, <1>5 DEF BillingAnswered
<1>6. CASE Replaced
  <2>1. pc' = "record" /\ sample' = sample
    BY <1>6 DEF Replaced
  <2>2. sample = None => row' = None
    BY <1>6 DEF Replaced
  <2>3. ASSUME sample # None
        PROVE  row' # None /\ row'.objects = sample.objects /\ row'.parts = sample.parts
    <3>1. sample \in Sample /\ now \in 0..MaxTime /\ row' = Stored(AsBaseline(sample))
      BY <1>6, <2>3 DEF Replaced, ActInv, TypeOK
    <3> QED BY <3>1, RowOf
  <2> QED BY <2>1, <2>2, <2>3
<1>7. CASE ReplaceFailed
  BY <1>7 DEF ReplaceFailed
<1>8. CASE Recorded \/ NotRecorded
           \/ (\E queried, pruned \in BOOLEAN : Aggregated(queried, pruned))
  BY <1>2, <1>8 DEF Recorded, NotRecorded, Aggregated
<1>9. CASE Published
  <2>1. pc = "publish" /\ pc' = "idle" /\ row' = row /\ base' = NextBase(base, sample)
    BY <1>9 DEF Published
  <2>2. ASSUME base' # None
        PROVE  /\ sample # None
               /\ base'.objects = sample.objects /\ base'.parts = sample.parts
    <3>1. sample # None
      BY <2>1, <2>2 DEF NextBase
    <3>2. CASE base' = AsBaseline(sample)
      BY <3>1, <3>2 DEF AsBaseline
    <3>3. CASE base' # AsBaseline(sample)
      <4>1. base' = base /\ base # None /\ ~Changed(base, sample)
        BY <2>1, <3>1, <3>3 DEF NextBase, Proven
      <4>2. now > base.at
        <5>1. base.at < now
          BY <1>2, <2>1, <4>1 DEF Ordered, InPoll
        <5>2. base.at \in Nat /\ now \in Nat
          BY <4>1, ActivityAssumption DEF ActInv, TypeOK, Baseline
        <5> QED BY <5>1, <5>2
      <4> QED BY <3>1, <4>1, <4>2 DEF Changed, Known
    <3> QED BY <3>2, <3>3
  <2> QED BY <1>2, <2>1, <2>2
<1>10. CASE Crash
  BY <1>10 DEF Crash
<1>11. CASE UNCHANGED vars
  BY <1>2, <1>11 DEF vars
<1> QED BY <1>2, <1>3, <1>4, <1>5, <1>6, <1>7, <1>8, <1>9, <1>10, <1>11 DEF Next

\* While pollOnce waits for the next tick, seedFromState would give back the
\* counters of the baseline it holds, unless a replace has failed or the clock was
\* set back.
THEOREM RestartProof == Spec => []RestartKeepsCounters
<1>1. Init => RestartInv
  BY InitActInv DEF Init, RestartInv, Ordered, RowFollows, SameCounters, InPoll
<1>2. RestartInv /\ [Next]_vars => RestartInv'
  BY StepActInv, StepOrdered, StepRowFollows DEF RestartInv
<1>3. RestartInv => RestartKeepsCounters
  BY DEF RestartInv, RowFollows, SameCounters, RestartKeepsCounters
<1> QED BY <1>1, <1>2, <1>3, PTL DEF Spec

----------------------------------------------------------------------------
(***************************************************************************)
(* A bucket that has not changed.                                          *)
(***************************************************************************)
\* Hours without activity count as idle.
LEMMA NoneBusy ==
  ASSUME NEW seen, seen \subseteq HourBuckets, \A h \in HourBuckets : hours[h].active = 0
  PROVE  CountersOf(seen).busy = 0
<1> DEFINE busy == {h \in seen : hours[h].active > 0}
<1>1. busy = {}
  OBVIOUS
<1>2. Cardinality(busy) = 0
  BY <1>1, FS_EmptySet
<1> HIDE DEF busy
<1>3. CountersOf(seen) = IF sample = None THEN NotShown
        ELSE [known |-> Known(base), busy |-> Cardinality(busy),
              observed |-> Cardinality(seen),
              hot |-> IsHot(Cardinality(busy), Cardinality(seen))]
  BY DEF CountersOf, busy
<1> QED BY <1>2, <1>3 DEF NotShown

LEMMA StepIdleInv == ActInv /\ IdleInv /\ [Next]_vars => IdleInv'
<1> SUFFICES ASSUME ActInv, IdleInv, [Next]_vars, ~stirred'
             PROVE  /\ published'.parts = 0
                    /\ Still(row)' /\ Still(base)'
                    /\ \A h \in HourBuckets : hours'[h].active = 0
                    /\ counters'.busy = 0 /\ shown'.busy = 0
  BY DEF IdleInv
<1> DEFINE Goal == /\ published'.parts = 0
                   /\ Still(row)' /\ Still(base)'
                   /\ \A h \in HourBuckets : hours'[h].active = 0
                   /\ counters'.busy = 0 /\ shown'.busy = 0
<1> USE DEF Still, history
<1>1. ~stirred
  BY DEF Next, Start, ClockSetBack, BillingAnswered, Replaced, ReplaceFailed, Recorded,
         NotRecorded, Aggregated, Published, Crash, vars
<1>2. /\ published.parts = 0
      /\ Still(row) /\ Still(base)
      /\ \A h \in HourBuckets : hours[h].active = 0
      /\ counters.busy = 0 /\ shown.busy = 0
  BY <1>1 DEF IdleInv
<1>3. sample # None => sample = published /\ sample.parts = 0
  BY <1>2 DEF ActInv, Local
<1>4. ASSUME NEW read \in BOOLEAN, Start(read)
      PROVE  Goal
  BY <1>2, <1>4 DEF Start
<1>5. CASE ClockSetBack
  BY <1>2, <1>5 DEF ClockSetBack
<1>6. ASSUME NEW gap \in 1..MaxGap, NEW o \in Publications, NEW billed \in BOOLEAN,
             BillingAnswered(gap, o, billed)
      PROVE  Goal
  <2>1. o.objects = published.objects /\ ~(o.parts > 0)
    BY <1>6 DEF BillingAnswered
  <2>2. o.parts \in Nat
    <3>1. o \in Sample
      BY PublicationFacts
    <3> QED BY <3>1, SampleFacts
  <2>3. o.parts = 0
    BY <2>1, <2>2
  <2> QED BY <1>2, <1>6, <2>1, <2>3 DEF BillingAnswered
<1>7. CASE Replaced
  <2>1. sample # None => row'.objects = sample.objects /\ row'.parts = sample.parts
    BY <1>7, RowOf DEF Replaced, ActInv, TypeOK
  <2> QED BY <1>2, <1>3, <1>7, <2>1 DEF Replaced
<1>8. CASE ReplaceFailed \/ NotRecorded
  BY <1>2, <1>8 DEF ReplaceFailed, NotRecorded
<1>9. CASE Recorded
  <2> DEFINE now_ == HourBucket(now)
  <2>1. /\ sample \in Sample /\ base \in Baseline \cup {None} /\ Known(base)
        /\ hours \in [HourBuckets -> Hour] /\ now_ \in HourBuckets
    BY <1>9, HourFacts DEF Recorded, HasDelta, Recordable, ActInv, TypeOK
  <2>2. ~Moving(base, sample)
    <3>1. base.objects = published.objects /\ base.parts = 0
      BY <1>2, <2>1 DEF Known
    <3>2. sample.objects = published.objects /\ sample.parts = 0
      BY <1>3, <1>9 DEF Recorded, HasDelta
    <3> QED BY <3>1, <3>2 DEF Moving, Changed
  <2>3. Fold(hours[now_], base, sample).active = hours[now_].active + 0
    BY <2>1, <2>2, FoldType
  <2>4. hours' = [hours EXCEPT ![now_] = Fold(hours[now_], base, sample)]
    BY <1>9 DEF Recorded
  <2> HIDE DEF now_
  <2>5. \A h \in HourBuckets : hours'[h].active = 0
    BY <1>2, <2>1, <2>3, <2>4
  <2> QED BY <1>2, <1>9, <2>5 DEF Recorded
<1>10. ASSUME NEW queried \in BOOLEAN, NEW pruned \in BOOLEAN, Aggregated(queried, pruned)
      PROVE  Goal
  <2>1. (IF queried THEN Window ELSE {}) \subseteq HourBuckets
    BY DEF Window, Present
  <2>2. counters'.busy = 0
    BY <1>2, <1>10, <2>1, NoneBusy DEF Aggregated
  <2>3. \A h \in HourBuckets : hours'[h].active = 0
    BY <1>2, <1>10 DEF Aggregated, NoHour
  <2> QED BY <1>2, <1>10, <2>2, <2>3 DEF Aggregated
<1>11. CASE Published
  BY <1>2, <1>3, <1>11 DEF Published, NextBase, AsBaseline, NotShown
<1>12. CASE Crash
  BY <1>2, <1>12 DEF Crash, NotShown
<1>13. CASE UNCHANGED vars
  BY <1>2, <1>13 DEF vars
<1> QED BY <1>4, <1>5, <1>6, <1>7, <1>8, <1>9, <1>10, <1>11, <1>12, <1>13 DEF Next

\* computeActivity and the window query never make a bucket busy whose counters
\* have not moved, whatever fails and whatever ECS repeats.
THEOREM IdleProof == Spec => []IdleIsNeverBusy
<1>1. Init => IdleInv
  <2> SUFFICES ASSUME Init, ~stirred PROVE IdleInv
    BY DEF IdleInv
  <2>1. ~(published.parts > 0)
    <3>1. stirred = (published.parts > 0)
      BY DEF Init
    <3> QED BY <3>1
  <2>2. published.parts = 0
    <3>1. published \in Sample
      BY InitActInv DEF ActInv, TypeOK
    <3> QED BY <2>1, <3>1, SampleFacts
  <2> QED BY <2>2 DEF Init, IdleInv, Still, NoHour, NotShown
<1>2. IdleInv => IdleIsNeverBusy
  BY DEF IdleInv, IdleIsNeverBusy
<1> QED BY <1>1, <1>2, InitActInv, StepActInv, StepIdleInv, PTL DEF Spec

----------------------------------------------------------------------------
(***************************************************************************)
(* A stamped publication is folded once.                                   *)
(***************************************************************************)
\* A recorded sample leaves the baseline no publication behind.
LEMMA RecordedIsCaught ==
  ASSUME ActInv, sample # None, Recordable(base, sample)
  PROVE  /\ base # None
         /\ \/ NextBase(base, sample) = AsBaseline(sample)
            \/ /\ NextBase(base, sample) = base
               /\ base.uptodate = 0 \/ sample.uptodate = 0
<1>1. Known(base) /\ base # None
  BY DEF Recordable, Known
<1>2. CASE Proven(base, sample)
  BY <1>1, <1>2 DEF NextBase
<1>3. CASE ~Proven(base, sample)
  <2>1. ~FreshnessKnown(base, sample)
    BY <1>3 DEF Proven, Recordable
  <2> QED BY <1>1, <1>3, <2>1 DEF FreshnessKnown, NextBase
<1> QED BY <1>1, <1>2, <1>3

LEMMA StepFoldedInv == ActInv /\ FoldedInv /\ [Next]_vars => FoldedInv'
<1> SUFFICES ASSUME ActInv, FoldedInv, [Next]_vars, "persist" \notin harm'
             PROVE  FoldedInv'
  BY DEF FoldedInv
<1> USE DEF history
<1>1. "persist" \notin harm
  BY DEF Next, Start, ClockSetBack, BillingAnswered, Replaced, ReplaceFailed, Recorded,
         NotRecorded, Aggregated, Published, Crash, vars
<1>2. /\ Caught(row)
      /\ pc \in {"aggregate", "publish"} => Caught(NextBase(base, sample))
      /\ pc \notin {"aggregate", "publish"} => Caught(base)
      /\ pc \in {"record", "aggregate", "publish"} /\ sample # None =>
           row # None /\ row.uptodate = Cut(sample.uptodate)
           /\ row.objects = sample.objects /\ row.parts = sample.parts
  BY <1>1 DEF FoldedInv
<1>3. sample # None => sample = published /\ sample \in Sample
  BY DEF ActInv, TypeOK, Local
\* A baseline taken from the sample is the latest publication, and so is the row.
<1>4. sample # None => Caught(AsBaseline(sample)) /\ Caught(Stored(AsBaseline(sample)))
  BY <1>3, BaselineOf, RowOf DEF Caught, ActInv, TypeOK
<1>5. ASSUME NEW read \in BOOLEAN, Start(read)
      PROVE  FoldedInv'
  BY <1>2, <1>5 DEF Start, FoldedInv, Caught
<1>6. CASE ClockSetBack
  <2>1. pc = "down"
    BY <1>6 DEF ClockSetBack
  <2> QED BY <1>2, <1>6, <2>1 DEF ClockSetBack, FoldedInv, Caught
<1>7. ASSUME NEW gap \in 1..MaxGap, NEW o \in Publications, NEW billed \in BOOLEAN,
             BillingAnswered(gap, o, billed)
      PROVE  FoldedInv'
  <2>1. /\ pc = "idle" /\ pc' = "persist" /\ row' = row /\ base' = base
        /\ folded' = folded /\ published' = o
    BY <1>7 DEF BillingAnswered
  <2>2. o = published \/ o.number # folded
    <3>1. folded \in Nat /\ published.number \in Nat /\ folded <= published.number
      BY SampleFacts DEF ActInv, TypeOK, Local
    <3> QED BY <3>1, PublicationFacts
  <2> QED BY <1>2, <2>1, <2>2 DEF FoldedInv, Caught
<1>8. CASE Replaced
  <2>1. /\ pc = "persist" /\ pc' = "record" /\ base' = base /\ sample' = sample
        /\ folded' = folded /\ published' = published
        /\ row' = IF sample = None THEN None ELSE Stored(AsBaseline(sample))
    BY <1>8 DEF Replaced
  <2>2. Caught(base)' /\ Caught(row)'
    BY <1>2, <1>4, <2>1 DEF Caught
  <2>3. sample # None =>
          row' # None /\ row'.uptodate = Cut(sample.uptodate)
          /\ row'.objects = sample.objects /\ row'.parts = sample.parts
    BY <1>3, <2>1, RowOf DEF ActInv, TypeOK
  <2> QED BY <2>1, <2>2, <2>3 DEF FoldedInv
<1>9. CASE ReplaceFailed
  BY <1>9 DEF ReplaceFailed
<1>10. CASE Recorded
  <2>1. /\ pc = "record" /\ pc' = "aggregate" /\ base' = base /\ sample' = sample
        /\ folded' = sample.number /\ published' = published /\ row' = row /\ now' = now
        /\ sample # None /\ Recordable(base, sample)
    BY <1>10 DEF Recorded, HasDelta
  <2>2. NextBase(base, sample)' = NextBase(base, sample)
    BY <2>1 DEF NextBase, Proven, MeteringRefreshed, FreshnessKnown, Changed, Known, AsBaseline
  <2>3. Caught(row)'
    BY <1>2, <1>3, <2>1 DEF Caught
  <2>4. Caught(NextBase(base, sample))'
    <3>1. CASE NextBase(base, sample) = AsBaseline(sample)
      BY <1>3, <2>1, <2>2, <3>1, BaselineOf DEF Caught, ActInv, TypeOK
    <3>2. CASE NextBase(base, sample) = base /\ (base.uptodate = 0 \/ sample.uptodate = 0)
      BY <1>3, <2>1, <2>2, <3>2 DEF Caught
    <3> QED BY <2>1, <3>1, <3>2, RecordedIsCaught
  <2> QED BY <1>2, <2>1, <2>3, <2>4 DEF FoldedInv
<1>11. CASE NotRecorded
  <2>1. /\ pc = "record" /\ pc' = "aggregate" /\ base' = base /\ sample' = sample
        /\ folded' = folded /\ published' = published /\ row' = row /\ now' = now
    BY <1>11 DEF NotRecorded
  <2>2. NextBase(base, sample)' = NextBase(base, sample)
    BY <2>1 DEF NextBase, Proven, MeteringRefreshed, FreshnessKnown, Changed, Known, AsBaseline
  <2>4. Caught(NextBase(base, sample))
    <3>1. CASE sample = None
      BY <3>1 DEF NextBase, Caught
    <3>2. CASE sample # None /\ (base = None \/ Proven(base, sample))
      BY <1>4, <3>2 DEF NextBase
    <3>3. CASE sample # None /\ ~(base = None \/ Proven(base, sample))
      BY <1>2, <2>1, <3>3 DEF NextBase
    <3> QED BY <3>1, <3>2, <3>3
  <2>5. Caught(NextBase(base, sample))' /\ Caught(row)'
    BY <1>2, <2>1, <2>2, <2>4 DEF Caught
  <2> QED BY <1>2, <2>1, <2>5 DEF FoldedInv
<1>12. ASSUME NEW queried \in BOOLEAN, NEW pruned \in BOOLEAN, Aggregated(queried, pruned)
       PROVE  FoldedInv'
  <2>1. /\ pc = "aggregate" /\ pc' = "publish" /\ base' = base /\ sample' = sample
        /\ folded' = folded /\ published' = published /\ row' = row /\ now' = now
    BY <1>12 DEF Aggregated
  <2>2. NextBase(base, sample)' = NextBase(base, sample)
    BY <2>1 DEF NextBase, Proven, MeteringRefreshed, FreshnessKnown, Changed, Known, AsBaseline
  <2>3. Caught(NextBase(base, sample))' /\ Caught(row)'
    BY <1>2, <2>1, <2>2 DEF Caught
  <2> QED BY <1>2, <2>1, <2>3 DEF FoldedInv
<1>13. CASE Published
  <2>1. /\ pc = "publish" /\ pc' = "idle" /\ base' = NextBase(base, sample)
        /\ folded' = folded /\ published' = published /\ row' = row
    BY <1>13 DEF Published
  <2>2. Caught(base)' /\ Caught(row)'
    BY <1>2, <2>1 DEF Caught
  <2> QED BY <2>1, <2>2 DEF FoldedInv
<1>14. CASE Crash
  <2>1. /\ pc' = "down" /\ base' = None
        /\ folded' = folded /\ published' = published /\ row' = row
    BY <1>14 DEF Crash
  <2> QED BY <1>2, <2>1 DEF FoldedInv, Caught
<1>15. CASE UNCHANGED vars
  <2>1. /\ pc' = pc /\ base' = base /\ sample' = sample
        /\ folded' = folded /\ published' = published /\ row' = row /\ now' = now
    BY <1>15 DEF vars
  <2>2. NextBase(base, sample)' = NextBase(base, sample)
    BY <2>1 DEF NextBase, Proven, MeteringRefreshed, FreshnessKnown, Changed, Known, AsBaseline
  <2>3. /\ Caught(row)'
        /\ pc \in {"aggregate", "publish"} => Caught(NextBase(base, sample))'
        /\ pc \notin {"aggregate", "publish"} => Caught(base)'
    BY <1>2, <2>1, <2>2 DEF Caught
  <2> QED BY <1>2, <2>1, <2>3 DEF FoldedInv
<1> QED BY <1>5, <1>6, <1>7, <1>8, <1>9, <1>10, <1>11, <1>12, <1>13, <1>14, <1>15 DEF Next

\* RecordActivity adds no stamped publication a second time, over any number of
\* polls and restarts, unless ReplaceObservation has failed before or the baseline
\* is the row of that publication, without its fraction of a second.
THEOREM FoldedOnceProof == Spec => StampedIsFoldedOnce
<1> DEFINE Once == pc = "record" /\ hours' # hours /\ FreshnessKnown(base, sample) =>
                     \/ "persist" \in harm
                     \/ sample.number > folded
                     \/ LostFraction(base, sample)
<1>1. Init => FoldedInv
  BY DEF Init, FoldedInv, Caught
<1>2. ActInv /\ FoldedInv /\ [Next]_vars => Once
  <2> SUFFICES ASSUME ActInv, FoldedInv, [Next]_vars, pc = "record", hours' # hours,
                      FreshnessKnown(base, sample), "persist" \notin harm,
                      ~(sample.number > folded), ~LostFraction(base, sample)
               PROVE  FALSE
    OBVIOUS
  <2>1. Recorded
    BY DEF Next, Start, ClockSetBack, BillingAnswered, Replaced, ReplaceFailed,
           NotRecorded, Aggregated, Published, Crash, vars
  <2>2. sample # None /\ Recordable(base, sample)
    BY <2>1 DEF Recorded, HasDelta
  <2>3. sample = published /\ folded = published.number
    <3>1. sample = published
      BY <2>2 DEF ActInv, Local
    <3>2. folded \in Nat /\ published.number \in Nat /\ folded <= published.number
      BY SampleFacts DEF ActInv, TypeOK, Local
    <3> QED BY <3>1, <3>2
  <2>4. base # None /\ base.uptodate # 0 /\ published.uptodate # 0
    BY <2>3 DEF FreshnessKnown, Known
  <2>5. /\ base.uptodate \in {published.uptodate, Cut(published.uptodate)}
        /\ base.objects = published.objects /\ base.parts = published.parts
    BY <2>3, <2>4 DEF FoldedInv, Caught
  <2>6. published.uptodate \in Nat
    BY SampleFacts DEF ActInv, TypeOK
  <2>7. base.uptodate = published.uptodate
    BY <2>3, <2>5 DEF LostFraction, Cut
  <2> QED BY <2>2, <2>3, <2>5, <2>6, <2>7 DEF Recordable, MeteringRefreshed, Changed
<1>3. ActInv /\ FoldedInv /\ [Next]_vars => [Once]_vars
  BY <1>2
<1>4. StampedIsFoldedOnce <=> [][Once]_vars
  BY DEF StampedIsFoldedOnce
<1> HIDE DEF Once
<1> QED BY <1>1, <1>3, <1>4, InitActInv, StepActInv, StepFoldedInv, PTL DEF Spec

----------------------------------------------------------------------------
(***************************************************************************)
(* Nothing is lost or counted twice.                                       *)
(***************************************************************************)
\* What proves a sample to be news also makes it recordable.
LEMMA ProvenIsRecordable ==
  ASSUME NEW b, NEW o, Proven(b, o)
  PROVE  Recordable(b, o)
BY DEF Proven, Recordable, MeteringRefreshed, FreshnessKnown, Changed

LEMMA StepNetInv == ActInv /\ NetInv /\ [Next]_vars => NetInv'
<1> SUFFICES ASSUME ActInv, NetInv, [Next]_vars, harm' \subseteq {"clock"}
             PROVE  NetInv'
  BY DEF NetInv
<1> USE DEF history
<1>0. harm \subseteq harm'
  BY DEF Next, Start, ClockSetBack, BillingAnswered, Replaced, ReplaceFailed, Recorded,
         NotRecorded, Aggregated, Published, Crash, vars
<1>1. harm \subseteq {"clock"} /\ "lost" \notin harm' /\ "lost" \notin harm
  BY <1>0
<1>2. /\ pc = "down" /\ row # None => Movement = row.objects - origin
      /\ pc \in {"idle", "persist", "record"} /\ base # None => Movement = base.objects - origin
      /\ pc \in {"idle", "persist"} /\ base = None => row = None
      /\ pc \in {"persist", "record"} /\ base = None /\ sample # None =>
           Movement = sample.objects - origin
      /\ pc \in {"aggregate", "publish"} /\ sample # None =>
           Movement = NextBase(base, sample).objects - origin
      /\ pc \in {"record", "aggregate", "publish"} =>
           /\ sample = None => row = None
           /\ sample # None => row # None /\ row.objects = sample.objects
  BY <1>1 DEF NetInv
<1>3. sample # None => sample \in Sample /\ AsBaseline(sample) # None
                       /\ AsBaseline(sample).objects = sample.objects
  BY BaselineOf DEF ActInv, TypeOK
<1>4. hours \in [HourBuckets -> Hour] /\ origin \in Int /\ forgotten \in Int
      /\ Movement \in Int
  BY MovementType DEF ActInv, TypeOK
<1>5. hours' = hours /\ forgotten' = forgotten => Movement' = Movement
  BY DEF Net, Movement
\* The baseline that a poll arrives at does not change with what it has done.
<1>17. base' = base /\ sample' = sample /\ now' = now =>
         NextBase(base, sample)' = NextBase(base, sample)
  BY DEF NextBase, Proven, MeteringRefreshed, FreshnessKnown, Changed, Known, AsBaseline
<1>6. ASSUME NEW read \in BOOLEAN, Start(read)
      PROVE  NetInv'
  <2>1. /\ pc = "down" /\ pc' = "idle" /\ row' = row /\ origin' = origin
        /\ hours' = hours /\ forgotten' = forgotten
        /\ base' = IF read THEN row ELSE None
        /\ ~read => row = None
    BY <1>1, <1>6 DEF Start
  <2> QED BY <1>2, <1>5, <2>1 DEF NetInv
<1>7. CASE ClockSetBack
  <2>1. /\ pc = "down" /\ pc' = "down" /\ row' = row /\ origin' = origin
        /\ hours' = hours /\ forgotten' = forgotten
    BY <1>7 DEF ClockSetBack
  <2> QED BY <1>2, <1>5, <2>1 DEF NetInv
<1>8. ASSUME NEW gap \in 1..MaxGap, NEW o \in Publications, NEW billed \in BOOLEAN,
             BillingAnswered(gap, o, billed)
      PROVE  NetInv'
  <2>1. /\ pc = "idle" /\ pc' = "persist" /\ row' = row /\ base' = base
        /\ hours' = hours /\ forgotten' = forgotten
        /\ sample' = IF billed THEN o ELSE None
        /\ origin' = IF billed /\ base = None THEN o.objects - Movement ELSE origin
    BY <1>1, <1>8 DEF BillingAnswered
  <2>2. o.objects \in Int /\ \A m, n \in Int : m = n - (n - m)
    BY PublicationFacts, SampleFacts
  <2>3. base = None /\ sample' # None => Movement' = sample'.objects - origin'
    BY <1>4, <1>5, <2>1, <2>2
  <2> QED BY <1>2, <1>5, <2>1, <2>3 DEF NetInv
<1>9. CASE Replaced
  <2>1. /\ pc = "persist" /\ pc' = "record" /\ base' = base /\ sample' = sample
        /\ hours' = hours /\ forgotten' = forgotten /\ origin' = origin
        /\ row' = IF sample = None THEN None ELSE Stored(AsBaseline(sample))
    BY <1>9 DEF Replaced
  <2>2. sample # None => row' # None /\ row'.objects = sample.objects
    BY <1>3, <2>1, RowOf DEF ActInv, TypeOK
  <2> QED BY <1>2, <1>5, <2>1, <2>2 DEF NetInv
<1>10. CASE ReplaceFailed
  BY <1>10 DEF ReplaceFailed
<1>11. CASE Recorded
  <2> DEFINE k == HourBucket(now)
             N == HourBucket(MaxTime)
             f == Fold(hours[k], base, sample)
             d == sample.objects - base.objects
  <2>1. /\ sample \in Sample /\ base \in Baseline /\ base # None /\ Known(base)
        /\ N \in Nat /\ k \in 0..N /\ HourBuckets = 0..N
    BY <1>11, HourFacts DEF Recorded, HasDelta, Recordable, Known, ActInv, TypeOK, HourBuckets
  <2>2. d \in Int /\ base.objects \in Int /\ sample.objects \in Int
    <3>1. base.objects \in Objects /\ \A v \in Objects : v \in Int
      BY <2>1, ActivityAssumption DEF Baseline
    <3>2. sample.objects \in Int
      BY <2>1, SampleFacts
    <3> QED BY <3>1, <3>2
  <2>3. f \in Hour /\ f.up - f.down = hours[k].up - hours[k].down + d
    BY <1>4, <2>1, FoldType
  <2>4. hours' = [hours EXCEPT ![k] = f]
    BY <1>11 DEF Recorded
  <2> HIDE DEF k, N, f, d
  <2>5. \A h \in 0..N : /\ hours[h].up \in Int /\ hours[h].down \in Int
                        /\ hours'[h].up \in Int /\ hours'[h].down \in Int
                        /\ h # k => hours'[h] = hours[h]
    <3>1. \A h \in 0..N : hours[h] \in Hour /\ hours'[h] \in Hour
      BY <1>4, <2>1, <2>3, <2>4
    <3>2. \A r \in Hour : r.up \in Int /\ r.down \in Int
      BY DEF Hour
    <3>3. \A h \in 0..N : h # k => hours'[h] = hours[h]
      BY <1>4, <2>1, <2>4
    <3> QED BY <3>1, <3>2, <3>3
  <2>6. hours'[k].up - hours'[k].down = hours[k].up - hours[k].down + d
    BY <1>4, <2>1, <2>3, <2>4
  <2>7. NetOf(hours, N + 1) \in Int /\ NetOf(hours', N + 1) = NetOf(hours, N + 1) + d
    <3> DEFINE next == hours'
    <3>1. N \in Nat /\ k \in 0..N /\ d \in Int
      BY <2>1, <2>2
    <3>2. \A h \in 0..N : /\ hours[h].up \in Int /\ hours[h].down \in Int
                          /\ next[h].up \in Int /\ next[h].down \in Int
                          /\ h # k => next[h] = hours[h]
      BY <2>5
    <3>3. next[k].up - next[k].down = hours[k].up - hours[k].down + d
      BY <2>6
    <3> HIDE DEF next
    <3>4. NetOf(hours, N + 1) \in Int
      BY <3>1, <3>2, <3>3, NetOfChanged
    <3>5. NetOf(next, N + 1) = NetOf(hours, N + 1) + d
      BY <3>1, <3>2, <3>3, NetOfChanged
    <3> QED BY <3>4, <3>5 DEF next
  <2>8. Movement \in Int /\ Movement' = Movement + d
    <3>1. Net \in Int /\ Net' = Net + d
      BY <2>7 DEF Net, N
    <3>2. forgotten' = forgotten
      BY <1>11 DEF Recorded
    <3> QED BY <1>4, <2>2, <3>1, <3>2 DEF Movement
  <2>9. Movement = base.objects - origin
    BY <1>2, <1>11, <2>1 DEF Recorded
  <2>10. Movement' = sample.objects - origin
    BY <1>4, <2>2, <2>8, <2>9 DEF d
  <2>11. /\ pc = "record" /\ pc' = "aggregate" /\ base' = base /\ sample' = sample
         /\ now' = now /\ row' = row /\ origin' = origin /\ Recordable(base, sample)
    BY <1>11 DEF Recorded, HasDelta
  <2>12. NextBase(base, sample).objects = sample.objects
    <3>1. CASE Proven(base, sample)
      BY <1>3, <2>1, <3>1 DEF NextBase
    <3>2. CASE ~Proven(base, sample)
      <4>1. NextBase(base, sample) = base /\ sample # None
        BY <1>11, <2>1, <3>2 DEF NextBase, Recorded, HasDelta
      <4>2. base.objects = sample.objects
        BY <2>1, <3>2 DEF Proven, Changed
      <4> QED BY <4>1, <4>2
    <3> QED BY <3>1, <3>2
  <2> QED BY <1>2, <1>17, <2>10, <2>11, <2>12 DEF NetInv
<1>12. CASE NotRecorded
  <2>1. /\ pc = "record" /\ pc' = "aggregate" /\ base' = base /\ sample' = sample
        /\ now' = now /\ row' = row
        /\ hours' = hours /\ forgotten' = forgotten /\ origin' = origin /\ ~HasDelta
    BY <1>1, <1>12 DEF NotRecorded
  <2>2. ASSUME sample # None
        PROVE  Movement = NextBase(base, sample).objects - origin
    <3>1. CASE base = None
      <4>1. NextBase(base, sample) = AsBaseline(sample)
        BY <2>2, <3>1 DEF NextBase
      <4> QED BY <1>2, <1>3, <2>1, <2>2, <3>1, <4>1
    <3>2. CASE base # None
      <4>1. ~Proven(base, sample)
        BY <2>1, <2>2, ProvenIsRecordable DEF HasDelta
      <4>2. NextBase(base, sample) = base
        BY <2>2, <3>2, <4>1 DEF NextBase
      <4> QED BY <1>2, <2>1, <3>2, <4>2
    <3> QED BY <3>1, <3>2
  <2> QED BY <1>2, <1>5, <1>17, <2>1, <2>2 DEF NetInv
<1>13. ASSUME NEW queried \in BOOLEAN, NEW pruned \in BOOLEAN, Aggregated(queried, pruned)
       PROVE  NetInv'
  <2>1. /\ pc = "aggregate" /\ pc' = "publish" /\ base' = base /\ sample' = sample
        /\ now' = now /\ row' = row
        /\ origin' = origin /\ forgotten' = forgotten + Net - Net'
    BY <1>13 DEF Aggregated
  <2>2. hours' \in [HourBuckets -> Hour]
    BY <1>4, <1>13 DEF Aggregated, NoHour, Hour
  <2>3. Net \in Int /\ Net' \in Int
    BY <1>4, <2>2, NetOfType DEF Net
  <2>4. Movement' = Movement
    <3>1. \A n, m, f \in Int : m + (f + n - m) = n + f
      OBVIOUS
    <3>2. Movement = Net + forgotten /\ Movement' = Net' + forgotten'
      BY DEF Movement
    <3>3. Net' + (forgotten + Net - Net') = Net + forgotten
      BY <1>4, <2>3, <3>1
    <3> QED BY <2>1, <3>2, <3>3
  <2> QED BY <1>2, <1>17, <2>1, <2>4 DEF NetInv
<1>14. CASE Published
  <2>1. /\ pc = "publish" /\ pc' = "idle" /\ row' = row /\ hours' = hours
        /\ forgotten' = forgotten /\ origin' = origin
        /\ base' = NextBase(base, sample)
    BY <1>14 DEF Published
  <2>2. base' # None => sample # None
    BY <2>1 DEF NextBase
  <2>3. base' = None => sample = None
    BY <1>3, <2>1 DEF NextBase
  <2> QED BY <1>2, <1>5, <2>1, <2>2, <2>3 DEF NetInv
<1>15. CASE Crash
  <2>1. /\ pc # "down" /\ pc' = "down" /\ row' = row /\ hours' = hours
        /\ forgotten' = forgotten /\ origin' = origin /\ ~AheadOfHistory
    BY <1>1, <1>15 DEF Crash
  <2>2. /\ pc = "record" => ~HasDelta
        /\ Kept # None /\ row # None => row.objects = Kept.objects
    BY <2>1 DEF AheadOfHistory
  <2>3. ASSUME row # None
        PROVE  Movement = row.objects - origin
    <3>1. CASE pc \in {"idle", "persist"}
      <4>1. Kept = base /\ base # None
        BY <1>2, <2>3, <3>1 DEF Kept
      <4> QED BY <1>2, <2>2, <2>3, <3>1, <4>1
    <3>2. CASE pc = "record"
      <4>1. sample # None /\ row.objects = sample.objects
        BY <1>2, <2>3, <3>2
      <4>2. CASE base = None
        BY <1>2, <3>2, <4>1, <4>2
      <4>3. CASE base # None
        <5>1. ~Proven(base, sample)
          BY <2>2, <3>2, <4>1, ProvenIsRecordable DEF HasDelta
        <5>2. Kept = base
          BY <3>2, <4>1, <4>3, <5>1 DEF Kept, NextBase
        <5> QED BY <1>2, <2>2, <2>3, <3>2, <4>3, <5>2
      <4> QED BY <4>2, <4>3
    <3>3. CASE pc \in {"aggregate", "publish"}
      <4>1. sample # None /\ Kept = NextBase(base, sample)
        BY <1>2, <2>3, <3>3 DEF Kept
      <4>2. Kept # None
        BY <1>3, <4>1 DEF NextBase
      <4> QED BY <1>2, <2>2, <2>3, <3>3, <4>1, <4>2
    <3> QED BY <2>1, <3>1, <3>2, <3>3 DEF ActInv, TypeOK
  <2> QED BY <1>5, <2>1, <2>3 DEF NetInv
<1>16. CASE UNCHANGED vars
  <2>1. /\ pc' = pc /\ base' = base /\ sample' = sample /\ now' = now /\ row' = row
        /\ hours' = hours /\ forgotten' = forgotten /\ origin' = origin
    BY <1>16 DEF vars
  <2> QED BY <1>2, <1>5, <1>17, <2>1 DEF NetInv
<1> QED BY <1>6, <1>7, <1>8, <1>9, <1>10, <1>11, <1>12, <1>13, <1>14, <1>15, <1>16 DEF Next

\* The hourly rows, with those that PruneActivity has deleted, add up to how far the
\* baseline of computeActivity has moved since the bucket appeared, unless a store
\* call or a seed fails or the process ends while the row is ahead of the history;
\* also after the clock was set back.
THEOREM NetProof == Spec => []NetIsAccounted
<1>1. Init => NetInv
  BY DEF Init, NetInv
<1>2. NetInv => NetIsAccounted
  BY DEF NetInv, NetIsAccounted
<1> QED BY <1>1, <1>2, InitActInv, StepActInv, StepNetInv, PTL DEF Spec

----------------------------------------------------------------------------
(***************************************************************************)
(* Nothing is pruned that somebody still asks for.                         *)
(***************************************************************************)
LEMMA StepPrunedInv == ActInv /\ PrunedInv /\ [Next]_vars => PrunedInv'
<1> SUFFICES ASSUME ActInv, PrunedInv, [Next]_vars, "clock" \notin harm' PROVE PrunedInv'
  BY DEF PrunedInv
<1> USE DEF history
<1>0. "clock" \notin harm
  BY DEF Next, Start, ClockSetBack, BillingAnswered, Replaced, ReplaceFailed, Recorded,
         NotRecorded, Aggregated, Published, Crash, vars
<1>1. /\ hours \in [HourBuckets -> Hour] /\ ever \subseteq HourBuckets
      /\ now \in Nat /\ TicksPerHour \in Nat /\ ActivityRetention \in Nat
      /\ HourBucket(MaxTime) \in Nat
  BY HourFacts, ActivityAssumption DEF ActInv, TypeOK
<1>2. CASE ever' = ever /\ hours' = hours /\ now' = now
  BY <1>0, <1>2 DEF PrunedInv
<1>3. ASSUME NEW gap \in 1..MaxGap, NEW o \in Publications, NEW billed \in BOOLEAN,
             BillingAnswered(gap, o, billed)
      PROVE  PrunedInv'
  <2>1. ever' = ever /\ hours' = hours /\ now' = now + gap /\ gap \in Nat
    BY <1>3, ActivityAssumption DEF BillingAnswered
  <2>2. now - ActivityRetention <= now' - ActivityRetention
    BY <1>1, <2>1
  <2>3. ASSUME NEW h \in ever, h * TicksPerHour < now - ActivityRetention
        PROVE  h * TicksPerHour < now' - ActivityRetention
    <3>1. h * TicksPerHour \in Int
      BY <1>1 DEF HourBuckets
    <3> QED BY <1>1, <2>1, <2>3, <3>1
  <2> QED BY <1>0, <2>1, <2>3 DEF PrunedInv
<1>4. CASE Recorded
  <2> DEFINE k == HourBucket(now)
             f == Fold(hours[k], base, sample)
  <2>1. /\ sample \in Sample /\ base \in Baseline \cup {None} /\ Known(base)
        /\ k \in HourBuckets
    BY <1>4, HourFacts DEF Recorded, HasDelta, Recordable, ActInv, TypeOK
  <2>2. f.samples = hours[k].samples + 1 /\ hours[k].samples \in Nat
    BY <1>1, <2>1, FoldType DEF Hour
  <2>3. hours' = [hours EXCEPT ![k] = f] /\ ever' = ever \cup {k} /\ now' = now
    BY <1>4 DEF Recorded
  <2> HIDE DEF k, f
  <2>4. ASSUME NEW h \in ever', hours'[h].samples = 0
        PROVE  h * TicksPerHour < now - ActivityRetention
    <3>1. h # k
      BY <1>1, <2>1, <2>2, <2>3, <2>4
    <3>2. h \in ever /\ hours[h].samples = 0
      BY <1>1, <2>1, <2>3, <2>4, <3>1
    <3> QED BY <1>0, <3>2 DEF PrunedInv
  <2> QED BY <2>3, <2>4 DEF PrunedInv
<1>5. ASSUME NEW queried \in BOOLEAN, NEW pruned \in BOOLEAN, Aggregated(queried, pruned)
      PROVE  PrunedInv'
  <2>1. /\ ever' = ever /\ now' = now
        /\ \A h \in HourBuckets : h \notin Expired => hours'[h] = hours[h]
    BY <1>5 DEF Aggregated
  <2>2. \A h \in Expired : h * TicksPerHour < now - ActivityRetention
    BY DEF Expired
  <2> QED BY <1>0, <1>1, <2>1, <2>2 DEF PrunedInv
<1>6. CASE ClockSetBack
  BY <1>6 DEF ClockSetBack
<1>7. CASE (\E read \in BOOLEAN : Start(read)) \/ Replaced \/ ReplaceFailed \/ NotRecorded
           \/ Published \/ Crash \/ UNCHANGED vars
  BY <1>2, <1>7 DEF Start, Replaced, ReplaceFailed, NotRecorded, Published, Crash, vars
<1> QED BY <1>3, <1>4, <1>5, <1>6, <1>7 DEF Next

\* A row that the window query misses although the hour was measured has been
\* pruned.
LEMMA MissedIsPruned ==
  ASSUME ActInv, PrunedInv, "clock" \notin harm, NEW h \in ever, h \notin Present
  PROVE  /\ h \in Int /\ TicksPerHour * h \in Int
         /\ TicksPerHour * h < now - ActivityRetention
<1>1. h \in HourBuckets /\ h \in Int /\ TicksPerHour \in Int
  BY ActivityAssumption, HourFacts DEF ActInv, TypeOK, HourBuckets
<1>2. hours[h].samples = 0
  <2>1. hours[h].samples \in Nat
    BY <1>1 DEF ActInv, TypeOK, Hour
  <2> QED BY <1>1, <2>1 DEF Present
<1>3. h * TicksPerHour < now - ActivityRetention
  BY <1>2 DEF PrunedInv
<1>4. h * TicksPerHour = TicksPerHour * h /\ TicksPerHour * h \in Int
  BY <1>1
<1> QED BY <1>1, <1>3, <1>4

\* While the clock is not set back, PruneActivity has left every hour that the
\* window query of pollOnce asks for, except the first one where ACTIVITY_RETENTION
\* is not longer than ACTIVITY_WINDOW by all but one tick of an hour.
THEOREM WindowProof == Spec => []WindowIsComplete
<1>1. Init => PrunedInv
  BY DEF Init, PrunedInv
<1>2. ActInv /\ PrunedInv => WindowIsComplete
  <2> SUFFICES ASSUME ActInv, PrunedInv, "clock" \notin harm, NEW h \in ever, h \notin Present,
                      h >= FirstCovered
               PROVE  FALSE
    BY DEF WindowIsComplete
  <2> DEFINE t == now - ActivityWindow
             k == HourBucket(t)
  <2>1. /\ t \in Int /\ now \in Int /\ TicksPerHour \in Nat \ {0}
        /\ ActivityRetention \in Int /\ ActivityWindow \in Int
        /\ ActivityRetention >= ActivityWindow
    BY ActivityAssumption DEF ActInv, TypeOK
  <2>2. /\ h \in Int /\ TicksPerHour * h \in Int
        /\ TicksPerHour * h < now - ActivityRetention
    BY MissedIsPruned
  <2>3. k \in Int /\ t < TicksPerHour * (k + 1)
    BY <2>1, HourFacts
  <2>4. TicksPerHour * (k + 1) = TicksPerHour * k + TicksPerHour /\ TicksPerHour * k \in Int
    <3> HIDE DEF k, t
    <3> QED BY <2>1, <2>3
  <2>5. CASE ActivityRetention >= ActivityWindow + TicksPerHour - 1
    <3>1. h >= k
      BY <2>3, <2>5 DEF FirstCovered
    <3>2. TicksPerHour * k <= TicksPerHour * h
      <4> HIDE DEF k, t
      <4> QED BY <2>1, <2>2, <2>3, <3>1
    <3> HIDE DEF k
    <3> QED BY <2>1, <2>2, <2>3, <2>4, <2>5, <3>2
  <2>6. CASE ~(ActivityRetention >= ActivityWindow + TicksPerHour - 1)
    <3>1. h >= k + 1
      BY <2>6 DEF FirstCovered
    <3>2. TicksPerHour * (k + 1) <= TicksPerHour * h /\ TicksPerHour * (k + 1) \in Int
      <4> HIDE DEF k, t
      <4> QED BY <2>1, <2>2, <2>3, <3>1
    <3> HIDE DEF k
    <3> QED BY <2>1, <2>2, <2>3, <3>2
  <2> QED BY <2>5, <2>6
<1> QED BY <1>1, <1>2, InitActInv, StepActInv, StepPrunedInv, PTL DEF Spec

----------------------------------------------------------------------------
(***************************************************************************)
(* What the handler of ActivityHistory says.                               *)
(***************************************************************************)
\* The poller under the handler is the poller.
LEMMA HistoryStepsPoller == HistoryNext => [Next]_vars
BY DEF HistoryNext, PollerSteps, Queried, QueryFailed, LookedUp, Answered

\* A handler that found no hour and is about to look the bucket up: if there is
\* one by now, the poll that recorded it has the bucket in its payload, and the
\* poll that published since has it in its baseline.
LookupInv ==
  /\ since \in Int /\ publishes \in 0..MaxPublishes
  /\ call = "lookup" =>
       /\ pc # "down"
       /\ found = {}
       /\ (\E h \in Present : h >= since) =>
            /\ base # None
            /\ publishes = 0 => pc \in {"aggregate", "publish"} /\ sample # None

LEMMA HoursAreNumbers ==
  /\ \A h \in HourBuckets : h \in Int
  /\ \A h, n \in Int : ~(h >= n) => h < n
BY DEF HourBuckets

LEMMA InitLookupInv == HistoryInit => ActInv /\ LookupInv /\ NotFoundIsNotStale
BY InitActInv DEF HistoryInit, NoCall, LookupInv, MaxPublishes, NotFoundIsNotStale

\* What a poll under a waiting handler does.
LEMMA PollUnderLookup ==
  ASSUME ActInv, ActInv', LookupInv, PollerSteps, call = "lookup", pc' # "down"
  PROVE  LookupInv'
<1> USE DEF history
<1>1. /\ pc # "down" /\ found' = {} /\ call' = call /\ since' = since /\ since \in Int
      /\ publishes' = publishes + IF pc = "publish" THEN 1 ELSE 0
      /\ publishes \in 0..1 /\ publishes' \in 0..1
      /\ Next
  BY DEF LookupInv, PollerSteps, MaxPublishes
<1>2. SUFFICES ASSUME NEW h \in Present', h >= since
               PROVE  /\ base' # None
                      /\ publishes' = 0 => pc' \in {"aggregate", "publish"} /\ sample' # None
  BY <1>1 DEF LookupInv, MaxPublishes
<1> DEFINE Goal == /\ base' # None
                   /\ publishes' = 0 => pc' \in {"aggregate", "publish"} /\ sample' # None
<1>3. h \in Present =>
        /\ base # None
        /\ publishes = 0 => pc \in {"aggregate", "publish"} /\ sample # None
  BY <1>2 DEF LookupInv
<1>4. h \in HourBuckets /\ hours'[h].samples > 0 /\ (hours'[h] = hours[h] => h \in Present)
  BY <1>2 DEF Present
<1>5. CASE (\E read \in BOOLEAN : Start(read)) \/ ClockSetBack \/ Crash
  BY <1>1, <1>5 DEF Start, ClockSetBack, Crash
<1>6. ASSUME NEW gap \in 1..MaxGap, NEW o \in Publications, NEW billed \in BOOLEAN,
             BillingAnswered(gap, o, billed)
      PROVE  Goal
  BY <1>1, <1>3, <1>4, <1>6 DEF BillingAnswered
<1>7. CASE Replaced \/ ReplaceFailed
  BY <1>1, <1>3, <1>4, <1>7 DEF Replaced, ReplaceFailed
<1>8. CASE Recorded
  <2>1. base # None /\ sample # None /\ base' = base /\ sample' = sample /\ pc' = "aggregate"
    BY <1>8 DEF Recorded, HasDelta, Recordable, Known
  <2> QED BY <2>1
<1>9. CASE NotRecorded
  BY <1>1, <1>3, <1>4, <1>9 DEF NotRecorded
<1>10. ASSUME NEW queried \in BOOLEAN, NEW pruned \in BOOLEAN, Aggregated(queried, pruned)
       PROVE  Goal
  <2>1. /\ pc = "aggregate" /\ pc' = "publish" /\ base' = base /\ sample' = sample
        /\ hours'[h] = NoHour \/ hours'[h] = hours[h]
    BY <1>4, <1>10 DEF Aggregated
  <2>2. hours'[h] # NoHour
    BY <1>4 DEF NoHour
  <2> QED BY <1>1, <1>3, <1>4, <2>1, <2>2
<1>11. CASE Published
  <2>1. /\ pc = "publish" /\ hours' = hours /\ base' = NextBase(base, sample)
        /\ publishes = 0 /\ publishes' = 1
    BY <1>1, <1>11 DEF Published
  <2>2. base # None /\ sample # None
    BY <1>3, <1>4, <2>1
  <2>3. AsBaseline(sample) # None
    <3>1. sample \in Sample /\ now \in 0..MaxTime
      BY <2>2 DEF ActInv, TypeOK
    <3>2. AsBaseline(sample) \in Baseline
      BY <3>1 DEF AsBaseline, Baseline, Sample
    <3> QED BY <3>2, NoneAssumption
  <2> QED BY <2>1, <2>2, <2>3 DEF NextBase
<1> QED BY <1>1, <1>5, <1>6, <1>7, <1>8, <1>9, <1>10, <1>11 DEF Next

LEMMA StepLookupInv ==
  ActInv /\ ActInv' /\ LookupInv /\ [HistoryNext]_system => LookupInv'
<1> SUFFICES ASSUME ActInv, ActInv', LookupInv, [HistoryNext]_system PROVE LookupInv'
  OBVIOUS
<1>1. CASE PollerSteps
  <2>1. CASE pc' = "down"
    BY <1>1, <2>1 DEF PollerSteps, HangUp, LookupInv, MaxPublishes
  <2>2. CASE pc' # "down" /\ call = "lookup"
    BY <1>1, <2>2, PollUnderLookup
  <2>3. CASE pc' # "down" /\ call # "lookup"
    BY <1>1, <2>3 DEF PollerSteps, LookupInv, MaxPublishes
  <2> QED BY <2>1, <2>2, <2>3
<1>2. ASSUME NEW later \in 0..MaxGap, NEW lookback \in Lookbacks, Queried(later, lookback)
      PROVE  LookupInv'
  <2>1. since' \in Int
    <3>1. now + later \in Int /\ lookback \in Int
      BY ActivityAssumption, HistoryAssumption DEF ActInv, TypeOK
    <3>2. HourBucket(now + later) \in Int
      BY <3>1, HourFacts
    <3> QED BY <1>2, <3>1, <3>2 DEF Queried
  <2>2. /\ pc' # "down" /\ publishes' = 0 /\ Present' = Present
        /\ found' = {h \in Present : h >= since'}
        /\ call' = "lookup" => found' = {}
    BY <1>2 DEF Queried, vars, Present
  <2> QED BY <2>1, <2>2 DEF LookupInv, MaxPublishes
<1>3. CASE QueryFailed
  BY <1>3 DEF QueryFailed, LookupInv
<1>4. CASE LookedUp
  BY <1>4 DEF LookedUp, LookupInv
<1>5. CASE Answered
  <2>1. call' = "none" /\ since' = 0 /\ publishes' = 0
    BY <1>5 DEF Answered, HangUp
  <2> QED BY <2>1 DEF LookupInv, MaxPublishes
<1>6. CASE UNCHANGED system
  BY <1>6 DEF system, vars, reader, history, LookupInv, Present
<1> QED BY <1>1, <1>2, <1>3, <1>4, <1>5, <1>6 DEF HistoryNext

\* ActivityHistory answers "not found" only for a bucket that at that moment has no
\* hourly row in the lookback and is not in the snapshot.
THEOREM NotFoundProof == HistorySpec => []NotFoundIsNotStale
<1>1. ActInv /\ [HistoryNext]_system => ActInv'
  <2>1. UNCHANGED system => UNCHANGED vars
    BY DEF system
  <2> QED BY <2>1, HistoryStepsPoller, StepActInv
<1>2. ActInv /\ LookupInv /\ NotFoundIsNotStale /\ [HistoryNext]_system => NotFoundIsNotStale'
  <2> SUFFICES ASSUME ActInv, LookupInv, NotFoundIsNotStale, [HistoryNext]_system,
                      call' = "not found"
               PROVE  ~InSnapshot' /\ \A h \in Present' : h < since'
    BY DEF NotFoundIsNotStale
  <2>1. CASE LookedUp
    <3>1. pc # "down" /\ ~InSnapshot /\ base = None
      BY <2>1 DEF LookedUp, LookupInv, InSnapshot
    <3>2. \A h \in Present : ~(h >= since)
      BY <2>1, <3>1 DEF LookedUp, LookupInv
    <3>3. since \in Int /\ \A h \in Present : h \in Int
      <4>1. since \in Int
        BY DEF LookupInv
      <4>2. Present \subseteq HourBuckets
        BY DEF Present
      <4> QED BY <4>1, <4>2, HoursAreNumbers
    <3>4. Present' = Present /\ since' = since
      BY <2>1 DEF LookedUp, vars, Present
    <3>5. ~InSnapshot'
      BY <2>1, <3>1 DEF LookedUp, vars, InSnapshot
    <3>6. \A h \in Present : h < since
      <4> SUFFICES ASSUME NEW h \in Present PROVE h < since
        OBVIOUS
      <4>1. h \in Int /\ since \in Int /\ ~(h >= since)
        BY <3>2, <3>3
      <4> QED BY <4>1, HoursAreNumbers
    <3> QED BY <3>4, <3>5, <3>6
  <2>2. CASE PollerSteps
    BY <2>2 DEF PollerSteps, HangUp
  <2>3. CASE QueryFailed \/ Answered
             \/ \E later \in 0..MaxGap, lookback \in Lookbacks : Queried(later, lookback)
    BY <2>3 DEF QueryFailed, Answered, HangUp, Queried
  <2>4. CASE UNCHANGED system
    BY <2>4 DEF system, vars, reader, NotFoundIsNotStale, Present, InSnapshot
  <2> QED BY <2>1, <2>2, <2>3, <2>4 DEF HistoryNext
<1> QED BY <1>1, <1>2, InitLookupInv, StepLookupInv, PTL DEF HistorySpec

\* While the clock is not set back, an hour that ActivityHistory leaves out was not
\* measured, or is behind the retention of PruneActivity.
THEOREM MissingHourProof == HistorySpec => []MissingHourWasNotMeasured
<1>1. HistoryInit => PrunedInv /\ MissingHourWasNotMeasured
  BY DEF HistoryInit, NoCall, Init, PrunedInv, MissingHourWasNotMeasured
<1>2. ActInv /\ PrunedInv /\ [HistoryNext]_system => ActInv' /\ PrunedInv'
  <2>1. UNCHANGED system => UNCHANGED vars
    BY DEF system
  <2> QED BY <2>1, HistoryStepsPoller, StepActInv, StepPrunedInv
<1>3. ActInv /\ LookupInv /\ PrunedInv /\ MissingHourWasNotMeasured /\ [HistoryNext]_system
        => MissingHourWasNotMeasured'
  <2> SUFFICES ASSUME ActInv, LookupInv, PrunedInv, MissingHourWasNotMeasured,
                      [HistoryNext]_system, call' = "hours", found' # {},
                      "clock" \notin harm'
               PROVE  \A h \in ever' :
                        h >= since' /\ h * TicksPerHour >= now' - ActivityRetention => h \in found'
    BY DEF MissingHourWasNotMeasured
  <2>1. ASSUME NEW later \in 0..MaxGap, NEW lookback \in Lookbacks, Queried(later, lookback),
               NEW h \in ever', h >= since', h * TicksPerHour >= now' - ActivityRetention
        PROVE  h \in found'
    <3>1. /\ found' = {i \in Present : i >= since'}
          /\ ever' = ever /\ now' = now /\ harm' = harm
      BY <2>1 DEF Queried, vars, history
    <3>2. h \in HourBuckets /\ hours[h].samples \in Nat
      BY <3>1 DEF ActInv, TypeOK, Hour
    <3>3. h * TicksPerHour \in Int /\ now - ActivityRetention \in Int
      BY <3>2, HourFacts, ActivityAssumption DEF ActInv, TypeOK, HourBuckets
    <3>4. hours[h].samples # 0
      BY <2>1, <3>1, <3>3 DEF PrunedInv
    <3>5. h \in Present
      BY <3>2, <3>4 DEF Present
    <3> QED BY <2>1, <3>1, <3>5
  <2>2. CASE LookedUp
    BY <2>2 DEF LookedUp, LookupInv
  <2>3. CASE PollerSteps
    BY <2>3 DEF PollerSteps, HangUp
  <2>4. CASE QueryFailed \/ Answered
    BY <2>4 DEF QueryFailed, Answered, HangUp
  <2>5. CASE UNCHANGED system
    BY <2>5 DEF system, vars, reader, history, MissingHourWasNotMeasured
  <2> QED BY <2>1, <2>2, <2>3, <2>4, <2>5 DEF HistoryNext
<1> QED BY <1>1, <1>2, <1>3, InitLookupInv, StepLookupInv, PTL DEF HistorySpec

=============================================================================
