--------------------------- MODULE MeteringProofs ---------------------------
(***************************************************************************)
(* Proofs about Metering for every word size, grain and set of magnitudes, *)
(* and for every CPU.                                                      *)
(***************************************************************************)
EXTENDS Metering, TLAPS

\* The constants, as far as the proofs need them.
LEMMA Numbers ==
  /\ Grain \in Nat \ {0} /\ GiB \in Nat \ {0} /\ MaxInt64 \in Nat \ {0}
  /\ \A t \in Magnitudes : t \in Int
  /\ Missing \notin Magnitudes
<1>1. Grain \in Nat \ {0} /\ GiB \in Nat \ {0} /\ MaxInt64 \in Nat \ {0}
  BY MeteringAssumption
<1>2. ASSUME NEW t \in Magnitudes PROVE t \in Int
  <2>1. t \in Written \/ t \in {-Grain}
    BY DEF Magnitudes
  <2>2. CASE t \in Written
    BY <2>2, MeteringAssumption
  <2>3. CASE t \in {-Grain}
    BY <1>1, <2>3
  <2> QED BY <2>1, <2>2, <2>3
<1>3. Missing \notin Int
  BY MeteringAssumption
<1> QED BY <1>1, <1>2, <1>3

LEMMA HistoryNumbers ==
  /\ \A n \in Sizes : n \in 0..MaxInt64
  /\ \A n \in Thresholds : n \in 0..MaxInt64 /\ n # 0
BY MeteringAssumption, HysteresisAssumption

\* The remainder of a division by a positive number.
LEMMA Remainder ==
  ASSUME NEW a \in Int, NEW n \in Nat \ {0}
  PROVE  a % n \in 0 .. n - 1
OBVIOUS

\* Go's addition stays in the word.
LEMMA SumFits == ASSUME NEW a \in Int, NEW b \in Int PROVE Sum64(a, b) \in Int64
<1> DEFINE word == 2 * (MaxInt64 + 1)
<1>1. MaxInt64 \in Nat /\ word \in Nat \ {0} /\ a + b + MaxInt64 + 1 \in Int
  BY Numbers
<1> DEFINE rest == (a + b + MaxInt64 + 1) % word
<1>2. rest \in 0 .. word - 1
  <2> HIDE DEF word
  <2> QED BY <1>1, Remainder
<1>3. Sum64(a, b) = rest - (MaxInt64 + 1)
  BY DEF Sum64
<1> HIDE DEF rest
<1> QED BY <1>1, <1>2, <1>3 DEF Int64

\* A conversion gives an int64 on either CPU, at the edge too.
LEMMA BytesFit ==
  ASSUME NEW n \in Int, NEW unit, NEW build
  PROVE  ToBytes(n, unit, build).bytes \in Int64
<1>1. -(MaxInt64 + 1) \in Int64 /\ MaxInt64 \in Int64 /\ 0 \in Int64
  BY Numbers DEF Int64
<1>2. ASSUME NEW f PROVE ToInt64(f, build) \in Int64
  BY <1>1 DEF ToInt64
<1>3. \/ ToBytes(n, unit, build) = Failure
      \/ \E f : ToBytes(n, unit, build) = [ok |-> TRUE, bytes |-> ToInt64(f, build)]
  BY DEF ToBytes
<1> QED BY <1>1, <1>2, <1>3 DEF Failure

Positive64 == Int64 \cap (Nat \ {0})

\* A threshold is a positive int64 or none, whatever the text.
LEMMA ThresholdFits ==
  ASSUME NEW text, NEW build
  PROVE  GibBytes(text, build) \in Positive64 \cup {Nil}
<1>1. CASE text \in Magnitudes /\ ~(text <= 0)
  <2>1. text \in Int
    BY <1>1, Numbers
  <2>2. ToBytes(text, "GiB", build).bytes \in Int64
    BY <2>1, BytesFit
  <2> DEFINE b == ToBytes(text, "GiB", build)
  <2>3. GibBytes(text, build) = IF ~b.ok \/ b.bytes <= 0 THEN Nil ELSE b.bytes
    BY <1>1 DEF GibBytes
  <2> HIDE DEF b
  <2>4. b.bytes \in Int64
    BY <2>2 DEF b
  <2> QED BY <2>3, <2>4 DEF Positive64, Int64
<1>2. CASE ~(text \in Magnitudes /\ ~(text <= 0))
  BY <1>2 DEF GibBytes
<1> QED BY <1>1, <1>2

\* Readers that look at other keys, or in another order, find the one that is set.
LEMMA ThresholdsAgree ==
  ASSUME NEW d \in Document, PlainSpelling(d)
  PROVE  /\ JSONThreshold(d) = GibBytes(FirstNumber(d), d.build)
         /\ XMLThreshold(d) = GibBytes(FirstNumber(d), d.build)
<1>1. \A text : text \notin Magnitudes => GibBytes(text, d.build) = Nil
  BY DEF GibBytes
<1>2. CASE d.camel \in Magnitudes
  <2>1. d.subject = "namespace" /\ d.snake \notin Magnitudes
    BY <1>2 DEF PlainSpelling
  <2>2. FirstNumber(d) = d.camel /\ GibBytes(d.snake, d.build) = Nil
    BY <1>1, <2>1 DEF FirstNumber
  <2> QED BY <2>1, <2>2 DEF JSONThreshold, XMLThreshold
<1>3. CASE d.camel \notin Magnitudes
  <2>1. GibBytes(d.camel, d.build) = Nil
    BY <1>1, <1>3
  <2>2. XMLThreshold(d) = GibBytes(d.snake, d.build)
    BY <2>1 DEF XMLThreshold
  <2>3. CASE d.snake \in Magnitudes
    BY <2>2, <2>3 DEF JSONThreshold, FirstNumber
  <2>4. CASE d.snake \notin Magnitudes
    BY <1>1, <2>1, <2>2, <2>4 DEF JSONThreshold, FirstNumber
  <2> QED BY <2>3, <2>4
<1> QED BY <1>2, <1>3

----------------------------------------------------------------------------
(***************************************************************************)
(* Whole bytes: what the conversions make of them is exact.                *)
(***************************************************************************)
LEMMA Multiples ==
  ASSUME NEW g \in Nat \ {0}, NEW a \in Int, NEW b \in Int
  PROVE  a <= b <=> g * a <= g * b
<1>1. CASE a <= b
  <2>1. g * (b - a) >= 0
    BY <1>1
  <2> QED BY <1>1, <2>1
<1>2. CASE a > b
  <2>1. g * (a - b) >= g
    <3>1. a - b - 1 >= 0
      BY <1>2
    <3>2. g * (a - b - 1) >= 0
      BY <3>1
    <3> QED BY <3>2
  <2> QED BY <1>2, <2>1
<1> QED BY <1>1, <1>2

LEMMA Division ==
  ASSUME NEW v \in Nat, NEW g \in Nat \ {0}
  PROVE  /\ v \div g \in Nat
         /\ v = g * (v \div g) + (v % g)
         /\ v % g < g
OBVIOUS

\* math.Round of a whole number.
LEMMA RoundWhole ==
  ASSUME NEW k \in Nat
  PROVE  Round(Grain * k) = k
<1> DEFINE g == Grain
           v == 2 * (g * k) + g
           q == v \div (2 * g)
<1>1. g \in Nat \ {0} /\ 2 * g \in Nat \ {0} /\ g * k \in Nat /\ v \in Nat
  BY Numbers
<1> HIDE DEF g
<1>2. q \in Nat /\ v = (2 * g) * q + (v % (2 * g)) /\ 0 <= v % (2 * g) /\ v % (2 * g) < 2 * g
  <2> DEFINE w == 2 * g
  <2>1. w \in Nat \ {0} /\ v \in Nat
    BY <1>1
  <2> HIDE DEF w, v
  <2>2. v \div w \in Nat /\ v = w * (v \div w) + (v % w) /\ 0 <= v % w /\ v % w < w
    BY <2>1, Division
  <2> QED BY <2>2 DEF w
<1>3. (2 * g) * k <= v /\ v < (2 * g) * (k + 1)
  BY <1>1
<1> HIDE DEF q, v
<1>4. (2 * g) * q <= v /\ v < (2 * g) * (q + 1)
  BY <1>1, <1>2
<1>5. (2 * g) * q < (2 * g) * (k + 1) /\ (2 * g) * k < (2 * g) * (q + 1)
  <2> DEFINE w == 2 * g
  <2>1. w * k <= v /\ v < w * (k + 1) /\ w * q <= v /\ v < w * (q + 1)
    BY <1>3, <1>4
  <2>2. w * k \in Int /\ w * (k + 1) \in Int /\ w * q \in Int /\ w * (q + 1) \in Int /\ v \in Int
    BY <1>1, <1>2 DEF v
  <2> HIDE DEF w
  <2>3. w * q < w * (k + 1) /\ w * k < w * (q + 1)
    BY <2>1, <2>2
  <2> QED BY <2>3 DEF w
<1>6. ~(k + 1 <= q) /\ ~(q + 1 <= k)
  <2> DEFINE w == 2 * g
  <2>1. w * q < w * (k + 1) /\ w * k < w * (q + 1) /\ w \in Nat \ {0} /\ q \in Nat
    BY <1>1, <1>2, <1>5
  <2> HIDE DEF w
  <2>2. k + 1 <= q <=> w * (k + 1) <= w * q
    BY <2>1, Multiples
  <2>3. q + 1 <= k <=> w * (q + 1) <= w * k
    BY <2>1, Multiples
  <2>4. w * q \in Int /\ w * k \in Int /\ w * (k + 1) \in Int /\ w * (q + 1) \in Int
    BY <2>1
  <2> QED BY <2>1, <2>2, <2>3, <2>4
<1>7. q = k
  BY <1>2, <1>6
<1>8. Round(g * k) = q
  BY <1>1 DEF Round, q, v, g
<1> QED BY <1>7, <1>8 DEF g

\* A whole number of bytes that fits is converted to itself.
LEMMA WholeConverts ==
  ASSUME NEW n \in Int, NEW unit \in {"B", "GiB"}, NEW build,
         NEW v, v = n * (IF unit = "GiB" THEN GiB ELSE 1), Whole(v)
  PROVE  \E k \in 0..MaxInt64 :
           /\ v = Grain * k
           /\ ToBytes(n, unit, build) = [ok |-> TRUE, bytes |-> k]
<1>1. /\ Grain \in Nat \ {0} /\ MaxInt64 \in Nat /\ GiB \in Nat
      /\ v % Grain = 0 /\ v \in Nat /\ v <= MaxInt64 * Grain
  BY Numbers DEF Whole
<1> DEFINE k == v \div Grain
<1>2. k \in Nat /\ v = Grain * k
  BY <1>1, Division
<1> HIDE DEF k
<1>3. k <= MaxInt64
  <2>1. Grain * k <= Grain * MaxInt64
    BY <1>1, <1>2
  <2> QED BY <1>1, <1>2, <2>1, Multiples
<1> DEFINE edge == (MaxInt64 + 1) * Grain
<1>4. edge \in Nat /\ v <= edge /\ -edge <= v
  <2>1. edge \in Nat
    BY <1>1
  <2>2. v <= edge
    <3>1. Grain * k <= Grain * (MaxInt64 + 1)
      BY <1>1, <1>2, <1>3, Multiples
    <3> QED BY <1>1, <1>2, <3>1
  <2> HIDE DEF edge
  <2> QED BY <1>1, <2>1, <2>2
<1>5. ToInt64(Round(v), build) = k
  <2>1. Round(v) = k
    BY <1>2, RoundWhole
  <2>2. k \in Int64
    BY <1>1, <1>2, <1>3 DEF Int64
  <2> QED BY <2>1, <2>2 DEF ToInt64
<1>6. ToBytes(n, unit, build) = [ok |-> TRUE, bytes |-> k]
  <2>1. ~(unit = "PB" \/ v > edge \/ v < -edge)
    <3> HIDE DEF edge
    <3>1. ~(v > edge) /\ ~(v < -edge)
      BY <1>1, <1>4
    <3> QED BY <3>1
  <2>2. ToBytes(n, unit, build)
          = IF unit = "PB" \/ v > edge \/ v < -edge THEN Failure
            ELSE [ok |-> TRUE, bytes |-> ToInt64(Round(v), build)]
    BY DEF ToBytes
  <2> HIDE DEF edge
  <2> QED BY <1>5, <2>1, <2>2
<1>7. k \in 0..MaxInt64
  BY <1>1, <1>2, <1>3
<1> QED BY <1>2, <1>6, <1>7

LEMMA SmallSum ==
  ASSUME NEW a \in Nat, NEW b \in Nat, a + b <= MaxInt64
  PROVE  Sum64(a, b) = a + b
<1> DEFINE word == 2 * (MaxInt64 + 1)
           n == a + b + MaxInt64 + 1
<1>1. MaxInt64 \in Nat /\ word \in Nat \ {0} /\ n \in Nat /\ n < word
  BY Numbers
<1>2. n % word = n
  <2> HIDE DEF word, n
  <2> QED BY <1>1
<1>3. Sum64(a, b) = (n % word) - (MaxInt64 + 1)
  BY DEF Sum64
<1>4. Sum64(a, b) = n - (MaxInt64 + 1)
  BY <1>2, <1>3
<1> QED BY <1>1, <1>4

\* What a sample says of published whole bytes.
LEMMA UsedAsPublished ==
  ASSUME NEW d \in Document, NEW f \in Formats, Used(d, f).ok,
         Whole(Exact(d.size, d.unit)), Whole(Exact(d.parts, d.unit)),
         Whole(Exact(d.size, d.unit) + Exact(d.parts, d.unit))
  PROVE  \E k \in Nat : /\ Used(d, f).bytes = k
                        /\ Exact(d.size, d.unit) + Exact(d.parts, d.unit) = Grain * k
<1> DEFINE size == ToBytes(NumberOf(d.size), d.unit, d.build)
           parts == ToBytes(NumberOf(d.parts), d.unit, d.build)
<1>1. size.ok /\ parts.ok /\ Used(d, f) = [ok |-> TRUE, bytes |-> Sum64(size.bytes, parts.bytes)]
  BY DEF Used, Failure
<1>2. d.unit \in {"B", "GiB"}
  <2>1. d.unit # "PB"
    BY <1>1 DEF ToBytes, Failure
  <2> QED BY <2>1 DEF Document, Units
<1>3. NumberOf(d.size) \in Int /\ NumberOf(d.parts) \in Int
  BY Numbers DEF NumberOf
<1>4. PICK i \in 0..MaxInt64 : Exact(d.size, d.unit) = Grain * i /\ size.bytes = i
  <2> DEFINE v == Exact(d.size, d.unit)
             n == NumberOf(d.size)
             unit == d.unit
             build == d.build
  <2>1. v = n * (IF unit = "GiB" THEN GiB ELSE 1)
    BY DEF Exact
  <2>2. Whole(v) /\ n \in Int /\ unit \in {"B", "GiB"} /\ size = ToBytes(n, unit, build)
    BY <1>2, <1>3
  <2> HIDE DEF v, n, unit, build, size
  <2>3. PICK i \in 0..MaxInt64 : v = Grain * i /\ ToBytes(n, unit, build) = [ok |-> TRUE, bytes |-> i]
    BY <2>1, <2>2, WholeConverts
  <2> QED BY <2>2, <2>3 DEF v
<1>5. PICK j \in 0..MaxInt64 : Exact(d.parts, d.unit) = Grain * j /\ parts.bytes = j
  <2> DEFINE v == Exact(d.parts, d.unit)
             n == NumberOf(d.parts)
             unit == d.unit
             build == d.build
  <2>1. v = n * (IF unit = "GiB" THEN GiB ELSE 1)
    BY DEF Exact
  <2>2. Whole(v) /\ n \in Int /\ unit \in {"B", "GiB"} /\ parts = ToBytes(n, unit, build)
    BY <1>2, <1>3
  <2> HIDE DEF v, n, unit, build, parts
  <2>3. PICK j \in 0..MaxInt64 : v = Grain * j /\ ToBytes(n, unit, build) = [ok |-> TRUE, bytes |-> j]
    BY <2>1, <2>2, WholeConverts
  <2> QED BY <2>2, <2>3 DEF v
<1> HIDE DEF size, parts
<1>6. i + j <= MaxInt64
  <2>1. Grain * i + Grain * j <= MaxInt64 * Grain
    BY <1>4, <1>5 DEF Whole
  <2>2. Grain * (i + j) <= Grain * MaxInt64
    BY <2>1, Numbers
  <2> QED BY <2>2, Numbers, Multiples
<1>7. Used(d, f).bytes = i + j
  BY <1>1, <1>4, <1>5, <1>6, SmallSum
<1>8. Exact(d.size, d.unit) + Exact(d.parts, d.unit) = Grain * (i + j)
  BY <1>4, <1>5, Numbers
<1> QED BY <1>7, <1>8

LEMMA LimitAsPublished ==
  ASSUME NEW d \in Document, NEW f \in Formats, PlainSpelling(d), NEW limit,
         limit = IF d.answer = "listed" THEN Exact(FirstNumber(d), "GiB") ELSE 0,
         limit > 0 => Whole(limit)
  PROVE  /\ limit \in Int
         /\ ~(limit > 0) => Limit(d, f) = Nil
         /\ limit > 0 => \E k \in Nat : Limit(d, f) = k /\ limit = Grain * k
<1>1. CASE d.answer # "listed"
  BY <1>1 DEF Limit
<1> DEFINE t == FirstNumber(d)
<1>2. CASE d.answer = "listed" /\ t \notin Magnitudes
  <2>1. limit = 0
    <3>1. NumberOf(t) = 0 /\ limit = NumberOf(t) * GiB
      BY <1>2 DEF Exact, NumberOf
    <3> QED BY <3>1, Numbers
  <2>2. GibBytes(t, d.build) = Nil
    BY <1>2 DEF GibBytes
  <2> QED BY <1>2, <2>1, <2>2, ThresholdsAgree DEF Limit
<1>3. CASE d.answer = "listed" /\ t \in Magnitudes
  <2>1. t \in Int
    BY <1>3, Numbers
  <2>2. limit = t * GiB /\ limit \in Int
    <3>1. NumberOf(t) = t /\ limit = NumberOf(t) * GiB
      BY <1>3 DEF Exact, NumberOf
    <3> QED BY <2>1, <3>1, Numbers
  <2>3. Limit(d, f) = GibBytes(t, d.build)
    BY <1>3, ThresholdsAgree DEF Limit
  <2> HIDE DEF t
  <2>4. limit > 0 <=> t > 0
    <3>1. GiB \in Nat \ {0} /\ GiB * 0 = 0 /\ t * GiB = GiB * t
      BY <2>1, Numbers
    <3>2. t <= 0 <=> GiB * t <= 0
      BY <2>1, <3>1, Multiples
    <3> QED BY <2>1, <2>2, <3>1, <3>2
  <2>5. CASE ~(limit > 0)
    BY <2>1, <2>2, <2>3, <2>4, <2>5 DEF GibBytes
  <2>6. CASE limit > 0
    <3> DEFINE build == d.build
               unit == "GiB"
    <3>0. Whole(limit) /\ limit = t * (IF unit = "GiB" THEN GiB ELSE 1) /\ unit \in {"B", "GiB"}
      BY <2>2, <2>6
    <3> HIDE DEF build, unit
    <3>1. PICK k \in 0..MaxInt64 :
            limit = Grain * k /\ ToBytes(t, "GiB", d.build) = [ok |-> TRUE, bytes |-> k]
      <4>1. PICK k \in 0..MaxInt64 :
              limit = Grain * k /\ ToBytes(t, unit, build) = [ok |-> TRUE, bytes |-> k]
        BY <2>1, <3>0, WholeConverts
      <4> QED BY <4>1 DEF unit, build
    <3>2. k \in Nat /\ ~(k <= 0)
      <4>1. k # 0
        BY <2>6, <3>1, Numbers
      <4> QED BY <4>1, Numbers
    <3>3. GibBytes(t, d.build) = k
      <4>1. t \in Magnitudes /\ ~(t <= 0)
        BY <1>3, <2>1, <2>4, <2>6 DEF t
      <4>2. ~(~ToBytes(t, "GiB", d.build).ok \/ ToBytes(t, "GiB", d.build).bytes <= 0)
        BY <3>1, <3>2
      <4> QED BY <3>1, <4>1, <4>2 DEF GibBytes
    <3> QED BY <2>2, <2>3, <2>6, <3>1, <3>2, <3>3
  <2> QED BY <2>2, <2>5, <2>6
<1> QED BY <1>1, <1>2, <1>3

----------------------------------------------------------------------------
Measured ==
  [used : Int64, authoritative : BOOLEAN, known : BOOLEAN, quota : Positive64 \cup {Nil}]

(***************************************************************************)
(* What Advance keeps in two numbers is true of the whole history: the two *)
(* properties of Hysteresis need each other, and nothing else.             *)
(***************************************************************************)
HistoryInv == ConfirmedByTwoUntilEvidence /\ UnconfirmedStreakIsLatestSample

LatestIsOver == \E i \in Judged : Newest(i) /\ Over(samples[i])

ConfirmedByHistory ==
  \E i, j \in Judged :
    /\ Neighbours(i, j)
    /\ Over(samples[i]) /\ Over(samples[j])
    /\ \A k \in Judged : k > j /\ samples[k].authoritative => Over(samples[k])

\* How one sample more moves the history.
LEMMA HistoryMoves ==
  ASSUME NEW m \in Measured, samples \in Seq(Measured), samples' = Append(samples, m)
  PROVE  /\ ~m.known => /\ LatestIsOver' <=> LatestIsOver
                        /\ ConfirmedByHistory' <=> ConfirmedByHistory
         /\ m.known =>
              /\ LatestIsOver' <=> Over(m)
              /\ ConfirmedByHistory' <=>
                   \/ Over(m) /\ LatestIsOver
                   \/ ConfirmedByHistory /\ (m.authoritative => Over(m))
<1> DEFINE n == Len(samples)
<1>1. /\ n \in Nat /\ DOMAIN samples = 1..n /\ DOMAIN samples' = 1 .. n + 1
      /\ \A i \in 1..n : samples'[i] = samples[i]
      /\ samples'[n + 1] = m
  OBVIOUS
<1>2. Judged \subseteq 1..n /\ \A i \in Judged : samples'[i] = samples[i]
  BY <1>1 DEF Judged
<1>3. ~m.known => Judged' = Judged
  BY <1>1 DEF Judged
<1>4. m.known => Judged' = Judged \cup {n + 1}
  BY <1>1 DEF Judged
<1> HIDE DEF n
<1>5. CASE ~m.known
  <2>1. LatestIsOver' <=> LatestIsOver
    BY <1>2, <1>3, <1>5 DEF LatestIsOver, Newest, Over
  <2>2. ConfirmedByHistory' <=> ConfirmedByHistory
    BY <1>2, <1>3, <1>5 DEF ConfirmedByHistory, Neighbours, Over
  <2> QED BY <1>5, <2>1, <2>2
<1>6. CASE m.known
  <2>1. /\ Judged' = Judged \cup {n + 1} /\ n \in Nat /\ samples'[n + 1] = m
        /\ \A i \in Judged : samples'[i] = samples[i] /\ i \in Nat /\ i <= n
    BY <1>1, <1>2, <1>4, <1>6
  <2> DEFINE older == Judged
             newer == Judged'
  <2>0. /\ newer = older \cup {n + 1} /\ n \in Nat /\ samples'[n + 1] = m
        /\ \A i \in older : samples'[i] = samples[i] /\ i \in Nat /\ i <= n
    BY <2>1
  <2> HIDE DEF older, newer
  <2>2. LatestIsOver' <=> Over(m)
    <3>1. \A i \in newer : i <= n + 1 /\ (n + 1 <= i => i = n + 1)
      BY <2>0
    <3>2. LatestIsOver' <=> \E i \in newer : (\A j \in newer : j <= i) /\ Over(samples'[i])
      BY DEF LatestIsOver, Newest, Over, newer
    <3>3. n + 1 \in newer
      BY <2>0
    <3> QED BY <2>0, <3>1, <3>2, <3>3
  <2>a. LatestIsOver <=> \E i \in older : (\A j \in older : j <= i) /\ Over(samples[i])
    BY DEF LatestIsOver, Newest, older
  <2>b. ConfirmedByHistory <=>
          \E i, j \in older :
            /\ i < j /\ \A k \in older : k <= i \/ k >= j
            /\ Over(samples[i]) /\ Over(samples[j])
            /\ \A k \in older : k > j /\ samples[k].authoritative => Over(samples[k])
    BY DEF ConfirmedByHistory, Neighbours, older
  <2>c. ConfirmedByHistory' <=>
          \E i, j \in newer :
            /\ i < j /\ \A k \in newer : k <= i \/ k >= j
            /\ Over(samples'[i]) /\ Over(samples'[j])
            /\ \A k \in newer : k > j /\ samples'[k].authoritative => Over(samples'[k])
    BY DEF ConfirmedByHistory, Neighbours, Over, newer
  <2>d. \A i \in newer : i \in older \/ i = n + 1
    BY <2>0
  <2>3. ASSUME NEW i \in newer, NEW j \in newer,
               i < j, \A k \in newer : k <= i \/ k >= j,
               Over(samples'[i]), Over(samples'[j]),
               \A k \in newer : k > j /\ samples'[k].authoritative => Over(samples'[k])
        PROVE  \/ Over(m) /\ LatestIsOver
               \/ ConfirmedByHistory /\ (m.authoritative => Over(m))
    <3>1. i \in older
      <4>1. i # n + 1
        BY <2>0, <2>3, <2>d
      <4> QED BY <2>3, <2>d, <4>1
    <3>2. CASE j = n + 1
      <4>1. \A k \in older : k <= i
        BY <2>0, <2>3, <3>2
      <4> QED BY <2>0, <2>3, <2>a, <3>1, <3>2, <4>1
    <3>3. CASE j # n + 1
      <4>1. j \in older
        BY <2>3, <2>d, <3>3
      <4>2. m.authoritative => Over(m)
        <5>1. n + 1 \in newer /\ n + 1 > j
          BY <2>0, <4>1
        <5> QED BY <2>0, <2>3, <5>1
      <4>3. \A k \in older : k \in newer /\ samples'[k] = samples[k]
        BY <2>0
      <4> QED BY <2>3, <2>b, <3>1, <4>1, <4>2, <4>3
    <3> QED BY <3>2, <3>3
  <2>4. ASSUME Over(m), NEW i \in older, \A j \in older : j <= i, Over(samples[i])
        PROVE  ConfirmedByHistory'
    <3>1. i \in newer /\ n + 1 \in newer /\ Over(samples'[i]) /\ Over(samples'[n + 1])
      BY <2>0, <2>4
    <3>2. i < n + 1 /\ \A k \in newer : (k <= i \/ k >= n + 1) /\ ~(k > n + 1)
      BY <2>0, <2>4, <2>d
    <3> QED BY <2>c, <3>1, <3>2
  <2>5. ASSUME m.authoritative => Over(m), NEW i \in older, NEW j \in older,
               i < j, \A k \in older : k <= i \/ k >= j,
               Over(samples[i]), Over(samples[j]),
               \A k \in older : k > j /\ samples[k].authoritative => Over(samples[k])
        PROVE  ConfirmedByHistory'
    <3>1. i \in newer /\ j \in newer /\ Over(samples'[i]) /\ Over(samples'[j])
      BY <2>0, <2>5
    <3>2. \A k \in newer : k <= i \/ k >= j
      BY <2>0, <2>5, <2>d
    <3>3. \A k \in newer : k > j /\ samples'[k].authoritative => Over(samples'[k])
      BY <2>0, <2>5, <2>d
    <3> QED BY <2>5, <2>c, <3>1, <3>2, <3>3
  <2>6. \/ Over(m) /\ LatestIsOver
        \/ ConfirmedByHistory /\ (m.authoritative => Over(m))
        <=> ConfirmedByHistory'
    BY <2>3, <2>4, <2>5, <2>a, <2>b, <2>c
  <2> QED BY <1>6, <2>2, <2>6
<1> QED BY <1>5, <1>6

\* The documents that are kept are those of the only sample.
KeptIsSampled ==
  latest # NoDocument =>
    \E billing, inventory \in Formats :
      /\ Used(latest, billing).ok
      /\ samples = <<SampleOf(latest, billing, inventory)>>

\* An alarm is confirmed exactly when its streak has reached two.
TwoConfirm(a) == a.confirmed <=> a.streak >= 2

MeteringInv == TypeOK /\ TwoConfirm(alarm) /\ HistoryInv /\ KeptIsSampled

\* One sample more, of those a poll can make.
LEMMA PollInv ==
  ASSUME NEW m \in Measured, MeteringInv, Poll(m)
  PROVE  samples' \in Seq(Measured) /\ alarm' \in Alarm /\ TwoConfirm(alarm') /\ HistoryInv'
<1>1. samples \in Seq(Measured) /\ samples' = Append(samples, m) /\ samples' \in Seq(Measured)
  BY DEF Poll, MeteringInv, TypeOK, Measured, Positive64
<1>2. /\ m.used \in Int /\ m.authoritative \in BOOLEAN /\ m.known \in BOOLEAN
      /\ m.quota \in Nat \cup {Nil}
  BY Numbers DEF Measured, Int64, Positive64
<1>3. /\ alarm.streak \in Nat /\ alarm.confirmed \in BOOLEAN /\ TwoConfirm(alarm)
  BY DEF MeteringInv, TypeOK, Alarm
<1>4. alarm' = Advance(alarm, m.authoritative, m.known, m.quota, m.used)
  BY DEF Poll
<1>5. /\ alarm' \in Alarm /\ TwoConfirm(alarm')
      /\ ~m.known => alarm'.streak = alarm.streak
      /\ m.known /\ Over(m) => alarm'.streak = alarm.streak + 1
      /\ m.known /\ ~Over(m) /\ (m.authoritative \/ ~alarm.confirmed) => alarm'.streak = 0
      /\ m.known /\ ~Over(m) /\ ~m.authoritative /\ alarm.confirmed =>
           alarm'.streak = alarm.streak
  <2> DEFINE next == Apply(alarm.streak, m.quota, m.used)
             count == IF Over(m) THEN alarm.streak + 1 ELSE 0
  <2>1. next = [streak |-> count, confirmed |-> count >= 2]
    BY DEF Apply, Over, AtQuota
  <2>2. /\ count \in Nat
        /\ Over(m) => count = alarm.streak + 1
        /\ ~Over(m) => count = 0
    BY <1>3
  <2> HIDE DEF count
  <2>3. next \in Alarm /\ next.streak = count /\ (next.confirmed <=> count >= 2)
    <3>1. (count >= 2) \in BOOLEAN
      BY <2>2
    <3>2. next \in Alarm
      BY <2>1, <2>2, <3>1 DEF Alarm
    <3>3. next.streak = count /\ next.confirmed = (count >= 2)
      BY <2>1
    <3> QED BY <3>2, <3>3
  <2> HIDE DEF next
  <2>4. CASE ~m.known
    <3>1. alarm' = [streak |-> alarm.streak, confirmed |-> alarm.confirmed]
      BY <1>4, <2>4 DEF Advance
    <3> QED BY <1>3, <2>4, <3>1 DEF Alarm, TwoConfirm
  <2>5. CASE m.known /\ ~m.authoritative /\ alarm.confirmed /\ ~next.confirmed
    <3>1. alarm' = [streak |-> alarm.streak, confirmed |-> TRUE]
      BY <1>4, <2>5 DEF Advance, next
    <3>2. ~Over(m)
      BY <1>3, <2>2, <2>3, <2>5 DEF TwoConfirm
    <3> QED BY <1>3, <2>5, <3>1, <3>2 DEF Alarm, TwoConfirm
  <2>6. CASE m.known /\ ~(~m.authoritative /\ alarm.confirmed /\ ~next.confirmed)
    <3>1. alarm' = next
      BY <1>4, <2>6 DEF Advance, next
    <3>2. ~Over(m) => ~next.confirmed
      BY <2>2, <2>3
    <3> QED BY <2>2, <2>3, <2>6, <3>1, <3>2 DEF TwoConfirm
  <2> QED BY <2>4, <2>5, <2>6
<1>6. /\ alarm.confirmed <=> ConfirmedByHistory
      /\ ~alarm.confirmed => alarm.streak = IF LatestIsOver THEN 1 ELSE 0
  BY DEF MeteringInv, HistoryInv, ConfirmedByTwoUntilEvidence, ConfirmedByHistory,
         UnconfirmedStreakIsLatestSample, LatestIsOver
<1>7. /\ alarm'.confirmed <=> ConfirmedByHistory'
      /\ ~alarm'.confirmed => alarm'.streak = IF LatestIsOver' THEN 1 ELSE 0
  <2>1. /\ alarm'.streak \in Nat /\ alarm'.confirmed \in BOOLEAN
        /\ alarm'.confirmed <=> alarm'.streak >= 2
        /\ alarm.confirmed <=> alarm.streak >= 2
    BY <1>3, <1>5 DEF Alarm, TwoConfirm
  <2> QED BY <1>1, <1>3, <1>5, <1>6, <2>1, HistoryMoves
<1>8. HistoryInv'
  BY <1>7 DEF HistoryInv, ConfirmedByTwoUntilEvidence, ConfirmedByHistory,
              UnconfirmedStreakIsLatestSample, LatestIsOver
<1> QED BY <1>1, <1>5, <1>8

LEMMA NoDocumentIsOne == NoDocument \in Document
<1>1. Missing \in Parts
  BY MeteringAssumption
<1> QED BY <1>1 DEF NoDocument, Document, Texts, Units, Answers

LEMMA MeteringInitInv == MeteringInit => MeteringInv
<1> SUFFICES ASSUME MeteringInit PROVE MeteringInv
  OBVIOUS
<1>1. samples = <<>> /\ alarm = NoAlarm /\ latest = NoDocument
  BY DEF MeteringInit, Init
<1>2. NoAlarm \in Alarm /\ TwoConfirm(NoAlarm) /\ ~NoAlarm.confirmed /\ NoAlarm.streak = 0
  BY DEF NoAlarm, Alarm, TwoConfirm
<1>3. TypeOK
  BY <1>1, <1>2, NoDocumentIsOne DEF TypeOK
<1>4. Judged = {}
  BY <1>1 DEF Judged
<1>5. HistoryInv
  BY <1>1, <1>2, <1>4 DEF HistoryInv, ConfirmedByTwoUntilEvidence,
                          UnconfirmedStreakIsLatestSample
<1>6. KeptIsSampled
  BY <1>1 DEF KeptIsSampled
<1> QED BY <1>1, <1>2, <1>3, <1>5, <1>6 DEF MeteringInv

\* The step as a whole, whatever becomes of the documents.
LEMMA PollKeepsInv ==
  ASSUME NEW m \in Measured, MeteringInv, Poll(m), latest' \in Document, KeptIsSampled'
  PROVE  MeteringInv'
<1>1. samples' \in Seq(Measured) /\ alarm' \in Alarm /\ TwoConfirm(alarm') /\ HistoryInv'
  BY PollInv
<1>2. TypeOK'
  BY <1>1 DEF TypeOK, Measured, Positive64
<1>3. TwoConfirm(alarm)'
  BY <1>1 DEF TwoConfirm
<1> QED BY <1>1, <1>2, <1>3 DEF MeteringInv

LEMMA MeteringNextInv == MeteringInv /\ [MeteringNext]_meteringVars => MeteringInv'
<1> SUFFICES ASSUME MeteringInv, [MeteringNext]_meteringVars PROVE MeteringInv'
  OBVIOUS
<1>1. ASSUME samples = <<>>, NEW d \in Document, NEW billing \in Formats,
             NEW inventory \in Formats, Polled(d, billing, inventory)
      PROVE  MeteringInv'
  <2> DEFINE m == SampleOf(d, billing, inventory)
  <2>1. Used(d, billing).bytes \in Int64
    <3> DEFINE size == ToBytes(NumberOf(d.size), d.unit, d.build)
               parts == ToBytes(NumberOf(d.parts), d.unit, d.build)
    <3>1. NumberOf(d.size) \in Int /\ NumberOf(d.parts) \in Int
      BY Numbers DEF NumberOf
    <3>2. size.bytes \in Int /\ parts.bytes \in Int
      BY <3>1, BytesFit DEF Int64
    <3>3. Used(d, billing) = [ok |-> TRUE, bytes |-> Sum64(size.bytes, parts.bytes)]
      BY <1>1 DEF Polled, Used, Failure
    <3> QED BY <3>2, <3>3, SumFits
  <2>2. Authoritative(d) \in BOOLEAN
    BY DEF Authoritative
  <2>3. Limit(d, inventory) \in Positive64 \cup {Nil}
    BY ThresholdFits DEF Limit, JSONThreshold, XMLThreshold
  <2>4. m \in Measured
    BY <2>1, <2>2, <2>3 DEF SampleOf, Measured
  <2>5. Poll(m) /\ latest' = d /\ Used(d, billing).ok
    BY <1>1 DEF Polled
  <2>6. samples' = <<m>>
    <3> HIDE DEF m
    <3> QED BY <1>1, <2>5 DEF Poll
  <2>7. KeptIsSampled'
    BY <2>5, <2>6 DEF KeptIsSampled
  <2> HIDE DEF m
  <2> QED BY <2>4, <2>5, <2>7, PollKeepsInv
<1>2. CASE LaterPoll
  <2>1. PICK m \in Sample : Poll(m)
    BY <1>2 DEF LaterPoll, Next
  <2>2. m \in Measured
    BY <2>1, Numbers, HistoryNumbers DEF Sample, Measured, Positive64, Int64
  <2>3. latest' = NoDocument
    BY <1>2 DEF LaterPoll
  <2>4. KeptIsSampled'
    BY <2>3 DEF KeptIsSampled, NoDocument
  <2> QED BY <2>1, <2>2, <2>3, <2>4, NoDocumentIsOne, PollKeepsInv
<1>3. CASE UNCHANGED meteringVars
  <2>1. samples' = samples /\ alarm' = alarm /\ latest' = latest
    BY <1>3 DEF meteringVars, vars
  <2>2. TypeOK' /\ TwoConfirm(alarm)' /\ KeptIsSampled'
    BY <2>1 DEF MeteringInv, TypeOK, TwoConfirm, KeptIsSampled
  <2>3. Judged' = Judged
    BY <2>1 DEF Judged
  <2>4. HistoryInv'
    BY <2>1, <2>3 DEF MeteringInv, HistoryInv, ConfirmedByTwoUntilEvidence,
                      UnconfirmedStreakIsLatestSample, Neighbours, Newest, Over
  <2> QED BY <2>2, <2>4 DEF MeteringInv
<1> QED BY <1>1, <1>2, <1>3 DEF MeteringNext, FirstPoll

LEMMA MeteringInvariant == MeteringSpec => []MeteringInv
BY MeteringInitInv, MeteringNextInv, PTL DEF MeteringSpec

----------------------------------------------------------------------------
(***************************************************************************)
(* Every sample is an int64 and every threshold a positive one or none, on *)
(* a CPU that wraps 2^63 and on one that saturates: what Poller assumes of *)
(* the thresholds ECS reports.                                             *)
(***************************************************************************)
THEOREM ThresholdsArePositive == MeteringSpec => []TypeOK
<1>1. MeteringInv => TypeOK
  BY DEF MeteringInv
<1> QED BY <1>1, MeteringInvariant, PTL

(***************************************************************************)
(* The JSON and the XML parser make the same of what both accept, if the   *)
(* threshold is plainly spelled: for every text, unit and CPU.             *)
(***************************************************************************)
THEOREM FormatsNeverDiffer == MeteringSpec => []FormatsAgree
<1>1. MeteringInv => FormatsAgree
  <2> SUFFICES ASSUME latest \in Document PROVE FormatsAgree
    BY DEF MeteringInv, TypeOK
  <2>1. ASSUME NEW f \in Formats, NEW g \in Formats, Used(latest, f).ok, Used(latest, g).ok
        PROVE  Used(latest, f) = Used(latest, g)
    BY <2>1 DEF Used, Failure
  <2>2. ASSUME PlainSpelling(latest), NEW f \in Formats, NEW g \in Formats
        PROVE  Limit(latest, f) = Limit(latest, g)
    BY <2>2, ThresholdsAgree DEF Limit, Formats
  <2> QED BY <2>1, <2>2 DEF FormatsAgree
<1> QED BY <1>1, MeteringInvariant, PTL

(***************************************************************************)
(* The alarm as a statement about the samples, without a counter: two      *)
(* neighbouring judged samples over their thresholds, and no evidence      *)
(* against it since. For histories of any length.                          *)
(***************************************************************************)
THEOREM ConfirmedIsTwoSamples == MeteringSpec => []ConfirmedByTwoUntilEvidence
<1>1. MeteringInv => ConfirmedByTwoUntilEvidence
  BY DEF MeteringInv, HistoryInv
<1> QED BY <1>1, MeteringInvariant, PTL

\* Below confirmation the streak says what the latest judged sample was.
THEOREM StreakIsLatestSample == MeteringSpec => []UnconfirmedStreakIsLatestSample
<1>1. MeteringInv => UnconfirmedStreakIsLatestSample
  BY DEF MeteringInv, HistoryInv
<1> QED BY <1>1, MeteringInvariant, PTL

(***************************************************************************)
(* A sample is over its threshold exactly when what ECS published is: the  *)
(* units, the rounding, the sum of size and unfinished uploads and the     *)
(* int64 of inventory.go and metering.go are exact on whole bytes, for     *)
(* every grain, every GiB and every word.                                  *)
(***************************************************************************)
THEOREM OverIsAsPublished == MeteringSpec => []OverAsPublished
<1>1. MeteringInv => OverAsPublished
  <2> DEFINE size == Exact(latest.size, latest.unit)
             parts == Exact(latest.parts, latest.unit)
             limit == IF latest.answer = "listed" THEN Exact(FirstNumber(latest), "GiB") ELSE 0
  <2> SUFFICES ASSUME MeteringInv, latest # NoDocument, PlainSpelling(latest),
                      Whole(size), Whole(parts), Whole(size + parts),
                      limit > 0 => Whole(limit)
               PROVE  Over(samples[1]) <=> limit > 0 /\ size + parts >= limit
    BY DEF OverAsPublished
  <2>1. latest \in Document
    BY DEF MeteringInv, TypeOK
  <2>2. PICK f \in Formats, g \in Formats :
          Used(latest, f).ok /\ samples = <<SampleOf(latest, f, g)>>
    BY DEF MeteringInv, KeptIsSampled
  <2>3. PICK used \in Nat : Used(latest, f).bytes = used /\ size + parts = Grain * used
    BY <2>1, <2>2, UsedAsPublished
  <2>4. Over(samples[1]) <=> AtQuota(Limit(latest, g), used)
    BY <2>2, <2>3 DEF Over, SampleOf
  <2>5. /\ limit \in Int
        /\ ~(limit > 0) => Limit(latest, g) = Nil
        /\ limit > 0 => \E k \in Nat : Limit(latest, g) = k /\ limit = Grain * k
    <3>1. \A l : (l = limit) /\ (l > 0 => Whole(l)) =>
            /\ l \in Int
            /\ ~(l > 0) => Limit(latest, g) = Nil
            /\ l > 0 => \E k \in Nat : Limit(latest, g) = k /\ l = Grain * k
      BY <2>1, LimitAsPublished
    <3> HIDE DEF limit
    <3> QED BY <3>1
  <2> DEFINE total == size + parts
  <2> HIDE DEF size, parts, limit, total
  <2>6. CASE ~(limit > 0)
    BY <2>4, <2>5, <2>6 DEF AtQuota
  <2>7. CASE limit > 0
    <3>1. PICK k \in Nat : Limit(latest, g) = k /\ limit = Grain * k
      BY <2>5, <2>7
    <3>2. AtQuota(k, used) <=> k <= used
      BY <3>1, NilAssumption DEF AtQuota
    <3>3. k <= used <=> Grain * k <= Grain * used
      BY <2>3, Numbers, Multiples
    <3>4. total = Grain * used /\ total \in Int
      <4>1. total = Grain * used
        BY <2>3 DEF total
      <4> QED BY <2>3, <4>1, Numbers
    <3>5. total >= limit <=> limit <= total
      BY <2>5, <3>4
    <3>6. Over(samples[1]) <=> limit <= total
      BY <2>4, <3>1, <3>2, <3>3, <3>4
    <3> QED BY <2>7, <3>5, <3>6 DEF total
  <2> QED BY <2>6, <2>7
<1> QED BY <1>1, MeteringInvariant, PTL
=============================================================================
