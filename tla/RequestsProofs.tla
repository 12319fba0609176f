--------------------------- MODULE RequestsProofs ---------------------------
(***************************************************************************)
(* Proofs about Identity for every lifetime, leeway, clock skew within the *)
(* leeway, and any length of time, and about Listing for every snapshot,   *)
(* sort key, filter and limit.                                             *)
(***************************************************************************)
EXTENDS Listing, FiniteSetTheorems, SequenceTheorems, TLAPS

USE IdentityAssumption

(***************************************************************************)
(* The inductive invariant. What an answer shows is as old as the header,  *)
(* so the header must remember a grant: a token that says read was signed  *)
(* at a tick at which the caller might read.                               *)
(***************************************************************************)
GrantIsDated == granted => lastGranted = now

HeaderIsDated ==
  header.sound => header.iat <= now /\ (header.read => header.iat <= lastGranted)

IdentityInv == TypeOK /\ GrantIsDated /\ HeaderIsDated /\ RevocationTakesEffect

\* The constants and clocks are numbers, and skew is within the leeway.
LEMMA Numbers ==
  TypeOK => /\ MaxLifetime \in Int /\ Leeway \in Int /\ Skew \in Int /\ Skew <= Leeway
            /\ now \in Int /\ offset \in Int /\ lastGranted \in Int
            /\ -Skew <= offset /\ offset <= Skew
            /\ header.iat \in Int /\ header.exp \in Int
            /\ header.sound \in BOOLEAN /\ header.read \in BOOLEAN
BY DEF TypeOK, Token

\* What the two statuses of a principal come from.
LEMMA StatusFacts ==
  ASSUME NEW r
  PROVE  /\ Status(r) \in {200, 401, 403}
         /\ Principal(r).via \in Vias
         /\ Principal(r).via = "identity" /\ Status(r) = 200 =>
              r.present /\ Verified(r.token) /\ r.token.read
         /\ config.secret /\ r.present /\ Verified(r.token) /\ r.token.read =>
              Status(r) = 200
<1>1. Status(r) \in {200, 401, 403}
  BY DEF Status
<1>2. CASE r.present
  <2>1. Principal(r) = [via |-> IF config.secret /\ Verified(r.token) THEN "identity" ELSE "none",
                        read |-> r.token.read]
    BY <1>2 DEF Principal
  <2> QED BY <1>1, <1>2, <2>1 DEF Status, Vias
<1>3. CASE ~r.present
  <2>1. Principal(r).via \in {"token", "none", "open"}
    BY <1>3 DEF Principal
  <2> QED BY <1>1, <1>3, <2>1 DEF Vias
<1> QED BY <1>2, <1>3

\* A header that verifies is recent by the gateway's clock.
LEMMA VerifiedIsRecent ==
  ASSUME TypeOK, HeaderIsDated, Verified(header), header.read
  PROVE  now - lastGranted <= MaxLifetime + Leeway + Skew
<1>1. /\ header.sound
      /\ header.exp - header.iat <= MaxLifetime
      /\ now + offset <= header.exp + Leeway
  BY DEF Verified
<1>2. header.iat <= lastGranted
  BY <1>1 DEF HeaderIsDated
<1> QED BY <1>1, <1>2, Numbers

LEMMA IdentityInitInv == IdentityInit => IdentityInv
<1> SUFFICES ASSUME IdentityInit PROVE IdentityInv
  OBVIOUS
<1>1. Unsound \in Token /\ ~Unsound.sound
  BY DEF Unsound, Token
<1>2. NoAnswer \in [via : Vias, status : {0, 200, 401, 403}] /\ NoAnswer.via = "none"
  BY DEF NoAnswer, Vias
<1>3. TypeOK
  BY <1>1, <1>2 DEF IdentityInit, TypeOK
<1> QED BY <1>1, <1>2, <1>3 DEF IdentityInit, IdentityInv, GrantIsDated, HeaderIsDated,
                             RevocationTakesEffect

LEMMA IdentityNextInv == IdentityInv /\ [IdentityNext]_identityVars => IdentityInv'
<1> SUFFICES ASSUME IdentityInv, [IdentityNext]_identityVars PROVE IdentityInv'
  OBVIOUS
<1> USE DEF IdentityInv
<1>0. NoAnswer \in [via : Vias, status : {0, 200, 401, 403}] /\ NoAnswer.via = "none"
  BY DEF NoAnswer, Vias
<1>1. CASE Tick
  <2>1. TypeOK'
    BY <1>0, <1>1 DEF Tick, TypeOK
  <2>2. GrantIsDated' /\ HeaderIsDated'
    BY <1>1, Numbers DEF Tick, GrantIsDated, HeaderIsDated, TypeOK
  <2> QED BY <1>0, <1>1, <2>1, <2>2 DEF Tick, RevocationTakesEffect
<1>2. CASE GrantChanged
  <2>1. TypeOK'
    BY <1>0, <1>2 DEF GrantChanged, TypeOK
  <2>2. GrantIsDated' /\ HeaderIsDated'
    BY <1>2 DEF GrantChanged, GrantIsDated, HeaderIsDated
  <2> QED BY <1>0, <1>2, <2>1, <2>2 DEF GrantChanged, RevocationTakesEffect
<1>3. ASSUME NEW lifetime \in Lifetimes, GatewaySigned(lifetime)
      PROVE  IdentityInv'
  <2>1. /\ header' = [sound |-> TRUE, iat |-> now, exp |-> now + lifetime, read |-> granted]
        /\ now' = now /\ lastGranted' = lastGranted /\ granted' = granted /\ answer' = NoAnswer
    BY <1>3 DEF GatewaySigned
  <2>2. header' \in Token
    BY <2>1 DEF TypeOK, Token
  <2>3. TypeOK'
    BY <1>0, <1>3, <2>2 DEF GatewaySigned, TypeOK
  <2>4. GrantIsDated' /\ HeaderIsDated'
    BY <2>1, Numbers DEF GrantIsDated, HeaderIsDated
  <2> QED BY <1>0, <2>1, <2>3, <2>4 DEF RevocationTakesEffect
<1>4. ASSUME NEW r \in Requests, Called(r)
      PROVE  IdentityInv'
  <2>1. /\ answer' = [via |-> Principal(r).via, status |-> Status(r)]
        /\ UNCHANGED <<config, now, offset, granted, lastGranted, header>>
    BY <1>4 DEF Called
  <2>2. answer' \in [via : Vias, status : {0, 200, 401, 403}]
    BY <2>1, StatusFacts
  <2>3. TypeOK' /\ GrantIsDated' /\ HeaderIsDated'
    BY <2>1, <2>2 DEF TypeOK, GrantIsDated, HeaderIsDated
  <2>4. RevocationTakesEffect'
    <3> SUFFICES ASSUME answer'.via = "identity", answer'.status = 200
                 PROVE  now - lastGranted <= MaxLifetime + Leeway + Skew
      BY <2>1 DEF RevocationTakesEffect
    <3>1. Verified(r.token) /\ r.token.read
      BY <2>1, StatusFacts
    <3>2. r.token = header
      BY <3>1 DEF Requests, Verified, Unsound
    <3> QED BY <3>1, <3>2, VerifiedIsRecent
  <2> QED BY <2>3, <2>4
<1>5. CASE UNCHANGED identityVars
  BY <1>5 DEF identityVars, TypeOK, GrantIsDated, HeaderIsDated, RevocationTakesEffect
<1> QED BY <1>1, <1>2, <1>3, <1>4, <1>5 DEF IdentityNext

LEMMA IdentityInvariant == IdentitySpec => []IdentityInv
BY IdentityInitInv, IdentityNextInv, PTL DEF IdentitySpec

----------------------------------------------------------------------------
\* Every variable keeps its type: a clock never leaves the skew, and a grant
\* is never dated later than now.
THEOREM IdentityTypeCorrect == IdentitySpec => []TypeOK
<1>1. IdentityInv => TypeOK
  BY DEF IdentityInv
<1> QED BY <1>1, IdentityInvariant, PTL

(***************************************************************************)
(* Whoever is served on a token had the grant at most one lifetime, one    *)
(* leeway and the skew ago: for any lifetime the gateway gives its tokens  *)
(* and however late or often the header arrives.                           *)
(***************************************************************************)
THEOREM RevocationIsBounded == IdentitySpec => []RevocationTakesEffect
<1>1. IdentityInv => RevocationTakesEffect
  BY DEF IdentityInv
<1> QED BY <1>1, IdentityInvariant, PTL

(***************************************************************************)
(* A token the gateway's own clock calls valid is served, whatever the     *)
(* pod's clock says within the skew.                                       *)
(***************************************************************************)
THEOREM SkewRefusesNobody == IdentitySpec => []FreshIsServed
<1>1. IdentityInv => FreshIsServed
  <2> SUFFICES ASSUME TypeOK, HeaderIsDated,
                      config.secret, header.sound, header.read,
                      header.exp - header.iat <= MaxLifetime, now <= header.exp,
                      NEW r \in Requests, r.present, r.token = header
               PROVE  Status(r) = 200
    BY DEF IdentityInv, FreshIsServed
  <2>1. header.iat <= now
    BY DEF HeaderIsDated
  <2>2. now + offset <= header.exp + Leeway /\ header.iat <= now + offset + Leeway
    BY <2>1, Numbers
  <2>3. Verified(r.token)
    BY <2>2 DEF Verified
  <2> QED BY <2>3, StatusFacts
<1> QED BY <1>1, IdentityInvariant, PTL
----------------------------------------------------------------------------
(***************************************************************************)
(* The order of a list. First is a strict total order of the matches, so   *)
(* the number of those before a bucket is its place.                       *)
(***************************************************************************)
LEMMA Buckets ==
  ASSUME buckets \in Snapshots, NEW o \in Options
  PROVE  /\ IsFiniteSet(Matches(o))
         /\ \A b \in Matches(o) : b \in Bucket
         /\ \A a, b \in Matches(o) : a.name = b.name => a = b
<1>1. Matches(o) \subseteq buckets
  BY DEF Matches
<1> QED BY <1>1, FS_Subset, ListingAssumption

LEMMA ValueIs ==
  ASSUME NEW b \in Bucket, NEW sort \in SortKeys
  PROVE  b.name \in Int /\ (Value(sort, b) \in Int \/ Value(sort, b) = Nil)
<1>1. b.name \in Names /\ b.used \in Nat /\ b.objects \in Nat
  BY DEF Bucket
<1>2. (b.percent \in Nat \/ b.percent = Nil) /\ (b.rate \in Int \/ b.rate = Nil)
  BY DEF Bucket
<1>3. b.name \in Int
  <2>1. \A name \in Names : name \in Nat
    BY ListingAssumption
  <2> QED BY <1>1, <2>1
<1>4. AbsRate(b) \in Int \/ AbsRate(b) = Nil
  BY <1>2 DEF AbsRate
<1> QED BY <1>1, <1>2, <1>3, <1>4 DEF Value, SortKeys

LEMMA FirstIsOrder ==
  ASSUME NEW sort \in SortKeys, NEW a \in Bucket, NEW b \in Bucket, NEW c \in Bucket
  PROVE  /\ ~First(sort, a, a)
         /\ First(sort, a, b) /\ First(sort, b, c) => First(sort, a, c)
         /\ First(sort, a, b) => ~First(sort, b, a)
         /\ a.name # b.name => First(sort, a, b) \/ First(sort, b, a)
<1>1. /\ a.name \in Int /\ b.name \in Int /\ c.name \in Int /\ Nil \notin Int
      /\ Value(sort, a) \in Int \/ Value(sort, a) = Nil
      /\ Value(sort, b) \in Int \/ Value(sort, b) = Nil
      /\ Value(sort, c) \in Int \/ Value(sort, c) = Nil
  BY ValueIs, ListingAssumption
<1> DEFINE u == Value(sort, a)
           v == Value(sort, b)
           w == Value(sort, c)
<1>2. /\ First(sort, a, a) => a.name < a.name \/ u > u
      /\ First(sort, a, b) <=> \/ u # Nil /\ v = Nil
                               \/ u # Nil /\ v # Nil /\ u > v
                               \/ u = v /\ a.name < b.name
      /\ First(sort, b, a) <=> \/ v # Nil /\ u = Nil
                               \/ v # Nil /\ u # Nil /\ v > u
                               \/ v = u /\ b.name < a.name
      /\ First(sort, b, c) <=> \/ v # Nil /\ w = Nil
                               \/ v # Nil /\ w # Nil /\ v > w
                               \/ v = w /\ b.name < c.name
      /\ First(sort, a, c) <=> \/ u # Nil /\ w = Nil
                               \/ u # Nil /\ w # Nil /\ u > w
                               \/ u = w /\ a.name < c.name
  BY DEF First
<1>3. ~First(sort, a, a)
  BY <1>1 DEF First
<1> HIDE DEF u, v, w
<1>4. /\ u \in Int \/ u = Nil
      /\ v \in Int \/ v = Nil
      /\ w \in Int \/ w = Nil
  BY <1>1 DEF u, v, w
<1> QED BY <1>1, <1>2, <1>3, <1>4

Place(o, b) == Cardinality(Before(o, b))

LEMMA PlacesAreDistinct ==
  ASSUME buckets \in Snapshots, NEW o \in Options
  PROVE  LET n == Cardinality(Matches(o)) IN
         /\ n \in Nat
         /\ \A b \in Matches(o) : Place(o, b) \in 0 .. n - 1
         /\ \A a, b \in Matches(o) : First(o.sort, a, b) => Place(o, a) < Place(o, b)
         /\ \A a, b \in Matches(o) : Place(o, a) = Place(o, b) => a = b
<1> DEFINE M == Matches(o)
           n == Cardinality(M)
<1>1. IsFiniteSet(M) /\ n \in Nat /\ o.sort \in SortKeys
  BY Buckets, FS_CardinalityType DEF Options
<1>2. ASSUME NEW b \in M
      PROVE  /\ IsFiniteSet(Before(o, b)) /\ Place(o, b) \in 0 .. n - 1
             /\ Before(o, b) \subseteq M /\ b \notin Before(o, b)
  <2>1. Before(o, b) \subseteq M \ {b}
    BY <1>1, Buckets, FirstIsOrder DEF Before
  <2>2. IsFiniteSet(M \ {b}) /\ Cardinality(M \ {b}) = n - 1
    BY <1>1, FS_RemoveElement
  <2>3. IsFiniteSet(Before(o, b)) /\ Place(o, b) <= n - 1
    BY <2>1, <2>2, FS_Subset DEF Place
  <2>4. Place(o, b) \in Nat
    BY <2>3, FS_CardinalityType DEF Place
  <2> QED BY <1>1, <2>1, <2>3, <2>4
<1>3. ASSUME NEW a \in M, NEW b \in M, First(o.sort, a, b)
      PROVE  Place(o, a) < Place(o, b)
  <2>1. Before(o, a) \subseteq Before(o, b) /\ a \in Before(o, b) /\ a \notin Before(o, a)
    <3>1. ASSUME NEW c \in M, First(o.sort, c, a) PROVE First(o.sort, c, b)
      BY <1>1, <1>3, <3>1, Buckets, FirstIsOrder
    <3> QED BY <1>2, <1>3, <3>1 DEF Before
  <2>2. Place(o, a) <= Place(o, b) /\ Place(o, a) # Place(o, b)
    BY <1>2, <2>1, FS_Subset DEF Place
  <2> QED BY <1>2, <2>2
<1>4. ASSUME NEW a \in M, NEW b \in M, Place(o, a) = Place(o, b)
      PROVE  a = b
  <2>1. ~First(o.sort, a, b) /\ ~First(o.sort, b, a)
    BY <1>2, <1>3, <1>4
  <2> QED BY <1>1, <2>1, Buckets, FirstIsOrder
<1> QED BY <1>1, <1>2, <1>3, <1>4

\* Every place is some bucket's, so the list of all matches has each at its
\* place.
LEMMA OrderedIs ==
  ASSUME buckets \in Snapshots, NEW o \in Options
  PROVE  LET n == Cardinality(Matches(o)) IN
         /\ Ordered(o) \in Seq(Matches(o)) /\ Len(Ordered(o)) = n
         /\ \A i \in 1..n : Ordered(o)[i] \in Matches(o) /\ Place(o, Ordered(o)[i]) = i - 1
         /\ \A b \in Matches(o) : Ordered(o)[Place(o, b) + 1] = b
<1> DEFINE M == Matches(o)
           n == Cardinality(M)
           f == [b \in M |-> Place(o, b) + 1]
<1>1. /\ n \in Nat
      /\ \A b \in M : Place(o, b) \in 0 .. n - 1
      /\ \A a, b \in M : Place(o, a) = Place(o, b) => a = b
  BY PlacesAreDistinct
<1>2. IsFiniteSet(M) /\ IsFiniteSet(1..n) /\ Cardinality(1..n) = n
  BY <1>1, Buckets, FS_Interval
<1>3. f \in Surjection(M, 1..n)
  <2>1. f \in [M -> 1..n]
    BY <1>1
  <2>2. IsInjective(f)
    BY <1>1 DEF IsInjective
  <2>3. f \in Injection(M, 1..n)
    BY <2>1, <2>2 DEF Injection
  <2> QED BY <1>2, <2>3, FS_Injection
<1>4. ASSUME NEW i \in 1..n
      PROVE  Ordered(o)[i] \in M /\ Place(o, Ordered(o)[i]) = i - 1
  <2>1. PICK b \in M : f[b] = i
    BY <1>3 DEF Surjection
  <2>2. Cardinality(Before(o, b)) = i - 1
    BY <1>1, <2>1 DEF Place
  <2>3. Ordered(o)[i] = CHOOSE c \in M : Cardinality(Before(o, c)) = i - 1
    BY DEF Ordered
  <2> QED BY <2>2, <2>3 DEF Place
<1>5. Ordered(o) \in [1..n -> M]
  BY <1>4 DEF Ordered
<1>6. Ordered(o) \in Seq(M) /\ Len(Ordered(o)) = n
  <2>1. Ordered(o) \in Seq(M)
    BY <1>1, <1>5, SeqDef
  <2>2. DOMAIN Ordered(o) = 1..n /\ DOMAIN Ordered(o) = 1..Len(Ordered(o))
        /\ Len(Ordered(o)) \in Nat
    BY <1>5, <2>1, LenProperties
  <2> QED BY <1>1, <2>1, <2>2
<1>7. ASSUME NEW b \in M
      PROVE  Ordered(o)[Place(o, b) + 1] = b
  <2> DEFINE i == Place(o, b) + 1
  <2>1. i \in 1..n /\ i - 1 = Place(o, b)
    BY <1>1
  <2> HIDE DEF i
  <2>2. Ordered(o)[i] \in M /\ Place(o, Ordered(o)[i]) = i - 1
    BY <1>4, <2>1
  <2>3. Ordered(o)[i] = b
    BY <1>1, <2>1, <2>2
  <2> QED BY <2>3 DEF i
<1> QED BY <1>4, <1>6, <1>7

\* A page is the matches whose places are the first, as many as it has.
LEMMA PageIs ==
  ASSUME buckets \in Snapshots, NEW o \in Options, NEW cap \in Nat
  PROVE  LET n    == Cardinality(Matches(o))
             k    == IF cap < n THEN cap ELSE n
             page == Page(Ordered(o), cap)
         IN  /\ Range(page) = {b \in Matches(o) : Place(o, b) < k}
             /\ Cardinality(Range(page)) = k
<1> DEFINE M == Matches(o)
           n == Cardinality(M)
           k == IF cap < n THEN cap ELSE n
           all == Ordered(o)
           page == Page(all, cap)
<1>1. /\ n \in Nat /\ k \in 0..n
      /\ \A b \in M : Place(o, b) \in 0 .. n - 1
  BY PlacesAreDistinct
<1>2. /\ all \in Seq(M) /\ Len(all) = n
      /\ \A i \in 1..n : all[i] \in M /\ Place(o, all[i]) = i - 1
      /\ \A b \in M : all[Place(o, b) + 1] = b
  BY OrderedIs
<1> HIDE DEF M, all
<1>3. page = SubSeq(all, 1, k)
  BY <1>2 DEF Page
<1> HIDE DEF n, k, page
<1>4. page \in Seq(M) /\ Len(page) = k /\ \A i \in 1..k : page[i] = all[i]
  <2>1. \A i \in 1..k : all[i] \in M
    BY <1>1, <1>2
  <2>2. /\ SubSeq(all, 1, k) \in Seq(M)
        /\ Len(SubSeq(all, 1, k)) = IF 1 <= k THEN k - 1 + 1 ELSE 0
        /\ \A i \in 1 .. k - 1 + 1 : SubSeq(all, 1, k)[i] = all[1 + i - 1]
    BY <1>1, <2>1, SubSeqProperties
  <2>3. k - 1 + 1 = k /\ k \in Nat
    BY <1>1
  <2>4. ASSUME NEW i \in 1..k PROVE page[i] = all[i]
    <3>1. 1 + i - 1 = i
      OBVIOUS
    <3> QED BY <1>3, <2>2, <2>3, <3>1
  <2>5. Len(page) = k
    BY <1>3, <2>2, <2>3
  <2> QED BY <1>3, <2>2, <2>4, <2>5
<1>5. DOMAIN page = 1..k
  BY <1>4, LenProperties
<1>6. Range(page) = {b \in M : Place(o, b) < k}
  <2>1. ASSUME NEW i \in 1..k PROVE page[i] \in M /\ Place(o, page[i]) < k
    BY <1>1, <1>2, <1>4
  <2>2. ASSUME NEW b \in M, Place(o, b) < k PROVE \E i \in 1..k : page[i] = b
    <3>1. Place(o, b) + 1 \in 1..k
      BY <1>1, <2>2
    <3> QED BY <1>2, <1>4, <3>1
  <2> QED BY <1>5, <2>1, <2>2 DEF Range
<1>7. Cardinality(Range(page)) = k
  <2>1. page \in Surjection(1..k, Range(page))
    BY <1>4, <1>5, LenProperties DEF Range, Surjection
  <2>2. \A i, j \in 1..k : page[i] = page[j] => i = j
    BY <1>1, <1>2, <1>4
  <2>3. page \in Injection(1..k, Range(page))
    BY <1>5, <2>1, <2>2 DEF Injection, Surjection, IsInjective
  <2>4. IsFiniteSet(1..k) /\ Cardinality(1..k) = k
    BY <1>1, FS_Interval
  <2> QED BY <2>1, <2>3, <2>4, FS_Surjection
<1> QED BY <1>6, <1>7 DEF M, n, k, all, page

\* What outranks a bucket comes before it in the list.
LEMMA OutranksIsFirst ==
  ASSUME NEW sort \in SortKeys, NEW m \in Bucket, NEW l \in Bucket, Outranks(sort, m, l)
  PROVE  First(sort, m, l)
<1>1. CASE sort = "name"
  <2>1. Value(sort, m) = 0 /\ Value(sort, l) = 0
    BY <1>1 DEF Value
  <2> QED BY <1>1, <2>1 DEF First, Outranks
<1>2. CASE sort # "name"
  BY <1>2 DEF First, Outranks
<1> QED BY <1>1, <1>2

(***************************************************************************)
(* The inductive invariant: a list is the answer ListBuckets gives for     *)
(* some options and limit from the snapshot of the moment.                 *)
(***************************************************************************)
ListIsAnswer ==
  list # NoList => \E o \in Options, limit \in Int : list = ListBuckets(o, limit)

ListingInv == buckets \in Snapshots /\ ListIsAnswer

LEMMA SameSnapshotSameList ==
  ASSUME UNCHANGED buckets, NEW o, NEW limit
  PROVE  ListBuckets(o, limit)' = ListBuckets(o, limit)
BY DEF ListBuckets, Ordered, Before, Matches

LEMMA ListingNextInv == ListingInv /\ [Next]_listingVars => ListingInv'
<1> SUFFICES ASSUME ListingInv, [Next]_listingVars PROVE ListingInv'
  OBVIOUS
<1> USE DEF ListingInv
<1>1. CASE OtherStep
  BY <1>1 DEF OtherStep, ListIsAnswer
<1>2. ASSUME NEW surface \in Surfaces, NEW o \in Options, NEW n \in LimitArgs,
             Listed(surface, o, n)
      PROVE  ListingInv'
  <2>1. /\ UNCHANGED buckets
        /\ list' = ListBuckets(o, LimitOf(surface, n))
    BY <1>2 DEF Listed
  <2>2. LimitOf(surface, n) \in Int
    BY ListingAssumption DEF LimitOf
  <2>3. ListBuckets(o, LimitOf(surface, n))' = ListBuckets(o, LimitOf(surface, n))
    BY <2>1, SameSnapshotSameList
  <2> QED BY <2>1, <2>2, <2>3 DEF ListIsAnswer
<1>3. CASE UNCHANGED listingVars
  <2>1. UNCHANGED <<buckets, list>>
    BY <1>3 DEF listingVars
  <2> QED BY <2>1, SameSnapshotSameList DEF ListIsAnswer
<1> QED BY <1>1, <1>2, <1>3 DEF Next

LEMMA AnswerIsReal == ListingInv => AbsenceIsReal
<1> SUFFICES ASSUME ListingInv, list # NoList
             PROVE  LET matches == Matches(list.asked)
                        listed  == Range(list.page)
                        omitted == matches \ listed
                    IN  /\ listed \subseteq matches
                        /\ list.total = Cardinality(matches)
                        /\ list.truncated <=> omitted # {}
                        /\ list.truncated => Cardinality(listed) = list.cap
                        /\ \A m \in omitted, l \in listed :
                             ~Outranks(list.asked.sort, m, l)
  BY DEF AbsenceIsReal
<1>1. PICK o \in Options : \E limit \in Int : list = ListBuckets(o, limit)
  BY DEF ListingInv, ListIsAnswer
<1>2. PICK limit \in Int : list = ListBuckets(o, limit)
  BY <1>1
<1> DEFINE M == Matches(o)
           n == Cardinality(M)
           cap == Cap(limit)
           k == IF cap < n THEN cap ELSE n
           listed == Range(list.page)
<1>3. /\ list.asked = o /\ list.cap = cap /\ list.total = Len(Ordered(o))
      /\ list.truncated = (Len(Ordered(o)) > cap) /\ list.page = Page(Ordered(o), cap)
  BY <1>2 DEF ListBuckets
<1>4. buckets \in Snapshots /\ cap \in Nat /\ o.sort \in SortKeys
  <2>1. MaxListLimit \in Nat
    BY ListingAssumption
  <2> QED BY <2>1 DEF Cap, ListingInv, Options
<1>5. n \in Nat /\ Len(Ordered(o)) = n /\ \A b \in M : Place(o, b) \in 0 .. n - 1
  BY <1>4, OrderedIs, PlacesAreDistinct
<1>6. listed = {b \in M : Place(o, b) < k} /\ Cardinality(listed) = k
  BY <1>3, <1>4, PageIs
<1>7. list.truncated => k = cap
  BY <1>3, <1>5
<1>8. ~list.truncated <=> M \ listed = {}
  <2>1. ASSUME ~list.truncated PROVE M \ listed = {}
    <3>1. k = n
      BY <1>3, <1>4, <1>5, <2>1
    <3> QED BY <1>5, <1>6, <3>1
  <2>2. ASSUME M \ listed = {} PROVE ~list.truncated
    <3>1. listed = M
      BY <1>6, <2>2
    <3>2. k = n
      BY <1>6, <3>1
    <3>3. ~(cap < n)
      BY <1>4, <1>5, <3>2
    <3> QED BY <1>3, <1>4, <1>5, <3>3
  <2> QED BY <2>1, <2>2
<1>9. ASSUME NEW m \in M \ listed, NEW l \in listed
      PROVE  ~Outranks(o.sort, m, l)
  <2>1. m \in M /\ l \in M /\ Place(o, l) < Place(o, m)
    <3>1. Place(o, l) < k /\ ~(Place(o, m) < k)
      BY <1>6
    <3> QED BY <1>4, <1>5, <1>6, <3>1
  <2>2. ~First(o.sort, m, l)
    <3>1. First(o.sort, m, l) => Place(o, m) < Place(o, l)
      BY <1>4, <2>1, PlacesAreDistinct
    <3> QED BY <1>5, <2>1, <3>1
  <2>3. m \in Bucket /\ l \in Bucket
    BY <1>4, <2>1, Buckets
  <2> QED BY <1>4, <2>2, <2>3, OutranksIsFirst
<1> QED BY <1>3, <1>5, <1>6, <1>7, <1>8, <1>9

(***************************************************************************)
(* A caller can rely on what a list of ListBuckets leaves out: without the *)
(* mark nothing is missing, with it the page is full and nothing left out  *)
(* outranks what is in. The less functions of ops.go order unknown values  *)
(* too, strictly and totally, so a stable sort has one result.             *)
(***************************************************************************)
THEOREM OmissionsAreReal == Spec => []AbsenceIsReal
<1>1. Init => ListingInv
  BY DEF Init, ListingInv, ListIsAnswer
<1> QED BY <1>1, ListingNextInv, AnswerIsReal, PTL DEF Spec

(***************************************************************************)
(* Answering lists leaves callerAuth as it is: a pod with the list route   *)
(* and the list tool behaves towards the gateway and the clocks as         *)
(* Identity says, so that what is proved of Identity holds of it.          *)
(***************************************************************************)
THEOREM ListingKeepsIdentity == Spec => IdentitySpec
<1>1. Init => IdentityInit
  BY DEF Init
<1>2. [Next]_listingVars => [IdentityNext]_identityVars
  <2>1. ASSUME NEW surface \in Surfaces, NEW o \in Options, NEW n \in LimitArgs,
               Listed(surface, o, n)
        PROVE  UNCHANGED identityVars
    BY <2>1 DEF Listed, identityVars
  <2> QED BY <2>1 DEF Next, OtherStep, listingVars
<1> QED BY <1>1, <1>2, PTL DEF Spec, IdentitySpec
=============================================================================
