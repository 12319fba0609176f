--------------------------- MODULE RolloutProofs ----------------------------
(***************************************************************************)
(* Proofs about Rollout: two pods on one database, for every set of        *)
(* buckets, sizes and thresholds and every set of faults.                  *)
(*                                                                         *)
(* What PollerProofs proves of a pod holds of each of the two, because it  *)
(* asks of the database only that its rows are good ones, and both pods    *)
(* keep it so. Second is PollerProofs for the second pod.                  *)
(***************************************************************************)
EXTENDS Rollout, PollerProofs

Second == INSTANCE PollerProofs WITH
  pc <- pc2, rows <- rows2, atQuota <- atQuota2, pollOK <- pollOK2,
  inventoryOK <- inventoryOK2, payload <- payload2, answered <- answered2,
  pending <- pending2

----------------------------------------------------------------------------
(***************************************************************************)
(* The actions Rollout takes from Poller are those PollerProofs is about.  *)
(***************************************************************************)
LEMMA SameStart == ASSUME NEW read, Other!Start(read) PROVE Second!Start(read)
BY DEF Other!Start, Second!Start, Other!Seeded, Second!Seeded, Other!Subjects,
       Second!Subjects, Other!NoRow, Second!NoRow, Other!Kind, Second!Kind, Other!AtQuota,
       Second!AtQuota, Other!Kinds, Second!Kinds, Other!locals, Second!locals

LEMMA SameBillingAnswered ==
  ASSUME NEW p, Other!BillingAnswered(p) PROVE Second!BillingAnswered(p)
BY DEF Other!BillingAnswered, Second!BillingAnswered, Other!snapshot, Second!snapshot

LEMMA SameInventoryFetched ==
  ASSUME NEW ok, NEW fetched, Other!InventoryFetched(ok, fetched)
  PROVE  Second!InventoryFetched(ok, fetched)
BY DEF Other!InventoryFetched, Second!InventoryFetched, Other!snapshot, Second!snapshot,
       Other!Kinds, Second!Kinds, Other!Observed, Second!Observed, Other!Subjects,
       Second!Subjects, Other!NoRow, Second!NoRow, Other!Kind, Second!Kind, Other!Advance,
       Second!Advance, Other!Apply, Second!Apply, Other!AtQuota, Second!AtQuota

LEMMA SameEndOfPoll ==
  /\ Other!BillingFailed => Second!BillingFailed
  /\ Other!Replaced => Second!Replaced
  /\ Other!ReplaceFailed => Second!ReplaceFailed
  /\ Other!Published => Second!Published
  /\ Other!Crash => Second!Crash
<1>1. Other!BillingFailed => Second!BillingFailed
  BY DEF Other!BillingFailed, Second!BillingFailed, Other!locals, Second!locals
<1>2. /\ Other!Replaced => Second!Replaced
      /\ Other!ReplaceFailed => Second!ReplaceFailed
  BY DEF Other!Replaced, Second!Replaced, Other!ReplaceFailed, Second!ReplaceFailed,
         Other!locals, Second!locals, Other!snapshot, Second!snapshot
<1>3. Other!Forget => Second!Forget
  BY DEF Other!Forget, Second!Forget, Other!NotBilled, Second!NotBilled, Other!NoRows,
         Second!NoRows, Other!NoRow, Second!NoRow, Other!Subjects, Second!Subjects
<1>4. Other!Published => Second!Published
  BY <1>3 DEF Other!Published, Second!Published, Other!AtQuota, Second!AtQuota,
              Other!Subjects, Second!Subjects, Other!Kinds, Second!Kinds
<1>5. Other!Crash => Second!Crash
  BY <1>3 DEF Other!Crash, Second!Crash, Other!NoRows, Second!NoRows, Other!NoRow,
              Second!NoRow, Other!Subjects, Second!Subjects
<1> QED BY <1>1, <1>2, <1>4, <1>5

LEMMA SameKinds ==
  /\ Second!Kinds = Kinds /\ Second!Subjects = Subjects /\ Second!Limits = Limits
  /\ Second!Bill = Bill /\ Second!Row = Row
  /\ \A r : Second!GoodRow(r) <=> GoodRow(r)
BY DEF Kinds, Second!Kinds, Subjects, Second!Subjects, Limits, Second!Limits, Bill,
       Second!Bill, Row, Second!Row, GoodRow, Second!GoodRow, Sound, Second!Sound,
       Remembered, Second!Remembered

\* The assumptions of Views, in the words of the second pod.
LEMMA SecondIsFinite == Second!IsFiniteSet(Buckets)
BY ViewsAssumption DEF IsFiniteSet, Second!IsFiniteSet

\* A step of a pod of the rollout is a step of Poller.
LEMMA Pod1IsPoller == Pod1 => Next
<1>1. Kinds \in SUBSET Kinds /\ QuietBill \subseteq Bill
  BY DEF QuietBill
<1>2. \A a \in QuietAnswers : a[1] \in SUBSET Kinds /\ a[2] \in [Subjects -> Limits]
  BY DEF QuietAnswers
<1> QED BY <1>1, <1>2 DEF Pod1, Next, Restart, BillingReturns, InventoryReturns

LEMMA Pod2IsPoller == Pod2 => Second!Next
<1>1. Kinds \in SUBSET Kinds /\ QuietBill \subseteq Bill
  BY DEF QuietBill
<1>2. \A a \in QuietAnswers : a[1] \in SUBSET Kinds /\ a[2] \in [Subjects -> Limits]
  BY DEF QuietAnswers
<1>3. Other!Start(Kinds) => Second!Next
  BY <1>1, SameStart, SameKinds DEF Second!Next, Second!Restart
<1>4. ASSUME NEW p \in QuietBill, Other!BillingAnswered(p) PROVE Second!Next
  BY <1>1, <1>4, SameBillingAnswered, SameKinds DEF Second!Next, Second!BillingReturns
<1>5. ASSUME NEW a \in QuietAnswers, Other!InventoryFetched(a[1], a[2]) PROVE Second!Next
  <2>1. Second!InventoryFetched(a[1], a[2])
    BY <1>5, SameInventoryFetched
  <2> QED BY <1>2, <2>1, SameKinds DEF Second!Next, Second!InventoryReturns
<1>6. Other!BillingFailed \/ Other!StoreReturns \/ Other!Published \/ Other!Crash
        => Second!Next
  BY SameEndOfPoll DEF Second!Next, Second!BillingReturns, Second!StoreReturns,
                       Other!StoreReturns
<1> QED BY <1>3, <1>4, <1>5, <1>6 DEF Pod2

----------------------------------------------------------------------------
(***************************************************************************)
(* The inductive invariant: PollerInv of both pods. A step of one pod      *)
(* changes the database under the other, which then still holds good rows. *)
(***************************************************************************)
PodsInv == PollerInv /\ Second!PollerInv

GoodDb == db \in [Subjects -> Row] /\ \A s \in Subjects : GoodRow(db[s])

LEMMA GoodDbOfBoth == (PollerInv => GoodDb) /\ (Second!PollerInv => GoodDb)
<1>1. PollerInv => GoodDb
  BY DEF PollerInv, TypeOK, GoodRows, GoodDb
<1>2. Second!PollerInv => GoodDb
  BY SameKinds DEF Second!PollerInv, Second!TypeOK, Second!GoodRows, GoodDb
<1> QED BY <1>1, <1>2

LEMMA FirstKeeps == PollerInv /\ UNCHANGED first /\ GoodDb' => PollerInv'
<1> SUFFICES ASSUME PollerInv, UNCHANGED first, GoodDb' PROVE PollerInv'
  OBVIOUS
<1>1. /\ pc' = pc /\ rows' = rows /\ atQuota' = atQuota /\ pollOK' = pollOK
      /\ inventoryOK' = inventoryOK /\ payload' = payload /\ answered' = answered
      /\ pending' = pending
  BY DEF first, snapshot, locals
<1>2. TypeOK' /\ GoodRows'
  BY <1>1 DEF PollerInv, TypeOK, GoodRows, GoodDb
<1>3. Computed' /\ DownIsBlank' /\ FreshAlarmIsAtQuota'
  BY <1>1 DEF PollerInv, Computed, Evidence, DownIsBlank, FreshAlarmIsAtQuota
<1> QED BY <1>2, <1>3 DEF PollerInv

LEMMA SecondKeeps == Second!PollerInv /\ UNCHANGED second /\ GoodDb' => Second!PollerInv'
<1> SUFFICES ASSUME Second!PollerInv, UNCHANGED second, GoodDb' PROVE Second!PollerInv'
  OBVIOUS
<1>1. /\ pc2' = pc2 /\ rows2' = rows2 /\ atQuota2' = atQuota2 /\ pollOK2' = pollOK2
      /\ inventoryOK2' = inventoryOK2 /\ payload2' = payload2 /\ answered2' = answered2
      /\ pending2' = pending2
  BY DEF second
<1>2. Second!TypeOK' /\ Second!GoodRows'
  BY <1>1, SameKinds DEF Second!PollerInv, Second!TypeOK, Second!GoodRows, GoodDb
<1>3. Second!Computed' /\ Second!DownIsBlank' /\ Second!FreshAlarmIsAtQuota'
  BY <1>1 DEF Second!PollerInv, Second!Computed, Second!Evidence, Second!DownIsBlank,
              Second!FreshAlarmIsAtQuota
<1> QED BY <1>2, <1>3 DEF Second!PollerInv

LEMMA PodsInitInv == PodsInit => PodsInv
<1>1. Other!Init => Second!Init
  BY DEF Other!Init, Second!Init, Other!LegacyRow, Second!LegacyRow, Other!Subjects,
         Second!Subjects, Other!NoRow, Second!NoRow, Other!NoRows, Second!NoRows,
         Other!NotBilled, Second!NotBilled
<1>2. Second!Init => Second!PollerInv
  BY NilAssumption, PollerAssumption, SecondIsFinite, Second!InitInv DEF FaultKinds, Second!FaultKinds
<1> QED BY <1>1, <1>2, InitInv DEF PodsInit, PodsInv

LEMMA PodsNextInv == PodsInv /\ [PodsNext]_pods => PodsInv'
<1> SUFFICES ASSUME PodsInv, [PodsNext]_pods PROVE PodsInv'
  OBVIOUS
<1>1. CASE Pod1 /\ UNCHANGED second
  <2>1. PollerInv'
    BY <1>1, Pod1IsPoller, NextInv DEF PodsInv
  <2>2. GoodDb'
    BY <2>1, GoodDbOfBoth DEF PollerInv, TypeOK, GoodRows, GoodDb
  <2> QED BY <1>1, <2>1, <2>2, SecondKeeps DEF PodsInv
<1>2. CASE Pod2 /\ UNCHANGED first
  <2>1. Second!PollerInv'
    BY <1>2, Pod2IsPoller, NilAssumption, PollerAssumption, SecondIsFinite, Second!NextInv
    DEF PodsInv, FaultKinds, Second!FaultKinds
  <2>2. GoodDb'
    BY <2>1, SameKinds DEF Second!PollerInv, Second!TypeOK, Second!GoodRows, GoodDb
  <2> QED BY <1>2, <2>1, <2>2, FirstKeeps DEF PodsInv
<1>3. CASE UNCHANGED pods
  <2>1. UNCHANGED first /\ UNCHANGED second /\ db' = db
    BY <1>3 DEF pods, first, second
  <2>2. GoodDb'
    BY <2>1, GoodDbOfBoth DEF PodsInv, GoodDb
  <2> QED BY <2>1, <2>2, FirstKeeps, SecondKeeps DEF PodsInv
<1> QED BY <1>1, <1>2, <1>3 DEF PodsNext

LEMMA PodsInvariant == PodsSpec => []PodsInv
BY PodsInitInv, PodsNextInv, PTL DEF PodsSpec

----------------------------------------------------------------------------
\* The alarms of one pod and the database, whatever the other one shows.
AgreedByFirst(s) == db[s].confirmed /\ Carries(pc, rows[s], pending[s])
AgreedBySecond(s) == db[s].confirmed /\ Carries(pc2, rows2[s], pending2[s])

\* What a pod agrees on it takes back with evidence only.
LEMMA Pod1TakesBack ==
  ASSUME PollerInv, Pod1, NEW s \in Subjects, AgreedByFirst(s), ~AgreedByFirst(s)'
  PROVE  pc = "inventory" /\ pc' = "persist" /\ Evidence(s)' /\ db' = db
<1> USE DEF AgreedByFirst, Carries
<1>1. CASE Start(Kinds)
  BY <1>1 DEF Start, Seeded, Kind, Kinds, locals
<1>2. CASE BillingFailed
  BY <1>2 DEF BillingFailed, locals
<1>3. ASSUME NEW p, BillingAnswered(p) PROVE FALSE
  BY <1>3 DEF BillingAnswered, snapshot
<1>4. ASSUME NEW a \in QuietAnswers, InventoryFetched(a[1], a[2])
      PROVE  pc = "inventory" /\ pc' = "persist" /\ Evidence(s)' /\ db' = db
  <2>1. InventoryReturns
    BY <1>4 DEF InventoryReturns, QuietAnswers
  <2>2. Computed'
    BY <2>1, NextInv DEF Next, PollerInv
  <2>3. pc = "inventory" /\ pc' = "persist" /\ db' = db /\ rows' = rows
    BY <1>4 DEF InventoryFetched, snapshot
  <2> QED BY <2>2, <2>3 DEF Computed
<1>5. CASE Replaced
  BY <1>5 DEF Replaced, snapshot, locals
<1>6. CASE ReplaceFailed
  BY <1>6 DEF ReplaceFailed, snapshot, locals
<1>7. CASE Published
  BY <1>7 DEF Published
<1>8. CASE Crash
  BY <1>8 DEF Crash
<1> QED BY <1>1, <1>2, <1>3, <1>4, <1>5, <1>6, <1>7, <1>8 DEF Pod1, StoreReturns

LEMMA Pod2TakesBack ==
  ASSUME Second!PollerInv, Pod2, NEW s \in Subjects, AgreedBySecond(s), ~AgreedBySecond(s)'
  PROVE  pc2 = "inventory" /\ pc2' = "persist" /\ Other!Evidence(s)' /\ db' = db
<1> USE DEF AgreedBySecond, Carries
<1>1. CASE Other!Start(Kinds)
  BY <1>1 DEF Other!Start, Other!Seeded, Kinds, Other!Kind, Other!Subjects, Subjects,
              Other!locals
<1>2. CASE Other!BillingFailed
  BY <1>2 DEF Other!BillingFailed, Other!locals
<1>3. ASSUME NEW p, Other!BillingAnswered(p) PROVE FALSE
  BY <1>3 DEF Other!BillingAnswered, Other!snapshot
<1>4. ASSUME NEW a \in QuietAnswers, Other!InventoryFetched(a[1], a[2])
      PROVE  pc2 = "inventory" /\ pc2' = "persist" /\ Other!Evidence(s)' /\ db' = db
  <2>1. Second!Next
    BY <1>4, Pod2IsPoller DEF Pod2
  <2>2. Second!Computed'
    BY <2>1, NilAssumption, PollerAssumption, SecondIsFinite, Second!NextInv
    DEF Second!PollerInv, FaultKinds, Second!FaultKinds
  <2>3. pc2 = "inventory" /\ pc2' = "persist" /\ db' = db /\ rows2' = rows2
    BY <1>4 DEF Other!InventoryFetched, Other!snapshot
  <2>4. Second!Evidence(s)'
    BY <2>2, <2>3, SameKinds DEF Second!Computed
  <2>5. Other!Evidence(s)'
    BY <2>4 DEF Other!Evidence, Second!Evidence, Other!Kind, Second!Kind, Other!AtQuota,
                Second!AtQuota
  <2> QED BY <2>3, <2>5
<1>5. CASE Other!Replaced
  BY <1>5 DEF Other!Replaced, Other!snapshot, Other!locals
<1>6. CASE Other!ReplaceFailed
  BY <1>6 DEF Other!ReplaceFailed, Other!snapshot, Other!locals
<1>7. CASE Other!Published
  BY <1>7 DEF Other!Published
<1>8. CASE Other!Crash
  BY <1>8 DEF Other!Crash
<1> QED BY <1>1, <1>2, <1>3, <1>4, <1>5, <1>6, <1>7, <1>8 DEF Pod2, Other!StoreReturns

(***************************************************************************)
(* An alarm both pods agree on survives the overlap, whatever fails: it is *)
(* taken back only by a poll of one of them that has evidence against it.  *)
(***************************************************************************)
THEOREM AgreedAlarmsSurvive == PodsSpec => AgreedAlarmSurvives
<1> DEFINE Kept ==
      \A s \in Subjects :
        Agreed(s) /\ ~Agreed(s)' =>
          \/ pc = "inventory" /\ pc' = "persist" /\ Evidence(s)'
          \/ pc2 = "inventory" /\ pc2' = "persist" /\ Other!Evidence(s)'
<1>1. PodsInv /\ [PodsNext]_pods => [Kept]_pods
  <2> SUFFICES ASSUME PodsInv, PodsNext, NEW s \in Subjects, Agreed(s), ~Agreed(s)'
               PROVE  \/ pc = "inventory" /\ pc' = "persist" /\ Evidence(s)'
                      \/ pc2 = "inventory" /\ pc2' = "persist" /\ Other!Evidence(s)'
    OBVIOUS
  <2>1. AgreedByFirst(s) /\ AgreedBySecond(s) /\ (~AgreedByFirst(s)' \/ ~AgreedBySecond(s)')
    BY DEF Agreed, AgreedByFirst, AgreedBySecond
  <2>2. CASE Pod1 /\ UNCHANGED second
    <3>1. AgreedByFirst(s)' => AgreedBySecond(s)'
      BY <2>1, <2>2 DEF AgreedByFirst, AgreedBySecond, second, Carries
    <3> QED BY <2>1, <2>2, <3>1, Pod1TakesBack DEF PodsInv
  <2>3. CASE Pod2 /\ UNCHANGED first
    <3>1. AgreedBySecond(s)' => AgreedByFirst(s)'
      BY <2>1, <2>3 DEF AgreedByFirst, AgreedBySecond, first, snapshot, locals, Carries
    <3> QED BY <2>1, <2>3, <3>1, Pod2TakesBack DEF PodsInv
  <2> QED BY <2>2, <2>3 DEF PodsNext
<1> QED BY <1>1, PodsInvariant, PTL DEF PodsSpec, AgreedAlarmSurvives
=============================================================================
