---------------------------- MODULE PollerProofs ----------------------------
(***************************************************************************)
(* Proofs about Poller for every set of buckets, sizes and thresholds,     *)
(* every bound on the streak and every set of faults.                      *)
(***************************************************************************)
EXTENDS Views, FiniteSetTheorems, TLAPS

----------------------------------------------------------------------------
(***************************************************************************)
(* What Apply and Advance return, for every alarm and every sample.        *)
(***************************************************************************)

\* An alarm is confirmed exactly when its streak has reached two.
TwoConfirm(a) == a.confirmed <=> a.streak >= 2

(***************************************************************************)
(* One sample: the alarm is well formed, confirmed only by a sample at the *)
(* threshold, and a sample at the threshold counts.                        *)
(***************************************************************************)
LEMMA ApplyFacts ==
  ASSUME NEW streak \in Nat, NEW quota \in Nat \cup {Nil}, NEW used \in Int
  PROVE  LET a == Apply(streak, quota, used) IN
         /\ a \in Alarm /\ TwoConfirm(a)
         /\ AtQuota(quota, used) => a.streak = streak + 1
         /\ ~AtQuota(quota, used) => a.streak = 0
<1> DEFINE next == IF AtQuota(quota, used) THEN streak + 1 ELSE 0
<1>1. next \in Nat
  OBVIOUS
<1>2. Apply(streak, quota, used) = [streak |-> next, confirmed |-> next >= 2]
  BY DEF Apply
<1>3. /\ Apply(streak, quota, used).streak = next
      /\ Apply(streak, quota, used).confirmed = (next >= 2)
  BY <1>2
<1>4. (next >= 2) \in BOOLEAN
  BY <1>1
<1>5. Apply(streak, quota, used) \in Alarm
  <2> HIDE DEF next
  <2> QED BY <1>1, <1>2, <1>4 DEF Alarm
<1>6. TwoConfirm(Apply(streak, quota, used))
  <2> HIDE DEF next
  <2> QED BY <1>1, <1>3 DEF TwoConfirm
<1> QED BY <1>3, <1>5, <1>6

(***************************************************************************)
(* A confirmed alarm survives every sample that is not evidence against it *)
(* (quota.go:26-33): only an authoritative sample below its threshold, or  *)
(* without one, clears it.                                                 *)
(***************************************************************************)
LEMMA AdvanceFacts ==
  ASSUME NEW prev, prev.streak \in Nat, prev.confirmed \in BOOLEAN, TwoConfirm(prev),
         NEW ok \in BOOLEAN, NEW known \in BOOLEAN,
         NEW quota \in Nat \cup {Nil}, NEW used \in Int
  PROVE  LET a == Advance(prev, ok, known, quota, used) IN
         /\ a \in Alarm /\ TwoConfirm(a)
         /\ ~known => a.streak = prev.streak
         /\ known /\ AtQuota(quota, used) => a.streak = prev.streak + 1
         /\ known /\ ~AtQuota(quota, used) /\ (ok \/ ~prev.confirmed) => a.streak = 0
         /\ known /\ ~AtQuota(quota, used) /\ ~ok /\ prev.confirmed =>
              a.streak = prev.streak
<1> DEFINE next == Apply(prev.streak, quota, used)
<1>1. /\ next \in Alarm /\ TwoConfirm(next)
      /\ AtQuota(quota, used) => next.streak = prev.streak + 1
      /\ ~AtQuota(quota, used) => next.streak = 0
  BY ApplyFacts
<1>2. /\ next.streak \in Nat /\ next.confirmed \in BOOLEAN
      /\ next.confirmed <=> next.streak >= 2
  BY <1>1 DEF Alarm, TwoConfirm
<1> HIDE DEF next
<1>3. CASE ~known
  <2>1. Advance(prev, ok, known, quota, used)
          = [streak |-> prev.streak, confirmed |-> prev.confirmed]
    BY <1>3 DEF Advance
  <2> QED BY <1>3, <2>1 DEF Alarm, TwoConfirm
<1>4. CASE known /\ ~ok /\ prev.confirmed /\ ~next.confirmed
  <2>1. Advance(prev, ok, known, quota, used) = [streak |-> prev.streak, confirmed |-> TRUE]
    BY <1>4 DEF Advance, next
  <2>2. ~AtQuota(quota, used)
    BY <1>1, <1>2, <1>4 DEF TwoConfirm
  <2>3. [streak |-> prev.streak, confirmed |-> TRUE] \in Alarm
    BY DEF Alarm
  <2>4. TwoConfirm([streak |-> prev.streak, confirmed |-> TRUE])
    BY <1>4 DEF TwoConfirm
  <2>5. Advance(prev, ok, known, quota, used) \in Alarm
    BY <2>1, <2>3
  <2>6. TwoConfirm(Advance(prev, ok, known, quota, used))
    BY <2>1, <2>4
  <2>7. Advance(prev, ok, known, quota, used).streak = prev.streak
    BY <2>1
  <2> QED BY <1>4, <2>2, <2>5, <2>6, <2>7
<1>5. CASE known /\ ~(~ok /\ prev.confirmed /\ ~next.confirmed)
  <2>1. Advance(prev, ok, known, quota, used) = next
    BY <1>5 DEF Advance, next
  <2>2. ~AtQuota(quota, used) => ~next.confirmed
    BY <1>1, <1>2
  <2> QED BY <1>1, <1>2, <1>5, <2>1, <2>2
<1> QED BY <1>3, <1>4, <1>5

----------------------------------------------------------------------------
USE NilAssumption, PollerAssumption, ViewsAssumption

\* A threshold that was never reported is not there.
Remembered(r) == ~r.known => r.limit = Nil

\* A subject at its threshold has begun to count.
Counted(r) == AtQuota(r.limit, r.used) => r.streak >= 1

GoodRow(r) == r \in Row /\ Sound(r) /\ Remembered(r)

\* An alarm that ECS has just been asked about is a subject at its threshold.
Backed(r) == r.confirmed => AtQuota(r.limit, r.used)

\* The rows that stand for nothing are good ones.
LEMMA NoRowGood == GoodRow(NoRow) /\ Counted(NoRow) /\ Backed(NoRow)
<1>1. NoRow \in Row
  BY DEF NoRow, Row, Limits
<1> QED BY <1>1 DEF NoRow, GoodRow, Counted, Backed, Sound, Remembered, AtQuota

(***************************************************************************)
(* What Observed computes from a good row: a good row, which has begun to  *)
(* count if it is at its threshold, which is backed if ECS was asked, and  *)
(* which keeps its alarm unless there is evidence against it.              *)
(***************************************************************************)
LEMMA ObservedFacts ==
  ASSUME NEW s \in Subjects, NEW prev, GoodRow(prev),
         NEW used \in Sizes \cup {Nil}, NEW ok \in BOOLEAN, NEW fetched \in Limits
  PROVE  LET r == Observed(s, prev, used, ok, fetched) IN
         /\ GoodRow(r)
         /\ Counted(r)
         /\ ok => Backed(r)
         /\ prev.confirmed /\ ~r.confirmed =>
              ~r.present \/ (ok /\ ~AtQuota(r.limit, r.used))
<1> DEFINE r == Observed(s, prev, used, ok, fetched)
<1>1. CASE used = Nil
  <2>1. r = NoRow
    BY <1>1 DEF Observed
  <2>2. ~NoRow.present
    BY DEF NoRow
  <2> QED BY <2>1, <2>2, NoRowGood
<1>2. CASE used # Nil
  <2> DEFINE known == ok \/ prev.known
             limit == IF ok THEN fetched ELSE prev.limit
             next  == Advance(prev, ok, known, limit, used)
             cap   == IF next.streak > StreakBound THEN StreakBound ELSE next.streak
  <2>1. /\ used \in Nat /\ used \in Sizes
        /\ prev.streak \in Nat /\ prev.confirmed \in BOOLEAN
        /\ prev.known \in BOOLEAN /\ prev.limit \in Limits
    BY <1>2 DEF GoodRow, Row
  <2>2. TwoConfirm(prev)
    BY DEF GoodRow, Sound, TwoConfirm
  <2>3. known \in BOOLEAN /\ limit \in Limits /\ limit \in Nat \cup {Nil}
    BY <2>1 DEF Limits
  <2>4. /\ next \in Alarm /\ TwoConfirm(next)
        /\ ~known => next.streak = prev.streak
        /\ known /\ AtQuota(limit, used) => next.streak = prev.streak + 1
        /\ known /\ ~AtQuota(limit, used) /\ (ok \/ ~prev.confirmed) => next.streak = 0
        /\ known /\ ~AtQuota(limit, used) /\ ~ok /\ prev.confirmed =>
             next.streak = prev.streak
    <3> HIDE DEF known, limit
    <3> QED BY <2>1, <2>2, <2>3, AdvanceFacts
  <2>5. /\ next.streak \in Nat /\ next.confirmed \in BOOLEAN
        /\ next.confirmed <=> next.streak >= 2
    <3> HIDE DEF next
    <3> QED BY <2>4 DEF Alarm, TwoConfirm
  <2>6. r = [present |-> TRUE, used |-> used, confirmed |-> next.confirmed,
             streak |-> cap, known |-> known, limit |-> limit]
    BY <1>2 DEF Observed
  <2>7. /\ r.present = TRUE /\ r.used = used /\ r.confirmed = next.confirmed
        /\ r.streak = cap /\ r.known = known /\ r.limit = limit
    BY <2>6
  <2>8. ~known => limit = Nil
    BY <2>1 DEF GoodRow, Remembered
  <2>9. prev.confirmed <=> prev.streak >= 2
    BY <2>2 DEF TwoConfirm
  <2>10. prev.confirmed /\ prev.known => prev.limit # Nil
    BY DEF GoodRow, Sound
  <2>11. known = (ok \/ prev.known) /\ (~ok => limit = prev.limit)
    OBVIOUS
  <2> HIDE DEF known, limit, next, r
  <2>12. cap \in 0..StreakBound /\ (cap >= 2 <=> next.streak >= 2)
         /\ (cap >= 1 <=> next.streak >= 1)
    BY <2>5
  <2> HIDE DEF cap
  <2>13. r \in Row
    BY <2>1, <2>3, <2>5, <2>6, <2>12 DEF Row
  <2>14. r.confirmed <=> r.streak >= 2
    BY <2>5, <2>7, <2>12
  <2>15. next.confirmed /\ known => AtQuota(limit, used) \/ (~ok /\ prev.confirmed)
    BY <2>1, <2>3, <2>4, <2>5
  <2>16. r.confirmed /\ r.known => r.limit # Nil
    BY <2>7, <2>10, <2>11, <2>15 DEF AtQuota
  <2>17. GoodRow(r)
    BY <2>7, <2>8, <2>13, <2>14, <2>16 DEF GoodRow, Sound, Remembered
  <2>18. AtQuota(limit, used) => known
    BY <2>3, <2>8 DEF AtQuota
  <2>19. Counted(r)
    BY <2>1, <2>4, <2>5, <2>7, <2>12, <2>18 DEF Counted
  <2>20. ok => Backed(r)
    BY <2>7, <2>11, <2>15, <2>3, <2>4, <2>5 DEF Backed
  <2>21. prev.confirmed /\ ~r.confirmed => ok /\ ~AtQuota(r.limit, r.used)
    BY <2>1, <2>3, <2>4, <2>5, <2>7, <2>9
  <2> QED BY <2>17, <2>19, <2>20, <2>21 DEF r
<1> QED BY <1>1, <1>2

----------------------------------------------------------------------------
(***************************************************************************)
(* The inductive invariant. The safety properties are not inductive alone: *)
(* what a poll publishes is right because of what it computed two steps    *)
(* earlier, from rows that may have come through the store.                *)
(***************************************************************************)
GoodRows ==
  \A s \in Subjects : GoodRow(db[s]) /\ GoodRow(rows[s]) /\ GoodRow(pending[s])

\* What the poll in flight has computed.
Computed ==
  pc \in {"persist", "publish"} =>
    \A s \in Subjects :
      /\ Counted(pending[s])
      /\ Kind(s) \in answered => Backed(pending[s])
      /\ rows[s].confirmed /\ ~pending[s].confirmed => Evidence(s)

\* A process that does not run shows nothing.
DownIsBlank == pc = "down" => rows = NoRows

PollerInv == TypeOK /\ GoodRows /\ Computed /\ DownIsBlank /\ FreshAlarmIsAtQuota

\* Initially, whatever rows an older version left in the store.
LEMMA InitInv == Init => PollerInv
<1> SUFFICES ASSUME Init PROVE PollerInv
  OBVIOUS
<1>1. ASSUME NEW r \in LegacyRow PROVE GoodRow(r)
  <2>1. CASE r = NoRow
    BY <2>1, NoRowGood
  <2>2. ASSUME NEW u \in Sizes, NEW n \in 0..StreakBound,
               r = [present |-> TRUE, used |-> u, streak |-> n, confirmed |-> n >= 2,
                    known |-> FALSE, limit |-> Nil]
        PROVE  GoodRow(r)
    <3>1. /\ r.streak = n /\ r.confirmed = (n >= 2) /\ r.known = FALSE /\ r.limit = Nil
      BY <2>2
    <3>2. (n >= 2) \in BOOLEAN /\ Nil \in Limits
      BY DEF Limits
    <3>3. r \in Row
      BY <2>2, <3>2 DEF Row
    <3> QED BY <3>1, <3>3 DEF GoodRow, Sound, Remembered
  <2> QED BY <2>1, <2>2 DEF LegacyRow
<1>2. \A s \in Subjects : GoodRow(db[s])
  BY <1>1 DEF Init
<1>3. NoRows \in [Subjects -> Row] /\ \A s \in Subjects : GoodRow(NoRows[s])
  BY NoRowGood DEF NoRows, GoodRow
<1>4. GoodRows
  BY <1>2, <1>3 DEF Init, GoodRows
<1>5. db \in [Subjects -> Row]
  BY <1>2 DEF Init, GoodRow
<1>6. NotBilled \in [Subjects -> Sizes \cup {Nil}]
  BY DEF NotBilled
<1>7. TypeOK
  BY <1>3, <1>5, <1>6 DEF Init, TypeOK, Kinds
<1>8. Computed /\ DownIsBlank /\ FreshAlarmIsAtQuota
  BY DEF Init, Computed, DownIsBlank, FreshAlarmIsAtQuota
<1> QED BY <1>4, <1>7, <1>8 DEF PollerInv

\* Every action preserves the invariant.
LEMMA NextInv == PollerInv /\ [Next]_vars => PollerInv'
<1> SUFFICES ASSUME PollerInv, [Next]_vars PROVE PollerInv'
  OBVIOUS
<1> USE DEF PollerInv
<1>0. /\ NoRows \in [Subjects -> Row]
      /\ \A s \in Subjects : GoodRow(NoRows[s])
      /\ NotBilled \in [Subjects -> Sizes \cup {Nil}]
      /\ \A s \in Subjects : Kind(s) \in Kinds
  BY NoRowGood DEF NoRows, NotBilled, GoodRow, Kind, Kinds
<1>1. ASSUME NEW read \in SUBSET Kinds, Start(read)
      PROVE  PollerInv'
  <2>1. rows' \in [Subjects -> Row] /\ \A s \in Subjects : GoodRow(rows'[s])
    BY <1>1, NoRowGood DEF Start, Seeded, GoodRows, GoodRow
  <2>2. TypeOK'
    BY <1>1, <2>1 DEF Start, TypeOK, locals
  <2>3. GoodRows'
    BY <1>1, <2>1 DEF Start, GoodRows, locals
  <2>4. Computed' /\ DownIsBlank' /\ FreshAlarmIsAtQuota'
    BY <1>1 DEF Start, Computed, DownIsBlank, FreshAlarmIsAtQuota
  <2> QED BY <2>2, <2>3, <2>4
<1>2. ASSUME NEW p \in Bill, BillingAnswered(p)
      PROVE  PollerInv'
  <2>1. TypeOK'
    BY <1>2 DEF BillingAnswered, TypeOK, snapshot, Bill
  <2>2. GoodRows'
    BY <1>2 DEF BillingAnswered, GoodRows, snapshot
  <2>3. Computed' /\ DownIsBlank' /\ FreshAlarmIsAtQuota'
    BY <1>2 DEF BillingAnswered, Computed, DownIsBlank, FreshAlarmIsAtQuota, snapshot
  <2> QED BY <2>1, <2>2, <2>3
<1>3. CASE BillingFailed
  <2>1. TypeOK'
    BY <1>3 DEF BillingFailed, TypeOK, locals
  <2>2. GoodRows'
    BY <1>3 DEF BillingFailed, GoodRows, locals
  <2>3. Computed' /\ DownIsBlank' /\ FreshAlarmIsAtQuota'
    BY <1>3 DEF BillingFailed, Computed, DownIsBlank, FreshAlarmIsAtQuota, locals
  <2> QED BY <2>1, <2>2, <2>3
<1>4. ASSUME NEW ok \in SUBSET Kinds, NEW fetched \in [Subjects -> Limits],
             InventoryFetched(ok, fetched)
      PROVE  PollerInv'
  <2>1. ASSUME NEW s \in Subjects
        PROVE  /\ GoodRow(pending'[s])
               /\ Counted(pending'[s])
               /\ Kind(s) \in answered' => Backed(pending'[s])
               /\ rows'[s].confirmed /\ ~pending'[s].confirmed => Evidence(s)'
    <3> DEFINE r == Observed(s, rows[s], payload[s], Kind(s) \in ok, fetched[s])
    <3>1. /\ GoodRow(rows[s]) /\ payload[s] \in Sizes \cup {Nil}
          /\ (Kind(s) \in ok) \in BOOLEAN /\ fetched[s] \in Limits
      BY DEF GoodRows, TypeOK
    <3>2. /\ GoodRow(r) /\ Counted(r)
          /\ Kind(s) \in ok => Backed(r)
          /\ rows[s].confirmed /\ ~r.confirmed =>
               ~r.present \/ (Kind(s) \in ok /\ ~AtQuota(r.limit, r.used))
      BY <3>1, ObservedFacts
    <3>3. pending'[s] = r /\ answered' = ok /\ rows' = rows
      BY <1>4 DEF InventoryFetched, snapshot
    <3> HIDE DEF r
    <3> QED BY <3>2, <3>3 DEF Evidence
  <2>2. pending' \in [Subjects -> Row]
    <3>1. DOMAIN pending' = Subjects /\ pending' = [s \in Subjects |-> pending'[s]]
      BY <1>4 DEF InventoryFetched
    <3> QED BY <2>1, <3>1 DEF GoodRow
  <2>3. TypeOK'
    BY <1>4, <2>2 DEF InventoryFetched, TypeOK, snapshot
  <2>4. GoodRows'
    BY <1>4, <2>1 DEF InventoryFetched, GoodRows, snapshot
  <2>5. Computed'
    BY <2>1 DEF Computed
  <2>6. DownIsBlank' /\ FreshAlarmIsAtQuota'
    BY <1>4 DEF InventoryFetched, DownIsBlank, FreshAlarmIsAtQuota, snapshot
  <2> QED BY <2>3, <2>4, <2>5, <2>6
<1>5. CASE Replaced
  <2>1. TypeOK'
    BY <1>5 DEF Replaced, TypeOK, snapshot, locals
  <2>2. GoodRows'
    BY <1>5 DEF Replaced, GoodRows, snapshot, locals
  <2>3. Computed' /\ DownIsBlank' /\ FreshAlarmIsAtQuota'
    BY <1>5 DEF Replaced, Computed, DownIsBlank, FreshAlarmIsAtQuota, Evidence, snapshot, locals
  <2> QED BY <2>1, <2>2, <2>3
<1>6. CASE ReplaceFailed
  <2>1. TypeOK'
    BY <1>6 DEF ReplaceFailed, TypeOK, snapshot, locals
  <2>2. GoodRows'
    BY <1>6 DEF ReplaceFailed, GoodRows, snapshot, locals
  <2>3. Computed' /\ DownIsBlank' /\ FreshAlarmIsAtQuota'
    BY <1>6 DEF ReplaceFailed, Computed, DownIsBlank, FreshAlarmIsAtQuota, Evidence, snapshot, locals
  <2> QED BY <2>1, <2>2, <2>3
<1>7. CASE Published
  <2>1. TypeOK'
    BY <1>0, <1>7 DEF Published, Forget, TypeOK, Kinds, AtQuota
  <2>2. GoodRows'
    BY <1>0, <1>7 DEF Published, Forget, GoodRows
  <2>3. Computed' /\ DownIsBlank'
    BY <1>7 DEF Published, Computed, DownIsBlank
  <2>4. FreshAlarmIsAtQuota'
    <3> SUFFICES ASSUME inventoryOK', NEW s \in Subjects
                 PROVE  /\ rows'[s].confirmed => atQuota'[s]
                        /\ atQuota'[s] => rows'[s].streak >= 1
      BY DEF FreshAlarmIsAtQuota
    <3>1. Kind(s) \in answered
      BY <1>0, <1>7 DEF Published
    <3>2. Counted(pending[s]) /\ Backed(pending[s])
      BY <1>7, <3>1 DEF Published, Computed
    <3>3. rows'[s] = pending[s] /\ atQuota'[s] = AtQuota(pending[s].limit, pending[s].used)
      BY <1>7 DEF Published
    <3> QED BY <3>2, <3>3 DEF Counted, Backed
  <2> QED BY <2>1, <2>2, <2>3, <2>4
<1>8. CASE Crash
  <2>1. TypeOK'
    BY <1>0, <1>8 DEF Crash, Forget, TypeOK, Kinds
  <2>2. GoodRows'
    BY <1>0, <1>8 DEF Crash, Forget, GoodRows
  <2>3. Computed' /\ DownIsBlank' /\ FreshAlarmIsAtQuota'
    BY <1>8 DEF Crash, Computed, DownIsBlank, FreshAlarmIsAtQuota
  <2> QED BY <2>1, <2>2, <2>3
<1>9. CASE UNCHANGED vars
  BY <1>9 DEF vars, snapshot, locals, TypeOK, GoodRows, Computed, DownIsBlank,
              Evidence, FreshAlarmIsAtQuota
<1> QED
  BY <1>1, <1>2, <1>3, <1>4, <1>5, <1>6, <1>7, <1>8, <1>9
  DEF Next, Restart, BillingReturns, InventoryReturns, StoreReturns

LEMMA Invariant == Spec => []PollerInv
BY InitInv, NextInv, PTL DEF Spec

----------------------------------------------------------------------------
(***************************************************************************)
(* Whatever fails, and whenever: every variable keeps its type.            *)
(***************************************************************************)
THEOREM TypeCorrect == Spec => []TypeOK
<1>1. PollerInv => TypeOK
  BY DEF PollerInv
<1> QED BY <1>1, Invariant, PTL

(***************************************************************************)
(* Whatever fails, and whenever: no copy of an alarm is confirmed without  *)
(* a streak of two, or against a threshold ECS reported as unset.          *)
(***************************************************************************)
THEOREM AlarmsStaySound == Spec => []AlarmsAreSound
<1>1. PollerInv => AlarmsAreSound
  BY DEF PollerInv, GoodRows, GoodRow, AlarmsAreSound
<1> QED BY <1>1, Invariant, PTL

(***************************************************************************)
(* Whatever fails, and whenever: an alarm shown with a complete inventory  *)
(* is a subject that was at its threshold in that very poll.               *)
(***************************************************************************)
THEOREM FreshAlarmsAreReal == Spec => []FreshAlarmIsAtQuota
<1>1. PollerInv => FreshAlarmIsAtQuota
  BY DEF PollerInv
<1> QED BY <1>1, Invariant, PTL

(***************************************************************************)
(* Whatever fails, and whenever: the at-quota flags of a ready instance    *)
(* belong to the rows they stand in.                                       *)
(***************************************************************************)
THEOREM ReadyIsTrue == Spec => []ReadyShowsTrueFlags
<1> DEFINE True == pollOK => \A s \in Subjects :
                              atQuota[s] = AtQuota(rows[s].limit, rows[s].used)
<1>1. Init => True
  BY DEF Init
<1>2. True /\ [Next]_vars => True'
  <2> SUFFICES ASSUME True, [Next]_vars PROVE True'
    OBVIOUS
  <2>1. ASSUME NEW read \in SUBSET Kinds, Start(read)
        PROVE  True'
    BY <2>1 DEF Start
  <2>2. CASE BillingFailed
    BY <2>2 DEF BillingFailed
  <2>3. CASE Published
    BY <2>3 DEF Published
  <2>4. CASE Crash
    BY <2>4 DEF Crash
  <2>5. CASE UNCHANGED snapshot
    BY <2>5 DEF snapshot
  <2> QED
    BY <2>1, <2>2, <2>3, <2>4, <2>5
    DEF Next, Restart, BillingReturns, BillingAnswered, InventoryReturns,
        InventoryFetched, StoreReturns, Replaced, ReplaceFailed, vars
<1>3. True => ReadyShowsTrueFlags
  BY DEF HandleReady, ReadyShowsTrueFlags
<1> QED BY <1>1, <1>2, <1>3, PTL DEF Spec

(***************************************************************************)
(* Whatever fails, and whenever: a shown alarm disappears only with the    *)
(* process or by evidence from ECS.                                        *)
(***************************************************************************)
THEOREM NothingElseSilences == Spec => OnlyEvidenceSilences
<1> DEFINE Silenced(s) ==
      rows[s].confirmed /\ ~rows'[s].confirmed =>
        pc' = "down" \/ (pc = "publish" /\ Evidence(s))
<1>1. ASSUME PollerInv, [Next]_vars, NEW s \in Subjects
      PROVE  Silenced(s)
  <2> USE <1>1
  <2>1. ASSUME NEW read \in SUBSET Kinds, Start(read)
        PROVE  Silenced(s)
    <3>1. ~rows[s].confirmed
      BY <2>1 DEF Start, PollerInv, DownIsBlank, NoRows, NoRow
    <3> QED BY <3>1
  <2>2. CASE Published
    BY <2>2 DEF Published, PollerInv, Computed
  <2>3. CASE Crash
    BY <2>3 DEF Crash
  <2>4. CASE rows' = rows
    BY <2>4
  <2> QED
    BY <2>1, <2>2, <2>3, <2>4
    DEF Next, Restart, BillingReturns, BillingAnswered, BillingFailed, InventoryReturns,
        InventoryFetched, StoreReturns, Replaced, ReplaceFailed, vars, snapshot
<1>2. PollerInv /\ [Next]_vars => [\A s \in Subjects : Silenced(s)]_vars
  BY <1>1
<1> QED BY <1>2, Invariant, PTL DEF Spec, OnlyEvidenceSilences

----------------------------------------------------------------------------
(***************************************************************************)
(* What Poller keeps when the store does: proofs that hold for every set   *)
(* of buckets, sizes and thresholds if a commit does not fail and the      *)
(* tables can be read at start. Billing and inventory may fail and the     *)
(* process may die at any step. Without the hypothesis the three theorems  *)
(* are false (run poller_seed shows it for the second).                    *)
(***************************************************************************)
StoreIsReliable == "persist" \notin Faults /\ "seed" \notin Faults

(***************************************************************************)
(* One sample moves the level of a row by the rules of the promise.        *)
(***************************************************************************)
LEMMA ObservedLevel ==
  ASSUME NEW s \in Subjects, NEW prev, GoodRow(prev),
         NEW used \in Sizes \cup {Nil}, NEW ok \in BOOLEAN, NEW fetched \in Limits,
         NEW r, r = Observed(s, prev, used, ok, fetched)
  PROVE  Level(r) = Promise!After(Level(prev), Verdict(used, r, ok))
<1>1. CASE used = Nil
  <2>1. Level(r) = "clear"
    BY <1>1 DEF Observed, Level, NoRow
  <2>2. Verdict(used, r, ok) = "gone"
    BY <1>1 DEF Verdict
  <2> QED BY <2>1, <2>2 DEF Promise!After
<1>2. CASE used # Nil
  <2> DEFINE known == ok \/ prev.known
             limit == IF ok THEN fetched ELSE prev.limit
             next  == Advance(prev, ok, known, limit, used)
             cap   == IF next.streak > StreakBound THEN StreakBound ELSE next.streak
  <2>1. /\ used \in Nat
        /\ prev.streak \in Nat /\ prev.confirmed \in BOOLEAN
        /\ prev.known \in BOOLEAN /\ prev.limit \in Limits
    BY <1>2 DEF GoodRow, Row
  <2>2. TwoConfirm(prev)
    BY DEF GoodRow, Sound, TwoConfirm
  <2>3. known \in BOOLEAN /\ limit \in Nat \cup {Nil}
    BY <2>1 DEF Limits
  <2>4. /\ next \in Alarm /\ TwoConfirm(next)
        /\ ~known => next.streak = prev.streak
        /\ known /\ AtQuota(limit, used) => next.streak = prev.streak + 1
        /\ known /\ ~AtQuota(limit, used) /\ (ok \/ ~prev.confirmed) => next.streak = 0
        /\ known /\ ~AtQuota(limit, used) /\ ~ok /\ prev.confirmed =>
             next.streak = prev.streak
    <3> HIDE DEF known, limit
    <3> QED BY <2>1, <2>2, <2>3, AdvanceFacts
  <2>5. /\ next.streak \in Nat /\ next.confirmed \in BOOLEAN
        /\ next.confirmed <=> next.streak >= 2
    <3> HIDE DEF next
    <3> QED BY <2>4 DEF Alarm, TwoConfirm
  <2>6. /\ r.confirmed = next.confirmed /\ r.streak = cap
        /\ r.known = known /\ r.limit = limit
    BY <1>2 DEF Observed
  <2>7. prev.confirmed <=> prev.streak >= 2
    BY <2>2 DEF TwoConfirm
  <2>8. ok => known
    OBVIOUS
  <2> HIDE DEF known, limit, next
  <2>9. cap \in Nat /\ (cap > 0 <=> next.streak >= 1)
    BY <2>5
  <2> HIDE DEF cap
  <2>10. Level(r) = IF next.streak >= 2 THEN "alarm"
                    ELSE IF next.streak >= 1 THEN "suspect" ELSE "clear"
    BY <2>5, <2>6, <2>9 DEF Level
  <2>11. Level(prev) = IF prev.streak >= 2 THEN "alarm"
                       ELSE IF prev.streak >= 1 THEN "suspect" ELSE "clear"
    BY <2>1, <2>7 DEF Level
  <2>12. CASE ~known
    <3>1. Verdict(used, r, ok) = "unknown"
      BY <1>2, <2>6, <2>12 DEF Verdict
    <3>2. Level(r) = Level(prev)
      BY <2>4, <2>10, <2>11, <2>12
    <3> QED BY <3>1, <3>2 DEF Promise!After
  <2>13. CASE known /\ AtQuota(limit, used)
    <3>1. Verdict(used, r, ok) = "over"
      BY <1>2, <2>6, <2>13 DEF Verdict
    <3>2. next.streak = prev.streak + 1
      BY <2>4, <2>13
    <3>3. Level(r) = IF Level(prev) = "clear" THEN "suspect" ELSE "alarm"
      BY <2>1, <2>10, <2>11, <3>2
    <3> QED BY <3>1, <3>3 DEF Promise!After
  <2>14. CASE known /\ ~AtQuota(limit, used) /\ ok
    <3>1. Verdict(used, r, ok) = "under"
      BY <1>2, <2>6, <2>14 DEF Verdict
    <3>2. Level(r) = "clear"
      BY <2>4, <2>10, <2>14
    <3> QED BY <3>1, <3>2 DEF Promise!After
  <2>15. CASE known /\ ~AtQuota(limit, used) /\ ~ok
    <3>1. Verdict(used, r, ok) = "unproven"
      BY <1>2, <2>6, <2>15 DEF Verdict
    <3>2. Level(r) = IF Level(prev) = "alarm" THEN "alarm" ELSE "clear"
      BY <2>1, <2>4, <2>7, <2>10, <2>11, <2>15
    <3> QED BY <3>1, <3>2 DEF Promise!After
  <2> QED BY <2>3, <2>12, <2>13, <2>14, <2>15
<1> QED BY <1>1, <1>2

----------------------------------------------------------------------------
(***************************************************************************)
(* The strengthening: what the poll in flight is about to commit is the    *)
(* promise's judgement of the durable level.                               *)
(***************************************************************************)
Decided ==
  pc = "persist" =>
    \A s \in Subjects :
      /\ Level(pending[s]) = Promise!After(Level(db[s]), VerdictOn(s))
      /\ VerdictOn(s) \in Promise!Verdicts

DurableInv == PollerInv /\ SnapshotIsDurable /\ Decided

LEMMA NextDurable ==
  ASSUME StoreIsReliable, DurableInv, [Next]_vars
  PROVE  SnapshotIsDurable' /\ Decided'
<1> USE DEF DurableInv
<1>1. ASSUME NEW read \in SUBSET Kinds, Start(read)
      PROVE  SnapshotIsDurable' /\ Decided'
  <2>1. read = Kinds
    BY <1>1 DEF Start, StoreIsReliable
  <2>2. \A s \in Subjects : Seeded(s, read) = db[s]
    BY <2>1 DEF Seeded, Kind, Kinds
  <2>3. rows' = [s \in Subjects |-> db[s]]
    BY <1>1, <2>2 DEF Start
  <2>4. rows' = db
    BY <2>3 DEF PollerInv, TypeOK
  <2> QED BY <1>1, <2>4 DEF Start, SnapshotIsDurable, Decided
<1>2. ASSUME NEW p \in Bill, BillingAnswered(p)
      PROVE  SnapshotIsDurable' /\ Decided'
  BY <1>2 DEF BillingAnswered, SnapshotIsDurable, Decided, snapshot
<1>3. CASE BillingFailed
  BY <1>3 DEF BillingFailed, SnapshotIsDurable, Decided, locals
<1>4. ASSUME NEW ok \in SUBSET Kinds, NEW fetched \in [Subjects -> Limits],
             InventoryFetched(ok, fetched)
      PROVE  SnapshotIsDurable' /\ Decided'
  <2>1. SnapshotIsDurable'
    BY <1>4 DEF InventoryFetched, SnapshotIsDurable, snapshot
  <2>2. ASSUME NEW s \in Subjects
        PROVE  /\ Level(pending'[s]) = Promise!After(Level(db'[s]), VerdictOn(s)')
               /\ VerdictOn(s)' \in Promise!Verdicts
    <3> DEFINE prev == rows[s]
               used == payload[s]
               lim  == fetched[s]
               said == Kind(s) \in ok
               r    == Observed(s, prev, used, said, lim)
    <3>1. /\ GoodRow(prev) /\ used \in Sizes \cup {Nil}
          /\ said \in BOOLEAN /\ lim \in Limits
      BY DEF GoodRows, TypeOK, PollerInv
    <3>2. Level(r) = Promise!After(Level(prev), Verdict(used, r, said))
      <4>1. r = Observed(s, prev, used, said, lim)
        OBVIOUS
      <4> HIDE DEF prev, used, lim, said, r, DurableInv
      <4> QED BY ONLY s \in Subjects, <3>1, <4>1, ObservedLevel
    <3>3. rows = db
      BY <1>4 DEF InventoryFetched, SnapshotIsDurable
    <3>4. /\ pending'[s] = r /\ answered' = ok /\ payload' = payload
          /\ db' = db /\ pc' = "persist"
      BY <1>4 DEF InventoryFetched
    <3> HIDE DEF r
    <3>5. VerdictOn(s)' = Verdict(payload[s], r, said)
      BY <3>4 DEF VerdictOn
    <3>6. Verdict(payload[s], r, said) \in Promise!Verdicts
      BY DEF Verdict, Promise!Verdicts
    <3> QED BY <3>2, <3>3, <3>4, <3>5, <3>6
  <2>3. Decided'
    BY <2>2 DEF Decided
  <2> QED BY <2>1, <2>3
<1>5. CASE Replaced
  BY <1>5 DEF Replaced, SnapshotIsDurable, Decided, snapshot, locals
<1>6. CASE ReplaceFailed
  BY <1>6 DEF ReplaceFailed, StoreIsReliable
<1>7. CASE Published
  BY <1>7 DEF Published, SnapshotIsDurable, Decided
<1>8. CASE Crash
  BY <1>8 DEF Crash, SnapshotIsDurable, Decided
<1>9. CASE UNCHANGED vars
  <2>1. /\ pc' = pc /\ db' = db /\ rows' = rows /\ pending' = pending
        /\ payload' = payload /\ answered' = answered
    BY <1>9 DEF vars, snapshot, locals
  <2>2. \A s \in Subjects : VerdictOn(s)' = VerdictOn(s)
    BY <2>1 DEF VerdictOn
  <2> QED BY <2>1, <2>2 DEF SnapshotIsDurable, Decided
<1> QED
  BY <1>1, <1>2, <1>3, <1>4, <1>5, <1>6, <1>7, <1>8, <1>9
  DEF Next, Restart, BillingReturns, InventoryReturns, StoreReturns

LEMMA DurableInvariant == ASSUME StoreIsReliable PROVE Spec => []DurableInv
<1>1. Init => SnapshotIsDurable /\ Decided
  BY DEF Init, SnapshotIsDurable, Decided
<1>2. DurableInv /\ [Next]_vars => DurableInv'
  BY NextInv, NextDurable DEF DurableInv
<1>3. Init => DurableInv
  BY <1>1, InitInv DEF DurableInv
<1> QED BY <1>2, <1>3, PTL DEF Spec

(***************************************************************************)
(* A process that is killed at any step and started again continues from   *)
(* the observation its readers last saw, or from the next one, committed   *)
(* but not yet shown.                                                      *)
(***************************************************************************)
THEOREM RestartForgetsNothing ==
  ASSUME StoreIsReliable PROVE Spec => []SnapshotIsDurable
<1>1. DurableInv => SnapshotIsDurable
  BY DEF DurableInv
<1> QED BY <1>1, DurableInvariant, PTL

(***************************************************************************)
(* A durable alarm is cleared only by evidence from ECS, through every     *)
(* failure of ECS and every crash.                                         *)
(***************************************************************************)
THEOREM EvidenceClears ==
  ASSUME StoreIsReliable PROVE Spec => OnlyEvidenceClears
<1> DEFINE Cleared(s) ==
      db[s].confirmed /\ ~db'[s].confirmed => pc = "persist" /\ Evidence(s)
<1>1. ASSUME DurableInv, [Next]_vars, NEW s \in Subjects
      PROVE  Cleared(s)
  <2> USE <1>1
  <2>1. CASE Replaced
    BY <2>1 DEF Replaced, DurableInv, PollerInv, Computed, SnapshotIsDurable
  <2>2. CASE db' = db
    BY <2>2
  <2> QED
    BY <2>1, <2>2
    DEF Next, Restart, Start, BillingReturns, BillingAnswered, BillingFailed,
        InventoryReturns, InventoryFetched, StoreReturns, ReplaceFailed, Published,
        Crash, vars
<1>2. DurableInv /\ [Next]_vars => [\A s \in Subjects : Cleared(s)]_vars
  BY <1>1
<1> QED BY <1>2, DurableInvariant, PTL DEF Spec, OnlyEvidenceClears

----------------------------------------------------------------------------
NotJudging == pc # "persist"

LEMMA UndecidedOutsidePersist ==
  /\ NotJudging => [s \in Subjects |-> VerdictOn(s)] = Promise!Undecided
  /\ DurableInv /\ ~NotJudging => [s \in Subjects |-> VerdictOn(s)] # Promise!Undecided
<1>1. ASSUME NotJudging PROVE [s \in Subjects |-> VerdictOn(s)] = Promise!Undecided
  BY <1>1 DEF NotJudging, VerdictOn, Promise!Undecided
<1>2. ASSUME DurableInv, ~NotJudging
      PROVE  [s \in Subjects |-> VerdictOn(s)] # Promise!Undecided
  <2>1. Namespace \in Subjects
    BY DEF Subjects
  <2>2. VerdictOn(Namespace) # "none"
    BY <1>2, <2>1 DEF DurableInv, Decided, NotJudging, Promise!Verdicts
  <2> QED BY <2>1, <2>2 DEF Promise!Undecided
<1> QED BY <1>1, <1>2

LEMMA StepKeepsPromise ==
  ASSUME StoreIsReliable, DurableInv, DurableInv', [Next]_vars
  PROVE  [Promise!Next]_(Promise!vars)
<1> DEFINE L == [s \in Subjects |-> Level(db[s])]
           V == [s \in Subjects |-> VerdictOn(s)]
<1>1. ASSUME db' = db, NotJudging, NotJudging'
      PROVE  UNCHANGED Promise!vars
  <2>1. V = Promise!Undecided /\ V' = Promise!Undecided
    BY <1>1 DEF VerdictOn, NotJudging, Promise!Undecided
  <2>2. L' = L
    BY <1>1 DEF Level
  <2> QED BY <2>1, <2>2 DEF Promise!vars
<1>2. ASSUME NEW read \in SUBSET Kinds, Start(read)
      PROVE  UNCHANGED Promise!vars
  BY <1>1, <1>2 DEF Start, NotJudging
<1>3. ASSUME NEW p \in Bill, BillingAnswered(p)
      PROVE  UNCHANGED Promise!vars
  BY <1>1, <1>3 DEF BillingAnswered, NotJudging
<1>4. CASE BillingFailed
  BY <1>1, <1>4 DEF BillingFailed, NotJudging
<1>5. ASSUME NEW ok \in SUBSET Kinds, NEW fetched \in [Subjects -> Limits],
             InventoryFetched(ok, fetched)
      PROVE  Promise!Gather
  <2>1. V = Promise!Undecided
    BY <1>5, UndecidedOutsidePersist DEF InventoryFetched, NotJudging
  <2>2. pc' = "persist" /\ db' = db
    BY <1>5 DEF InventoryFetched
  <2>3. \A s \in Subjects : VerdictOn(s)' \in Promise!Verdicts
    BY <2>2 DEF DurableInv, Decided
  <2>4. V' \in [Subjects -> Promise!Verdicts]
    BY <2>3
  <2>5. L' = L
    BY <2>2 DEF Level
  <2> QED BY <2>1, <2>4, <2>5 DEF Promise!Gather
<1>6. CASE Replaced
  <2>1. pc = "persist" /\ NotJudging' /\ db' = pending
    BY <1>6 DEF Replaced, NotJudging
  <2>2. V # Promise!Undecided
    BY <2>1, UndecidedOutsidePersist DEF NotJudging
  <2>3. V' = Promise!Undecided
    BY <2>1 DEF VerdictOn, NotJudging, Promise!Undecided
  <2>4. \A s \in Subjects : Level(db'[s]) = Promise!After(L[s], V[s])
    BY <2>1 DEF DurableInv, Decided
  <2>5. L' = [s \in Subjects |-> Promise!After(L[s], V[s])]
    BY <2>4
  <2>6. Promise!Judge
    BY <2>2, <2>3, <2>5 DEF Promise!Judge
  <2> QED BY <2>6 DEF Promise!Next
<1>7. CASE ReplaceFailed
  BY <1>7 DEF ReplaceFailed, StoreIsReliable
<1>8. CASE Published
  BY <1>1, <1>8 DEF Published, NotJudging
<1>9. CASE Crash
  <2>1. NotJudging' /\ db' = db
    BY <1>9 DEF Crash, NotJudging
  <2>2. CASE NotJudging
    BY <1>1, <2>1, <2>2
  <2>3. CASE ~NotJudging
    <3>1. V # Promise!Undecided
      BY <2>3, UndecidedOutsidePersist
    <3>2. V' = Promise!Undecided
      BY <2>1 DEF VerdictOn, NotJudging, Promise!Undecided
    <3>3. L' = L
      BY <2>1 DEF Level
    <3>4. Promise!Discard
      BY <3>1, <3>2, <3>3 DEF Promise!Discard
    <3> QED BY <3>4 DEF Promise!Next
  <2> QED BY <2>2, <2>3
<1>10. CASE UNCHANGED vars
  BY <1>10 DEF vars, snapshot, locals, Promise!vars, Level, VerdictOn
<1> QED
  BY <1>2, <1>3, <1>4, <1>5, <1>6, <1>7, <1>8, <1>9, <1>10
  DEF Next, Restart, BillingReturns, InventoryReturns, StoreReturns, Promise!Next

(***************************************************************************)
(* The durable alarms implement QuotaAlarm: two samples raise an alarm,    *)
(* evidence lowers it, every sample is judged at most once, and neither a  *)
(* crash nor a failure of ECS is visible in them.                          *)
(***************************************************************************)
THEOREM DurableAlarmsKeepPromise ==
  ASSUME StoreIsReliable PROVE Spec => KeepsPromise
<1>1. Init => Promise!Init
  <2>1. [s \in Subjects |-> Level(db[s])] \in [Subjects -> Promise!Levels]
    BY DEF Level, Promise!Levels
  <2> QED BY <2>1, UndecidedOutsidePersist DEF Init, NotJudging, Promise!Init
<1>2. DurableInv /\ DurableInv' /\ [Next]_vars => [Promise!Next]_(Promise!vars)
  BY StepKeepsPromise
<1> QED BY <1>1, <1>2, DurableInvariant, PTL DEF Spec, KeepsPromise, Promise!Spec

----------------------------------------------------------------------------
(***************************************************************************)
(* The strengthening. The boards show an alarm only next to a row, and the *)
(* namespace's only next to a threshold; PollerInv knows of neither. An    *)
(* alarm of the namespace needs an observed threshold, and thresholds, once*)
(* observed, are remembered: only rows of before migration 004 carry one   *)
(* without, and the namespace had no table then.                           *)
(***************************************************************************)
Displayable(s, r) == r.confirmed => r.present /\ (s = Namespace => r.known)

AlarmsAreDisplayable ==
  \A s \in Subjects :
    Displayable(s, db[s]) /\ Displayable(s, rows[s]) /\ Displayable(s, pending[s])

LEMMA NoRowDisplayable == \A s : Displayable(s, NoRow)
BY DEF Displayable, NoRow

\* A poll keeps it: an alarm without a known threshold was there before.
LEMMA ObservedDisplayable ==
  ASSUME NEW s \in Subjects, NEW prev, GoodRow(prev), Displayable(s, prev),
         NEW used \in Sizes \cup {Nil}, NEW ok \in BOOLEAN, NEW fetched \in Limits
  PROVE  Displayable(s, Observed(s, prev, used, ok, fetched))
<1>1. CASE used = Nil
  BY <1>1, NoRowDisplayable DEF Observed
<1>2. CASE used # Nil
  <2> DEFINE known == ok \/ prev.known
             limit == IF ok THEN fetched ELSE prev.limit
             next  == Advance(prev, ok, known, limit, used)
             r     == Observed(s, prev, used, ok, fetched)
  <2>1. r.present = TRUE /\ r.confirmed = next.confirmed /\ r.known = known
    BY <1>2 DEF Observed
  <2>2. CASE known
    BY <2>1, <2>2 DEF Displayable
  <2>3. CASE ~known
    <3>1. next.confirmed = prev.confirmed
      BY <2>3 DEF Advance
    <3>2. ~prev.known
      BY <2>3
    <3> HIDE DEF next, known, r
    <3> QED BY <2>1, <3>1, <3>2 DEF Displayable, r
  <2> QED BY <2>2, <2>3
<1> QED BY <1>1, <1>2

LEMMA DisplayableInit == Init => AlarmsAreDisplayable
<1> SUFFICES ASSUME Init PROVE AlarmsAreDisplayable
  OBVIOUS
<1>1. ASSUME NEW s \in Subjects PROVE Displayable(s, db[s])
  <2>1. db[s] \in LegacyRow /\ (s = Namespace => db[s] = NoRow)
    BY DEF Init
  <2>2. db[s] = NoRow \/ db[s].present
    BY <2>1 DEF LegacyRow
  <2> QED BY <2>1, <2>2, NoRowDisplayable DEF Displayable
<1> QED BY <1>1, NoRowDisplayable DEF Init, NoRows, AlarmsAreDisplayable

LEMMA DisplayableNext ==
  PollerInv /\ AlarmsAreDisplayable /\ [Next]_vars => AlarmsAreDisplayable'
<1> SUFFICES ASSUME PollerInv, AlarmsAreDisplayable, [Next]_vars,
                    NEW s \in Subjects
             PROVE  /\ Displayable(s, db'[s])
                    /\ Displayable(s, rows'[s])
                    /\ Displayable(s, pending'[s])
  BY DEF AlarmsAreDisplayable, Displayable
<1>0. Displayable(s, db[s]) /\ Displayable(s, rows[s]) /\ Displayable(s, pending[s])
  BY DEF AlarmsAreDisplayable
<1>1. ASSUME NEW read \in SUBSET Kinds, Start(read)
      PROVE  rows'[s] \in {db[s], NoRow} /\ db' = db /\ pending' = pending
  BY <1>1 DEF Start, Seeded, locals
<1>2. ASSUME NEW p \in Bill, BillingAnswered(p)
      PROVE  db' = db /\ rows' = rows /\ pending' = pending
  BY <1>2 DEF BillingAnswered, snapshot
<1>3. CASE BillingFailed
  BY <1>0, <1>3 DEF BillingFailed, locals
<1>4. ASSUME NEW ok \in SUBSET Kinds, NEW fetched \in [Subjects -> Limits],
             InventoryFetched(ok, fetched)
      PROVE  db' = db /\ rows' = rows /\ Displayable(s, pending'[s])
  <2>1. /\ GoodRow(rows[s]) /\ payload[s] \in Sizes \cup {Nil}
        /\ (Kind(s) \in ok) \in BOOLEAN /\ fetched[s] \in Limits
    BY DEF PollerInv, GoodRows, TypeOK
  <2>2. pending'[s] = Observed(s, rows[s], payload[s], Kind(s) \in ok, fetched[s])
    BY <1>4 DEF InventoryFetched
  <2>3. db' = db /\ rows' = rows
    BY <1>4 DEF InventoryFetched, snapshot
  <2>4. Displayable(s, Observed(s, rows[s], payload[s], Kind(s) \in ok, fetched[s]))
    BY <1>0, <2>1, ObservedDisplayable
  <2>5. Displayable(s, pending'[s])
    BY <2>2, <2>4 DEF Displayable
  <2> QED BY <2>3, <2>5
<1>5. CASE Replaced
  BY <1>0, <1>5 DEF Replaced, snapshot, locals
<1>6. CASE ReplaceFailed
  BY <1>0, <1>6 DEF ReplaceFailed, snapshot, locals
<1>7. CASE Published
  BY <1>0, <1>7, NoRowDisplayable DEF Published, Forget, NoRows
<1>8. CASE Crash
  BY <1>0, <1>8, NoRowDisplayable DEF Crash, Forget, NoRows
<1>9. CASE UNCHANGED vars
  BY <1>0, <1>9 DEF vars, snapshot, locals
<1> QED
  BY <1>0, <1>1, <1>2, <1>3, <1>4, <1>5, <1>6, <1>7, <1>8, <1>9, NoRowDisplayable
  DEF Next, Restart, BillingReturns, InventoryReturns, StoreReturns

LEMMA DisplayableInvariant == Spec => []AlarmsAreDisplayable
BY Invariant, DisplayableInit, DisplayableNext, PTL DEF Spec

----------------------------------------------------------------------------
\* The first cards of the board are the alarms, whatever else a card shows.
LEMMA RankZeroIsAlarm ==
  ASSUME NEW b \in Buckets
  PROVE  (\A percent \in CardPercents(b), notify, stale \in BOOLEAN :
            SeverityRank(b, percent, notify, stale) = 0)
         <=> rows[b].confirmed
<1>1. ASSUME NEW percent, NEW notify, NEW stale
      PROVE  SeverityRank(b, percent, notify, stale) = 0 <=> rows[b].confirmed
  BY DEF SeverityRank
<1>2. Nil \in CardPercents(b) /\ TRUE \in BOOLEAN
  BY DEF CardPercents
<1> QED BY <1>1, <1>2

\* The count of the summary is positive exactly if there is something to count.
LEMMA CountIsPositive ==
  ConfirmedOverBuckets > 0 <=> \E b \in Shown : rows[b].confirmed
<1> DEFINE over == {b \in Shown : rows[b].confirmed}
<1>1. over \subseteq Buckets
  BY DEF Shown
<1>2. IsFiniteSet(over)
  BY <1>1, FS_Subset
<1>3. Cardinality(over) \in Nat /\ (Cardinality(over) = 0 <=> over = {})
  BY <1>2, FS_CardinalityType, FS_EmptySet
<1>4. ConfirmedOverBuckets = Cardinality(over)
  BY DEF ConfirmedOverBuckets
<1>5. over # {} <=> \E b \in Shown : rows[b].confirmed
  OBVIOUS
<1> HIDE DEF over
<1> QED BY <1>3, <1>4, <1>5

(***************************************************************************)
(* Monitor, wallboard, dashboard and API agree on whether there is an      *)
(* alarm, whatever fails and restarts, from rows of any version.           *)
(***************************************************************************)
THEOREM SurfacesShowTheAlarm == Spec => []AlarmIsOnTheBoard
<1>1. PollerInv /\ AlarmsAreDisplayable => AlarmIsOnTheBoard
  <2> SUFFICES ASSUME PollerInv, AlarmsAreDisplayable PROVE AlarmIsOnTheBoard
    OBVIOUS
  <2>1. HandleQuotaAll = 503 <=> \E s \in Subjects : rows[s].confirmed
    BY DEF HandleQuotaAll
  <2>2. ASSUME NEW s \in Subjects, rows[s].confirmed
        PROVE  /\ rows[s].present
               /\ s = Namespace => NamespaceHasQuota
    <3>1. rows[s].present /\ (s = Namespace => rows[s].known)
      BY <2>2 DEF AlarmsAreDisplayable, Displayable
    <3>2. rows[s].known => rows[s].limit # Nil
      BY <2>2 DEF PollerInv, GoodRows, GoodRow, Sound
    <3> QED BY <3>1, <3>2 DEF NamespaceHasQuota
  <2>3. Namespace \in Subjects /\ Buckets \subseteq Subjects
    BY DEF Subjects
  <2>4. BoardNamespaceAlarm <=> rows[Namespace].confirmed
    BY <2>2, <2>3 DEF BoardNamespaceAlarm
  <2>5. (\E b \in Shown : rows[b].confirmed) <=> (\E b \in Buckets : rows[b].confirmed)
    BY <2>2, <2>3 DEF Shown
  <2>6. (\E s \in Subjects : rows[s].confirmed)
          <=> rows[Namespace].confirmed \/ \E b \in Buckets : rows[b].confirmed
    BY DEF Subjects
  <2>7. (\E b \in Shown : \A percent \in CardPercents(b), notify, stale \in BOOLEAN :
            SeverityRank(b, percent, notify, stale) = 0)
          <=> \E b \in Shown : rows[b].confirmed
    BY RankZeroIsAlarm DEF Shown
  <2> QED BY <2>1, <2>4, <2>5, <2>6, <2>7, CountIsPositive DEF AlarmIsOnTheBoard
<1> QED BY <1>1, Invariant, DisplayableInvariant, PTL
=============================================================================
