------------------------------- MODULE Quota -------------------------------
(***************************************************************************)
(* The over-quota hysteresis of internal/quota/quota.go: pure functions    *)
(* that take the alarm a subject (a bucket or the namespace) had and one   *)
(* billing sample, and give the alarm it has next.                         *)
(*                                                                         *)
(* An alarm is any record with the fields streak (over_streak) and         *)
(* confirmed (confirmed_over); both functions return exactly those two.    *)
(***************************************************************************)
EXTENDS Integers

CONSTANT Nil  \* the nil *int64: ECS reports no threshold

ASSUME NilAssumption == Nil \notin Nat

Alarm == [streak : Nat, confirmed : BOOLEAN]

\* What a subject without history carries: Go's zero value.
NoAlarm == [streak |-> 0, confirmed |-> FALSE]

\* ECS refuses writes once the threshold is reached, hence >= and not >.
AtQuota(quotaBytes, usedBytes) == quotaBytes # Nil /\ usedBytes >= quotaBytes

\* MUTANT: one sample is enough to confirm.
ApplyEager(streak, quotaBytes, usedBytes) ==
  LET next == IF AtQuota(quotaBytes, usedBytes) THEN streak + 1 ELSE 0
  IN  [streak |-> next, confirmed |-> next >= 1]

\* MUTANT: a sample below the threshold lowers the streak instead of resetting it.
ApplyDecaying(streak, quotaBytes, usedBytes) ==
  LET next == IF AtQuota(quotaBytes, usedBytes) THEN streak + 1 ELSE streak - 1
  IN  [streak |-> next, confirmed |-> next >= 2]

\* MUTANT: a sample below the threshold does not reset the streak.
ApplySticky(streak, quotaBytes, usedBytes) ==
  LET next == IF AtQuota(quotaBytes, usedBytes) THEN streak + 1 ELSE streak
  IN  [streak |-> next, confirmed |-> next >= 2]

\* MUTANT: the streak is counted from this sample alone.
ApplyForgetful(streak, quotaBytes, usedBytes) ==
  LET next == IF AtQuota(quotaBytes, usedBytes) THEN 1 ELSE 0
  IN  [streak |-> next, confirmed |-> next >= 2]

Apply(streak, quotaBytes, usedBytes) ==
  LET next == IF AtQuota(quotaBytes, usedBytes) THEN streak + 1 ELSE 0
  IN  [streak |-> next, confirmed |-> next >= 2]

\* MUTANT: a sample against a cached threshold is as good as any other.
AdvanceTrusting(prev, authoritative, known, quotaBytes, usedBytes) ==
  IF known
  THEN Apply(prev.streak, quotaBytes, usedBytes)
  ELSE [streak |-> prev.streak, confirmed |-> prev.confirmed]

Advance(prev, authoritative, known, quotaBytes, usedBytes) ==
  LET next == Apply(prev.streak, quotaBytes, usedBytes)
  IN  IF ~known
      THEN [streak |-> prev.streak, confirmed |-> prev.confirmed]
      ELSE IF ~authoritative /\ prev.confirmed /\ ~next.confirmed
      THEN [streak |-> prev.streak, confirmed |-> TRUE]
      ELSE next
=============================================================================
