----------------------------- MODULE Hysteresis -----------------------------
(***************************************************************************)
(* One subject's alarm fed with a sequence of billing samples, the way     *)
(* pollOnce feeds it: quota.Advance is called once per successful poll.    *)
(* The whole sequence is kept, so that what Advance computes from two      *)
(* numbers can be compared with what the documentation says of the         *)
(* samples themselves.                                                     *)
(***************************************************************************)
EXTENDS Quota, Sequences

CONSTANTS
  Sizes,       \* used_bytes values ECS may publish
  Thresholds,  \* thresholds an inventory answer may carry (positive only)
  MaxSamples   \* bound: successful polls in one behaviour

ASSUME HysteresisAssumption ==
  /\ Sizes \subseteq Nat /\ Sizes # {}
  /\ Thresholds \subseteq Nat \ {0}
  /\ MaxSamples \in Nat

VARIABLES
  samples,  \* every sample so far, oldest first
  alarm     \* what Advance has made of them

vars == <<samples, alarm>>

(***************************************************************************)
(* authoritative: the inventory endpoint answered this poll. Then the      *)
(* threshold is known, set or explicitly unset. Otherwise the threshold is *)
(* the cached one, if there is one.                                        *)
(***************************************************************************)
Sample ==
  {m \in [used : Sizes, authoritative : BOOLEAN, known : BOOLEAN,
          quota : Thresholds \cup {Nil}] :
     /\ m.authoritative => m.known
     /\ ~m.known => m.quota = Nil}

Init ==
  /\ samples = <<>>
  /\ alarm = NoAlarm

\* A sample whose inventory endpoint failed carries the threshold of the
\* sample before it.
MayFollow(m) ==
  ~m.authoritative =>
    IF samples = <<>>
    THEN ~m.known
    ELSE LET last == samples[Len(samples)]
         IN  m.known = last.known /\ m.quota = last.quota

Poll(m) ==
  /\ Len(samples) < MaxSamples
  /\ MayFollow(m)
  /\ samples' = Append(samples, m)
  /\ alarm' = Advance(alarm, m.authoritative, m.known, m.quota, m.used)

Next == \E m \in Sample : Poll(m)

----------------------------------------------------------------------------
Over(m) == AtQuota(m.quota, m.used)

\* Of the samples, those Advance judges: one without a threshold is passed over.
Judged == {i \in DOMAIN samples : samples[i].known}

\* The judged sample after which no other has come.
Newest(i) == \A j \in Judged : j <= i

Neighbours(i, j) == i < j /\ \A k \in Judged : k <= i \/ k >= j

(***************************************************************************)
(* The alarm is confirmed exactly when the sample history says so: two     *)
(* neighbouring judged samples at or above their thresholds, and since     *)
(* then no authoritative sample below its threshold (or without one). It   *)
(* is what quota.go's package comment and Advance's comment promise        *)
(* together, stated without a counter.                                     *)
(***************************************************************************)
ConfirmedByTwoUntilEvidence ==
  alarm.confirmed <=>
    \E i, j \in Judged :
      /\ Neighbours(i, j)
      /\ Over(samples[i]) /\ Over(samples[j])
      /\ \A k \in Judged : k > j /\ samples[k].authoritative => Over(samples[k])

(***************************************************************************)
(* Below confirmation the streak forgets nothing and remembers nothing     *)
(* stale: it is 1 exactly when the latest judged sample was over, so the   *)
(* next over sample confirms if and only if it directly follows one.       *)
(***************************************************************************)
UnconfirmedStreakIsLatestSample ==
  ~alarm.confirmed =>
    alarm.streak = IF \E i \in Judged : Newest(i) /\ Over(samples[i]) THEN 1 ELSE 0
=============================================================================
