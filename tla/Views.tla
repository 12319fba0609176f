------------------------------- MODULE Views -------------------------------
(***************************************************************************)
(* What people and programs are shown of one snapshot: the wallboard and   *)
(* the dashboard of internal/http, and the roll-ups of internal/ops. All   *)
(* of them, like the health endpoints in Poller, copy the snapshot once    *)
(* and compute from the copy, so each is a state function. They pick their *)
(* data in different ways, and so could disagree.                          *)
(*                                                                         *)
(* Of a bucket's view only what ranks its card is kept. The notification   *)
(* threshold, the metering age and the activity are not in Poller: what    *)
(* they contribute is a parameter.                                         *)
(***************************************************************************)
EXTENDS Poller, FiniteSets

ASSUME ViewsAssumption == IsFiniteSet(Buckets)

\* barWidth: the percentage of the threshold, cut off at 100, and 0 where no
\* percentage is known: without a threshold, and on a seeded snapshot.
Percent(s) == IF rows[s].limit = Nil THEN Nil ELSE (rows[s].used * 100) \div rows[s].limit

BarWidth(percent) == IF percent = Nil THEN 0 ELSE IF percent > 100 THEN 100 ELSE percent

\* MUTANT: a card is ranked by its percentage before its alarm.
SeverityRankByUse(b, percent, notifyReached, stale) ==
  IF BarWidth(percent) >= 80 \/ notifyReached THEN 0
  ELSE IF rows[b].confirmed THEN 1
  ELSE IF atQuota[b] THEN 2
  ELSE IF stale THEN 3
  ELSE 4

\* severityRank: 0 over quota, 1 yellow, 2 at quota, 3 stale, 4 ok.
SeverityRank(b, percent, notifyReached, stale) ==
  IF rows[b].confirmed THEN 0
  ELSE IF BarWidth(percent) >= 80 \/ notifyReached THEN 1
  ELSE IF atQuota[b] THEN 2
  ELSE IF stale THEN 3
  ELSE 4

\* The percentage a card may carry: none on a seeded snapshot.
CardPercents(b) == {Percent(b), Nil}

Shown == {b \in Buckets : rows[b].present}

\* The namespace card has a quota line only if the snapshot has a threshold,
\* and only then are its flags copied (wallboard and dashboard alike).
NamespaceHasQuota == rows[Namespace].known /\ rows[Namespace].limit # Nil

BoardNamespaceAlarm == NamespaceHasQuota /\ rows[Namespace].confirmed

\* NamespaceSummary: the roll-up count behind /api/v1/namespace and MCP.
ConfirmedOverBuckets == Cardinality({b \in Shown : rows[b].confirmed})

----------------------------------------------------------------------------
(***************************************************************************)
(* The surfaces agree on whether there is an alarm: the monitor that pages *)
(* (/health/quota), the wallboard, whose first cards are the alarms and    *)
(* whose namespace flags hide behind a threshold that must be there, and   *)
(* the summary of the API. So through restarts from rows of any version,   *)
(* failed seeds and thresholds that were never observed.                   *)
(***************************************************************************)
AlarmIsOnTheBoard ==
  /\ HandleQuotaAll = 503 <=>
       \/ BoardNamespaceAlarm
       \/ \E b \in Shown : \A percent \in CardPercents(b), notify, stale \in BOOLEAN :
            SeverityRank(b, percent, notify, stale) = 0
  /\ HandleQuotaAll = 503 <=> ConfirmedOverBuckets > 0 \/ rows[Namespace].confirmed
=============================================================================
