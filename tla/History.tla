------------------------------ MODULE History ------------------------------
(***************************************************************************)
(* ActivityHistory of internal/ops/ops.go, behind the REST route           *)
(* /api/v1/buckets/{bucket}/activity and an MCP tool, while the poller     *)
(* records, prunes and publishes. The handler reads the hourly rows in one *)
(* query and, if the bucket has none in the lookback, the snapshot a       *)
(* moment later: two reads that no lock holds together.                    *)
(*                                                                         *)
(* The snapshot shows the bucket exactly when the poller holds a baseline  *)
(* for it, since both come from the same payload or the same seed.         *)
(***************************************************************************)
EXTENDS Activity

CONSTANT
  Lookbacks     \* hours a caller may ask for, positive

\* The two reads are milliseconds apart and polls at least a minute
\* (config.Load), so at most one poll is published between them.
MaxPublishes == 1

ASSUME HistoryAssumption == Lookbacks \subseteq Nat \ {0} /\ Lookbacks # {}

VARIABLES
  call,       \* "none", "lookup", or the answer: "hours", "not found", "error"
  since,      \* the first hour of the lookback
  found,      \* the hours the query returned
  publishes   \* polls published since the query, for the bound

reader == <<call, since, found, publishes>>
system == <<vars, reader>>

InSnapshot == pc # "down" /\ base # None

NoCall == call = "none" /\ since = 0 /\ found = {} /\ publishes = 0

HangUp == call' = "none" /\ since' = 0 /\ found' = {} /\ publishes' = 0

HistoryInit == Init /\ NoCall

\* MUTANT: a bucket the snapshot does not show is refused at once.
AskedSnapshotFirst(later, lookback) ==
  /\ pc # "down"
  /\ call = "none"
  /\ since' = HourBucket(now + later) - (lookback - 1)
  /\ found' = IF InSnapshot THEN {h \in Present : h >= since'} ELSE {}
  /\ call' = IF ~InSnapshot THEN "not found" ELSE IF found' = {} THEN "lookup" ELSE "hours"
  /\ publishes' = 0
  /\ UNCHANGED vars

\* The handler reads the clock, which is at or after the latest poll, and
\* queries the rows of the lookback; hours come back as they are.
Queried(later, lookback) ==
  /\ pc # "down"
  /\ call = "none"
  /\ since' = HourBucket(now + later) - (lookback - 1)
  /\ found' = {h \in Present : h >= since'}
  /\ call' = IF found' = {} THEN "lookup" ELSE "hours"
  /\ publishes' = 0
  /\ UNCHANGED vars

QueryFailed ==
  /\ pc # "down"
  /\ call = "none"
  /\ "query" \in Faults
  /\ call' = "error"
  /\ UNCHANGED <<vars, since, found, publishes>>

\* No rows: the snapshot decides between an empty answer and 404.
LookedUp ==
  /\ call = "lookup"
  /\ call' = IF InSnapshot THEN "hours" ELSE "not found"
  /\ UNCHANGED <<vars, since, found, publishes>>

Answered ==
  /\ call \in {"hours", "not found", "error"}
  /\ HangUp
  /\ UNCHANGED vars

\* The poller goes on under the handler, which ends with the process.
PollerSteps ==
  /\ call \in {"none", "lookup"}
  /\ Next
  /\ IF pc' = "down"
     THEN HangUp
     ELSE /\ publishes' = publishes + IF call = "lookup" /\ pc = "publish" THEN 1 ELSE 0
          /\ publishes' <= MaxPublishes
          /\ UNCHANGED <<call, since, found>>

HistoryNext ==
  \/ PollerSteps
  \/ \E later \in 0..MaxGap, lookback \in Lookbacks : Queried(later, lookback)
  \/ QueryFailed
  \/ LookedUp
  \/ Answered

HistorySpec == HistoryInit /\ [][HistoryNext]_system

----------------------------------------------------------------------------
(***************************************************************************)
(* A 404 is not stale when it is said, though it is put together from two  *)
(* moments (ops.go:368-391): at the second one the snapshot has no such    *)
(* bucket, and the lookback, which was read at the first, has still no     *)
(* row of it, whatever the poll recorded, pruned or published in between.  *)
(* It may have rows from before the lookback, and is then not "absent from *)
(* both the snapshot and the history" as ops.go:358-360 says of a 404: a   *)
(* deleted bucket returns the history it has only if the lookback reaches  *)
(* it.                                                                     *)
(***************************************************************************)
NotFoundIsNotStale ==
  call = "not found" => ~InSnapshot /\ \A h \in Present : h < since

(***************************************************************************)
(* "A missing hour means nothing was measured" (ops.go:347-348): of an     *)
(* answer that lists any hours, every hour of the lookback that ever had a *)
(* row, and that the retention still covers, is among them, unless the     *)
(* clock was set back. (An answer that lists none was found empty by the   *)
(* query; what was recorded before the lookup of the bucket is not in it.) *)
(***************************************************************************)
MissingHourWasNotMeasured ==
  call = "hours" /\ found # {} /\ "clock" \notin harm =>
    \A h \in ever :
      h >= since /\ h * TicksPerHour >= now - ActivityRetention => h \in found
=============================================================================
