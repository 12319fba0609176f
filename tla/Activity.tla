------------------------------ MODULE Activity ------------------------------
(***************************************************************************)
(* Derived write activity of one bucket: internal/poller/activity.go, the  *)
(* parts of pollOnce and seedFromState that keep its baseline, and the     *)
(* hourly table of internal/store/activity.go.                             *)
(*                                                                         *)
(* ECS counts nothing but what is stored, so a poll compares its sample    *)
(* with a baseline, folds the difference into the row of the current hour, *)
(* and moves the baseline only if the sample is proven to be news. The     *)
(* baseline lives in memory; after a restart the durable observation, the  *)
(* row of ReplaceObservation, takes its place.                             *)
(*                                                                         *)
(* Buckets do not influence each other here. Objects stand for objects and *)
(* bytes, which are treated alike. A failed billing poll changes nothing   *)
(* below: it is a longer gap between two polls.                            *)
(***************************************************************************)
EXTENDS Integers, FiniteSets

CONSTANTS
  None,             \* no observation
  TicksPerHour,     \* clock ticks in an hour
  ActivityWindow,   \* the rolling lookback, in ticks
  ActivityRetention,\* how long hourly rows are kept, in ticks
  Objects,          \* object counts ECS may publish
  Parts,            \* incomplete multipart parts ECS may publish
  Stamped,          \* subset of BOOLEAN: does a publication carry uptodate_till
  Second,           \* parts of a second uptodate_till may name
  Fractions,        \* what it names after the whole second
  MaxGap,           \* bound: ticks between two polls
  MaxTime,          \* bound: the last tick
  MaxSetBacks,      \* bound: how often the clock is set back
  Faults            \* what may go wrong, a subset of FaultKinds

FaultKinds == {"persist", "record", "query", "prune", "seed", "crash", "clock"}

\* What may have come of it: a row was not written, a movement is in no row and
\* never will be, the clock was set back.
HarmKinds == {"persist", "lost", "clock"}

\* SetActivityWindow and config.Load see to the two middle conjuncts.
ASSUME ActivityAssumption ==
  /\ TicksPerHour \in Nat \ {0} /\ MaxGap \in Nat \ {0} /\ MaxTime \in Nat
  /\ MaxSetBacks \in Nat
  /\ ActivityWindow \in Nat /\ ActivityWindow >= TicksPerHour
  /\ ActivityRetention \in Nat /\ ActivityRetention >= ActivityWindow
  /\ Objects \subseteq Nat /\ Objects # {}
  /\ Parts \subseteq Nat /\ Parts # {}
  /\ Stamped \subseteq BOOLEAN /\ Stamped # {}
  /\ Second \in Nat \ {0} /\ Fractions \subseteq 0 .. Second - 1 /\ Fractions # {}
  /\ Faults \subseteq FaultKinds

HotMinObservedHours == 3

HourBucket(t) == t \div TicksPerHour
HourBuckets == 0..HourBucket(MaxTime)

\* What billing says of the bucket. number identifies the metering publication
\* it comes from and is not in the payload; uptodate is, in 1/Second of a second,
\* or is 0.
Sample == [objects : Objects, parts : Parts, uptodate : Nat, number : Nat]

\* What an observation keeps of a sample: a baseline, and a StateRow.
Baseline == [at : 0..MaxTime, objects : Objects, parts : Parts, uptodate : Nat]

ASSUME NoneAssumption == None \notin Sample /\ None \notin Baseline

Hour == [samples : Nat, active : Nat, up : Nat, down : Nat, parts : Parts \cup {0}]

NoHour == [samples |-> 0, active |-> 0, up |-> 0, down |-> 0, parts |-> 0]

NotShown == [known |-> FALSE, busy |-> 0, observed |-> 0, hot |-> FALSE]

VARIABLES
  pc,         \* "down", or the step pollOnce is at
  now,        \* wall clock at the latest poll
  published,  \* ECS: the latest metering publication of the bucket
  sample,     \* local to pollOnce: what billing said, None if not in the answer
  row,        \* durable: the bucket's StateRow, None if absent
  base,       \* memory: the diff baseline, None if absent
  hours,      \* durable: the hourly rows, NoHour if absent
  counters,   \* local to pollOnce: the window counters it is about to publish
  shown,      \* snapshot: the window counters readers see
  setBacks,   \* how often the clock was set back, for the bound
  \* History variables: no guard reads them.
  folded,     \* the number of the last publication folded into hours
  ever,       \* the hours that have had a row
  forgotten,  \* the net movement of the rows that have been pruned
  origin,     \* the object count the recorded movement starts from
  stirred,    \* has ECS ever published a change, or parts in flight
  harm        \* what has gone wrong so far

history == <<folded, ever, forgotten, origin, stirred, harm>>
vars == <<pc, now, published, sample, row, base, hours, counters, shown, setBacks, history>>

TypeOK ==
  /\ pc \in {"down", "idle", "persist", "record", "aggregate", "publish"}
  /\ now \in 0..MaxTime
  /\ published \in Sample
  /\ sample \in Sample \cup {None}
  /\ row \in Baseline \cup {None}
  /\ base \in Baseline \cup {None}
  /\ hours \in [HourBuckets -> Hour]
  /\ setBacks \in 0..MaxSetBacks
  /\ shown.busy \in Nat /\ shown.observed \in Nat
  /\ counters.busy \in Nat /\ counters.observed \in Nat
  /\ folded \in Nat /\ ever \in SUBSET HourBuckets
  /\ origin \in Int /\ forgotten \in Int
  /\ stirred \in BOOLEAN /\ harm \subseteq HarmKinds

----------------------------------------------------------------------------
(***************************************************************************)
(* activity.go. All of it compares the baseline b with the sample o.       *)
(***************************************************************************)
AsBaseline(o) ==
  [at |-> now, objects |-> o.objects, parts |-> o.parts, uptodate |-> o.uptodate]

\* The store: a TIMESTAMP of MariaDB keeps whole seconds. A tick is longer than
\* that, so the poll time loses nothing.
Stored(b) == [b EXCEPT !.uptodate = @ - (@ % Second)]

Known(b) == b # None /\ now > b.at

ObjectsDelta(b, o) == IF Known(b) THEN o.objects - b.objects ELSE 0

Changed(b, o) == Known(b) /\ (o.objects # b.objects \/ o.parts # b.parts)

FreshnessKnown(b, o) == Known(b) /\ b.uptodate # 0 /\ o.uptodate # 0

\* MUTANT: a publication is newer than itself.
RefreshedAlways(b, o) == FreshnessKnown(b, o) /\ o.uptodate >= b.uptodate

MeteringRefreshed(b, o) == FreshnessKnown(b, o) /\ o.uptodate > b.uptodate

\* In-flight parts count as movement even if no counter changed.
Moving(b, o) == Changed(b, o) \/ o.parts > 0

\* MUTANT: only an advanced uptodate_till proves that a sample is news.
ProvenByStamp(b, o) == MeteringRefreshed(b, o)

Proven(b, o) == MeteringRefreshed(b, o) \/ Changed(b, o)

Recordable(b, o) ==
  Known(b) /\ (MeteringRefreshed(b, o) \/ Changed(b, o) \/ ~FreshnessKnown(b, o))

Positive(v) == IF v < 0 THEN 0 ELSE v

\* MUTANT: a baseline from the future is replaced at once.
NextBaseAtOnce(b, o) ==
  IF o = None THEN None
  ELSE IF ~Known(b) \/ Proven(b, o) THEN AsBaseline(o)
  ELSE b

NextBase(b, o) ==
  IF o = None THEN None
  ELSE IF b = None \/ Proven(b, o) THEN AsBaseline(o)
  ELSE b

IsHot(busy, observed) == observed >= HotMinObservedHours /\ busy * 2 >= observed

----------------------------------------------------------------------------
(***************************************************************************)
(* store/activity.go: the additive upsert, the window query, the prune.    *)
(***************************************************************************)
Fold(h, b, o) ==
  LET d == ObjectsDelta(b, o)
  IN  [samples |-> h.samples + 1,
       active |-> h.active + IF Moving(b, o) THEN 1 ELSE 0,
       up |-> h.up + Positive(d), down |-> h.down + Positive(-d),
       parts |-> IF o.parts > h.parts THEN o.parts ELSE h.parts]

Present == {h \in HourBuckets : hours[h].samples > 0}

\* Aligned to the hour, so that the oldest hour of the window is whole.
Window == {h \in Present : h >= HourBucket(now - ActivityWindow)}

\* Hours that begin strictly before the cutoff.
Expired == {h \in Present : h * TicksPerHour < now - ActivityRetention}

\* What recordActivity fills in, unless the bucket is gone.
CountersOf(seen) ==
  LET busy == {h \in seen : hours[h].active > 0}
  IN  IF sample = None THEN NotShown
      ELSE [known |-> Known(base), busy |-> Cardinality(busy),
            observed |-> Cardinality(seen),
            hot |-> IsHot(Cardinality(busy), Cardinality(seen))]

\* The movement in the first n of some hourly rows.
NetOf(rows, n) ==
  LET net[i \in Nat] == IF i = 0 THEN 0 ELSE net[i - 1] + rows[i - 1].up - rows[i - 1].down
  IN  net[n]

Net == NetOf(hours, HourBucket(MaxTime) + 1)

\* All the movement ever recorded, in the rows or pruned with them.
Movement == Net + forgotten

----------------------------------------------------------------------------
\* External: ECS metering has a new publication, a second or more after the one
\* before it, or repeats the latest one.
NewPublications(n) ==
  {o \in [objects : Objects, parts : Parts,
          uptodate : {0} \cup {n * Second + f : f \in Fractions}, number : {n}] :
     (o.uptodate # 0) \in Stamped}

Publications == NewPublications(published.number + 1) \cup {published}

Init ==
  /\ pc = "down"
  /\ now = 0
  /\ published \in NewPublications(1)
  /\ sample = None
  /\ row = None
  /\ base = None
  /\ hours = [h \in HourBuckets |-> NoHour]
  /\ counters = NotShown
  /\ shown = NotShown
  /\ setBacks = 0
  /\ folded = 0
  /\ ever = {}
  /\ forgotten = 0
  /\ origin = 0
  /\ stirred = (published.parts > 0)
  /\ harm = {}

\* MUTANT: a bucket without a durable row starts from an empty baseline.
StartFromZero(read) ==
  /\ pc = "down"
  /\ read \/ "seed" \in Faults
  /\ base' = IF read /\ row # None THEN row
             ELSE [at |-> now, objects |-> 0, parts |-> 0, uptodate |-> 0]
  /\ harm' = IF ~read /\ row # None THEN harm \cup {"lost"} ELSE harm
  /\ pc' = "idle"
  /\ UNCHANGED <<now, published, sample, row, hours, counters, shown, folded, ever, forgotten,
                 origin, stirred, setBacks>>

\* New seeds the baseline from the durable row, or logs that it could not.
Start(read) ==
  /\ pc = "down"
  /\ read \/ "seed" \in Faults
  /\ base' = IF read THEN row ELSE None
  /\ harm' = IF ~read /\ row # None THEN harm \cup {"lost"} ELSE harm
  /\ pc' = "idle"
  /\ UNCHANGED <<now, published, sample, row, hours, counters, shown, folded, ever, forgotten,
                 origin, stirred, setBacks>>

\* The wall clock is set back. A running process does not notice it (Go
\* compares monotonic times), a new one does.
ClockSetBack ==
  /\ pc = "down"
  /\ "clock" \in Faults
  /\ setBacks < MaxSetBacks
  /\ now > 0
  /\ now' = now - 1
  /\ setBacks' = setBacks + 1
  /\ harm' = harm \cup {"clock"}
  /\ UNCHANGED <<pc, published, sample, row, base, hours, counters, shown, folded, ever, forgotten,
                 origin, stirred>>

\* Each poll comes later than the one before it.
BillingAnswered(gap, o, billed) ==
  /\ pc = "idle"
  /\ now + gap <= MaxTime
  /\ now' = now + gap
  /\ published' = o
  /\ sample' = IF billed THEN o ELSE None
  /\ stirred' = (stirred \/ o.objects # published.objects \/ o.parts > 0)
  /\ origin' = IF billed /\ base = None /\ "lost" \notin harm THEN o.objects - Movement
               ELSE origin
  /\ pc' = "persist"
  /\ UNCHANGED <<row, base, hours, counters, shown, folded, ever, forgotten, harm, setBacks>>

\* ReplaceObservation: the new row, or no row for a bucket that is gone.
Replaced ==
  /\ pc = "persist"
  /\ row' = IF sample = None THEN None ELSE Stored(AsBaseline(sample))
  /\ pc' = "record"
  /\ UNCHANGED <<now, published, sample, base, hours, counters, shown, history, setBacks>>

ReplaceFailed ==
  /\ pc = "persist"
  /\ "persist" \in Faults
  /\ harm' = harm \cup {"persist"}
  /\ pc' = "record"
  /\ UNCHANGED <<now, published, sample, row, base, hours, counters, shown, folded, ever, forgotten,
                 origin, stirred, setBacks>>

HasDelta == sample # None /\ Recordable(base, sample)

Recorded ==
  /\ pc = "record"
  /\ HasDelta
  /\ hours' = [hours EXCEPT ![HourBucket(now)] = Fold(@, base, sample)]
  /\ folded' = sample.number
  /\ ever' = ever \cup {HourBucket(now)}
  /\ pc' = "aggregate"
  /\ UNCHANGED <<now, published, sample, row, base, counters, shown, forgotten, origin, stirred,
                 harm, setBacks>>

NotRecorded ==  \* nothing to record, or RecordActivity failed and was logged
  /\ pc = "record"
  /\ ~HasDelta \/ "record" \in Faults
  /\ harm' = IF HasDelta THEN harm \cup {"lost"} ELSE harm
  /\ pc' = "aggregate"
  /\ UNCHANGED <<now, published, sample, row, base, hours, counters, shown, folded, ever, forgotten,
                 origin, stirred, setBacks>>

\* MUTANT: the retention is counted from the end of the hour in progress.
AggregatedEarlyPrune(queried, pruned) ==
  /\ pc = "aggregate"
  /\ queried \/ "query" \in Faults
  /\ pruned \/ "prune" \in Faults
  /\ counters' = CountersOf(IF queried THEN Window ELSE {})
  /\ hours' = [h \in HourBuckets |->
       IF pruned /\ h * TicksPerHour < (HourBucket(now) + 1) * TicksPerHour - ActivityRetention
       THEN NoHour ELSE hours[h]]
  /\ forgotten' = forgotten + Net - Net'
  /\ pc' = "publish"
  /\ UNCHANGED <<now, published, sample, row, base, shown, folded, ever, origin, stirred, harm,
                 setBacks>>

\* The window is read, then history is pruned. A read that fails leaves the
\* counters at zero, a prune that fails leaves old rows behind.
Aggregated(queried, pruned) ==
  /\ pc = "aggregate"
  /\ queried \/ "query" \in Faults
  /\ pruned \/ "prune" \in Faults
  /\ counters' = CountersOf(IF queried THEN Window ELSE {})
  /\ hours' = [h \in HourBuckets |-> IF pruned /\ h \in Expired THEN NoHour ELSE hours[h]]
  /\ forgotten' = forgotten + Net - Net'
  /\ pc' = "publish"
  /\ UNCHANGED <<now, published, sample, row, base, shown, folded, ever, origin, stirred, harm,
                 setBacks>>

\* The baseline is replaced and the snapshot published; readers of the
\* baseline are polls only, so the two are one step.
Published ==
  /\ pc = "publish"
  /\ shown' = counters
  /\ base' = NextBase(base, sample)
  /\ counters' = NotShown
  /\ sample' = None
  /\ pc' = "idle"
  /\ UNCHANGED <<now, published, row, hours, history, setBacks>>

\* What this poll makes of the baseline, before it shows.
Kept == IF pc \in {"idle", "persist"} THEN base ELSE NextBase(base, sample)

\* A movement that the durable row has made and the hourly rows will not: the
\* next process begins with the row.
AheadOfHistory ==
  \/ pc = "record" /\ HasDelta
  \/ Kept # None /\ row # None /\ row.objects # Kept.objects

\* The process ends; in the middle of a poll, some of it has been stored.
Crash ==
  /\ pc # "down"
  /\ "crash" \in Faults
  /\ harm' = IF AheadOfHistory THEN harm \cup {"lost"} ELSE harm
  /\ pc' = "down"
  /\ base' = None
  /\ sample' = None
  /\ counters' = NotShown
  /\ shown' = NotShown
  /\ UNCHANGED <<now, published, row, hours, folded, ever, forgotten, origin, stirred,
                 setBacks>>

Next ==
  \/ \E read \in BOOLEAN : Start(read)
  \/ ClockSetBack
  \/ \E gap \in 1..MaxGap, o \in Publications, billed \in BOOLEAN :
       BillingAnswered(gap, o, billed)
  \/ Replaced
  \/ ReplaceFailed
  \/ Recorded
  \/ NotRecorded
  \/ \E queried, pruned \in BOOLEAN : Aggregated(queried, pruned)
  \/ Published
  \/ Crash

Spec == Init /\ [][Next]_vars

----------------------------------------------------------------------------
(***************************************************************************)
(* Every net change of a bucket is in the history once: the hourly rows,   *)
(* with those that were pruned, add up to the distance the baseline has    *)
(* moved since the bucket first appeared, or came back to billing. A held  *)
(* baseline, a repeated sample, a crash or a restart neither loses nor     *)
(* repeats a movement, and a clock that was set back only delays one:      *)
(* nothing is recorded until it has caught up with the baseline, which     *)
(* waits (activity.go:88-91). What does lose or repeat one is a store call *)
(* that fails, a seed of a bucket with a row that cannot be read           *)
(* (poller.go:341-343 starts over), and a crash while the row is ahead of  *)
(* the history: between ReplaceObservation and RecordActivity, or before   *)
(* the clock has caught up.                                                *)
(***************************************************************************)
NetIsAccounted ==
  harm \subseteq {"clock"} /\ pc \in {"idle", "persist"} /\ base # None =>
    Movement = base.objects - origin

(***************************************************************************)
(* Between polls the durable row and the baseline in memory have the same  *)
(* counters, however long the baseline has been held and the row has not:  *)
(* a restart diffs against the values the old process would have used      *)
(* (poller.go:205-206, "still diffs against real previous values").        *)
(***************************************************************************)
RestartKeepsCounters ==
  harm \cap {"persist", "clock"} = {} /\ pc = "idle" /\ base # None =>
    /\ row # None
    /\ row.objects = base.objects
    /\ row.parts = base.parts

\* The first hour of the lookback that the retention is sure to cover.
FirstCovered ==
  HourBucket(now - ActivityWindow)
    + IF ActivityRetention >= ActivityWindow + TicksPerHour - 1 THEN 0 ELSE 1

(***************************************************************************)
(* What the window query is about to read is all there, unless the clock   *)
(* was set back to before hours that were old enough then: no hour of the  *)
(* lookback that had a row has been pruned (poller.go:587-588, "the window *)
(* covers at least `window`"). Only with a retention that is longer than   *)
(* the window by less than an hour, down to the equal one that config.go:70*)
(* admits, is the first hour of the lookback pruned while it is still in   *)
(* it: the window begins at the top of an hour, the retention anywhere.    *)
(***************************************************************************)
WindowIsComplete ==
  pc = "aggregate" /\ "clock" \notin harm =>
    \A h \in ever : h >= FirstCovered => h \in Present

(***************************************************************************)
(* A bucket that has not changed since it was first seen is never shown    *)
(* busy, whatever fails and in whatever order: not after a seed that       *)
(* failed, a row that could not be written, or a clock that was set back.  *)
(***************************************************************************)
IdleIsNeverBusy == ~stirred => shown.busy = 0

\* The baseline has the stamp of the sample, but for a fraction of a second.
LostFraction(b, o) ==
  b.uptodate # o.uptodate /\ b.uptodate = o.uptodate - (o.uptodate % Second)

(***************************************************************************)
(* When ECS stamps what it publishes, a metering publication is folded     *)
(* into the history at most once, across crashes and restarts as well      *)
(* (activity.go:123-125), unless the durable row could not be written or   *)
(* the baseline is one that lost a fraction of a second in the store: that *)
(* one is folded once more after each restart, and MeteringRefreshed does  *)
(* not prove a new publication then (activity.go:22-23).                   *)
(***************************************************************************)
StampedIsFoldedOnce ==
  [][pc = "record" /\ hours' # hours /\ FreshnessKnown(base, sample) =>
       \/ "persist" \in harm
       \/ sample.number > folded
       \/ LostFraction(base, sample)]_vars
=============================================================================
