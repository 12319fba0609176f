# TLA+ models of ecs-phoenix-ext

`ecs-phoenix-ext` is a single Go process that polls the billing and inventory
endpoints of one Dell ECS namespace, decides which buckets have reached their
quota, keeps the last observation in MariaDB or SQLite, and serves health
endpoints, a dashboard and an API from memory. This directory holds models of
the parts in which something can go wrong *between* two steps: what is
remembered across polls, failures and restarts, what two pods make of one
database, and what a reader is told of it.

## The system

| component | state | operations |
|---|---|---|
| `internal/quota` | none (pure) | `Apply`, `Advance` |
| `internal/poller` (observation) | snapshot under a lock | `New` + `seedFromState`, `pollOnce`, `Snapshot` |
| `internal/poller` (activity) | diff baseline per bucket, window, retention | `computeActivity`, `recordActivity`, `setBaselines` |
| `internal/store` | rows per bucket and namespace, hourly rows | `ReplaceObservation`, `States`, `NamespaceStates`, `RecordActivity`, `ActivityHours`, `PruneActivity`, `Migrate` |
| `internal/ecs` | cached token and its age under a mutex | `Token`, `Login`, `Logout`, `NamespaceBilling`, `BucketMetas`, `NamespaceMetaInfo`, parsing |
| `cmd/ecs-phoenix-ext` | the process | `run`, `shutdown` |
| `internal/ops` | none | `ListBuckets`, `Bucket`, `Namespace`, `ActivityHistory` over a snapshot copy and the store |
| `internal/http`, `internal/mcp` | none of their own | health, UI, API routes and tools, `callerAuth` |
| `internal/identity` | a secret and a clock | `Verify` |
| `internal/config` | none | environment |

`run` opens the store, migrates it, builds the poller (which seeds itself from
the store) and starts `Run` in a goroutine. `Run` calls `pollOnce` at once and
then at every tick, never two at a time. `pollOnce` asks ECS for billing, then
for the bucket list and the namespace, computes the new observation, replaces
the durable one in a transaction, folds activity into hourly rows, and swaps
the snapshot. HTTP handlers copy the snapshot under its lock. The only shared
state is therefore the snapshot (one writer), the token (poller and shutdown)
and the database (`replicas: 1`, but two processes during a rolling update).
In front of the process is the Phoenix gateway, which signs an identity token
into every request it forwards; it is not part of this repository.

Hard to test are: a failure of exactly one of the calls of a poll, a crash
between two of them, the restart after it, ECS repeating metering, markers or
refusals, a session that ends at a bad moment, a clock set back, two pods that
overlap, a request that arrives late or twice, and shutdown in the middle of a
poll. `PROJECT.json` lists each of them with its line.

What makes each component correct:

* quota: two judged samples confirm, only evidence clears, whatever is mixed
  between;
* poller: no failure silences an alarm, no restart forgets or invents one, and
  a lasting situation is reported in the end;
* activity: each movement counted once as long as the store does what it is
  told, no activity invented, a window that is complete;
* parsing: usage and plainly spelled thresholds mean the same bytes, whatever
  format, unit or edge ECS answers with;
* readers: all surfaces show the same alarm, a "not found" is not stale when it
  is said, and what a list omits is not there or is outranked;
* callers: a grant that is taken back ends, a fresh token is served;
* ECS client: one trouble never costs a poll, loops end;
* store: a call is seen whole or not at all, by readers, other pods and after a
  crash; nobody waits for ever for a connection;
* migrations: what is recorded is applied, and a pod serves on the latest
  schema only.

## Modules

| module | models | properties live in |
|---|---|---|
| `Quota` | `Apply`, `Advance` as operators | |
| `Hysteresis` | one subject fed with every sample sequence | same module |
| `Metering` | ECS documents to samples: parsers, units, `int64` | same module |
| `QuotaAlarm` | abstract: alarm levels and verdicts, no process, no store | |
| `Poller` | `New`, `pollOnce`, observation rows, health endpoints, crash | same module |
| `Views` | wallboard, dashboard card and roll-up over a `Poller` snapshot | same module |
| `Rollout` | two `Poller`s on one database | same module |
| `Activity` | baseline, hourly rows, window, prune, crash, clock | same module |
| `History` | `ActivityHistory` against a running `Activity` | same module |
| `EcsClient` | token, retries, pagination, logout | same module |
| `AtomicStore` | abstract: what `store.go` promises, each call at one moment | |
| `ObservationStore` | transactions, queries, pool and lock of several pods | same module |
| `MCObservationStore` | a few observations and clients for TLC | |
| `Migrate` | `Migrate` and the five files, statement by statement | same module |
| `Identity` | gateway, two clocks, `Verify`, `callerAuth`, `serverFor` | same module |
| `Listing` | `ListBuckets` behind REST and MCP | same module |
| `MCListing` | a few snapshots for TLC | |
| `MeteringProofs` | theorems about `Quota`, `Hysteresis` and `Metering` | |
| `PollerProofs` | theorems about `Quota`, `Poller` and `Views` | |
| `RolloutProofs`, `EcsClientProofs`, `MigrateProofs` | theorems about `Rollout`, `EcsClient`, `Migrate` | |
| `ActivityProofs` | theorems about `Activity` and `History` | |
| `StoreProofs` | `ObservationStore` implements `AtomicStore` | |
| `RequestsProofs` | theorems about `Identity` and `Listing` | |

`Poller` and `Hysteresis` extend `Quota`, `Metering` extends `Hysteresis`;
`Poller` instantiates `QuotaAlarm` under the refinement mapping at its end.
`Views` and `Rollout` extend `Poller`, `Rollout` with a second instance of it;
`History` extends `Activity`; `Listing` extends `Identity`. `Activity` models the same poll as
`Poller` (billing, persist, record, finish), seen from the baseline; alarms and
activity share no data, so a product of the two would only multiply states.
`EcsClient` opens up what `Poller` sees as a billing answer or an inventory
answer, and its `outcome` is what `Poller` takes as input. `ObservationStore`
opens up what `Poller` and `Activity` take as one step of the store and
implements `AtomicStore`, which is that step. A commit that has happened and is
not confirmed is an error there; for `Poller` it is `Replaced`, because
`pollOnce` publishes after either. `Migrate` runs before `New`.

Operators named in a comment `MUTANT` are deliberate bugs; they are referred to
by `PROJECT.json` only and no specification uses them.

### Quota and Hysteresis

An alarm is the pair (streak, confirmed). The nil threshold is the constant
`Nil`. Thresholds are positive, because the parser turns 0, -1 and missing into
nil. `Hysteresis` keeps the sequence of samples so that the counter can be
compared with statements about samples: `Judged` are those with a threshold,
`Neighbours` two of them with none between.

### Metering

A document is the text of the fields that end up in one alarm: usage, uploads
in progress and unit from billing, the threshold from inventory under its two
keys, `snake` and `camel`, either of which may have any text. A text is a
magnitude in 1/`Grain` of its unit, or missing, empty, or not a number. Integers
are exact here and floats in Go, so only magnitudes a float holds exactly are
compared; the one place where a float matters, `float64(MaxInt64)` being 2^63,
is in `ToBytes`, and what `int64` makes of it is chosen per document because it
differs between CPUs.

| definition | code |
|---|---|
| `ToBytes`, `ToInt64`, `Round` | `units.go` |
| `GibBytes` | `gibBytes` |
| `FirstNumber`, `JSONThreshold` | `numField`; its callers |
| `XMLThreshold` | the two XML parsers: a bucket has one key, the namespace two in the other order |
| `Answers`, `Limit` | a subject that is listed, that is not, and an endpoint that failed |
| `Readable`, `NumberOf` | `num`, `parseFloat` |
| `Used` | `buildBucket` |
| `Authoritative` | which answers `ParseBucketList` and `ParseNamespaceMeta` accept |

The formats agree on a threshold that is *plainly spelled*: at most one key has a
number, for a bucket `block_size`. The rest they read differently: a bucket's
`blockSize` counts in JSON only; if the namespace has both keys, JSON takes the
first number, even -1, and XML the camel one unless it sets nothing.

Only the first poll of a behaviour reads a document of every form; the parsers
keep nothing between polls, and later polls are samples as in `Hysteresis`.

### Poller

A *subject* is a bucket or the namespace: `pollOnce` has the same code for
both, and where it has not (own endpoint, own table, always billed, at-quota
flag seeded) the definitions say so. `db` is the state table of each subject,
`rows`, `atQuota`, `pollOK`, `inventoryOK` are the snapshot, `payload`,
`answered`, `pending` the locals of `pollOnce`. `pc` stops where `pollOnce`
waits for ECS or the store; everything between two waits is one action:

| action | code |
|---|---|
| `Start(read)` | `New`, `seedFromState`; `read` are the tables whose query succeeded |
| `BillingAnswered`, `BillingFailed` | `NamespaceBilling` and the early return |
| `InventoryFetched(ok, fetched)` | `carried`, `fetchInventory`, both judging loops |
| `Replaced`, `ReplaceFailed` | `ReplaceObservation`, the logged error |
| `Published` | the snapshot swap |
| `Crash` | death at any wait, or the end of `run` |

Initial states are the rows an older version may leave: before migration 004
an alarm has no threshold and there is no namespace table.

### Views

Every page and answer copies the snapshot once and computes from the copy, so
each is a state function of `Poller`. A bucket's card is ranked first exactly
when it is confirmed; the namespace card copies its flags only behind a
threshold. Whether the notification threshold is reached and whether the row is
stale are parameters, because `Poller` does not keep them; so is whether a
percentage is known, because a seeded snapshot has none.

### Rollout

The Deployment has one replica and no update strategy, which is a rolling update: the new
pod starts first. `Pod1` and `Pod2` are the actions of two instances of `Poller`
that share `db` and nothing else. The namespace stays quiet, since a row depends
on its own subject only.

### Activity

One bucket (buckets do not influence each other); objects stand for objects
and bytes. Time is in ticks, an hour has `TicksPerHour` of them. The ECS side,
`Publications`, has a new metering publication or repeats the latest one;
`uptodate` is 0 where ECS omits it, and otherwise names the publication in
1/`Second` of a second; two publications are a second or more apart. The durable
row keeps whole seconds of it (`Stored`), which is what a `TIMESTAMP` of MariaDB
does; SQLite keeps the text, and is the case `Second = 1`. The time of a poll is
cut as well, but a tick is longer than a second. The poll stops after billing, after
`ReplaceObservation`, after `RecordActivity` and before it publishes. The window
query and the prune are one step, `Aggregated`: two best-effort store calls
whose failures are its parameters. `Published` replaces the baselines and the
snapshot. History variables (`folded`, `ever`, `forgotten`, `origin`, `stirred`,
`harm`) are read by properties only. `origin` is where the recorded movement of
the bucket starts: at its first sample, and again when it has left billing and
returns. `harm` says what went wrong: `persist`, a row could not be written;
`clock`, the clock was set back; `lost`, a movement is in no hourly row and never
will be, because it was not recorded, because the row of the bucket could not be
read by a new process, or because the process died while the durable row was
ahead of the history (`AheadOfHistory`). After a loss `origin` stays, so that the
difference shows.

A clock may be set back while no process runs. A running process compares
monotonic readings and does not see it, except that its hour buckets would be
those of the new clock; that case is not modelled.

### History

The handler of the activity route has two steps: the query and, only if the
bucket has no hours, the snapshot lookup. `Activity` goes on between them, for
at most one publication (`MaxPublishes`): the two reads are milliseconds apart
and the poll interval is at least a minute (`config.go:64`).

### Identity and Listing

The pod checks a token with its own clock, `now + offset`; the offset stays
within `Skew`, which is at most `Leeway`, because that is what `Leeway` is for.
The gateway signs what the caller may do at that moment; the header may then
arrive at any later time, any number of times. `Principal` is `callerAuth`,
`Status` the scope check of the REST routes, `ToolRegistered` that of `serverFor`. All that
`Verify` compares with fixed values is one field, `sound`. `lastGranted` is the
last tick at which the grant was held, and only the properties read it.

`Listing` answers an authorised request from one snapshot: filter, order,
count, cut. The limit is checked and filled in by the surface. A sorted list is
given by its comparison, not by an algorithm: `Ordered` has at each place the
bucket with that many others before it.

### EcsClient

Two goroutines, the poller and `main`, one step per access to the mutex. ECS
gives out sessions, may end one at any time, may lose a login answer, and
answers a request by its token. 401 and the redirect to `/login` are one
answer, 406 and HTML another, everything else that fails a third. The three
calls have the same retry loop; only billing has the `.json` fallback.

### AtomicStore and ObservationStore

`AtomicStore` is the interface of `store.go`: a call is pending, takes effect at
one moment, and returns; an error leaves open whether it has. `ObservationStore`
has the tables, and per client how many statements of its transaction are
executed (`done`) and the rows as that transaction sees them (`work`). A client is a goroutine: the one
that runs `New` and then the poller, or a handler, which only reads the hours.

| action | code |
|---|---|
| `Invoke` | a caller: `New` reads the two tables, then poller and handlers |
| `ReturnEarly` | `validateObservation`, an empty slice of deltas |
| `Begin`, `NotBegun` | `BeginTx`, which waits for a connection |
| `Execute`, `ExecuteFailed` | `tx.ExecContext` of `DELETE` and the upserts |
| `Commit(took, told)` | `tx.Commit`; an unconfirmed one has happened or not |
| `Rollback` | the deferred `tx.Rollback` |
| `Query`, `Scan` | `QueryContext`, then the loop over the rows and `Close` |
| `Crash` | death of a pod; the database rolls its transaction back |

The abstract store keeps thresholds as Go has them (known, bytes), the tables
as two columns, so that the refinement mapping (`States`, `NamespaceStates`)
contains the round trip through `bindLimit` and `scanLimit`. One threshold per
row stands for two or three, one hour for all, a count of samples for the
counters that are added up. Both dialects are one model: the first statement
of a writing transaction takes a lock that other writers wait for, or give up
waiting for. MariaDB locks rows, not the database; transactions it lets overlap
touch different rows. A prune is a transaction of one statement.

### Migrate

The five files are sequences of CREATE, ADD and DROP; the schema is a set of
tables, indexes and later columns. Every statement is durable at once, and so is
the row of the version. A pod that gets an error exits and is started again.
Initial databases are empty or what an earlier release has left whole.
`Executed(v, n)` are the statements of the first `v` files and `n` of the next,
`Reached(v, n)` is the schema they leave.

## Runs

| run | shows | bounds |
|---|---|---|
| `hysteresis` | documents of every form are read as published, in both formats if plainly spelled; the counter computes what the comments say | 2^63 is 8, a GiB is 4 bytes, magnitudes in 1/16; then 6 samples below and at one threshold |
| `poller_durable` | no restart can be told from the alarms; the poller implements `QuotaAlarm`; lasting states are reported | one bucket and the namespace, used 0..1, thresholds 1, 2 or nil, streaks up to 2 |
| `poller_faults` | what readers see stays consistent, on every surface and under every failure | one bucket and the namespace, threshold 1 or nil |
| `activity_faults` | movement counted once, idle never busy, restart keeps the counters, stamps with and without a fraction folded once | 3 polls by the clock, one set-back, 2 hours of 2 ticks, stamps to half a second |
| `activity_window` | nothing needed is pruned; a history lists every measured hour; 404 is not stale when said | 8 ticks, hours of 3, window and retention 5, lookback of 2 hours |
| `ecs_client_calls` | one trouble never costs a call, pages differ, a poll runs out of steps, polls end | 3 tokens, 3 markers, 3 pages |
| `observation_store` | tables and transactions implement `AtomicStore`; no connection is lost; every call returns | two pods, three clients, one connection each, three observations of one namespace next to rows of another, up to two samples per hour |
| `migrate` | what is recorded is applied; pods serve on the latest schema; all serve in the end; only a death leaves a database on which none can | two pods, two deaths, from every version |
| `rollout` | an alarm two pods agree on survives their overlap; the database heals afterwards | two pods, one bucket, failing inventories and dying pods |
| `requests` | grants end, fresh tokens are served, omissions are real | 6 ticks, lifetimes 1, 2, 4 with at most 2 allowed, leeway and skew 1; three buckets, pages of at most 2 |

Why the bounds are enough. The code compares used bytes with a threshold and
streaks with 2: one value on each side, a threshold that can move over a used
value, and streaks identified from `StreakBound` on reach every branch. The
proofs below hold for all sizes, thresholds and bounds. Two subjects of
different kinds are what a partial inventory failure needs. A word of 4 bits
has all edges of `ToBytes`: nothing, a part of a byte, a byte, the largest
number, the float above it, and more. For activity, a
held baseline, a restart and the next change need three polls; a window needs
to leave at least one hour behind, with a length that is not a multiple of an
hour and a retention as short as `config.Load` admits (a longer one is left to
the proof). For the client, a token, its successor and one in the hand of `Logout`
are three; three pages reach the page limit and every kind of repeated marker. For
the store, two transactions and a reader meet at every statement; the three
observations add, drop, repeat and mix buckets, with every kind of threshold. A
pool of one is SQLite's and the harder case: with MariaDB's four connections
nobody waits here. Two pods are what a rolling update has; `rollout` leaves the
failing commits to the proof, which has them. For the tokens, time goes on past
a lifetime, a leeway and twice the skew after a grant has ended. Three buckets
have an order, a tie and an unknown value, and overflow a page of two.

Two runs show a disagreement of the code with a comment; `PROJECT.json` quotes
both sides:

| run | property that fails |
|---|---|
| `poller_seed` | a restart does not forget a confirmed alarm (the seed query fails) |
| `ecs_client_troubles` | 401 and 406 have a retry each |

### Deadlock

`Metering`, `History`, `Activity` and `EcsClient` end at their bounds (samples,
time) or with the process, and `Migrate` when every pod serves, so their runs do
not check for deadlock. The others do.

### Fairness

`Poller!Fairness` is weak fairness of the restart (Kubernetes), of the
inventory and store steps of a poll that has begun, and of its last step: every
ECS request has a deadline, `database/sql` returns, and nothing else blocks the
goroutine. Nothing is assumed of billing; that ECS keeps answering, that the
process stays up and that usage stays above or below are hypotheses of
`OverIsPaged` and `RecoveryIsSeen`. `EcsClient!FairSpec` is weak fairness of
the goroutine that is inside a poll (`http.Client.Timeout`).
`ObservationStore!FairSpec` is strong fairness of getting a connection, because
`database/sql` serves the waiters of a pool in order, and weak fairness of the
steps of a call that has one. `Migrate!FairSpec` is weak fairness of the start of
a pod that is down (Kubernetes) and of its statements. `Rollout!PodsFairness` is
what `Poller` has, for the pod that stays; that the other one stays down, that
this one stays up and that ECS and the commits work in the end are hypotheses of
`OverlapHeals`.

## Proofs

Checked by TLAPS for every set of buckets, sizes and thresholds, every bound on
the streak, every set of faults, tokens, markers, texts, pods and clients. Every
safety property a run checks is stated by a theorem. The type invariants of
`Activity`, `Identity` and `Migrate` are theorems that no run repeats.

* `PollerProofs`: `AdvanceFacts` says what one sample makes of an alarm whose
  confirmation agrees with its streak. `TypeCorrect`, `AlarmsStaySound`,
  `FreshAlarmsAreReal`, `ReadyIsTrue`, `NothingElseSilences`: these properties
  are not inductive, because a published alarm is right by a computation two
  steps earlier, on rows that may have come through the store. `PollerInv`
  therefore adds that every copy of a row, durable, shown or pending, is good
  (`GoodRows`: typed, sound, no limit without `known`), that what is pending was
  computed from the rows still shown (`Computed`), and that a dead process shows
  nothing.
* There too, under `StoreIsReliable` (no failing commit, no failing seed):
  `RestartForgetsNothing`, `EvidenceClears` and the refinement
  `DurableAlarmsKeepPromise`: initial states map to initial states, a billing
  or inventory answer to `Gather`, a commit to `Judge`, a crash before it to
  `Discard`, the rest to stuttering. Without the assumption the three are
  false, as `poller_seed` shows for the second.
* There too, of `Views`: `SurfacesShowTheAlarm`. `PollerInv` is not enough: the
  namespace flags hide behind a threshold, so a confirmed namespace must have
  one in the snapshot. The invariant adds that an alarm of the namespace always
  does (`AlarmsAreDisplayable`), which holds because rows of an old version
  carry no namespace and a failed endpoint carries the threshold with the alarm.
* `RolloutProofs`: `AgreedAlarmsSurvive`. The invariant is `PollerInv` of both
  pods at once; what one pod commits must be good for the other, which is
  because a good pending row makes a good durable row. The step of one pod is
  then a step of `Poller` with the other pod's memory unchanged.
* `MeteringProofs`: `ThresholdsArePositive`, `FormatsNeverDiffer` and
  `OverIsAsPublished`, the last two for plainly spelled thresholds
  (`ThresholdsAgree`), by exact arithmetic over the words and by cases of the
  text; the invariant has to remember that the documents kept are those of the
  only sample (`KeptIsSampled`). `ConfirmedIsTwoSamples` and
  `StreakIsLatestSample` together are inductive (`HistoryInv`) for sequences of
  any length: `Advance` keeps two numbers, and each of them is what one of the
  two says of the samples, whichever kind of sample comes next.
* `ActivityProofs`, about the poll as the baseline sees it:
  * `ActivityTypeCorrect`, with `Local`: a poll holds the latest publication or
    nothing.
  * `RestartProof`: the row written and the sample it was written from have the
    same counters until they are published (`RowFollows`), and a clock not set
    back keeps the past in order (`Ordered`), without which a baseline may be
    kept that should move on.
  * `IdleProof`: without a change row, baseline and publication agree, and no
    hour has an active sample (`IdleInv`).
  * `FoldedOnceProof`: wherever the latest publication has been folded, a
    stamped row or baseline is that publication, or is it but for a fraction of
    a second (`Caught` in `FoldedInv`), and so is the baseline a restart would
    take. The exception is in the property because the code has it
    (see the limits below); without fractions it is empty.
  * `NetProof`: `NetInv` gives the sum of the hours at every step of a poll: it
    is the distance from `origin` to the baseline, once the delta is recorded to
    the one the poll will leave, and without a process to the row. A pruned
    hour leaves the sum on purpose; `forgotten` remembers its share. A fold
    changes one summand; the lemma that this moves the sum by as much is an
    induction over the hours.
  * `WindowProof`: unless the clock was set back, whatever was ever recorded and
    has no row is older than the retention (`PrunedInv`). A retention longer than
    the window by all but one tick of an hour covers every hour of the window,
    any other one every hour but the first; the proof has the two cases.
  * `NotFoundProof` of the history route: when the handler is about to look the
    bucket up and a row has appeared meanwhile, then the poll that recorded it
    has the bucket in hand or has published it (`LookupInv`).
    `MissingHourProof` follows from `PrunedInv`.
* `StoreProofs`: `StoreProof`, every transaction of every pod implements the
  atomic store. The invariant says that what a transaction has done so far is
  what its statements make of the *committed* rows, and that only the holder of
  the lock has done anything (`Isolated`), so that a commit is the whole call at
  one moment. `After(call, n, tables)` is the result of the first `n` statements
  in closed form: the last row of a bucket among them, the number of its
  deltas. A query, a call with nothing to do and a commit that happened map to
  `Apply` (with `failed` if the caller is not told), another failure to `Fail`,
  a crash to `Vanish`, and the statements before the commit to stuttering.
  `PoolProof` is the part of `EveryCallReturns` that is no liveness: the
  connections in use are counted against the calls that have one (`PoolInv`), for
  every size of the pool.
* `MigrateProofs`: `MigrateTypeCorrect`, `RecordedProof`, `ServesProof`,
  `FurthestProof`, `OnlyDeathProof`. The invariant gives the database one place, `v` files and `n`
  statements of the next, for all pods together (`At`): no pod is ahead of it,
  and one that is behind executes statements again, which does nothing
  (`CREATE`) or is refused (`ADD`, `DROP`). The pod at the place is never
  refused (`FurthestProof`), because no two statements of the files name the
  same thing (`PlaceOfStatement`): racing pods make each other fail, but never
  all of them. That is what `AllServe`, a liveness property that stays with TLC,
  rests on. It is also why only a death breaks a database: the schema tells the
  place (`PlacesDiffer`), and the pod that was there has gone on or was not
  refused.
* `RequestsProofs`: `IdentityTypeCorrect`, `RevocationIsBounded`,
  `SkewRefusesNobody`; the invariant says of the header that it was signed in
  the past and that whatever it grants was granted then. `OmissionsAreReal`: the
  comparison with unknown values is a strict total order (`FirstIsOrder`), so
  that the places of the matches are distinct, and since there are as many
  places as matches, every place is taken; a page is then the matches of the
  first places. `ListingKeepsIdentity` carries the theorems about `Identity` over
  to `Listing`.
* `EcsClientProofs`: `PagesStayDistinct`, `RefusalSurvived`, `ExpirySurvived`,
  for every set of tokens and markers and every bound on the pages. The
  properties speak of the call that failed last; the invariant speaks of the
  page in flight: a retry or a suffix has its refusal (`Excused`), and every
  refusal for a token has a session that ended under the page, with one more if
  the token that will be sent is dead (`Paid`). That needs `Held`: what the
  poller holds is the cached token, or `Logout` took that away, which it does
  only after the context is cancelled, and then nothing more is sent.
  `PollStepsAreBounded` is the part of `PollEnds` that is no liveness: `StepsLeft`
  is a variant, pages first, then the retry, then the steps of a request, which
  every step of the poll lowers and no step of the main goroutine or of ECS
  raises; it begins at ten steps a page.

Assumptions are the named `ASSUME`s of the modules, which the runs evaluate:
`Nil` is not a number, the namespace is not a bucket, buckets are finitely many,
thresholds are positive, the streak bound is at least 2, the skew is at most the
leeway, a text is not a number and a number at once, no token is not a token,
the empty marker is not a marker, a call may have a page, the part sizes of a
document are texts, `None` is none of the records it stands for the absence of,
a snapshot is finite and has no two buckets of one name.

Only model-checked is liveness (`OverIsPaged`, `RecoveryIsSeen`, `PollEnds`,
`EveryCallReturns`, `AllServe`, `OverlapHeals`): leads-to under fairness and
ENABLED are out of the prover's reach. The prover cannot instantiate the
library's induction theorems, which take an operator; where a sum or a count
needs induction, it is done with a least counterexample, from the theorem that
`<` is well-founded on the naturals. Sorted lists and schemas are defined by what
they contain, not recursively, for the same reason.

## Known limits of the code seen while modelling

No run is spent on these.

* A bucket list in XML has no `blockSize` (`inventory.go:387-395`): a bucket
  whose threshold is spelled so has none, although the comment has both spellings
  accepted and XML as well (`inventory.go:213-216`).
* With a retention that is not longer than the window by an hour, down to the
  equal one (`config.go:70`), the prune, whose cutoff is not aligned to the hour,
  deletes the first hour of the window, which "covers at least `window`"
  (`poller.go:587-588`). `WindowIsComplete` says no more than the rest of it.
* MariaDB keeps whole seconds of `uptodate_till` (`001_init.up.sql:23`), the
  parser fractions (`parse.go:35-51`): after a restart a publication with a
  fraction looks newer than its own row. It is folded again, as a refresh that
  ECS has "proved" (`activity.go:22-23`). `StampedIsFoldedOnce` excepts it.
* Without `hours` the history route looks back 24 hours: a bucket deleted before
  that is 404 while its rows are in the table, although "a bucket deleted since
  still returns the history it has" (`ops.go:358-360`).
* A migration file and the row of its version are not one transaction. A process
  that dies between them executes the file again, and `DROP COLUMN` (002) or the
  statements of 004 and 005 then fail: no start succeeds from there on
  (`Broken` in `Migrate`), although `migrations/002_drop_sample_time.up.sql:3-4`
  has the migrations table "guarantee it runs exactly once". `OnlyDeathBreaks`
  says that nothing else has this effect.
* After a restart at-quota flags of buckets stay FALSE until a poll succeeds,
  next to a restored alarm; `ReadyShowsTrueFlags` holds because such an
  instance is not ready.
* A second poll before ECS republishes its metering counts as a second sample.
* A crash between `ReplaceObservation` and `RecordActivity` loses a movement, and
  so does a seed that fails: the bucket starts over from its next sample
  (`poller.go:341-343`). A failed replace followed by a restart records one twice
  (`harm` in `Activity`).
* If the namespace document has both keys of the threshold, JSON and XML may read
  different ones (`inventory.go:322`, `455`).
* Shutdown logs out and closes the store without waiting for the poller
  goroutine (`main.go:103`). Its context is cancelled, so it sends nothing more,
  but a login already in flight may store a token that nobody logs out
  (`login.go:142-150`); `main.go:96-97` gives the order as "poller stops via ctx,
  logout, close DB".
* While two pods overlap, one may overwrite an alarm the other has confirmed: it
  polls with the streak of its own memory. `OnlyEvidenceClears` is therefore
  false in `Rollout`; `AgreedAlarmSurvives` and `OverlapHeals` say what is left.
* A bucket list that cannot be recognised is an empty list (`inventory.go:250`),
  and so clears every threshold, and every alarm, as authoritatively as ECS
  turning the quotas off. So does a threshold that is no number.
* A magnitude of exactly 2^63 bytes passes `ToBytes`; used bytes are then
  negative on amd64, and a threshold counts as unset.
* An empty number in a billing page is an error in JSON and 0 in XML.
* The roll-up `hot_buckets` counts buckets that are hot but have no baseline
  since the restart (`ops.go:431`); the list with `hot=true` leaves them out.
* A threshold that was never observed is shown as "Unlimited" and `quota_mode`
  off (`dashboard.go:207`, `ops.go:504`), which the poller takes care to tell
  apart (`poller.go:291-294`).
* `poll_ok=false` is explained to MCP clients as "the last good poll"
  (`mcp.go:75`); after a restart the at-quota count next to it is 0, and
  `polled_at` is the time of the failed poll.
* Rank 2 of the wallboard, at quota, is unreachable after a poll: whoever is at
  quota has a bar of 100 and rank 0 or 1 (`wallboard.go:130-138`).
* `handleQuotaAll` prints the streak as "(%d consecutive samples)"
  (`internal/http/server.go:277`), but a sample below a cached threshold leaves
  the streak of a confirmed alarm as it is, and later samples count on from it.
* A restart seeds the baseline from the row of the latest poll, not from a
  baseline held over quiet polls: the counters are the same
  (`RestartKeepsCounters`), the window starts later, although
  `poller.go:115-116` has a restart "not lose the diff window".
* Without `uptodate_till` every poll of a publication is folded, although
  `migrations/005_activity.up.sql:10-11` says "only observations where ECS
  metering actually advanced are folded in".

## Not modelled

Dates and markers as they are written in bodies, the envelope keys of a bucket list,
notification thresholds, the default block size and rates (carried or computed
for display, nothing depends on them); rendering of pages and the ranking of the
busiest buckets; the UI's cookie hand-off (`uiAuth`), security headers and
routing; the MCP protocol library; configuration parsing; the drain of the HTTP
server and a store that is closed under a poll (to the poll, one more failing
call); signatures and encodings of tokens; the in-memory store, which only
tests use; the down migrations, the other manifests and the shell script.

## Plan

Done, in this order: `Quota`, `Hysteresis`, `QuotaAlarm`, `Poller` and its
proofs, `Activity`, `EcsClient`, `AtomicStore`, `ObservationStore`, `Migrate`;
then `Rollout`, `Views`, `History`, `Identity`, `Listing`, `Metering`, and the
proofs of `Views`, `Rollout`, `Identity` and `EcsClient`; then the proofs of
`Metering`, `Activity`, `History`, `ObservationStore`, `Migrate` and `Listing`.
Left:

1. What several publications in one hour add up to, as a theorem about the
   store's upsert and the window query together.
2. Publications less than a second apart, and poll times cut to a second.
