# Eyrie in TLA+

Eyrie is an uptime monitor: checkers in several regions probe monitors and submit
the results to a server, which stores them, derives incidents and sends alerts.
This directory models the parts of the Go code that keep state and run
concurrently, checks them with TLC and proves the central ones with TLAPS.

## The system

| Component | State | Operations | Hard because of |
|---|---|---|---|
| Checker (`checker.go`) | monitor list, next fetch, submissions in flight | register, cycle at every full minute (semaphore of 10), submit with three attempts, refetch every ten minutes, stop | clock read after waiting, overlapping fetches, shutdown during a cycle |
| Checker endpoints (`server.go`) | none of their own | register: hand out monitors; submit: send to the processor and the ingester queue | the two sends fail independently and the two consumers race |
| Ingester (`worker_ingester.go`) | `monitor_historical`, daily and regional aggregates, dirty tasks in memory | idempotent insert, queue a task, drain, two upserts, seed at start | three goroutines on the same tables, tasks lost in a crash |
| Cleanup (`worker_cleanup.go`) | the same tables | delete expired days in batches, prune aggregates | races with inserts and aggregation, midnight |
| Incident evaluation (`worker_processor.go`, `incident.go`) | none (pure) | group by minute, judge regions, judge the latest bucket, promote a streak, break down reasons | thresholds, gaps, partial buckets |
| Processor (`worker_processor.go`) | `monitor_incident_state`, `monitor_incidents`, `monitor_incident_events` | evaluate, store the state, create/update/resolve the incident, publish an alert | three writes that are not one transaction, redelivery, crashes, manual edits |
| Alerter (`worker_alerter.go`) | none of its own | select targets, send to each, Ack or Nack | partial delivery and retries |
| Buffered ntfy target (`alerter_ntfy_buffered.go`) | suppression window, buffer and flag per monitor | outage, degradation, recovery, digest | two goroutines, mutex released around requests |
| Uptime API (`server.go`) | read permits | a goroutine per monitor: cached finished days, the current day, fallback to raw rows | permits held while waiting, midnight, slices shared between requests |
| Uptime cache (`uptime_cache*.go`) | cached slices by monitor and day, loads in flight | get, single-flight load, store, expire; memory or Redis | stale values, cancelled leaders |
| Process (`main.go`, `database_migration.go`) | what is open | migrate at every start, start, shut down in order | migrations run again each time; workers that still hold a message while queues and database are closed |

They are connected by three queues (gocloud pubsub: at least once, unordered, an
in-memory driver by default) and one DuckDB database, which admits one process at
a time. `PROJECT.json` lists the hazards at their lines.

## Modules

| Module | Models |
|---|---|
| `IncidentEvaluation` | the pure evaluation; a row is region, tick, success column, status code, failure category |
| `Processor` | the processor loop and what surrounds it, on top of `IncidentEvaluation` |
| `IncidentTimeline` | the abstract promise of the incident tables: clear/open and created, updated*, resolved |
| `AlertDelivery` | the targets that the configuration builds, alerter worker and buffered ntfy target |
| `Dataset` | ingest, aggregation and cleanup loops |
| `Checker` | one checker process and the server's answers to it |
| `UptimeRead` | the uptime endpoints, their read permits and the cache with both backends |
| `Pipeline` | the server process as a whole: submission handler, two queues, ingester and processor, start, crash and graceful shutdown; composes with `IncidentEvaluation` |
| `IncidentEvaluationProofs` | lemmas about the evaluation |
| `MCIncidentEvaluationProofs`, `ProcessorProofs`, `AlertDeliveryProofs`, `DatasetProofs`, `CheckerProofs`, `UptimeReadProofs`, `PipelineProofs` | theorems about the module each is named after |
| `MC*` | small instances |

Actions carry the names of the functions they stand for; an action that models a
branch of a function (a failure, an early return) is named for the branch. Every
step between two critical sections, SQL statements, requests or queue operations
is an action of its own. Definitions named `X_Y` before a definition `X` are
deliberately wrong variants, each used to see that a property notices the change.

How state corresponds to code:

* **Processor.** `worker` is the message in hand with the local variables of one
  iteration (`step` is the place in `Start`). `incidents` and `events` are the
  tables in insertion order. A resolved incident is one with `resolved_at` set. Title
  and body follow the same `preserveManualString` rule as impact and are not kept.
  `unsynced` (states stored whose sync has not committed) and `transitions` are
  history variables.
* **AlertDelivery.** `worker.pc` and `flush[p].pc` are the places between two holds
  of the mutex. `sent` is what reached recipients, `took` the alerts whose `Send`
  returned nil; `extra` counts the reasons outside the code for a repetition.
  The targets are in the order of `BuildAlerters`: webhook, slack, discord, teams, ntfy.
  At most one target is a buffered ntfy one (`DeliveryAssumption`). The configuration
  may list several; each would have states and a digest loop of its own, and the worker
  would send to them one after the other.
* **Dataset.** An aggregate is the set of rows it was computed from, because the
  averages and rates are functions of that set; time is a day and a time of day.
* **Checker.** The clock is a minute, and whether it is in its first second, which
  is all that the loop and the interval test look at.
* **UptimeRead.** `fetch[<<q, m>>]` is the goroutine of request `q` for monitor `m`. An
  aggregate row is known by the time it was written; the average and the downtimes are
  functions of the rows. `slice.array` names the Go array behind a cached slice and
  `slice.room` its spare capacity, so that two appends to it can meet; `tail[k]` is the
  set of rows that may be read back at place `k`. The daily and the regional endpoint
  use separate tables and caches, so a behaviour (`setting`) follows one of them.
* **Pipeline.** `done` is how far the shutdown goroutine is in `ShutdownSteps`; what
  is closed makes the calls of handlers and workers fail. `owed` counts deliveries by
  queue, `sent` what each queue took. A worker's iteration is reduced to the steps at
  which a closing, a crash or the other worker can come between; `Processor` and
  `Dataset` have the steps in full. `setting` fixes the requests and the queue driver
  (durable or in memory, with or without Nack).

## Runs

| Run | Result | Shows |
|---|---|---|
| `evaluation` | passes | every table of rows of the bound: verdict equals a set-based reference, the breakdown explains exactly failed regions of the failing minute, rows before a gap are irrelevant, the migration that runs at each start keeps the verdict |
| `processor` | passes | at most one open incident; state and incident tables agree except in the windows the code has; alerts at most once, in order and naming a real incident; foreign overrides survive; resolved incidents are final; the timeline is implemented; the queue drains |
| `override_lost` | violated | an override equal to a later automatic value is overwritten |
| `alert_delivery` | passes | no repetition by retry or concurrent flush, no recovery without a problem, nothing acknowledged unhandled; the queue empties out, even when the digest loop hangs; while it does not, so do the digest buffers |
| `down_unsent` | violated | a failed outage is suppressed by its own window when retried |
| `recovery_unsent` | violated | a recovery is suppressed between a digest and its note |
| `dataset` | passes | aggregates of retained days fresh or scheduled; accepted submissions kept; expired data goes for good; aggregation catches up |
| `checker` | passes | one probe a minute, nothing in flight after a drain, configuration picked up, shutdown completes |
| `uptime_read` | passes | each day counted once; nothing hidden behind the cache beyond its TTL; one load per key; another client's leaving costs nobody the aggregates; every request ends and gives its permit back |
| `pipeline` | passes | what the ingester's queue took is stored or still owed, across crash and graceful shutdown; verdicts catch up with the rows; the shutdown ends, and the process exits with everything closed |
| `interval_missed` | violated | a due monitor is skipped when it waited for a slot |
| `empty_config_kept` | violated | a checker without monitors never fetches again |

The findings in `PROJECT.json` quote the comment or test each violated property
comes from.

### Bounds

* `evaluation`: three regions, three minutes of two ticks, both kinds of monitors;
  up to four rows, placed on every tick. Three regions tell a minority from a
  majority and from all; three minutes hold a streak, a gap and a row before it.
* `processor`: three submissions, two rows, three ticks, one fault of any kind, one
  edit. Create, update and resolve each need one submission; the fault can be put
  between any two steps.
* `alert_delivery`: one fault; a webhook and the ntfy target, a disabled third one. A
  behaviour has one of five configurations: one monitor whose list is blank (all targets),
  names one, or names only a disabled target, with two alerts; one that names ntfy, with three
  (problem, recovery, recovery); and two monitors that share ntfy, with two alerts, so
  that one waits in the buffer while the other's digest is sent, lost, or closed by a recovery.
* `dataset`: four days with two retention days, so that a day expires while another
  is the cutoff day and a third is retained; a batch size of one, so that a day
  takes several deletes; a monitor that was removed; two submissions, one fault.
* `uptime_read`: two requests are enough for a leader and a follower, or a reader and
  a writer of a shared array; three ticks a day and a TTL of one let an entry expire
  within a day and a request run over midnight; one aggregate is rewritten; one
  client leaves or one query fails. Two permits or one: with one the second request
  waits, with two they meet in the cache.
* `pipeline`: two regions of one minute (the case in which one evaluation is
  premature), a monitor that is not configured and an unregistered key, over durable
  and in-memory queues; one exit signal and one fault, which fall between any two
  steps.
* `checker`: one slot for two monitors makes one of them wait; the minute counter is
  modulo the longest interval; two fetches can overlap, as in the code, where a
  fetch lives a minute at most; the server assigns both monitors, one or none, so that
  a stale answer can be of either kind.

The theorems below lift the safety properties they state from these instances to every
size; the runs find out cheaply, and check what is not proved.

Deadlock checking is off: bounded environments end. Each passing run checks that
what must still happen happens through its liveness properties instead.

### Fairness

Weak fairness of each goroutine's own steps: Go's scheduler runs a runnable
goroutine, tickers keep firing, and statements and the requests that have a deadline return or
fail (the alerter worker's have 15 seconds, `worker_alerter.go:93`). No fairness is
assumed of failures, crashes, restarts, submissions, edits, or of the two kinds of
requests without a deadline: the checker's submissions, and the digest loop's
(`context.Background()`, `alerter_ntfy_buffered.go:52`, over a client without a
timeout, `alerter_webhook.go:353`). `AlertsDrain` holds all the same; `DigestFlushed`
has the return of these requests (`DigestsReturn`) as its hypothesis and is false
without it. In `Checker` time passes,
and a loop that waits for a full minute runs within its first second. Failures are
bounded by `MaxFaults`, so "eventually" means once failures stop. `UptimeRead` is fair
to each request (the semaphore is first come, first served, and a request comes
once); `Pipeline` asks only that some goroutine that can run does.

## Proofs

The theorems hold for every value of the constants that satisfies the named
assumption of the module (`EvaluationAssumption`, `ProcessorAssumption`, ...): any
regions (finitely many), monitors, thresholds, workloads, queue drivers, intervals, TTL,
and any bound on time, faults and edits. The assumptions state types, what the
configuration's validation enforces (unique registered checkers, unique alert names), and that a
value the models use for "nothing" is not one of the values it stands beside. Each
inductive invariant was an invariant of a TLC run before it was proved.

| Theorem | Property | Inductive invariant |
|---|---|---|
| `ProcessorProofs!TypeCorrect` | `TypeOK` | itself |
| `OneUnresolved`, `StateMatches` | `AtMostOneUnresolved`, `StateMatchesIncident` | `TablesInv` |
| `AlertsAreUnique`, `AlertsNameIncidents` | `AlertAtMostOnce`, `AlertNamesItsIncident` | `AlertsInv` |
| `ForeignOverridesKept` | `ForeignOverrideKept` | `OverrideInv` |
| `ResolvedStaysResolved` | `ResolvedIsFinal` | (an action property) |
| `TimelineImplemented` | `ImplementsTimeline` | (a refinement) |
| `VerdictsSurviveMigration`, `BreakdownsExplain` | `MigrationKeepsVerdict`, `BreakdownExplainsRegions` | `IngestedInv` |
| `StatusIsReference`, `OldRowsNeverMatter` | `StatusMatchesReference`, `OldRowsAreIrrelevant` | `IngestedInv` |
| `DatasetProofs!TypeCorrect` | `TypeOK` | itself |
| `SubmissionsAreKept` | `SubmissionsKept` | `DatasetProofs!KeptInv` |
| `AggregatesAreFresh` | `AggregatesFresh` | `FreshInv` |
| `ExitsAreComplete` | `ExitIsComplete` | `ShutdownInv` |
| `AcceptedAreKept` | `AcceptedIsKept` | `PipelineProofs!KeptInv` |
| `VerdictsCatchUp` | `VerdictCatchesUp` | `CatchUpInv` |
| `DrainedStaysDrained` | `DrainedMeansDrained` | itself |
| `ProbedOncePerMinute` | `OncePerMinute` | `OnceInv` |
| `DaysCountOnce`, `CacheHidesNothing`, `LeavingIsPrivate` | `EachDayOnce`, `NothingHidden`, `CancelIsPrivate` | `UptimeInv` |
| `LoadedOnce` | `OneLoad` | `UptimeInv` (an action property) |
| `AlertsAreHandled` | `HandledOrOwed` | `DeliveryInv` |
| `RetriesNeverRepeat`, `RecoveriesFollowProblems` | `NoRepeatByRetry`, `RecoveriesAreEarned` | `BudgetInv` (with `DeliveryInv`) |

How they go:

* **Evaluation.** `IncidentEvaluationProofs` has the lemmas: maxima of bounded sets of
  naturals exist (`MaxOfBounded`, by well-foundedness of `<`), so the latest bucket is
  a bucket; a verdict depends on the rows through the buckets alone, and the migration
  rewrites rows without moving one between buckets or changing how the evaluation counts it.
  `StatusIsReference` needs to know what the walk back over the buckets computes. The walk
  ends at the first minute that is missing or is no partial failure, so what it
  returns is the length of the streak (`WalkIsStreak`): the recursive function that counts
  the streak exists by exhibiting it, and two functions that both count would differ at
  a largest number, where they cannot. Then a promotion is a streak of at least
  `PromotionMinutes` (`PromotionIsStreak`). `OldRowsNeverMatter` follows: both sets of rows have
  the same buckets in the last `PromotionMinutes` minutes, and nothing else is read.
  `BreakdownsExplain` has the hypothesis
  `PerRegionFailureThresholdPercent > 0`. The default is 40, but nothing validates
  the value (`config_server.go:15`): at zero a region without a failing row
  counts as failed, and the breakdown has nothing to say of it.
* **Tables.** `AtMostOneUnresolved` and `StateMatchesIncident` are not inductive: one
  also needs that the transition a worker holds after its store is the stored state
  (`StoredIsCurrent`), so that the write of the sync agrees with it.
* **Alerts.** Alerts carry transitions no later than the current one, and strictly
  earlier ones than a transition in hand; the incident in hand may be announced.
* **Overrides.** `preserveManualString` compares an impact with the automatic impact of
  the last evaluation. That one is always one of the three an evaluation of an unhealthy
  monitor produces (`AutoIsEvaluated`), so a word from outside them is never mistaken for it.
* **Timeline.** Initial states map to initial states and each step of `Processor` is an
  `Open`, `Update`, `Resolve` or a stutter of `IncidentTimeline`. The effect lemmas
  (`CreateHasEffect`, `UpdateHasEffect`, ...) reduce each write to what the invariants
  need, so that the step proofs do not expand the evaluation.
* **Dataset.** `KeptInv` adds that the row in hand is stored or expired, and that a
  cleanup pass works with a cutoff no later than today's, so that it deletes only what
  is expired. `FreshInv` adds what the aggregation loop holds at each step, that no
  aggregate of a retained day covers a row that is not there (the upsert of a day
  without rows writes nothing), and that between the two upserts of a task the first is
  right unless the task has been queued again.
* **Pipeline.** `KeptInv`: what the ingester marked as inserted is stored, and by the order
  of `ShutdownSteps` a statement that fails because the database is closed comes after
  the subscriptions are shut down, when an acknowledgement no longer reaches the queue.
  `CatchUpInv` follows a row from the send to its judgement: what the ingester's queue
  owes was sent, what was judged with its own row is stored, and the evaluation in hand
  is the verdict on all rows that have arrived unless one of them belongs to a request
  still to be judged.
* **Checker.** A monitor that was probed this minute has no second task, and a loop that
  is back before its first second is over sleeps past it (`NotAgain`).
* **Uptime reads.** `UptimeInv` says of every slice, in the cache or in the hands of a goroutine,
  that its rows are of its monitor and of finished days (and of the current one after an
  append), that it covers everything written up to a TTL before who uses it began, and
  that each line is there once; of every backing array, that it belongs to one key, so
  that two appends that meet in it write rows of the same monitor and day; and of loads,
  that a key has one leader and, while it loads, no entry.
* **Delivery.** The worker's `delivered` counts targets that took the alert in hand, and a
  worker that neither delivered nor failed has a target left to try; so it cannot reach an
  Ack with both at zero unless no target was selected.
* **Delivery budgets.** `NoRepeatByRetry` is not inductive: it says nothing of what is still
  to be sent. `RepeatBudget` counts, for an alert and a target, the copies that came
  (`Repeats`) and the chances that the system still holds (`Chances`: deliveries owed, the
  alert in hand while the target's turn is to come or a Nack is, a place in the buffer, a
  place in a digest whose request is to come): together at most one and the exceptions.
  Most steps trade one chance for another or for a copy; a redelivery, a crash or an
  error for a request that got through adds one to both sides. `RecoveryBudget` adds to the
  recoveries the problems announced that none has answered (the flag
  `notifiedUnhealthy`) and the requests that got through but are not noted yet, because the
  flag is written in a later critical section than the request: together at most the
  problems announced. The copies of a set of messages are numbered (`Numbered`), so that
  they can be counted with the cardinality theorems; `OneMoreCopy` says what a message adds.

What a proof taught about the models: `VerdictCatchesUp` had a condition that
no worker be at work, and does not need it. `Pipeline`, `Dataset` and `UptimeRead` relied
on facts about their constants that no assumption stated (a monitor without a
configuration is not the id of a configured one, the time of the start is not
past the last one, and the like), which are assumptions now. The walk of
`shouldPromoteLocalDegraded` could look up its value beyond its domain when every bucket was
counted; it ends before the earliest bucket now, as the code's loop does at `earliestTime`.
The targets of `AlertDelivery` were a sequence filtered with `SelectSeq`, which the provers
cannot expand; they are now a set with the order `Precedes`, and each alert still visits
them one by one in the order of `BuildAlerters`. For the same reason copies are counted as the
cardinality of numbered messages and not as a fold over a bag.

Model-checked only, and why:

* liveness under fairness (`QueueDrains`, `AlertsDrain`, `DigestFlushed`, `RetentionEnforced`,
  `AggregationCatchesUp`, `RequestsAnswered`, `GracefulShutdownEnds`, `AcceptedIsStored`,
  `ConfigCatchesUp`, `ShutdownCompletes`): the prover has no rules for `ENABLED`.

Every safety invariant, action property and refinement of the passing runs is proved.

## What the models show about design decisions

* **The two queues race.** `VerdictCatchesUp` holds only for rows that were there when
  their own message was judged. A row inserted later is judged with the next
  submission of its monitor; when there is none, the stored state stays as it is.
* **A failed send is only logged** and the checker hears 200: the properties of
  `Pipeline` speak of what a queue took.
* **A hung digest stops all digests.** One loop flushes the monitors one after the
  other, and its requests have no deadline: an ntfy server that never answers one of
  them keeps the degradations of every monitor in the buffer until an outage or a recovery of
  their own, which the worker handles, takes them out. The worker is not held up, because the
  mutex is released around the request.
* **A graceful shutdown loses no submission of a durable queue**, because the
  subscriptions are shut down before the database: what fails for want of a database
  cannot be acknowledged any more. A worker that is overtaken between storing a state
  and writing the incident loses the incident and its alert, as in any failure there
  (`unsynced` in `Processor`).
* **Cached slices are appended to in place.** For the daily table both writers append
  the row of the same day, so an answer has each day once (`EachDayOnce`), though
  perhaps in a version another request read. The regional table has one row per
  region, and the order of regions is not fixed by the query (`ORDER BY date`,
  `server.go:291`): with two regions and the memory backend, two concurrent requests
  that meet them in different orders can answer with one region counted twice and the
  other missing. `EachDayOnce` therefore speaks of the daily endpoint only, and
  `NothingHidden` leaves the regional lines of the current day out.

## Not modelled

* Probes: network I/O. A probe is an outcome and takes time.
* The incident endpoint (`buildMonitorIncidentsResponse`) and the root page: they read
  two tables in two queries and keep no state. A reader can see a state and an
  incident from the two sides of a sync; `StateMatchesIncident` says how far the tables
  themselves can be apart.
* Loading of configuration files and environment, payload formatting, static files
  and HTML, metrics, CHECKPOINT, `BufferedNtfyAlerter.Stop` (nobody calls it).
* Several buffered ntfy targets beside each other.
* Messages whose body does not parse (the only producer marshals them), and the
  answers 400 and 500 of the submission handler to a request that cannot be decoded or
  marshalled: they come before anything is sent.
* In `Pipeline`, a lookback that is cut short: `rows.Err()` is never asked
  (`worker_processor.go:277`), so what was read is judged as if it were complete.
  `Processor` has this case; `VerdictCatchesUp` speaks of complete reads.
* In `UptimeRead`, time between a query's result and its cache entry or answer.
* `analyzeSubmissions` (tests only); monitors whose interval is not a whole number of
  minutes. Expected status codes and jq assertions are not sent to checkers: the
  server judges HTTP status codes itself, and nothing evaluates the assertions.

## Plan

1. Done: evaluation, processor, alert delivery, dataset, checker, uptime read side,
   pipeline with graceful shutdown.
2. Done: a theorem for every safety invariant, action property and refinement of the
   runs, each from an inductive invariant of its module.
3. Left: the configuration's validation beyond names and checkers; the incident endpoint's
   two reads; the regional lines of the current day in the uptime answers.
