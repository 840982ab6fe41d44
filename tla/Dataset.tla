------------------------------ MODULE Dataset -------------------------------
(***************************************************************************)
(* The stored history: the ingester (worker_ingester.go) inserts one row   *)
(* per submission and keeps daily aggregates up to date through a set of   *)
(* dirty (monitor, day) tasks, and the cleanup worker (worker_cleanup.go)  *)
(* deletes what the retention policy no longer covers.                     *)
(*                                                                         *)
(* Three goroutines work on the same tables without a common lock: the     *)
(* ingest loop, the aggregation loop and the cleanup loop.  Every SQL      *)
(* statement is one step.  A row is known by its primary key, time being a *)
(* day and a time of day.  Averages and rates are functions of the rows    *)
(* they are computed from, so an aggregate is modelled as that set of      *)
(* rows; the empty set is no aggregate.  Sizes, metrics and CHECKPOINT     *)
(* change no table and are left out.                                       *)
(***************************************************************************)
EXTENDS Integers, FiniteSets, FiniteSetsExt

CONSTANTS
    Monitors,           \* configured monitors
    RemovedMonitors,    \* ids still in the data or submitted, no longer configured
    Regions,
    TimesOfDay,
    RetentionDays,      \* dataset.retention_days: any integer, it is not validated
    CleanupBatchSize,
    Nackable, DurableQueue,
    \* Bounds:
    Submissions,        \* the rows that checkers may submit
    MaxDay, MaxSubmissions, MaxFaults

Days       == 0 .. MaxDay
MonitorIDs == Monitors \cup RemovedMonitors
Row        == [monitor : MonitorIDs, region : Regions, day : Days, time : TimesOfDay]
Task       == MonitorIDs \X Days

ASSUME DatasetAssumption ==
    /\ Monitors \cap RemovedMonitors = {}
    /\ RetentionDays \in Int
    /\ CleanupBatchSize \in Nat \ {0}
    /\ TimesOfDay \subseteq Nat
    /\ Submissions \subseteq Row
    /\ Nackable \in BOOLEAN /\ DurableQueue \in BOOLEAN
    /\ MaxDay \in Nat /\ MaxSubmissions \in Nat /\ MaxFaults \in Nat

VARIABLES
    today, hour,    \* the clock: day and time of day
    accepted,       \* history: the submissions that were enqueued
    pending,        \* ingester queue: the rows of the deliveries owed (a second
                    \* copy of the same one changes nothing: inserts are idempotent)
    rows,           \* monitor_historical
    daily,          \* monitor_historical_daily_aggregate
    regional,       \* monitor_historical_region_daily_aggregate
    up,             \* is the process running
    ingest,         \* the ingest loop: the row inserted and not yet queued for aggregation
    dirty,          \* dirtyAggregationTasks
    aggregation,    \* the aggregation loop
    cleanup,        \* the cleanup loop
    missed,         \* history: a seed query failed, its tasks were not queued
    faults

vars == <<today, hour, accepted, pending, rows, daily, regional, up, ingest, dirty,
          aggregation, cleanup, missed, faults>>

queueVars == <<today, hour, accepted, pending>>
aggregates == <<daily, regional>>

NoTask == <<>>
Aggregating(pc, batch, task) == [pc |-> pc, batch |-> batch, task |-> task]
Cleaning(pc, day, cutoff)    == [pc |-> pc, day |-> day, cutoff |-> cutoff]

cutoffDay == today - RetentionDays

RowsOf(m, d) == {row \in rows : row.monitor = m /\ row.day = d}

Init ==
    /\ today = 0 /\ hour \in TimesOfDay
    /\ accepted = {} /\ pending = {} /\ rows = {}
    /\ daily = [t \in Task |-> {}]
    /\ regional = [t \in Task |-> [r \in Regions |-> {}]]
    /\ up = TRUE
    /\ ingest = {}
    /\ dirty = {}
    /\ aggregation = Aggregating("seed", {}, NoTask)
    /\ cleanup = Cleaning("idle", 0, 0)
    /\ missed = FALSE /\ faults = 0

Fault == faults < MaxFaults /\ faults' = faults + 1

(***************************************************************************)
(* Around the workers.                                                     *)
(***************************************************************************)
Tick ==
    /\ \/ \E h \in TimesOfDay : h > hour /\ hour' = h /\ UNCHANGED today
       \/ today < MaxDay /\ today' = today + 1 /\ hour' = Min(TimesOfDay)
    /\ UNCHANGED <<accepted, pending, rows, aggregates, up, ingest, dirty, aggregation,
                   cleanup, missed, faults>>

\* Server.CheckerSubmission: the send to the ingester topic.  The timestamp is
\* the checker's; a submission that waited in its retries or in the queue is late.
CheckerSubmission(row) ==
    /\ up
    /\ Cardinality(accepted) < MaxSubmissions
    /\ row.day <= today /\ row \notin accepted
    /\ accepted' = accepted \cup {row}
    /\ pending' = pending \cup {row}
    /\ UNCHANGED <<today, hour, rows, aggregates, up, ingest, dirty, aggregation, cleanup,
                   missed, faults>>

\* The subscription delivers the message in hand, or an acknowledged one, again.
Redeliver(row) ==
    /\ Fault
    /\ up /\ row \in accepted
    /\ pending' = pending \cup {row}
    /\ UNCHANGED <<today, hour, accepted, rows, aggregates, up, ingest, dirty, aggregation,
                   cleanup, missed>>

\* The process dies: the dirty tasks are only in memory.
Crash ==
    /\ Fault
    /\ up /\ up' = FALSE
    /\ pending' = IF DurableQueue THEN pending \cup ingest ELSE {}
    /\ ingest' = {}
    /\ dirty' = {}
    /\ aggregation' = Aggregating("seed", {}, NoTask)
    /\ cleanup' = Cleaning("idle", 0, 0)
    /\ UNCHANGED <<today, hour, accepted, rows, aggregates, missed>>

Restart ==
    /\ ~up /\ up' = TRUE
    /\ UNCHANGED <<queueVars, rows, aggregates, ingest, dirty, aggregation, cleanup, missed, faults>>

(***************************************************************************)
(* IngesterWorker.Start                                                    *)
(***************************************************************************)
\* Receive, then INSERT ... ON CONFLICT DO NOTHING.
ingestMonitorHistorical(row) ==
    /\ up /\ ingest = {}
    /\ row \in pending
    /\ pending' = pending \ {row}
    /\ rows' = rows \cup {row}
    /\ ingest' = {row}
    /\ UNCHANGED <<today, hour, accepted, aggregates, up, dirty, aggregation, cleanup, missed, faults>>

\* Nack where the driver supports it; otherwise the submission is lost.
InsertFails(row) ==
    /\ Fault
    /\ up /\ ingest = {}
    /\ row \in pending
    /\ pending' = IF Nackable THEN pending ELSE pending \ {row}
    /\ UNCHANGED <<today, hour, accepted, rows, aggregates, up, ingest, dirty, aggregation, cleanup, missed>>

\* The task is enqueued although the row may be a duplicate; then Ack.
enqueueAggregationTask ==
    /\ ingest # {}
    /\ dirty' = dirty \cup {<<row.monitor, row.day>> : row \in ingest}
    /\ ingest' = {}
    /\ UNCHANGED <<queueVars, rows, aggregates, up, aggregation, cleanup, missed, faults>>

(***************************************************************************)
(* runPeriodicAggregation                                                  *)
(***************************************************************************)
aggregationSeedLookback == IF RetentionDays <= 0 THEN 30 ELSE RetentionDays

\* Mutant: only today's rows are looked at.
seedRecentAggregationTasks_Today ==
    /\ up /\ aggregation.pc = "seed"
    /\ dirty' = dirty \cup {<<row.monitor, row.day>> : row \in {r \in rows : r.day >= today}}
    /\ aggregation' = Aggregating("idle", {}, NoTask)
    /\ UNCHANGED <<queueVars, rows, aggregates, up, ingest, cleanup, missed, faults>>

\* The days of the rows younger than the lookback, to the time of day.
seedRecentAggregationTasks ==
    /\ up /\ aggregation.pc = "seed"
    /\ dirty' = dirty \cup
            {<<row.monitor, row.day>> :
                row \in {r \in rows : \/ r.day > today - aggregationSeedLookback
                                      \/ /\ r.day = today - aggregationSeedLookback
                                         /\ r.time >= hour}}
    /\ aggregation' = Aggregating("idle", {}, NoTask)
    /\ UNCHANGED <<queueVars, rows, aggregates, up, ingest, cleanup, missed, faults>>

\* The query fails: logged, and not tried again before the next start.
SeedFails ==
    /\ Fault
    /\ up /\ aggregation.pc = "seed"
    /\ aggregation' = Aggregating("idle", {}, NoTask)
    /\ missed' = TRUE
    /\ UNCHANGED <<queueVars, rows, aggregates, up, ingest, dirty, cleanup>>

drainAggregationTasks ==
    /\ up /\ aggregation.pc = "idle"
    /\ dirty # {}
    /\ aggregation' = Aggregating("next", dirty, NoTask)
    /\ dirty' = {}
    /\ UNCHANGED <<queueVars, rows, aggregates, up, ingest, cleanup, missed, faults>>

\* What is left of a batch; none ends the round.
Remaining(batch) == Aggregating(IF batch = {} THEN "idle" ELSE "next", batch, NoTask)

\* The oldest days come first.
NextTask(task) ==
    /\ aggregation.pc = "next" /\ task \in aggregation.batch
    /\ \A other \in aggregation.batch : task[2] <= other[2]

\* Mutant: a task of a removed monitor fails and is queued again.
SkipRemoved_Requeued(task) ==
    /\ NextTask(task) /\ task[1] \notin Monitors
    /\ aggregation' = Remaining(aggregation.batch \ {task})
    /\ dirty' = dirty \cup {task}
    /\ UNCHANGED <<queueVars, rows, aggregates, up, ingest, cleanup, missed, faults>>

\* A monitor that is no longer configured is not aggregated.
SkipRemoved(task) ==
    /\ NextTask(task) /\ task[1] \notin Monitors
    /\ aggregation' = Remaining(aggregation.batch \ {task})
    /\ UNCHANGED <<queueVars, rows, aggregates, up, ingest, dirty, cleanup, missed, faults>>

\* Mutant: the configuration is not consulted.
UpsertDaily_AnyMonitor(task) ==
    LET found == RowsOf(task[1], task[2])
    IN  /\ NextTask(task)
        /\ daily' = IF found = {} THEN daily ELSE [daily EXCEPT ![task] = found]
        /\ aggregation' = Aggregating("region", aggregation.batch \ {task}, task)
        /\ UNCHANGED <<queueVars, rows, regional, up, ingest, dirty, cleanup, missed, faults>>

\* aggregateDailyMonitorHistorical, first statement: a day without rows yields
\* no group and leaves the stored aggregate alone.
UpsertDaily(task) ==
    LET found == RowsOf(task[1], task[2])
    IN  /\ NextTask(task) /\ task[1] \in Monitors
        /\ daily' = IF found = {} THEN daily ELSE [daily EXCEPT ![task] = found]
        /\ aggregation' = Aggregating("region", aggregation.batch \ {task}, task)
        /\ UNCHANGED <<queueVars, rows, regional, up, ingest, dirty, cleanup, missed, faults>>

\* Second statement, in a transaction of its own: one group per region.
UpsertRegional ==
    LET task == aggregation.task
        found(r) == {row \in RowsOf(task[1], task[2]) : row.region = r}
    IN  /\ aggregation.pc = "region"
        /\ regional' = [regional EXCEPT ![task] =
                            [r \in Regions |-> IF found(r) = {} THEN @[r] ELSE found(r)]]
        /\ aggregation' = Remaining(aggregation.batch)
        /\ UNCHANGED <<queueVars, rows, daily, up, ingest, dirty, cleanup, missed, faults>>

\* Mutant: the failed task is not queued again.
UpsertFails_Dropped(task) ==
    /\ Fault
    /\ \/ NextTask(task) /\ task[1] \in Monitors
       \/ aggregation.pc = "region" /\ task = aggregation.task
    /\ aggregation' = Remaining(aggregation.batch \ {task})
    /\ UNCHANGED <<queueVars, rows, aggregates, up, ingest, dirty, cleanup, missed>>

\* Either statement fails: the task is queued again for the next round.
UpsertFails(task) ==
    /\ Fault
    /\ \/ NextTask(task) /\ task[1] \in Monitors
       \/ aggregation.pc = "region" /\ task = aggregation.task
    /\ dirty' = dirty \cup {task}
    /\ aggregation' = Remaining(aggregation.batch \ {task})
    /\ UNCHANGED <<queueVars, rows, aggregates, up, ingest, cleanup, missed>>

(***************************************************************************)
(* CleanupWorker.runCleanup                                                *)
(***************************************************************************)
\* Mutant: the day that contains the cutoff is deleted too.
DeleteFrom_CutoffDay(day, cutoff) ==
    IF day <= cutoff THEN Cleaning("delete", day, cutoff) ELSE Cleaning("prune", 0, 0)

\* The next day of the loop over whole days; it ends before the cutoff's day.
DeleteFrom(day, cutoff) ==
    IF day < cutoff THEN Cleaning("delete", day, cutoff) ELSE Cleaning("prune", 0, 0)

\* deleteExpiredHistorical: the oldest day with a row older than the cutoff,
\* which itself has a time of day.
StartCleanup ==
    LET old == {row \in rows : row.day < cutoffDay \/ (row.day = cutoffDay /\ row.time < hour)}
    IN  /\ up /\ cleanup.pc = "idle"
        /\ cleanup' = IF old = {} THEN Cleaning("prune", 0, 0)
                      ELSE DeleteFrom(Min({row.day : row \in old}), cutoffDay)
        /\ UNCHANGED <<queueVars, rows, aggregates, up, ingest, dirty, aggregation, missed, faults>>

\* One DELETE of at most CleanupBatchSize rows of the day; a short one ends it.
deleteDayRange ==
    LET inRange == {row \in rows : row.day = cleanup.day}
    IN  /\ cleanup.pc = "delete"
        /\ \E batch \in SUBSET inRange :
                /\ Cardinality(batch) = Min({CleanupBatchSize, Cardinality(inRange)})
                /\ rows' = rows \ batch
                /\ cleanup' = IF Cardinality(batch) < CleanupBatchSize
                              THEN DeleteFrom(cleanup.day + 1, cleanup.cutoff) ELSE cleanup
        /\ UNCHANGED <<queueVars, aggregates, up, ingest, dirty, aggregation, missed, faults>>

\* Mutant: the daily aggregates are forgotten.
pruneDaily_Skipped ==
    /\ cleanup.pc = "prune"
    /\ cleanup' = Cleaning("pruneRegional", 0, cutoffDay)
    /\ UNCHANGED <<queueVars, rows, aggregates, up, ingest, dirty, aggregation, missed, faults>>

\* pruneAggregates: the cutoff is taken afresh, once for the two statements.
pruneDaily ==
    /\ cleanup.pc = "prune"
    /\ daily' = [t \in Task |-> IF t[2] < cutoffDay THEN {} ELSE daily[t]]
    /\ cleanup' = Cleaning("pruneRegional", 0, cutoffDay)
    /\ UNCHANGED <<queueVars, rows, regional, up, ingest, dirty, aggregation, missed, faults>>

pruneRegional ==
    /\ cleanup.pc = "pruneRegional"
    /\ regional' = [t \in Task |-> IF t[2] < cleanup.cutoff THEN [r \in Regions |-> {}]
                                   ELSE regional[t]]
    /\ cleanup' = Cleaning("idle", 0, 0)
    /\ UNCHANGED <<queueVars, rows, daily, up, ingest, dirty, aggregation, missed, faults>>

\* A statement fails: the pass ends, the next one starts over.
CleanupFails ==
    /\ Fault
    /\ cleanup.pc # "idle"
    /\ cleanup' = Cleaning("idle", 0, 0)
    /\ UNCHANGED <<queueVars, rows, aggregates, up, ingest, dirty, aggregation, missed>>

-----------------------------------------------------------------------------
IngestLoop ==
    \/ \E row \in pending : ingestMonitorHistorical(row)
    \/ enqueueAggregationTask

AggregationLoop ==
    \/ seedRecentAggregationTasks
    \/ drainAggregationTasks
    \/ \E task \in aggregation.batch : SkipRemoved(task) \/ UpsertDaily(task)
    \/ UpsertRegional

CleanupLoop ==
    \/ StartCleanup
    \/ deleteDayRange
    \/ pruneDaily
    \/ pruneRegional

Failures ==
    \/ \E row \in accepted : Redeliver(row)
    \/ Crash
    \/ \E row \in pending : InsertFails(row)
    \/ SeedFails
    \/ \E task \in Task : UpsertFails(task)
    \/ CleanupFails

Environment ==
    \/ Tick
    \/ \E row \in Submissions : CheckerSubmission(row)
    \/ Restart

Next == IngestLoop \/ AggregationLoop \/ CleanupLoop \/ Failures \/ Environment

Spec == Init /\ [][Next]_vars

\* Each of the three goroutines is scheduled, and the tickers of the aggregation
\* and of the cleanup go on firing.
FairSpec ==
    Spec /\ WF_vars(IngestLoop) /\ WF_vars(AggregationLoop) /\ WF_vars(CleanupLoop)
-----------------------------------------------------------------------------
\* The tables and the three loops hold what they may; only tasks of configured
\* monitors ever get to the upserts.
TypeOK ==
    /\ today \in Days /\ hour \in TimesOfDay
    /\ accepted \subseteq Row /\ pending \subseteq Row /\ rows \subseteq Row
    /\ daily \in [Task -> SUBSET Row]
    /\ regional \in [Task -> [Regions -> SUBSET Row]]
    /\ up \in BOOLEAN /\ missed \in BOOLEAN /\ faults \in Nat
    /\ ingest \subseteq Row
    /\ dirty \subseteq Task
    /\ aggregation \in [pc : {"seed", "idle", "next", "region"},
                        batch : SUBSET Task, task : Task \cup {NoTask}]
    /\ aggregation.pc = "region" => aggregation.task \in Monitors \X Days
    /\ cleanup \in [pc : {"idle", "delete", "prune", "pruneRegional"}, day : Int, cutoff : Int]

\* The days that neither the cleanup nor the seed lookback may cut short.
Retained(d) == d > cutoffDay

Inserted == {<<row.monitor, row.day>> : row \in ingest}

Outstanding == dirty \cup aggregation.batch \cup {aggregation.task} \cup Inserted

Fresh(t) ==
    /\ daily[t] = RowsOf(t[1], t[2])
    /\ \A r \in Regions : regional[t][r] = {row \in RowsOf(t[1], t[2]) : row.region = r}

\* Both aggregates of a retained day cover exactly its rows, unless a task for
\* it is outstanding: no insert, failed upsert, crash, late row or concurrent
\* cleanup pass leaves an aggregate behind that nobody will correct.  A start
\* whose seed query fails is the exception the code accepts.
AggregatesFresh ==
    up /\ ~missed /\ aggregation.pc # "seed" =>
        \A t \in Monitors \X Days : Retained(t[2]) /\ t \notin Outstanding => Fresh(t)

\* An accepted submission is stored, or still owed, until its day expires:
\* failed inserts are retried, crashes redeliver, and the cleanup keeps the day
\* that contains the cutoff.
SubmissionsKept ==
    Nackable /\ DurableQueue =>
        \A row \in accepted : row \in rows \cup pending \cup ingest \/ row.day < cutoffDay

\* What the retention policy no longer covers eventually goes, rows and both
\* kinds of aggregates, although late rows and late aggregations bring some back.
RetentionEnforced ==
    <>[](up => /\ \A row \in rows : row.day >= cutoffDay
               /\ \A t \in Task : t[2] < cutoffDay =>
                        daily[t] = {} /\ \A r \in Regions : regional[t][r] = {})

\* The dirty tasks are eventually worked off, those of removed monitors included.
AggregationCatchesUp == <>[](up => dirty = {} /\ aggregation.pc = "idle")
=============================================================================
