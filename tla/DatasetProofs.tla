--------------------------- MODULE DatasetProofs ----------------------------
(***************************************************************************)
(* Proofs about Dataset for every set of monitors and regions, every       *)
(* retention and batch size and every queue driver.                        *)
(***************************************************************************)
EXTENDS Dataset, WellFoundedInduction, TLAPS

USE DEF queueVars, aggregates

\* A non-empty set of naturals has a minimum, and Min picks it.
LEMMA MinOfNaturals ==
    ASSUME NEW S \in SUBSET Nat, S # {}
    PROVE  Min(S) \in S /\ \A x \in S : Min(S) <= x
<1> DEFINE Less == OpToRel(<, Nat)
<1>1. PICK x \in S : \A y \in S : ~ (<<y, x>> \in Less)
  <2>1. IsWellFoundedOn(Less, Nat)
    BY NatLessThanWellFounded
  <2> HIDE DEF Less
  <2> QED
    BY <2>1, WFMin
<1>2. \A y \in S : x <= y
  <2>1. \A u, v \in Nat : u < v => <<u, v>> \in Less
    BY DEF OpToRel
  <2> HIDE DEF Less
  <2>2. \A y \in S : y \in Nat /\ x \in Nat /\ ~ (y < x)
    BY <1>1, <2>1
  <2> QED
    BY <2>2
<1> QED
  BY <1>2 DEF Min

CleanupState == [pc : {"idle", "delete", "prune", "pruneRegional"}, day : Int, cutoff : Int]

\* A row names a task.
LEMMA TaskOfRow ==
    ASSUME NEW S \in SUBSET Row
    PROVE  {<<row.monitor, row.day>> : row \in S} \subseteq Task
BY DEF Row, Task

\* Where the loop over expired days goes on is a well-formed state of the
\* cleanup, and it deletes only days before the cutoff.
LEMMA DeleteFromType ==
    ASSUME NEW day \in Int, NEW cutoff \in Int
    PROVE  /\ DeleteFrom(day, cutoff) \in CleanupState
           /\ DeleteFrom(day, cutoff).pc \in {"delete", "prune"}
           /\ DeleteFrom(day, cutoff).pc = "delete" =>
                    /\ DeleteFrom(day, cutoff).day < DeleteFrom(day, cutoff).cutoff
                    /\ DeleteFrom(day, cutoff).cutoff = cutoff
BY DEF DeleteFrom, Cleaning, CleanupState

\* What is left of a batch is a well-formed state of the aggregation.
LEMMA RemainingType ==
    ASSUME NEW batch \in SUBSET Task
    PROVE  /\ Remaining(batch) \in [pc : {"idle", "next"}, batch : SUBSET Task, task : {NoTask}]
           /\ Remaining(batch).batch = batch
           /\ Remaining(batch).pc = "idle" => batch = {}
BY DEF Remaining, Aggregating

\* The first expired day is a day.
LEMMA FirstExpiredDay ==
    ASSUME NEW old \in SUBSET Row, old # {}
    PROVE  Min({row.day : row \in old}) \in Days
<1>1. {row.day : row \in old} \in SUBSET Nat /\ {row.day : row \in old} # {}
  BY DatasetAssumption DEF Row, Days
<1>2. Min({row.day : row \in old}) \in {row.day : row \in old}
  BY <1>1, MinOfNaturals
<1> QED
  BY <1>2 DEF Row

(***************************************************************************)
(* Type correctness.                                                       *)
(***************************************************************************)
LEMMA InitTypeOK == Init => TypeOK
<1> SUFFICES ASSUME Init PROVE TypeOK
  OBVIOUS
<1>1. today \in Days
  BY DatasetAssumption DEF Init, Days
<1>2. daily \in [Task -> SUBSET Row] /\ regional \in [Task -> [Regions -> SUBSET Row]]
  BY DEF Init
<1>3. /\ aggregation \in [pc : {"seed"}, batch : SUBSET Task, task : {NoTask}]
      /\ cleanup \in [pc : {"idle"}, day : Int, cutoff : Int]
  BY DEF Init, Aggregating, Cleaning
<1> QED
  BY <1>1, <1>2, <1>3 DEF Init, TypeOK

LEMMA IngestTypeOK == TypeOK /\ IngestLoop => TypeOK'
<1> SUFFICES ASSUME TypeOK, IngestLoop PROVE TypeOK'
  OBVIOUS
<1>1. ASSUME NEW row \in pending, ingestMonitorHistorical(row) PROVE TypeOK'
  BY <1>1 DEF ingestMonitorHistorical, TypeOK
<1>2. CASE enqueueAggregationTask
  <2>1. {<<row.monitor, row.day>> : row \in ingest} \subseteq Task
    BY TaskOfRow DEF TypeOK
  <2> QED
    BY <1>2, <2>1 DEF enqueueAggregationTask, TypeOK
<1> QED
  BY <1>1, <1>2 DEF IngestLoop

LEMMA AggregationTypeOK == TypeOK /\ AggregationLoop => TypeOK'
<1> SUFFICES ASSUME TypeOK, AggregationLoop PROVE TypeOK'
  OBVIOUS
<1>1. CASE seedRecentAggregationTasks
  <2> DEFINE seeded == {r \in rows : \/ r.day > today - aggregationSeedLookback
                                     \/ /\ r.day = today - aggregationSeedLookback
                                        /\ r.time >= hour}
  <2>1. seeded \in SUBSET Row
    BY DEF TypeOK
  <2> HIDE DEF seeded
  <2>2. {<<row.monitor, row.day>> : row \in seeded} \subseteq Task
    BY <2>1, TaskOfRow
  <2>3. dirty' = dirty \cup {<<row.monitor, row.day>> : row \in seeded}
    BY <1>1 DEF seedRecentAggregationTasks, seeded
  <2> QED
    BY <1>1, <2>2, <2>3 DEF seedRecentAggregationTasks, TypeOK, Aggregating
<1>2. CASE drainAggregationTasks
  BY <1>2 DEF drainAggregationTasks, TypeOK, Aggregating
<1>3. ASSUME NEW task \in aggregation.batch, SkipRemoved(task) PROVE TypeOK'
  <2>1. aggregation.batch \ {task} \in SUBSET Task
    BY DEF TypeOK
  <2> QED
    BY <1>3, <2>1, RemainingType DEF SkipRemoved, TypeOK
<1>4. ASSUME NEW task \in aggregation.batch, UpsertDaily(task) PROVE TypeOK'
  <2>1. RowsOf(task[1], task[2]) \in SUBSET Row /\ task \in Task
    BY DEF TypeOK, RowsOf
  <2>2. task \in Monitors \X Days
    BY <1>4, <2>1 DEF UpsertDaily, Task
  <2>3. daily' \in [Task -> SUBSET Row]
    BY <1>4, <2>1 DEF UpsertDaily, TypeOK
  <2> QED
    BY <1>4, <2>1, <2>2, <2>3 DEF UpsertDaily, TypeOK, Aggregating
<1>5. CASE UpsertRegional
  <2> DEFINE task == aggregation.task
             found(r) == {row \in RowsOf(task[1], task[2]) : row.region = r}
  <2>1. task \in Task
    BY <1>5 DEF UpsertRegional, TypeOK, Task, MonitorIDs
  <2>2. \A r \in Regions : found(r) \in SUBSET Row
    BY DEF TypeOK, RowsOf
  <2>3. regional' = [regional EXCEPT ![task] =
                        [r \in Regions |-> IF found(r) = {} THEN regional[task][r] ELSE found(r)]]
    BY <1>5, <2>1 DEF UpsertRegional, TypeOK
  <2> HIDE DEF found, task
  <2>4. regional' \in [Task -> [Regions -> SUBSET Row]]
    BY <2>1, <2>2, <2>3 DEF TypeOK
  <2>5. aggregation.batch \in SUBSET Task
    BY DEF TypeOK
  <2> QED
    BY <1>5, <2>4, <2>5, RemainingType DEF UpsertRegional, TypeOK
<1> QED
  BY <1>1, <1>2, <1>3, <1>4, <1>5 DEF AggregationLoop

LEMMA CleanupTypeOK == TypeOK /\ CleanupLoop => TypeOK'
<1> SUFFICES ASSUME TypeOK, CleanupLoop PROVE TypeOK'
  OBVIOUS
<1>1. cutoffDay \in Int
  BY DatasetAssumption DEF TypeOK, cutoffDay, Days
<1>2. CASE StartCleanup
  <2> DEFINE old == {row \in rows : row.day < cutoffDay \/ (row.day = cutoffDay /\ row.time < hour)}
  <2>1. cleanup' = IF old = {} THEN Cleaning("prune", 0, 0)
                   ELSE DeleteFrom(Min({row.day : row \in old}), cutoffDay)
    BY <1>2 DEF StartCleanup
  <2>2. old \in SUBSET Row
    BY DEF TypeOK
  <2> HIDE DEF old
  <2>3. old # {} => Min({row.day : row \in old}) \in Int
    BY <2>2, FirstExpiredDay DEF Days
  <2>4. Cleaning("prune", 0, 0) \in CleanupState
    BY DEF Cleaning, CleanupState
  <2>5. cleanup' \in CleanupState
    BY <1>1, <2>1, <2>3, <2>4, DeleteFromType
  <2>6. UNCHANGED <<queueVars, rows, aggregates, up, ingest, dirty, aggregation, missed, faults>>
    BY <1>2 DEF StartCleanup
  <2> QED
    BY <2>5, <2>6 DEF TypeOK, CleanupState
<1>3. CASE deleteDayRange
  <2>1. cleanup.day + 1 \in Int /\ cleanup.cutoff \in Int
    BY DEF TypeOK
  <2>2. \/ cleanup' = DeleteFrom(cleanup.day + 1, cleanup.cutoff)
        \/ cleanup' = cleanup
    BY <1>3 DEF deleteDayRange
  <2>3. rows' \subseteq Row
    BY <1>3 DEF deleteDayRange, TypeOK
  <2>4. cleanup' \in CleanupState
    <3>1. cleanup \in CleanupState
      BY DEF TypeOK, CleanupState
    <3> QED
      BY <2>1, <2>2, <3>1, DeleteFromType
  <2>5. UNCHANGED <<queueVars, aggregates, up, ingest, dirty, aggregation, missed, faults>>
    BY <1>3 DEF deleteDayRange
  <2> QED
    BY <2>3, <2>4, <2>5 DEF TypeOK, CleanupState
<1>4. CASE pruneDaily
  BY <1>1, <1>4 DEF pruneDaily, TypeOK, Cleaning
<1>5. CASE pruneRegional
  BY <1>5 DEF pruneRegional, TypeOK, Cleaning
<1> QED
  BY <1>2, <1>3, <1>4, <1>5 DEF CleanupLoop

LEMMA FailuresTypeOK == TypeOK /\ Failures => TypeOK'
<1> SUFFICES ASSUME TypeOK, Failures PROVE TypeOK'
  OBVIOUS
<1>1. ASSUME NEW row \in accepted, Redeliver(row) PROVE TypeOK'
  BY <1>1 DEF Redeliver, Fault, TypeOK
<1>2. CASE Crash
  <2>1. cleanup' \in CleanupState
    BY <1>2 DEF Crash, Cleaning, CleanupState
  <2>2. /\ aggregation' \in [pc : {"seed", "idle", "next", "region"},
                             batch : SUBSET Task, task : Task \cup {NoTask}]
        /\ aggregation'.pc # "region"
    BY <1>2 DEF Crash, Aggregating
  <2>3. pending' \subseteq Row
    BY <1>2 DEF Crash, TypeOK
  <2>4. /\ UNCHANGED <<today, hour, accepted, rows, aggregates, missed>>
        /\ faults' \in Nat /\ ingest' \subseteq Row /\ dirty' \subseteq Task
    BY <1>2 DEF Crash, Fault, TypeOK
  <2>5. up' \in BOOLEAN
    BY <1>2, Zenon DEF Crash
  <2> QED
    BY <2>1, <2>2, <2>3, <2>4, <2>5 DEF TypeOK, CleanupState
<1>3. ASSUME NEW row \in pending, InsertFails(row) PROVE TypeOK'
  BY <1>3 DEF InsertFails, Fault, TypeOK
<1>4. CASE SeedFails
  BY <1>4 DEF SeedFails, Fault, TypeOK, Aggregating
<1>5. ASSUME NEW task \in Task, UpsertFails(task) PROVE TypeOK'
  <2>1. aggregation.batch \ {task} \in SUBSET Task
    BY DEF TypeOK
  <2> QED
    BY <1>5, <2>1, RemainingType DEF UpsertFails, Fault, TypeOK
<1>6. CASE CleanupFails
  BY <1>6 DEF CleanupFails, Fault, TypeOK, Cleaning
<1> QED
  BY <1>1, <1>2, <1>3, <1>4, <1>5, <1>6 DEF Failures

LEMMA EnvironmentTypeOK == TypeOK /\ Environment => TypeOK'
<1> SUFFICES ASSUME TypeOK, Environment PROVE TypeOK'
  OBVIOUS
<1>1. CASE Tick
  <2>1. Min(TimesOfDay) \in TimesOfDay
    BY DatasetAssumption, MinOfNaturals DEF TypeOK
  <2>2. today' \in Days /\ hour' \in TimesOfDay
    BY <1>1, <2>1, DatasetAssumption DEF Tick, TypeOK, Days
  <2> QED
    BY <1>1, <2>2 DEF Tick, TypeOK
<1>2. ASSUME NEW row \in Submissions, CheckerSubmission(row) PROVE TypeOK'
  BY <1>2, DatasetAssumption DEF CheckerSubmission, TypeOK
<1>3. CASE Restart
  BY <1>3 DEF Restart, TypeOK
<1> QED
  BY <1>1, <1>2, <1>3 DEF Environment

\* The tables and the three loops hold what they may, whatever the ingest,
\* aggregation and cleanup goroutines interleave and whichever step fails.
THEOREM TypeCorrect == Spec => []TypeOK
<1>1. TypeOK /\ [Next]_vars => TypeOK'
  <2>1. TypeOK /\ UNCHANGED vars => TypeOK'
    BY DEF TypeOK, vars
  <2> QED
    BY <2>1, IngestTypeOK, AggregationTypeOK, CleanupTypeOK, FailuresTypeOK,
       EnvironmentTypeOK DEF Next
<1> QED
  BY <1>1, InitTypeOK, PTL DEF Spec

(***************************************************************************)
(* What no step does: turn the clock back, or delete a row of a day that   *)
(* has not expired.  The cleanup's cutoff is taken once per pass and the   *)
(* day grows while it runs, so the cutoff in hand is never too late.       *)
(***************************************************************************)
CleanupBounded ==
    /\ cleanup.pc = "delete" => cleanup.day < cleanup.cutoff
    /\ cleanup.pc \in {"delete", "pruneRegional"} => cleanup.cutoff <= cutoffDay

\* The clock only goes forward, and with it the first day that is retained.
LEMMA ClockForward ==
    ASSUME TypeOK, TypeOK', [Next]_vars
    PROVE  cutoffDay \in Int /\ cutoffDay' \in Int /\ cutoffDay <= cutoffDay'
<1>1. today \in Int /\ today' \in Int
  BY DEF TypeOK, Days
<1>2. today' = today \/ today' = today + 1
  BY DEF Next, IngestLoop, ingestMonitorHistorical, enqueueAggregationTask, AggregationLoop,
         seedRecentAggregationTasks, drainAggregationTasks, SkipRemoved, UpsertDaily,
         UpsertRegional, CleanupLoop, StartCleanup, deleteDayRange, pruneDaily, pruneRegional,
         Failures, Redeliver, Crash, InsertFails, SeedFails, UpsertFails, CleanupFails,
         Environment, Tick, CheckerSubmission, Restart, vars
<1>3. RetentionDays \in Int
  BY DatasetAssumption
<1>4. cutoffDay = today - RetentionDays /\ cutoffDay' = today' - RetentionDays
  BY DEF cutoffDay
<1>5. \A a, b, c \in Int : b = a \/ b = a + 1 =>
            a - c \in Int /\ b - c \in Int /\ a - c <= b - c
  OBVIOUS
<1> QED
  BY <1>1, <1>2, <1>3, <1>4, <1>5

\* A step that is not the cleanup loop's leaves the loop alone or stops it.
LEMMA CleanupUntouched ==
    ASSUME [Next]_vars, ~CleanupLoop
    PROVE  cleanup' = cleanup \/ cleanup' = Cleaning("idle", 0, 0)
BY DEF Next, IngestLoop, ingestMonitorHistorical, enqueueAggregationTask, AggregationLoop,
       seedRecentAggregationTasks, drainAggregationTasks, SkipRemoved, UpsertDaily,
       UpsertRegional, Failures, Redeliver, Crash, InsertFails, SeedFails, UpsertFails,
       CleanupFails, Environment, Tick, CheckerSubmission, Restart, vars

\* A step that is not the cleanup's keeps every row.
LEMMA RowsUntouched ==
    ASSUME [Next]_vars, ~deleteDayRange
    PROVE  rows \subseteq rows'
BY DEF Next, IngestLoop, ingestMonitorHistorical, enqueueAggregationTask, AggregationLoop,
       seedRecentAggregationTasks, drainAggregationTasks, SkipRemoved, UpsertDaily,
       UpsertRegional, CleanupLoop, StartCleanup, pruneDaily, pruneRegional,
       Failures, Redeliver, Crash, InsertFails, SeedFails, UpsertFails, CleanupFails,
       Environment, Tick, CheckerSubmission, Restart, vars

\* The cutoff in the hands of the cleanup stays bounded by the day's own.
LEMMA CleanupBoundedStep ==
    ASSUME TypeOK, TypeOK', CleanupBounded, [Next]_vars
    PROVE  CleanupBounded'
<1>1. cutoffDay \in Int /\ cutoffDay' \in Int /\ cutoffDay <= cutoffDay'
  BY ClockForward
<1>2. cleanup.day \in Int /\ cleanup.cutoff \in Int /\ cleanup'.cutoff \in Int
  BY DEF TypeOK
<1>3. CASE ~CleanupLoop
  <2>1. cleanup' = cleanup \/ cleanup' = Cleaning("idle", 0, 0)
    BY <1>3, CleanupUntouched
  <2> QED
    BY <1>1, <1>2, <2>1 DEF CleanupBounded, Cleaning
<1>4. CASE StartCleanup
  <2> DEFINE old == {row \in rows : row.day < cutoffDay \/ (row.day = cutoffDay /\ row.time < hour)}
             first == Min({row.day : row \in old})
  <2>1. old \in SUBSET Row
    BY DEF TypeOK
  <2>2. cleanup' = IF old = {} THEN Cleaning("prune", 0, 0) ELSE DeleteFrom(first, cutoffDay)
    BY <1>4 DEF StartCleanup
  <2> HIDE DEF old
  <2>3. old # {} => first \in Int
    BY <2>1, FirstExpiredDay DEF Days
  <2> HIDE DEF first
  <2>4. CASE old = {}
    BY <2>2, <2>4 DEF CleanupBounded, Cleaning
  <2>5. CASE old # {}
    <3>1. cleanup' = DeleteFrom(first, cutoffDay)
      BY <2>2, <2>5
    <3> QED
      BY <1>1, <2>3, <2>5, <3>1, DeleteFromType DEF CleanupBounded
  <2> QED
    BY <2>4, <2>5
<1>5. CASE deleteDayRange
  <2>1. \/ cleanup' = DeleteFrom(cleanup.day + 1, cleanup.cutoff)
        \/ cleanup' = cleanup
    BY <1>5 DEF deleteDayRange
  <2>2. cleanup.pc = "delete"
    BY <1>5 DEF deleteDayRange
  <2>3. CASE cleanup' = DeleteFrom(cleanup.day + 1, cleanup.cutoff)
    BY <1>1, <1>2, <2>2, <2>3, DeleteFromType DEF CleanupBounded
  <2> QED
    BY <1>1, <1>2, <2>1, <2>3 DEF CleanupBounded
<1>6. CASE pruneDaily \/ pruneRegional
  BY <1>1, <1>6 DEF pruneDaily, pruneRegional, Cleaning, CleanupBounded
<1> QED
  BY <1>3, <1>4, <1>5, <1>6 DEF CleanupLoop

\* A row that a step removes is of a day that has expired.
LEMMA OnlyExpiredDeleted ==
    ASSUME TypeOK, CleanupBounded, [Next]_vars, NEW row \in rows, row \notin rows'
    PROVE  row.day < cutoffDay
<1>1. deleteDayRange
  BY RowsUntouched
<1>2. cleanup.pc = "delete" /\ row.day = cleanup.day
  BY <1>1 DEF deleteDayRange
<1>3. cleanup.day \in Int /\ cleanup.cutoff \in Int /\ cutoffDay \in Int
  BY DatasetAssumption DEF TypeOK, cutoffDay, Days
<1> QED
  BY <1>2, <1>3 DEF CleanupBounded

(***************************************************************************)
(* Submissions.  The row in hand of the ingest loop is stored already,     *)
(* unless the cleanup was quicker.                                         *)
(***************************************************************************)
InHandIsStored == \A row \in ingest : row \in rows \/ row.day < cutoffDay

KeptInv == TypeOK /\ CleanupBounded /\ InHandIsStored /\ SubmissionsKept

\* A step keeps what was accepted, and what is in hand, where it is to be found.
LEMMA KeptStep ==
    ASSUME KeptInv, TypeOK', CleanupBounded', [Next]_vars
    PROVE  InHandIsStored' /\ SubmissionsKept'
<1> USE DEF KeptInv
<1>1. cutoffDay \in Int /\ cutoffDay' \in Int /\ cutoffDay <= cutoffDay'
  BY ClockForward
<1>2. \A row \in rows : row \in rows' \/ row.day < cutoffDay
  BY OnlyExpiredDeleted
<1>3. \A row \in accepted \cup ingest \cup rows : row.day \in Int
  BY DEF TypeOK, Row, Days
<1>4. \A row \in accepted \cup ingest \cup rows : row.day < cutoffDay => row.day < cutoffDay'
  BY <1>1, <1>3
<1>5. CASE UNCHANGED <<accepted, pending, ingest>>
  <2>1. InHandIsStored'
    BY <1>2, <1>4, <1>5 DEF InHandIsStored
  <2>2. SubmissionsKept'
    BY <1>2, <1>4, <1>5 DEF SubmissionsKept
  <2> QED
    BY <2>1, <2>2
<1>6. ASSUME NEW row \in pending, ingestMonitorHistorical(row) PROVE InHandIsStored' /\ SubmissionsKept'
  BY <1>6, <1>4 DEF ingestMonitorHistorical, InHandIsStored, SubmissionsKept, cutoffDay
<1>7. CASE enqueueAggregationTask
  BY <1>7, <1>4 DEF enqueueAggregationTask, InHandIsStored, SubmissionsKept, cutoffDay
<1>8. ASSUME NEW row \in Submissions, CheckerSubmission(row) PROVE InHandIsStored' /\ SubmissionsKept'
  BY <1>8, <1>4 DEF CheckerSubmission, InHandIsStored, SubmissionsKept, cutoffDay
<1>9. ASSUME NEW row \in accepted, Redeliver(row) PROVE InHandIsStored' /\ SubmissionsKept'
  BY <1>9, <1>4 DEF Redeliver, InHandIsStored, SubmissionsKept, cutoffDay
<1>10. CASE Crash
  BY <1>10, <1>4 DEF Crash, InHandIsStored, SubmissionsKept, cutoffDay
<1>11. ASSUME NEW row \in pending, InsertFails(row) PROVE InHandIsStored' /\ SubmissionsKept'
  BY <1>11, <1>4 DEF InsertFails, InHandIsStored, SubmissionsKept, cutoffDay
<1>12. AggregationLoop \/ CleanupLoop \/ UNCHANGED vars => UNCHANGED <<accepted, pending, ingest>>
  BY DEF AggregationLoop, seedRecentAggregationTasks, drainAggregationTasks, SkipRemoved,
         UpsertDaily, UpsertRegional, CleanupLoop, StartCleanup, deleteDayRange, pruneDaily,
         pruneRegional, vars
<1>13. Tick \/ Restart \/ SeedFails \/ CleanupFails \/ (\E task \in Task : UpsertFails(task))
            => UNCHANGED <<accepted, pending, ingest>>
  BY DEF Tick, Restart, SeedFails, CleanupFails, UpsertFails
<1> QED
  BY <1>5, <1>6, <1>7, <1>8, <1>9, <1>10, <1>11, <1>12, <1>13
     DEF Next, IngestLoop, Failures, Environment

\* Every submission the server accepted is stored or still owed until its day
\* expires, where the queue is durable and can give a message back: failed
\* inserts, redeliveries, crashes between insert and ack, and the cleanup that
\* runs beside the ingest loop lose none.
THEOREM SubmissionsAreKept == Spec => []SubmissionsKept
<1>1. Init => KeptInv
  <2> SUFFICES ASSUME Init PROVE KeptInv
    OBVIOUS
  <2>1. CleanupBounded
    BY DEF Init, CleanupBounded, Cleaning
  <2> QED
    BY <2>1, InitTypeOK DEF Init, KeptInv, InHandIsStored, SubmissionsKept
<1>2. KeptInv /\ TypeOK' /\ [Next]_vars => KeptInv'
  BY KeptStep, CleanupBoundedStep DEF KeptInv
<1>3. KeptInv => SubmissionsKept
  BY DEF KeptInv
<1> QED
  BY <1>1, <1>2, <1>3, TypeCorrect, PTL DEF Spec

(***************************************************************************)
(* Aggregates.  Beside freshness itself one needs: what the aggregation    *)
(* loop holds at each of its steps, that no aggregate of a retained day    *)
(* covers a row that is not there (so that the upsert of a day without     *)
(* rows, which writes nothing, leaves nothing wrong), and that between the *)
(* two upserts of a task the first is right unless the task is queued.     *)
(***************************************************************************)
AggregationShape ==
    /\ ~up => aggregation.pc = "seed"
    /\ aggregation.pc \in {"seed", "idle"} => aggregation.batch = {}
    /\ aggregation.pc # "region" => aggregation.task = NoTask

InRegion(t, r) == {row \in RowsOf(t[1], t[2]) : row.region = r}

NothingInvented ==
    \A t \in Task : Retained(t[2]) =>
        /\ daily[t] \subseteq RowsOf(t[1], t[2])
        /\ \A r \in Regions : regional[t][r] \subseteq InRegion(t, r)

Queued == dirty \cup aggregation.batch \cup Inserted

DailyWritten ==
    LET t == aggregation.task
    IN  aggregation.pc = "region" /\ Retained(t[2]) /\ t \notin Queued =>
            daily[t] = RowsOf(t[1], t[2])

FreshInv ==
    /\ TypeOK /\ CleanupBounded
    /\ AggregationShape /\ NothingInvented /\ DailyWritten /\ AggregatesFresh

\* The initial state is fresh: there is nothing to aggregate.
LEMMA InitFresh == Init => FreshInv
<1> SUFFICES ASSUME Init PROVE FreshInv
  OBVIOUS
<1>1. CleanupBounded /\ AggregationShape
  BY DEF Init, CleanupBounded, AggregationShape, Cleaning, Aggregating
<1>2. NothingInvented
  BY DEF Init, NothingInvented
<1>3. DailyWritten /\ AggregatesFresh
  BY DEF Init, DailyWritten, AggregatesFresh, Aggregating
<1> QED
  BY <1>1, <1>2, <1>3, InitTypeOK DEF FreshInv

\* A row appears only in the hands of the ingest loop.
LEMMA NewRowsInHand ==
    ASSUME [Next]_vars, NEW row \in rows', row \notin rows
    PROVE  row \in ingest'
BY DEF Next, IngestLoop, ingestMonitorHistorical, enqueueAggregationTask, AggregationLoop,
       seedRecentAggregationTasks, drainAggregationTasks, SkipRemoved, UpsertDaily,
       UpsertRegional, CleanupLoop, StartCleanup, deleteDayRange, pruneDaily, pruneRegional,
       Failures, Redeliver, Crash, InsertFails, SeedFails, UpsertFails, CleanupFails,
       Environment, Tick, CheckerSubmission, Restart, vars

\* The rows of a day that is retained after a step: none is lost, and a new one
\* is in the hands of the ingest loop.
LEMMA RetainedRows ==
    ASSUME TypeOK, TypeOK', CleanupBounded, [Next]_vars, NEW t \in Task, t[2] > cutoffDay'
    PROVE  /\ t[2] > cutoffDay
           /\ RowsOf(t[1], t[2]) \subseteq RowsOf(t[1], t[2])'
           /\ \A r \in Regions : InRegion(t, r) \subseteq InRegion(t, r)'
           /\ t \notin Inserted' => RowsOf(t[1], t[2])' = RowsOf(t[1], t[2])
<1>1. cutoffDay \in Int /\ cutoffDay' \in Int /\ cutoffDay <= cutoffDay' /\ t[2] \in Int
  BY ClockForward DEF Task, Days
<1>2. t[2] > cutoffDay /\ ~(t[2] < cutoffDay)
  BY <1>1
<1>3. \A row \in rows : row.day = t[2] => row \in rows'
  BY <1>2, OnlyExpiredDeleted
<1>4. RowsOf(t[1], t[2]) \subseteq RowsOf(t[1], t[2])'
  BY <1>3 DEF RowsOf
<1>5. \A r \in Regions : InRegion(t, r) \subseteq InRegion(t, r)'
  BY <1>4 DEF InRegion
<1>6. ASSUME t \notin Inserted' PROVE RowsOf(t[1], t[2])' \subseteq RowsOf(t[1], t[2])
  <2> SUFFICES ASSUME NEW row \in rows', row.monitor = t[1], row.day = t[2], row \notin rows
               PROVE  FALSE
    BY DEF RowsOf
  <2>1. row \in ingest'
    BY NewRowsInHand
  <2>2. t = <<row.monitor, row.day>>
    BY DEF Task
  <2> QED
    BY <1>6, <2>1, <2>2 DEF Inserted
<1> QED
  BY <1>2, <1>4, <1>5, <1>6

(***************************************************************************)
(* Most steps leave the aggregation loop and the aggregates of retained    *)
(* days alone and unqueue nothing: for these the invariant carries over.   *)
(***************************************************************************)
Undisturbed ==
    /\ UNCHANGED <<aggregation, up, missed>>
    /\ dirty \cup Inserted \subseteq dirty' \cup Inserted'
    /\ \A t \in Task : t[2] > cutoffDay' => daily'[t] = daily[t] /\ regional'[t] = regional[t]

\* Freshness carries over such a step.
LEMMA UndisturbedFresh ==
    ASSUME FreshInv, TypeOK', [Next]_vars, Undisturbed
    PROVE  AggregationShape' /\ NothingInvented' /\ DailyWritten' /\ AggregatesFresh'
<1> USE DEF FreshInv
<1>1. \A t \in Task : t[2] > cutoffDay' =>
           /\ t[2] > cutoffDay
           /\ RowsOf(t[1], t[2]) \subseteq RowsOf(t[1], t[2])'
           /\ \A r \in Regions : InRegion(t, r) \subseteq InRegion(t, r)'
           /\ t \notin Inserted' => RowsOf(t[1], t[2])' = RowsOf(t[1], t[2])
  BY RetainedRows
<1>2. AggregationShape'
  BY DEF Undisturbed, AggregationShape
<1>3. NothingInvented'
  <2> SUFFICES ASSUME NEW t \in Task, t[2] > cutoffDay'
               PROVE  /\ daily'[t] \subseteq RowsOf(t[1], t[2])'
                      /\ \A r \in Regions : regional'[t][r] \subseteq InRegion(t, r)'
    BY DEF NothingInvented, Retained
  <2>1. daily'[t] = daily[t] /\ regional'[t] = regional[t]
    BY DEF Undisturbed
  <2>2. /\ daily[t] \subseteq RowsOf(t[1], t[2])
        /\ \A r \in Regions : regional[t][r] \subseteq InRegion(t, r)
    BY <1>1 DEF NothingInvented, Retained
  <2> QED
    BY <1>1, <2>1, <2>2
<1>4. Queued \subseteq Queued' /\ Outstanding \subseteq Outstanding' /\ Inserted' \subseteq Queued'
  BY DEF Undisturbed, Queued, Outstanding
<1>5. DailyWritten'
  <2>1. aggregation' = aggregation
    BY DEF Undisturbed
  <2>2. aggregation.pc = "region" => aggregation.task \in Task
    BY DEF TypeOK, Task, MonitorIDs
  <2> SUFFICES ASSUME NEW t \in Task, t = aggregation.task, aggregation.pc = "region",
                      t[2] > cutoffDay', t \notin Queued'
               PROVE  daily'[t] = RowsOf(t[1], t[2])'
    BY <2>1, <2>2 DEF DailyWritten, Retained, RowsOf
  <2>3. daily[t] = RowsOf(t[1], t[2])
    BY <1>1, <1>4 DEF DailyWritten, Retained
  <2>4. RowsOf(t[1], t[2])' = RowsOf(t[1], t[2]) /\ daily'[t] = daily[t]
    BY <1>1, <1>4 DEF Undisturbed
  <2> QED
    BY <2>3, <2>4
<1>6. AggregatesFresh'
  <2> SUFFICES ASSUME up, ~missed, aggregation.pc # "seed",
                      NEW t \in Monitors \X Days, t[2] > cutoffDay', t \notin Outstanding'
               PROVE  Fresh(t)'
    BY DEF AggregatesFresh, Retained, Undisturbed
  <2>1. t \in Task /\ t \notin Outstanding /\ t \notin Inserted'
    BY <1>4 DEF Task, MonitorIDs, Outstanding
  <2>2. Fresh(t)
    BY <1>1, <2>1 DEF AggregatesFresh, Retained
  <2>3. RowsOf(t[1], t[2])' = RowsOf(t[1], t[2]) /\ daily'[t] = daily[t] /\ regional'[t] = regional[t]
    BY <1>1, <2>1 DEF Undisturbed
  <2> QED
    BY <2>2, <2>3 DEF Fresh
<1> QED
  BY <1>2, <1>3, <1>5, <1>6

\* Ingesting, cleaning up, failing to and the clock are such steps.
LEMMA UndisturbedSteps ==
    ASSUME FreshInv, TypeOK', [Next]_vars,
           \/ IngestLoop \/ CleanupLoop
           \/ \E row \in accepted : Redeliver(row)
           \/ \E row \in pending : InsertFails(row)
           \/ CleanupFails
           \/ Tick
           \/ \E row \in Submissions : CheckerSubmission(row)
           \/ UNCHANGED vars
    PROVE  Undisturbed
<1>1. cutoffDay \in Int /\ cutoffDay' \in Int /\ cutoffDay <= cutoffDay'
  BY ClockForward DEF FreshInv
<1>2. \A t \in Task : t[2] \in Int
  BY DEF Task, Days
<1>3. ASSUME NEW row \in pending, ingestMonitorHistorical(row) PROVE Undisturbed
  BY <1>3 DEF ingestMonitorHistorical, Undisturbed, Inserted
<1>4. CASE enqueueAggregationTask
  BY <1>4 DEF enqueueAggregationTask, Undisturbed, Inserted
<1>5. CASE StartCleanup \/ CleanupFails
  BY <1>5 DEF StartCleanup, CleanupFails, Undisturbed, Inserted
<1>6. CASE deleteDayRange
  BY <1>6 DEF deleteDayRange, Undisturbed, Inserted
<1>7. CASE pruneDaily
  BY <1>1, <1>2, <1>7 DEF pruneDaily, Undisturbed, Inserted
<1>8. CASE pruneRegional
  <2>1. cleanup.cutoff \in Int /\ cleanup.cutoff <= cutoffDay
    BY <1>8 DEF pruneRegional, FreshInv, CleanupBounded, TypeOK
  <2>2. \A t \in Task : t[2] > cutoffDay' => ~(t[2] < cleanup.cutoff)
    BY <1>1, <1>2, <2>1
  <2> QED
    BY <1>8, <2>2 DEF pruneRegional, Undisturbed, Inserted
<1>9. CASE \E row \in accepted : Redeliver(row)
  BY <1>9 DEF Redeliver, Undisturbed, Inserted
<1>10. CASE \E row \in pending : InsertFails(row)
  BY <1>10 DEF InsertFails, Undisturbed, Inserted
<1>11. CASE Tick
  BY <1>11 DEF Tick, Undisturbed, Inserted
<1>12. CASE \E row \in Submissions : CheckerSubmission(row)
  BY <1>12 DEF CheckerSubmission, Undisturbed, Inserted
<1>13. CASE UNCHANGED vars
  BY <1>13 DEF vars, Undisturbed, Inserted
<1> QED
  BY <1>3, <1>4, <1>5, <1>6, <1>7, <1>8, <1>9, <1>10, <1>11, <1>12, <1>13
     DEF IngestLoop, CleanupLoop

(***************************************************************************)
(* The steps of the aggregation loop and the ends of the process: they     *)
(* change neither the clock nor the rows.                                  *)
(***************************************************************************)
SameRows == UNCHANGED <<today, rows>>

\* With the clock and the rows, what depends on them is the same.
LEMMA SameRowsFacts ==
    ASSUME SameRows
    PROVE  /\ cutoffDay' = cutoffDay
           /\ \A t \in Task : RowsOf(t[1], t[2])' = RowsOf(t[1], t[2])
           /\ \A t \in Task, r \in Regions : InRegion(t, r)' = InRegion(t, r)
BY DEF SameRows, cutoffDay, RowsOf, InRegion

\* A day without rows has aggregates that cover none: they are fresh.
LEMMA EmptyIsFresh ==
    ASSUME NothingInvented, NEW t \in Task, Retained(t[2]), RowsOf(t[1], t[2]) = {}
    PROVE  Fresh(t)
<1>1. daily[t] = {}
  BY DEF NothingInvented
<1>2. \A r \in Regions : regional[t][r] = {} /\ {row \in RowsOf(t[1], t[2]) : row.region = r} = {}
  BY DEF NothingInvented, InRegion
<1> QED
  BY <1>1, <1>2 DEF Fresh

\* The seed queues every retained day that has rows: the lookback is never
\* shorter than the retention, whatever retention_days says.
LEMMA SeedFresh ==
    ASSUME FreshInv, TypeOK', seedRecentAggregationTasks
    PROVE  AggregationShape' /\ NothingInvented' /\ DailyWritten' /\ AggregatesFresh'
<1> USE DEF FreshInv
<1>1. SameRows /\ UNCHANGED <<daily, regional>>
  BY DEF seedRecentAggregationTasks, SameRows
<1>2. /\ cutoffDay' = cutoffDay
      /\ \A t \in Task : RowsOf(t[1], t[2])' = RowsOf(t[1], t[2])
      /\ \A t \in Task, r \in Regions : InRegion(t, r)' = InRegion(t, r)
  BY <1>1, SameRowsFacts
<1>3. aggregation' = [pc |-> "idle", batch |-> {}, task |-> NoTask] /\ up'
  BY DEF seedRecentAggregationTasks, Aggregating
<1>4. AggregationShape' /\ DailyWritten'
  BY <1>3 DEF AggregationShape, DailyWritten
<1>5. NothingInvented'
  BY <1>1, <1>2 DEF NothingInvented, Retained
<1>6. AggregatesFresh'
  <2> SUFFICES ASSUME NEW t \in Monitors \X Days, Retained(t[2]), t \notin dirty'
               PROVE  Fresh(t)'
    BY <1>2 DEF AggregatesFresh, Retained, Outstanding
  <2>1. t \in Task /\ t[2] \in Int
    BY DEF Task, MonitorIDs, Days
  <2>2. t[2] > today - aggregationSeedLookback
    <3>1. today \in Int /\ RetentionDays \in Int
      BY DatasetAssumption DEF TypeOK, Days
    <3>2. t[2] > today - RetentionDays
      BY DEF Retained, cutoffDay
    <3> QED
      BY <2>1, <3>1, <3>2 DEF aggregationSeedLookback
  <2>3. RowsOf(t[1], t[2]) = {}
    <3> SUFFICES ASSUME NEW row \in rows, row.monitor = t[1], row.day = t[2] PROVE FALSE
      BY DEF RowsOf
    <3>1. t = <<row.monitor, row.day>>
      BY <2>1 DEF Task
    <3>2. <<row.monitor, row.day>> \in dirty'
      BY <2>2 DEF seedRecentAggregationTasks
    <3> QED
      BY <3>1, <3>2
  <2>4. Fresh(t)
    BY <2>1, <2>3, EmptyIsFresh
  <2> QED
    BY <1>1, <1>2, <2>1, <2>4 DEF Fresh
<1> QED
  BY <1>4, <1>5, <1>6

\* What such a move of tasks between the queue and the loop does.
QueueMoves ==
    /\ AggregationShape'
    /\ aggregation.pc # "seed" /\ aggregation'.pc # "region"
    /\ \A t \in Monitors \X Days : t \in Outstanding => t \in Outstanding'

\* Taking a batch, skipping the task of a removed monitor and giving back a
\* failed one leave every task of a configured monitor outstanding that was.
LEMMA QueueStepsFresh ==
    ASSUME FreshInv, TypeOK',
           \/ drainAggregationTasks
           \/ \E task \in aggregation.batch : SkipRemoved(task)
           \/ \E task \in Task : UpsertFails(task)
    PROVE  AggregationShape' /\ NothingInvented' /\ DailyWritten' /\ AggregatesFresh'
<1> USE DEF FreshInv
<1>1. SameRows /\ UNCHANGED <<daily, regional, up, missed, ingest>>
  BY DEF drainAggregationTasks, SkipRemoved, UpsertFails, SameRows
<1>2. /\ cutoffDay' = cutoffDay
      /\ \A t \in Task : RowsOf(t[1], t[2])' = RowsOf(t[1], t[2])
      /\ \A t \in Task, r \in Regions : InRegion(t, r)' = InRegion(t, r)
  BY <1>1, SameRowsFacts
<1>3. NothingInvented'
  BY <1>1, <1>2 DEF NothingInvented, Retained
<1>4. ASSUME drainAggregationTasks PROVE QueueMoves
  <2>1. /\ aggregation' = [pc |-> "next", batch |-> dirty, task |-> NoTask]
        /\ aggregation.batch = {} /\ aggregation.task = NoTask
        /\ up /\ aggregation.pc = "idle"
    BY <1>4 DEF drainAggregationTasks, Aggregating, AggregationShape
  <2>2. Outstanding \subseteq Outstanding'
    BY <1>1, <2>1 DEF Outstanding, Inserted
  <2>3. AggregationShape'
    BY <1>1, <2>1 DEF AggregationShape
  <2> QED
    BY <2>1, <2>2, <2>3 DEF QueueMoves
<1>5. ASSUME NEW task \in aggregation.batch, SkipRemoved(task) PROVE QueueMoves
  <2>1. aggregation.batch \ {task} \in SUBSET Task
    BY DEF TypeOK
  <2>2. /\ aggregation' = Remaining(aggregation.batch \ {task}) /\ dirty' = dirty
        /\ aggregation.pc = "next" /\ aggregation.task = NoTask
    BY <1>5 DEF SkipRemoved, NextTask, AggregationShape
  <2>3. /\ aggregation'.batch = aggregation.batch \ {task} /\ aggregation'.task = NoTask
        /\ aggregation'.pc \in {"idle", "next"}
        /\ aggregation'.pc = "idle" => aggregation'.batch = {}
    BY <2>1, <2>2, RemainingType
  <2>4. \A t \in Monitors \X Days : t # task
    BY <1>5 DEF SkipRemoved
  <2>5. \A t \in Monitors \X Days : t \in Outstanding => t \in Outstanding'
    BY <1>1, <2>2, <2>3, <2>4 DEF Outstanding, Inserted
  <2>6. AggregationShape'
    BY <1>1, <2>2, <2>3 DEF AggregationShape
  <2> QED
    BY <2>2, <2>3, <2>5, <2>6 DEF QueueMoves
<1>6. ASSUME NEW task \in Task, UpsertFails(task) PROVE QueueMoves
  <2>1. aggregation.batch \ {task} \in SUBSET Task
    BY DEF TypeOK
  <2>2. /\ aggregation' = Remaining(aggregation.batch \ {task}) /\ dirty' = dirty \cup {task}
        /\ aggregation.pc \in {"next", "region"}
        /\ aggregation.task \in {NoTask, task}
    BY <1>6 DEF UpsertFails, NextTask, AggregationShape
  <2>3. /\ aggregation'.batch = aggregation.batch \ {task} /\ aggregation'.task = NoTask
        /\ aggregation'.pc \in {"idle", "next"}
        /\ aggregation'.pc = "idle" => aggregation'.batch = {}
    BY <2>1, <2>2, RemainingType
  <2>4. Outstanding \subseteq Outstanding'
    BY <1>1, <2>2, <2>3 DEF Outstanding, Inserted
  <2>5. AggregationShape'
    BY <1>1, <2>2, <2>3 DEF AggregationShape
  <2> QED
    BY <2>2, <2>3, <2>4, <2>5 DEF QueueMoves
<1>7. QueueMoves
  BY <1>4, <1>5, <1>6
<1>8. AggregatesFresh'
  <2> SUFFICES ASSUME up, ~missed, NEW t \in Monitors \X Days, Retained(t[2]), t \notin Outstanding'
               PROVE  Fresh(t)'
    BY <1>1, <1>2 DEF AggregatesFresh, Retained
  <2>1. Fresh(t) /\ t \in Task
    BY <1>7 DEF QueueMoves, AggregatesFresh, Task, MonitorIDs
  <2> QED
    BY <1>1, <1>2, <2>1 DEF Fresh
<1>9. AggregationShape' /\ DailyWritten'
  BY <1>7 DEF QueueMoves, DailyWritten
<1> QED
  BY <1>3, <1>8, <1>9

\* The first upsert of a task makes its daily aggregate right, and the task
\* stays outstanding until the second.
LEMMA UpsertDailyFresh ==
    ASSUME FreshInv, TypeOK', NEW task \in aggregation.batch, UpsertDaily(task)
    PROVE  AggregationShape' /\ NothingInvented' /\ DailyWritten' /\ AggregatesFresh'
<1> USE DEF FreshInv
<1>1. SameRows /\ UNCHANGED <<regional, up, missed, ingest, dirty>>
  BY DEF UpsertDaily, SameRows
<1>2. /\ cutoffDay' = cutoffDay
      /\ \A t \in Task : RowsOf(t[1], t[2])' = RowsOf(t[1], t[2])
      /\ \A t \in Task, r \in Regions : InRegion(t, r)' = InRegion(t, r)
  BY <1>1, SameRowsFacts
<1>3. task \in Task /\ aggregation.pc = "next" /\ aggregation.task = NoTask
  BY DEF UpsertDaily, NextTask, AggregationShape, TypeOK
<1>4. aggregation' = [pc |-> "region", batch |-> aggregation.batch \ {task}, task |-> task]
  BY DEF UpsertDaily, Aggregating
<1>5. /\ \A t \in Task : t # task => daily'[t] = daily[t]
      /\ RowsOf(task[1], task[2]) # {} => daily'[task] = RowsOf(task[1], task[2])
      /\ RowsOf(task[1], task[2]) = {} => daily'[task] = daily[task]
  BY <1>3 DEF UpsertDaily, TypeOK
<1>6. Retained(task[2]) => daily'[task] = RowsOf(task[1], task[2])
  BY <1>3, <1>5 DEF NothingInvented
<1>7. NothingInvented'
  <2> SUFFICES ASSUME NEW t \in Task, Retained(t[2])
               PROVE  /\ daily'[t] \subseteq RowsOf(t[1], t[2])
                      /\ \A r \in Regions : regional[t][r] \subseteq InRegion(t, r)
    BY <1>1, <1>2 DEF NothingInvented, Retained
  <2> QED
    BY <1>5, <1>6 DEF NothingInvented
<1>8. AggregationShape'
  BY <1>1, <1>3, <1>4 DEF AggregationShape
<1>9. DailyWritten'
  <2>1. aggregation'.task = task
    BY <1>4
  <2> SUFFICES ASSUME Retained(task[2]) PROVE daily'[task] = RowsOf(task[1], task[2])'
    BY <1>2, <2>1 DEF DailyWritten, Retained, RowsOf
  <2> QED
    BY <1>2, <1>3, <1>6
<1>10. AggregatesFresh'
  <2> SUFFICES ASSUME up, ~missed, NEW t \in Monitors \X Days, Retained(t[2]), t \notin Outstanding'
               PROVE  Fresh(t)'
    BY <1>1, <1>2 DEF AggregatesFresh, Retained
  <2>1. t # task /\ t \notin Outstanding /\ t \in Task
    BY <1>1, <1>3, <1>4 DEF Outstanding, Inserted, Task, MonitorIDs, NoTask
  <2>2. Fresh(t)
    BY <1>3, <2>1 DEF AggregatesFresh
  <2> QED
    BY <1>1, <1>2, <1>5, <2>1, <2>2 DEF Fresh
<1> QED
  BY <1>7, <1>8, <1>9, <1>10

\* The second upsert makes the regional aggregates right: with it the task is
\* done, unless rows came in between, which queued it again.
LEMMA UpsertRegionalFresh ==
    ASSUME FreshInv, TypeOK', UpsertRegional
    PROVE  AggregationShape' /\ NothingInvented' /\ DailyWritten' /\ AggregatesFresh'
<1> USE DEF FreshInv
<1>1. SameRows /\ UNCHANGED <<daily, up, missed, ingest, dirty>>
  BY DEF UpsertRegional, SameRows
<1>2. /\ cutoffDay' = cutoffDay
      /\ \A t \in Task : RowsOf(t[1], t[2])' = RowsOf(t[1], t[2])
      /\ \A t \in Task, r \in Regions : InRegion(t, r)' = InRegion(t, r)
  BY <1>1, SameRowsFacts
<1>3. PICK task \in Monitors \X Days : task = aggregation.task
  BY DEF UpsertRegional, TypeOK
<1>4. task \in Task /\ aggregation.pc = "region"
  BY DEF UpsertRegional, Task, MonitorIDs
<1>5. /\ aggregation'.batch = aggregation.batch /\ aggregation'.task = NoTask
      /\ aggregation'.pc \in {"idle", "next"}
      /\ aggregation'.pc = "idle" => aggregation'.batch = {}
  <2>1. aggregation.batch \in SUBSET Task /\ aggregation' = Remaining(aggregation.batch)
    BY DEF UpsertRegional, TypeOK
  <2> QED
    BY <2>1, RemainingType
<1>6. /\ \A t \in Task : t # task => regional'[t] = regional[t]
      /\ \A r \in Regions : regional'[task][r] =
            IF InRegion(task, r) = {} THEN regional[task][r] ELSE InRegion(task, r)
  BY <1>3, <1>4 DEF UpsertRegional, TypeOK, InRegion
<1>7. Retained(task[2]) => \A r \in Regions : regional'[task][r] = InRegion(task, r)
  BY <1>4, <1>6 DEF NothingInvented
<1>8. NothingInvented'
  <2> SUFFICES ASSUME NEW t \in Task, Retained(t[2])
               PROVE  /\ daily[t] \subseteq RowsOf(t[1], t[2])
                      /\ \A r \in Regions : regional'[t][r] \subseteq InRegion(t, r)
    BY <1>1, <1>2 DEF NothingInvented, Retained
  <2> QED
    BY <1>6, <1>7 DEF NothingInvented
<1>9. AggregationShape' /\ DailyWritten'
  BY <1>1, <1>4, <1>5 DEF AggregationShape, DailyWritten
<1>10. AggregatesFresh'
  <2> SUFFICES ASSUME up, ~missed, NEW t \in Monitors \X Days, Retained(t[2]), t \notin Outstanding'
               PROVE  Fresh(t)'
    BY <1>1, <1>2 DEF AggregatesFresh, Retained
  <2>1. t \in Task /\ t \notin Queued
    BY <1>1, <1>5 DEF Outstanding, Queued, Inserted, Task, MonitorIDs
  <2>2. CASE t = task
    <3>1. daily[t] = RowsOf(t[1], t[2])
      BY <1>3, <1>4, <2>1, <2>2 DEF DailyWritten
    <3>2. \A r \in Regions : regional'[t][r] = InRegion(t, r)
      BY <1>7, <2>2
    <3> QED
      BY <1>1, <1>2, <2>1, <3>1, <3>2 DEF Fresh, InRegion
  <2>3. CASE t # task
    <3>1. t \notin Outstanding
      BY <1>3, <2>1, <2>3 DEF Outstanding, Queued
    <3>2. Fresh(t)
      BY <1>4, <3>1 DEF AggregatesFresh
    <3> QED
      BY <1>1, <1>2, <1>6, <2>1, <2>3, <3>2 DEF Fresh
  <2> QED
    BY <2>2, <2>3
<1> QED
  BY <1>8, <1>9, <1>10

\* A crash and a failed seed excuse the aggregates; a restart leads to the seed.
LEMMA ProcessStepsFresh ==
    ASSUME FreshInv, TypeOK', Crash \/ Restart \/ SeedFails
    PROVE  AggregationShape' /\ NothingInvented' /\ DailyWritten' /\ AggregatesFresh'
<1> USE DEF FreshInv
<1>1. SameRows /\ UNCHANGED <<daily, regional>>
  BY DEF Crash, Restart, SeedFails, SameRows
<1>2. /\ cutoffDay' = cutoffDay
      /\ \A t \in Task : RowsOf(t[1], t[2])' = RowsOf(t[1], t[2])
      /\ \A t \in Task, r \in Regions : InRegion(t, r)' = InRegion(t, r)
  BY <1>1, SameRowsFacts
<1>3. NothingInvented'
  BY <1>1, <1>2 DEF NothingInvented, Retained
<1>4. CASE Crash
  BY <1>3, <1>4 DEF Crash, Aggregating, AggregationShape, DailyWritten, AggregatesFresh
<1>5. CASE Restart
  BY <1>3, <1>5 DEF Restart, AggregationShape, DailyWritten, AggregatesFresh
<1>6. CASE SeedFails
  BY <1>3, <1>6 DEF SeedFails, Aggregating, AggregationShape, DailyWritten, AggregatesFresh
<1> QED
  BY <1>3, <1>4, <1>5, <1>6

\* In every state in which the process runs and its seed has not failed, both
\* aggregates of every retained day cover exactly its rows, unless a task for
\* it is queued, in the batch, between its two upserts or about to be queued.
THEOREM AggregatesAreFresh == Spec => []AggregatesFresh
<1>1. FreshInv /\ TypeOK' /\ [Next]_vars => FreshInv'
  <2> SUFFICES ASSUME FreshInv, TypeOK', [Next]_vars
               PROVE  AggregationShape' /\ NothingInvented' /\ DailyWritten' /\ AggregatesFresh'
    BY CleanupBoundedStep DEF FreshInv
  <2>1. CASE IngestLoop \/ CleanupLoop \/ UNCHANGED vars
    BY <2>1, UndisturbedSteps, UndisturbedFresh
  <2>2. CASE AggregationLoop
    BY <2>2, SeedFresh, QueueStepsFresh, UpsertDailyFresh, UpsertRegionalFresh DEF AggregationLoop
  <2>3. CASE Failures
    BY <2>3, UndisturbedSteps, UndisturbedFresh, QueueStepsFresh, ProcessStepsFresh DEF Failures
  <2>4. CASE Environment
    BY <2>4, UndisturbedSteps, UndisturbedFresh, ProcessStepsFresh DEF Environment
  <2> QED
    BY <2>1, <2>2, <2>3, <2>4 DEF Next
<1>2. FreshInv => AggregatesFresh
  BY DEF FreshInv
<1> QED
  BY <1>1, <1>2, InitFresh, TypeCorrect, PTL DEF Spec
=============================================================================
