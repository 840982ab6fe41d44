------------------------- MODULE IncidentEvaluation -------------------------
(***************************************************************************)
(* The pure half of the processor worker: how the rows of                  *)
(* monitor_historical that fall in the lookback window of one monitor      *)
(* become one IncidentEvaluation (worker_processor.go, incident.go).       *)
(*                                                                         *)
(* A row is [region, at, success, code, category]: `at` is created_at in   *)
(* ticks, `success` the stored column, `code` the HTTP status code and     *)
(* `category` what CategorizeFailureReason makes of the failure reason.    *)
(* (monitor_id, region, created_at) is the table's primary key, so the     *)
(* rows of one monitor form a set.                                         *)
(***************************************************************************)
EXTENDS Integers, FiniteSets, FiniteSetsExt

CONSTANTS
    Regions,                             \* regions of the registered checkers
    Categories,                          \* failure categories (failure_reason.go)
    StatusCodes,                         \* HTTP status codes the probes meet
    ExpectedStatusCodes,                 \* the HTTP monitors' expected_status_codes
    TicksPerMinute,                      \* clock resolution
    \* DatasetConfig, the percentages as naturals:
    PerRegionFailureThresholdPercent,
    FailureThresholdPercent,
    DegradedThresholdMinutes,
    DegradedThresholdConsecutiveBuckets

ASSUME EvaluationAssumption ==
    /\ IsFiniteSet(Regions) /\ Regions # {}
    /\ StatusCodes \subseteq Nat
    /\ ExpectedStatusCodes \subseteq StatusCodes
    /\ TicksPerMinute \in Nat \ {0}
    /\ PerRegionFailureThresholdPercent \in Nat
    /\ FailureThresholdPercent \in Nat
    /\ DegradedThresholdMinutes \in Int
    /\ DegradedThresholdConsecutiveBuckets \in Int

Row == [region : Regions, at : Nat, success : BOOLEAN, code : StatusCodes,
        category : Categories]

(***************************************************************************)
(* The evaluation.  The reason sentence is what it is made of: its wording *)
(* (kind), the regions it lists and the "%d regions" total it prints; the  *)
(* breakdown map category -> regions is the relation it stands for.        *)
(***************************************************************************)
Statuses == {"healthy", "degraded", "down"}
Scopes   == {"healthy", "local", "global"}
Reason   == [kind : {"none", "all", "multi", "regional"},
             failed : SUBSET Regions, total : Nat]
NoReason == [kind |-> "none", failed |-> {}, total |-> 0]

Evaluation == [status : Statuses, scope : Scopes, reason : Reason,
               regions : SUBSET Regions,
               breakdown : SUBSET (Categories \X Regions)]

HealthyIncidentEvaluation ==
    [status |-> "healthy", scope |-> "healthy", reason |-> NoReason,
     regions |-> {}, breakdown |-> {}]

HasActiveIncident(e) == e.status # "healthy"

\* Mutant: a word outside the impact vocabulary.
Impact_UnknownWord(e) == IF e.status = "healthy" THEN "operational" ELSE "outage"

Impact(e) ==
    CASE e.status = "healthy"                        -> "operational"
      [] e.status = "down" /\ e.scope = "global"     -> "major_outage"
      [] e.status = "down" /\ e.scope # "global"     -> "partial_outage"
      [] e.status = "degraded"                       -> "degraded_performance"

(***************************************************************************)
(* Grouping: minute -> (reporting region -> did it pass).  The float       *)
(* comparisons of two quotients are exact cross-multiplications.           *)
(***************************************************************************)
Truncate(t) == t \div TicksPerMinute

\* Mutant: HTTP rows judged by the success column too.
IsSuccessfulStatus_ExplicitOnly(http, row) == row.success

\* Monitor.IsSuccessfulStatus: an HTTP monitor ignores the success column.
IsSuccessfulStatus(http, row) ==
    IF http THEN row.code \in ExpectedStatusCodes ELSE row.success

InBucket(rows, minute) == {row \in rows : Truncate(row.at) = minute}

\* Mutant: a region fails only above the threshold, not at it.
RegionPasses_AtThreshold(http, regionRows) ==
    LET failures == {row \in regionRows : ~IsSuccessfulStatus(http, row)}
    IN  100 * Cardinality(failures)
            <= PerRegionFailureThresholdPercent * Cardinality(regionRows)

RegionPasses(http, regionRows) ==
    LET failures == {row \in regionRows : ~IsSuccessfulStatus(http, row)}
    IN  100 * Cardinality(failures)
            < PerRegionFailureThresholdPercent * Cardinality(regionRows)

groupSubmissionByMinute(http, rows) ==
    [minute \in {Truncate(row.at) : row \in rows} |->
        [region \in {row.region : row \in InBucket(rows, minute)} |->
            RegionPasses(http, {row \in InBucket(rows, minute) : row.region = region})]]

failedRegionsFromBucket(bucket) == {region \in DOMAIN bucket : ~bucket[region]}

latestNonEmptyBucket(buckets) ==
    Max({minute \in DOMAIN buckets : DOMAIN buckets[minute] # {}})

\* The row the ingester inserts for a probe outcome [success, code, category]
\* (IngesterWorker.determineHistoricalSuccess decides the success column).
IngestedRow(http, region, at, outcome) ==
    [region |-> region, at |-> at, success |-> IsSuccessfulStatus(http, outcome),
     code |-> outcome.code, category |-> outcome.category]

\* Migrate runs every script again at every start; one of them rewrites the
\* success column of the HTTP rows from the status code alone.
MigratedRow(http, row) ==
    IF http THEN [row EXCEPT !.success = row.code \in 200 .. 399] ELSE row

(***************************************************************************)
(* One bucket.                                                             *)
(***************************************************************************)
evaluateBucketIncident(bucket, breakdown) ==
    LET failed == failedRegionsFromBucket(bucket)
        total  == Cardinality(DOMAIN bucket)
        Incident(status, scope, kind, shown) ==
            [status |-> status, scope |-> scope,
             reason |-> [kind |-> kind, failed |-> failed, total |-> shown],
             regions |-> failed, breakdown |-> breakdown]
    IN  CASE failed = {} -> HealthyIncidentEvaluation
          [] failed # {} /\ failed = DOMAIN bucket ->
                Incident("down", IF total > 1 THEN "global" ELSE "local", "all", 0)
          [] /\ failed # {} /\ failed # DOMAIN bucket
             /\ 100 * Cardinality(failed) >= FailureThresholdPercent * total ->
                Incident("down", "global", "multi", total)
          [] OTHER -> Incident("degraded", "local", "regional", 0)

IsLocalDegraded(bucket) ==
    LET e == evaluateBucketIncident(bucket, {})
    IN  e.status = "degraded" /\ e.scope = "local"

\* Mutant: the streak tolerates missing and passing minutes (continue for break).
shouldPromoteLocalDegraded_SkipsGaps(buckets, latest) ==
    LET degraded == {m \in DOMAIN buckets : IsLocalDegraded(buckets[m])}
        n        == Cardinality(degraded)
    IN  \/ DegradedThresholdConsecutiveBuckets <= 0 /\ DegradedThresholdMinutes <= 0
        \/ DegradedThresholdConsecutiveBuckets > 0 /\ n >= DegradedThresholdConsecutiveBuckets
        \/ DegradedThresholdMinutes > 0 /\ n >= DegradedThresholdMinutes

(***************************************************************************)
(* Walk back from the latest minute while the buckets exist and are local  *)
(* degradations; n is the streak length before minute latest - n is seen.  *)
(* A streak of n buckets lasts n minutes.  There are no buckets before     *)
(* earliestTime, so a streak is never longer than there are buckets.       *)
(***************************************************************************)
shouldPromoteLocalDegraded(buckets, latest) ==
    LET consecutive == DegradedThresholdConsecutiveBuckets
        minutes     == DegradedThresholdMinutes
        Reached(n)  == \/ consecutive > 0 /\ n >= consecutive
                       \/ minutes > 0 /\ n >= minutes
        walk[n \in 0 .. Cardinality(DOMAIN buckets)] ==
            /\ n < Cardinality(DOMAIN buckets)
            /\ latest - n \in DOMAIN buckets
            /\ IsLocalDegraded(buckets[latest - n])
            /\ Reached(n + 1) \/ walk[n + 1]
    IN  (consecutive <= 0 /\ minutes <= 0) \/ walk[0]

\* Mutant: the scan of the rows is not limited to the failing bucket.
buildFailureReasonsBreakdown_AllMinutes(buckets, rows, latest) ==
    {<<row.category, row.region>> : row \in {r \in rows : ~r.success}}

(***************************************************************************)
(* category x region pairs of the latest failing bucket, restricted to its *)
(* failed regions; failing rows are told by the stored success column.     *)
(***************************************************************************)
buildFailureReasonsBreakdown(buckets, rows, latest) ==
    LET failing == {minute \in DOMAIN buckets :
                        minute <= latest /\ failedRegionsFromBucket(buckets[minute]) # {}}
        minute  == Max(failing)
    IN  IF failing = {} THEN {}
        ELSE {<<row.category, row.region>> :
                row \in {r \in InBucket(rows, minute) :
                            ~r.success /\ r.region \in failedRegionsFromBucket(buckets[minute])}}

evaluateLatestIncident(http, rows) ==
    LET buckets == groupSubmissionByMinute(http, rows)
        latest  == latestNonEmptyBucket(buckets)
        e       == evaluateBucketIncident(buckets[latest],
                        buildFailureReasonsBreakdown(buckets, rows, latest))
    IN  CASE rows = {} -> HealthyIncidentEvaluation
          [] /\ rows # {}
             /\ e.status = "degraded" /\ e.scope = "local"
             /\ ~shouldPromoteLocalDegraded(buckets, latest) -> HealthyIncidentEvaluation
          [] OTHER -> e
=============================================================================
