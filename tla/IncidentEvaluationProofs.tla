---------------------- MODULE IncidentEvaluationProofs ----------------------
(***************************************************************************)
(* Facts about the operators of IncidentEvaluation that hold for every     *)
(* configuration: the evaluation of any bounded table is well formed.      *)
(***************************************************************************)
EXTENDS IncidentEvaluation, FiniteSetTheorems, WellFoundedInduction, TLAPS

\* A non-empty, bounded set of naturals has a maximum, and Max picks it.
LEMMA MaxOfBounded ==
    ASSUME NEW S \in SUBSET Nat, S # {},
           NEW bound \in Nat, \A x \in S : x <= bound
    PROVE  /\ Max(S) \in S
           /\ \A x \in S : x <= Max(S)
<1> DEFINE Less == OpToRel(<, Nat)
           T    == {u \in Nat : bound - u \in S}
<1>1. T \subseteq Nat /\ T # {}
  <2>1. PICK x \in S : TRUE
    OBVIOUS
  <2>2. bound - x \in Nat /\ bound - (bound - x) = x
    BY <2>1
  <2> QED
    BY <2>1, <2>2
<1>2. PICK t \in T : \A u \in T : ~ (<<u, t>> \in Less)
  <2> HIDE DEF T, Less
  <2>1. IsWellFoundedOn(Less, Nat)
    BY NatLessThanWellFounded DEF Less
  <2> QED
    BY <1>1, <2>1, WFMin
<1>3. \A u \in T : ~ (u < t)
  <2>1. \A u, v \in Nat : u < v => <<u, v>> \in Less
    BY DEF OpToRel
  <2> QED
    BY <1>1, <1>2, <2>1
<1>4. \A y \in S : bound - t >= y
  <2> TAKE y \in S
  <2>1. bound - y \in T
    BY bound - y \in Nat, bound - (bound - y) = y
  <2>2. ~ (bound - y < t) /\ t \in Nat /\ y \in Nat
    BY <1>3, <2>1
  <2> HIDE DEF T
  <2> QED
    BY <2>2
<1>5. bound - t \in S
  OBVIOUS
<1> QED
  BY <1>4, <1>5 DEF Max

\* Minutes are naturals no later than the tick they truncate.
LEMMA TruncateType ==
    ASSUME NEW t \in Nat
    PROVE  Truncate(t) \in Nat /\ Truncate(t) <= t
<1>1. TicksPerMinute \in Nat /\ TicksPerMinute > 0
  BY EvaluationAssumption
<1>2. \A n \in Nat \ {0} : t \div n \in Nat /\ t \div n <= t
  OBVIOUS
<1> QED
  BY <1>1, <1>2 DEF Truncate

\* The reporting regions of a bucket are regions, and there are finitely many.
LEMMA ReportingType ==
    ASSUME NEW B \in SUBSET Regions
    PROVE  Cardinality(B) \in Nat
BY EvaluationAssumption, FS_Subset, FS_CardinalityType

\* The healthy evaluation, which an empty lookback yields, is well formed.
LEMMA HealthyType == HealthyIncidentEvaluation \in Evaluation
BY DEF HealthyIncidentEvaluation, Evaluation, NoReason, Reason, Statuses, Scopes

\* Whatever a bucket holds, evaluateBucketIncident builds a well-formed
\* evaluation whose affected regions are reporting regions of the bucket.
LEMMA BucketEvaluationType ==
    ASSUME NEW bucket, DOMAIN bucket \subseteq Regions,
           NEW breakdown \in SUBSET (Categories \X Regions)
    PROVE  evaluateBucketIncident(bucket, breakdown) \in Evaluation
<1> DEFINE failed == failedRegionsFromBucket(bucket)
           total  == Cardinality(DOMAIN bucket)
<1>1. failed \in SUBSET Regions
  BY DEF failedRegionsFromBucket
<1>2. total \in Nat
  BY ReportingType
<1>3. ASSUME NEW status \in Statuses, NEW scope \in Scopes,
             NEW kind \in {"none", "all", "multi", "regional"}, NEW shown \in Nat
      PROVE  [status |-> status, scope |-> scope,
              reason |-> [kind |-> kind, failed |-> failed, total |-> shown],
              regions |-> failed, breakdown |-> breakdown] \in Evaluation
  <2> HIDE DEF failed
  <2> QED
    BY <1>1 DEF Evaluation, Reason
<1> HIDE DEF failed, total
<1> QED
  BY <1>2, <1>3, HealthyType
     DEF evaluateBucketIncident, Statuses, Scopes, failed, total

\* The evaluation of a table whose rows are no later than `bound` is well formed.
LEMMA EvaluationType ==
    ASSUME NEW http \in BOOLEAN, NEW rows \in SUBSET Row,
           NEW bound \in Nat, \A row \in rows : row.at <= bound
    PROVE  evaluateLatestIncident(http, rows) \in Evaluation
<1> DEFINE buckets == groupSubmissionByMinute(http, rows)
           latest  == latestNonEmptyBucket(buckets)
           why     == buildFailureReasonsBreakdown(buckets, rows, latest)
<1>1. CASE rows = {}
  BY <1>1, HealthyType DEF evaluateLatestIncident
<1>2. CASE rows # {}
  <2>1. DOMAIN buckets = {Truncate(row.at) : row \in rows}
    BY DEF groupSubmissionByMinute
  <2>2. \A minute \in DOMAIN buckets :
            DOMAIN buckets[minute] = {row.region : row \in InBucket(rows, minute)}
    BY DEF groupSubmissionByMinute
  <2> HIDE DEF buckets
  <2>3. \A row \in rows : row.at \in Nat /\ row.region \in Regions /\ row.category \in Categories
    BY DEF Row
  <2> DEFINE full == {minute \in DOMAIN buckets : DOMAIN buckets[minute] # {}}
  <2>4. full # {}
    <3>1. PICK row \in rows : TRUE
      BY <1>2
    <3>2. Truncate(row.at) \in DOMAIN buckets
      BY <2>1
    <3>3. row \in InBucket(rows, Truncate(row.at))
      BY DEF InBucket
    <3>4. row.region \in DOMAIN buckets[Truncate(row.at)]
      BY <2>2, <3>2, <3>3
    <3>5. Truncate(row.at) \in full
      BY <3>2, <3>4
    <3> QED
      BY <3>5
  <2>5. full \in SUBSET Nat /\ \A minute \in full : minute <= bound
    <3> SUFFICES ASSUME NEW minute \in full
                 PROVE  minute \in Nat /\ minute <= bound
      OBVIOUS
    <3>1. PICK row \in rows : minute = Truncate(row.at)
      BY <2>1
    <3>2. row.at \in Nat /\ row.at <= bound
      BY <2>3
    <3> QED
      BY <3>1, <3>2, TruncateType
  <2>6. latest \in full
    <3> HIDE DEF full
    <3>1. Max(full) \in full
      BY <2>4, <2>5, MaxOfBounded
    <3> QED
      BY <3>1 DEF latestNonEmptyBucket, full
  <2>7. DOMAIN buckets[latest] \subseteq Regions
    <3> HIDE DEF latest
    <3>1. DOMAIN buckets[latest] = {row.region : row \in InBucket(rows, latest)}
      BY <2>2, <2>6
    <3>2. \A row \in InBucket(rows, latest) : row.region \in Regions
      BY <2>3 DEF InBucket
    <3> QED
      BY <3>1, <3>2
  <2> HIDE DEF latest
  <2>8. why \in SUBSET (Categories \X Regions)
    <3> DEFINE failing == {minute \in DOMAIN buckets :
                    minute <= latest /\ failedRegionsFromBucket(buckets[minute]) # {}}
               cause == {r \in InBucket(rows, Max(failing)) :
                    ~r.success /\ r.region \in failedRegionsFromBucket(buckets[Max(failing)])}
    <3>1. why = IF failing = {} THEN {} ELSE {<<row.category, row.region>> : row \in cause}
      BY DEF buildFailureReasonsBreakdown
    <3>2. cause \subseteq rows
      BY DEF InBucket
    <3> HIDE DEF failing, cause, why
    <3>3. \A row \in cause : <<row.category, row.region>> \in Categories \X Regions
      BY <2>3, <3>2
    <3> QED
      BY <3>1, <3>3
  <2> HIDE DEF why
  <2>9. evaluateBucketIncident(buckets[latest], why) \in Evaluation
    BY <2>7, <2>8, BucketEvaluationType
  <2> QED
    BY <2>9, HealthyType DEF evaluateLatestIncident, buckets, latest, why
<1> QED
  BY <1>1, <1>2

(***************************************************************************)
(* The migration that every start runs again.  It only rewrites a column   *)
(* that the judgement of HTTP rows does not look at, so it must not change *)
(* a verdict.  A table is what the primary key makes of it.                *)
(***************************************************************************)
Table(rows) ==
    /\ IsFiniteSet(rows)
    /\ \A row \in rows : row = [region |-> row.region, at |-> row.at, success |-> row.success,
                                code |-> row.code, category |-> row.category]
    /\ \A row, other \in rows : row.region = other.region /\ row.at = other.at => row = other

Migrated(http, rows) == {MigratedRow(http, row) : row \in rows}

\* The migration rewrites nothing but the success column.
LEMMA MigratedRowFields ==
    ASSUME NEW http \in BOOLEAN, NEW rows, Table(rows), NEW row \in rows
    PROVE  /\ MigratedRow(http, row).region = row.region
           /\ MigratedRow(http, row).at = row.at
           /\ IsSuccessfulStatus(http, MigratedRow(http, row)) = IsSuccessfulStatus(http, row)
           /\ MigratedRow(http, row) =
                [region |-> row.region, at |-> row.at,
                 success |-> MigratedRow(http, row).success,
                 code |-> row.code, category |-> row.category]
<1>1. row = [region |-> row.region, at |-> row.at, success |-> row.success,
             code |-> row.code, category |-> row.category]
  BY DEF Table
<1>2. CASE http
  <2>1. MigratedRow(http, row) =
            [region |-> row.region, at |-> row.at, success |-> row.code \in 200 .. 399,
             code |-> row.code, category |-> row.category]
    BY <1>1, <1>2 DEF MigratedRow
  <2>2. MigratedRow(http, row).code = row.code
    BY <2>1
  <2>3. IsSuccessfulStatus(http, MigratedRow(http, row)) = IsSuccessfulStatus(http, row)
    BY <1>2, <2>2, Zenon DEF IsSuccessfulStatus
  <2> QED
    BY <2>1, <2>3
<1>3. CASE ~http
  <2>1. MigratedRow(http, row) = row
    BY <1>3 DEF MigratedRow
  <2> QED
    BY <1>1, <2>1
<1> QED
  BY <1>2, <1>3

\* A migrated table is a table.
LEMMA MigratedTable ==
    ASSUME NEW http \in BOOLEAN, NEW rows, Table(rows)
    PROVE  Table(Migrated(http, rows))
<1> DEFINE f == [row \in rows |-> MigratedRow(http, row)]
<1>1. f \in Surjection(rows, Migrated(http, rows))
  BY DEF Surjection, Migrated
<1>2. IsFiniteSet(Migrated(http, rows))
  BY <1>1, FS_Surjection DEF Table
<1>3. \A row \in Migrated(http, rows) :
        row = [region |-> row.region, at |-> row.at, success |-> row.success,
               code |-> row.code, category |-> row.category]
  BY MigratedRowFields DEF Migrated
<1>4. ASSUME NEW row \in rows, NEW other \in rows,
             MigratedRow(http, row).region = MigratedRow(http, other).region,
             MigratedRow(http, row).at = MigratedRow(http, other).at
      PROVE  MigratedRow(http, row) = MigratedRow(http, other)
  <2>1. row.region = other.region /\ row.at = other.at
    BY <1>4, MigratedRowFields
  <2> QED
    BY <2>1 DEF Table
<1> QED
  BY <1>2, <1>3, <1>4 DEF Table, Migrated

\* As many rows of a table after the migration as before it.
LEMMA MigratedCardinality ==
    ASSUME NEW http \in BOOLEAN, NEW rows, Table(rows), NEW part \in SUBSET rows
    PROVE  Cardinality({MigratedRow(http, row) : row \in part}) = Cardinality(part)
<1> DEFINE image == {MigratedRow(http, row) : row \in part}
           f     == [row \in part |-> MigratedRow(http, row)]
<1>1. IsFiniteSet(part)
  BY FS_Subset DEF Table
<1>2. f \in Surjection(part, image)
  BY DEF Surjection
<1>3. \A a, b \in part : f[a] = f[b] => a = b
  <2> SUFFICES ASSUME NEW a \in part, NEW b \in part, MigratedRow(http, a) = MigratedRow(http, b)
               PROVE  a = b
    OBVIOUS
  <2>1. a.region = b.region /\ a.at = b.at
    BY MigratedRowFields
  <2> QED
    BY <2>1 DEF Table
<1>4. f \in Injection(part, image)
  BY <1>2, <1>3 DEF Injection, IsInjective, Surjection
<1> HIDE DEF f, image
<1>5. Cardinality(image) = Cardinality(part)
  BY <1>1, <1>2, <1>4, FS_Surjection
<1> QED
  BY <1>5 DEF image

\* The buckets of a migrated table are the buckets of the table.
LEMMA MigrationKeepsBuckets ==
    ASSUME NEW http \in BOOLEAN, NEW rows, Table(rows)
    PROVE  groupSubmissionByMinute(http, Migrated(http, rows)) = groupSubmissionByMinute(http, rows)
<1> DEFINE after == Migrated(http, rows)
           Image(part) == {MigratedRow(http, row) : row \in part}
<1>1. {Truncate(row.at) : row \in after} = {Truncate(row.at) : row \in rows}
  BY MigratedRowFields DEF Migrated
<1>2. \A minute : InBucket(after, minute) = Image(InBucket(rows, minute))
  BY MigratedRowFields DEF Migrated, InBucket
<1>3. ASSUME NEW minute
      PROVE  {row.region : row \in InBucket(after, minute)} = {row.region : row \in InBucket(rows, minute)}
  <2>1. \A row \in InBucket(rows, minute) : MigratedRow(http, row).region = row.region
    BY MigratedRowFields DEF InBucket
  <2> QED
    BY <1>2, <2>1
<1>4. ASSUME NEW minute, NEW region
      PROVE  RegionPasses(http, {row \in InBucket(after, minute) : row.region = region}) =
             RegionPasses(http, {row \in InBucket(rows, minute) : row.region = region})
  <2> DEFINE part == {row \in InBucket(rows, minute) : row.region = region}
             failures == {row \in part : ~IsSuccessfulStatus(http, row)}
             partAfter == {row \in InBucket(after, minute) : row.region = region}
             failuresAfter == {row \in partAfter : ~IsSuccessfulStatus(http, row)}
  <2>1. part \in SUBSET rows /\ failures \in SUBSET rows
    BY DEF InBucket
  <2>2. \A row \in InBucket(rows, minute) :
            /\ MigratedRow(http, row).region = row.region
            /\ IsSuccessfulStatus(http, MigratedRow(http, row)) = IsSuccessfulStatus(http, row)
    BY MigratedRowFields DEF InBucket
  <2>3. partAfter = Image(part)
    BY <1>2, <2>2
  <2>4. failuresAfter = Image(failures)
    BY <2>2, <2>3
  <2>5. Cardinality(Image(part)) = Cardinality(part) /\ Cardinality(Image(failures)) = Cardinality(failures)
    BY <2>1, MigratedCardinality
  <2> QED
    BY <2>3, <2>4, <2>5 DEF RegionPasses
<1> DEFINE Bucket(table, minute) ==
                [region \in {row.region : row \in InBucket(table, minute)} |->
                    RegionPasses(http, {row \in InBucket(table, minute) : row.region = region})]
<1>5. ASSUME NEW minute PROVE Bucket(after, minute) = Bucket(rows, minute)
  <2> DEFINE D(table) == {row.region : row \in InBucket(table, minute)}
             P(table, region) ==
                RegionPasses(http, {row \in InBucket(table, minute) : row.region = region})
  <2>1. D(after) = D(rows) /\ \A region : P(after, region) = P(rows, region)
    BY <1>3, <1>4
  <2>2. \A table : Bucket(table, minute) = [region \in D(table) |-> P(table, region)]
    OBVIOUS
  <2> HIDE DEF D, P, Bucket
  <2> QED
    BY <2>1, <2>2
<1>6. /\ groupSubmissionByMinute(http, after) =
            [minute \in {Truncate(row.at) : row \in after} |-> Bucket(after, minute)]
      /\ groupSubmissionByMinute(http, rows) =
            [minute \in {Truncate(row.at) : row \in rows} |-> Bucket(rows, minute)]
  BY Zenon DEF groupSubmissionByMinute
<1> HIDE DEF after, Bucket
<1>7. groupSubmissionByMinute(http, after) = groupSubmissionByMinute(http, rows)
  BY <1>1, <1>5, <1>6
<1> QED
  BY <1>7 DEF after

\* Of what evaluateBucketIncident returns only the breakdown depends on the
\* breakdown, and a bucket without failed regions has none.
LEMMA BucketEvaluationShape ==
    ASSUME NEW bucket, failedRegionsFromBucket(bucket) # {}
    PROVE  \E status, scope, kind, shown : \A breakdown :
                evaluateBucketIncident(bucket, breakdown) =
                [status |-> status, scope |-> scope,
                 reason |-> [kind |-> kind, failed |-> failedRegionsFromBucket(bucket),
                             total |-> shown],
                 regions |-> failedRegionsFromBucket(bucket), breakdown |-> breakdown]
<1> DEFINE failed == failedRegionsFromBucket(bucket)
           total  == Cardinality(DOMAIN bucket)
           most   == 100 * Cardinality(failed) >= FailureThresholdPercent * total
           Incident(status, scope, kind, shown, breakdown) ==
                [status |-> status, scope |-> scope,
                 reason |-> [kind |-> kind, failed |-> failed, total |-> shown],
                 regions |-> failed, breakdown |-> breakdown]
<1>1. \A breakdown : evaluateBucketIncident(bucket, breakdown) =
        IF failed = DOMAIN bucket
        THEN Incident("down", IF total > 1 THEN "global" ELSE "local", "all", 0, breakdown)
        ELSE IF most THEN Incident("down", "global", "multi", total, breakdown)
        ELSE Incident("degraded", "local", "regional", 0, breakdown)
  BY DEF evaluateBucketIncident
<1> HIDE DEF failed, total, most, Incident
<1>2. \E status, scope, kind, shown : \A breakdown :
        evaluateBucketIncident(bucket, breakdown) = Incident(status, scope, kind, shown, breakdown)
  <2>1. CASE failed = DOMAIN bucket
    BY <1>1, <2>1, Zenon
  <2>2. CASE failed # DOMAIN bucket /\ most
    BY <1>1, <2>2, Zenon
  <2>3. CASE failed # DOMAIN bucket /\ ~most
    BY <1>1, <2>3, Zenon
  <2> QED
    BY <2>1, <2>2, <2>3
<1> QED
  BY <1>2, Zenon DEF Incident, failed

\* The verdict on a table and on the migrated table differ in nothing but the
\* breakdown.
LEMMA MigrationKeepsEvaluation ==
    ASSUME NEW http \in BOOLEAN, NEW rows, Table(rows), NEW breakdown
    PROVE  [evaluateLatestIncident(http, Migrated(http, rows)) EXCEPT !.breakdown = breakdown] =
           [evaluateLatestIncident(http, rows) EXCEPT !.breakdown = breakdown]
<1> DEFINE buckets == groupSubmissionByMinute(http, rows)
           latest  == latestNonEmptyBucket(buckets)
           bucket  == buckets[latest]
           after   == Migrated(http, rows)
           b1      == buildFailureReasonsBreakdown(buckets, rows, latest)
           b2      == buildFailureReasonsBreakdown(buckets, after, latest)
           e1      == evaluateBucketIncident(bucket, b1)
           e2      == evaluateBucketIncident(bucket, b2)
<1>1. groupSubmissionByMinute(http, after) = buckets
  BY MigrationKeepsBuckets
<1>2. after = {} <=> rows = {}
  BY DEF Migrated
<1> HIDE DEF buckets, latest, after
<1>3. /\ e1.status = e2.status /\ e1.scope = e2.scope
      /\ [e1 EXCEPT !.breakdown = breakdown] = [e2 EXCEPT !.breakdown = breakdown]
  <2> HIDE DEF b1, b2, bucket
  <2>1. CASE failedRegionsFromBucket(bucket) = {}
    BY <2>1 DEF evaluateBucketIncident
  <2>2. CASE failedRegionsFromBucket(bucket) # {}
    <3>1. PICK status, scope, kind, shown : \A b :
                evaluateBucketIncident(bucket, b) =
                [status |-> status, scope |-> scope,
                 reason |-> [kind |-> kind, failed |-> failedRegionsFromBucket(bucket),
                             total |-> shown],
                 regions |-> failedRegionsFromBucket(bucket), breakdown |-> b]
      BY <2>2, BucketEvaluationShape
    <3> QED
      BY <3>1
  <2> QED
    BY <2>1, <2>2
<1> HIDE DEF e1, e2
<1>4. evaluateLatestIncident(http, rows) =
        CASE rows = {} -> HealthyIncidentEvaluation
          [] /\ rows # {}
             /\ e1.status = "degraded" /\ e1.scope = "local"
             /\ ~shouldPromoteLocalDegraded(buckets, latest) -> HealthyIncidentEvaluation
          [] OTHER -> e1
  BY DEF evaluateLatestIncident, e1, buckets, latest
<1>5. evaluateLatestIncident(http, after) =
        CASE rows = {} -> HealthyIncidentEvaluation
          [] /\ rows # {}
             /\ e2.status = "degraded" /\ e2.scope = "local"
             /\ ~shouldPromoteLocalDegraded(buckets, latest) -> HealthyIncidentEvaluation
          [] OTHER -> e2
  BY <1>1, <1>2 DEF evaluateLatestIncident, e2, buckets, latest
<1> QED
  BY <1>3, <1>4, <1>5 DEF after

\* The latest minute of a bounded table that is not empty is one of its minutes
\* and no minute is later.
LEMMA LatestMinute ==
    ASSUME NEW http \in BOOLEAN, NEW rows, rows # {},
           NEW bound \in Nat, \A row \in rows : row.at \in Nat /\ row.at <= bound
    PROVE  LET buckets == groupSubmissionByMinute(http, rows)
               latest  == latestNonEmptyBucket(buckets)
           IN  /\ DOMAIN buckets \in SUBSET Nat
               /\ latest \in DOMAIN buckets
               /\ \A minute \in DOMAIN buckets : minute <= latest /\ minute <= bound
<1> DEFINE buckets == groupSubmissionByMinute(http, rows)
           full    == {minute \in DOMAIN buckets : DOMAIN buckets[minute] # {}}
<1>1. DOMAIN buckets = {Truncate(row.at) : row \in rows}
  BY DEF groupSubmissionByMinute
<1>2. \A minute \in DOMAIN buckets :
        DOMAIN buckets[minute] = {row.region : row \in InBucket(rows, minute)}
  BY DEF groupSubmissionByMinute
<1> HIDE DEF buckets
<1>3. full = DOMAIN buckets
  BY <1>1, <1>2 DEF InBucket
<1>4. \A minute \in DOMAIN buckets : minute \in Nat /\ minute <= bound
  <2> SUFFICES ASSUME NEW minute \in DOMAIN buckets
               PROVE  minute \in Nat /\ minute <= bound
    OBVIOUS
  <2>1. PICK row \in rows : minute = Truncate(row.at)
    BY <1>1
  <2>2. row.at \in Nat /\ row.at <= bound
    OBVIOUS
  <2> QED
    BY <2>1, <2>2, TruncateType
<1>5. full \in SUBSET Nat /\ full # {}
  BY <1>1, <1>3, <1>4
<1> HIDE DEF full
<1>6. Max(full) \in full /\ \A minute \in full : minute <= Max(full)
  BY <1>3, <1>4, <1>5, MaxOfBounded
<1>7. latestNonEmptyBucket(buckets) = Max(full)
  BY DEF latestNonEmptyBucket, full
<1> QED
  BY <1>3, <1>4, <1>6, <1>7 DEF buckets

\* A region whose rows do not pass has a failing row, as long as a rate of zero
\* failures is below the threshold.
LEMMA FailingRegionHasFailure ==
    ASSUME NEW http \in BOOLEAN, PerRegionFailureThresholdPercent > 0,
           NEW part, IsFiniteSet(part), part # {}, ~RegionPasses(http, part)
    PROVE  \E row \in part : ~IsSuccessfulStatus(http, row)
<1> DEFINE failures == {row \in part : ~IsSuccessfulStatus(http, row)}
<1>1. Cardinality(part) \in Nat /\ Cardinality(part) # 0
  BY FS_CardinalityType, FS_EmptySet
<1>2. PerRegionFailureThresholdPercent \in Nat
  BY EvaluationAssumption
<1>3. 0 < PerRegionFailureThresholdPercent * Cardinality(part)
  BY <1>1, <1>2
<1>4. failures = {} => Cardinality(failures) = 0
  BY FS_EmptySet
<1>5. failures = {} => RegionPasses(http, part)
  BY <1>3, <1>4 DEF RegionPasses
<1> QED
  BY <1>5

\* While the success column is what the ingester made of the outcome, the
\* breakdown of a verdict names its affected regions and no other.
LEMMA BreakdownOfRegions ==
    ASSUME NEW http \in BOOLEAN, PerRegionFailureThresholdPercent > 0,
           NEW rows, IsFiniteSet(rows),
           NEW bound \in Nat, \A row \in rows : row.at \in Nat /\ row.at <= bound,
           \A row \in rows : IsSuccessfulStatus(http, row) = row.success
    PROVE  LET e == evaluateLatestIncident(http, rows)
           IN  {pair[2] : pair \in e.breakdown} = e.regions
<1> DEFINE buckets == groupSubmissionByMinute(http, rows)
           latest  == latestNonEmptyBucket(buckets)
           failed  == failedRegionsFromBucket(buckets[latest])
           why     == buildFailureReasonsBreakdown(buckets, rows, latest)
           e       == evaluateBucketIncident(buckets[latest], why)
<1>1. HealthyIncidentEvaluation.breakdown = {} /\ HealthyIncidentEvaluation.regions = {}
  BY DEF HealthyIncidentEvaluation
<1>2. CASE rows = {}
  BY <1>1, <1>2 DEF evaluateLatestIncident
<1>3. CASE rows # {} /\ failed = {}
  <2>1. e = HealthyIncidentEvaluation
    BY <1>3 DEF evaluateBucketIncident
  <2>2. evaluateLatestIncident(http, rows) = HealthyIncidentEvaluation
    BY <2>1 DEF evaluateLatestIncident
  <2> QED
    BY <1>1, <2>2
<1>4. CASE rows # {} /\ failed # {}
  <2>1. /\ DOMAIN buckets \in SUBSET Nat /\ latest \in DOMAIN buckets
        /\ \A minute \in DOMAIN buckets : minute <= latest /\ minute <= bound
    BY <1>4, LatestMinute
  <2> DEFINE failing == {minute \in DOMAIN buckets :
                            minute <= latest /\ failedRegionsFromBucket(buckets[minute]) # {}}
             cause   == {r \in InBucket(rows, latest) : ~r.success /\ r.region \in failed}
  <2>2. Max(failing) = latest /\ failing # {}
    <3> HIDE DEF buckets, latest
    <3>1. latest \in failing /\ failing \in SUBSET Nat /\ \A minute \in failing : minute <= bound
      BY <1>4, <2>1
    <3> HIDE DEF failing
    <3>2. Max(failing) \in failing /\ \A minute \in failing : minute <= Max(failing)
      BY <3>1, MaxOfBounded
    <3>3. Max(failing) <= latest /\ latest <= Max(failing) /\ Max(failing) \in Nat /\ latest \in Nat
      BY <3>1, <3>2 DEF failing
    <3> QED
      BY <3>1, <3>3
  <2>3. why = {<<row.category, row.region>> : row \in cause}
    <3> DEFINE causeAt(minute) ==
                    {r \in InBucket(rows, minute) :
                        ~r.success /\ r.region \in failedRegionsFromBucket(buckets[minute])}
    <3>1. why = IF failing = {} THEN {}
                ELSE {<<row.category, row.region>> : row \in causeAt(Max(failing))}
      BY DEF buildFailureReasonsBreakdown
    <3>2. cause = causeAt(latest)
      OBVIOUS
    <3> HIDE DEF buckets, failing, latest, why, cause, causeAt
    <3>3. why = {<<row.category, row.region>> : row \in causeAt(latest)}
      BY <2>2, <3>1
    <3> QED
      BY <3>2, <3>3
  <2>4. failed \subseteq {row.region : row \in cause}
    <3> SUFFICES ASSUME NEW region \in failed
                 PROVE  \E row \in cause : row.region = region
      OBVIOUS
    <3> DEFINE part == {row \in InBucket(rows, latest) : row.region = region}
    <3>1. /\ region \in DOMAIN buckets[latest] /\ ~buckets[latest][region]
      BY DEF failedRegionsFromBucket
    <3>2. /\ DOMAIN buckets[latest] = {row.region : row \in InBucket(rows, latest)}
          /\ \A r \in DOMAIN buckets[latest] :
                buckets[latest][r] = RegionPasses(http, {row \in InBucket(rows, latest) : row.region = r})
      <4>1. \A minute \in DOMAIN buckets :
                buckets[minute] =
                    [r \in {row.region : row \in InBucket(rows, minute)} |->
                        RegionPasses(http, {row \in InBucket(rows, minute) : row.region = r})]
        BY DEF groupSubmissionByMinute
      <4> HIDE DEF buckets, latest
      <4>2. buckets[latest] =
                    [r \in {row.region : row \in InBucket(rows, latest)} |->
                        RegionPasses(http, {row \in InBucket(rows, latest) : row.region = r})]
        BY <2>1, <4>1, Zenon
      <4> QED
        BY <4>2
    <3> HIDE DEF buckets, latest, failed
    <3>3. part # {} /\ ~RegionPasses(http, part)
      BY <3>1, <3>2
    <3>4. IsFiniteSet(part)
      <4>1. part \subseteq rows
        BY DEF InBucket
      <4> QED
        BY <4>1, FS_Subset
    <3> HIDE DEF part
    <3>5. PICK row \in part : ~IsSuccessfulStatus(http, row)
      BY <3>3, <3>4, FailingRegionHasFailure
    <3>6. row \in cause /\ row.region = region
      BY <3>5 DEF part, InBucket
    <3> QED
      BY <3>6
  <2>5. {pair[2] : pair \in why} = failed
    <3> HIDE DEF why, failed, latest
    <3>1. \A row : <<row.category, row.region>>[2] = row.region
      OBVIOUS
    <3>2. {row.region : row \in cause} \subseteq failed
      OBVIOUS
    <3> HIDE DEF cause
    <3>3. {pair[2] : pair \in why} = {row.region : row \in cause}
      BY <2>3, <3>1
    <3> QED
      BY <2>4, <3>2, <3>3
  <2>6. e.breakdown = why /\ e.regions = failed
    <3> DEFINE bucket == buckets[latest]
    <3> HIDE DEF why, buckets, latest, bucket
    <3>1. failedRegionsFromBucket(bucket) # {} /\ failed = failedRegionsFromBucket(bucket)
      BY <1>4 DEF bucket
    <3>2. PICK status, scope, kind, shown : \A b :
                evaluateBucketIncident(bucket, b) =
                [status |-> status, scope |-> scope,
                 reason |-> [kind |-> kind, failed |-> failedRegionsFromBucket(bucket),
                             total |-> shown],
                 regions |-> failedRegionsFromBucket(bucket), breakdown |-> b]
      BY <3>1, BucketEvaluationShape
    <3>3. e = evaluateBucketIncident(bucket, why)
      BY DEF bucket
    <3> HIDE DEF e, failed
    <3> QED
      BY <3>1, <3>2, <3>3
  <2>7. \/ evaluateLatestIncident(http, rows) = HealthyIncidentEvaluation
        \/ evaluateLatestIncident(http, rows) = e
    <3> HIDE DEF e
    <3>1. evaluateLatestIncident(http, rows) =
            CASE rows = {} -> HealthyIncidentEvaluation
              [] /\ rows # {}
                 /\ e.status = "degraded" /\ e.scope = "local"
                 /\ ~shouldPromoteLocalDegraded(buckets, latest) -> HealthyIncidentEvaluation
              [] OTHER -> e
      BY DEF evaluateLatestIncident, e
    <3> QED
      BY <3>1
  <2> HIDE DEF e, why, failed
  <2> QED
    BY <1>1, <2>5, <2>6, <2>7
<1> QED
  BY <1>2, <1>3, <1>4

\* A verdict is a record: giving it back its own breakdown changes nothing.
LEMMA VerdictShape ==
    ASSUME NEW http, NEW rows
    PROVE  LET e == evaluateLatestIncident(http, rows)
           IN  [e EXCEPT !.breakdown = e.breakdown] = e
<1> DEFINE IsRecord(e) == e = [status |-> e.status, scope |-> e.scope, reason |-> e.reason,
                               regions |-> e.regions, breakdown |-> e.breakdown]
<1>1. IsRecord(HealthyIncidentEvaluation)
  BY DEF HealthyIncidentEvaluation
<1>2. ASSUME NEW bucket, NEW why PROVE IsRecord(evaluateBucketIncident(bucket, why))
  <2>1. CASE failedRegionsFromBucket(bucket) = {}
    BY <1>1, <2>1 DEF evaluateBucketIncident
  <2>2. CASE failedRegionsFromBucket(bucket) # {}
    <3>1. PICK status, scope, kind, shown : \A b :
                evaluateBucketIncident(bucket, b) =
                [status |-> status, scope |-> scope,
                 reason |-> [kind |-> kind, failed |-> failedRegionsFromBucket(bucket),
                             total |-> shown],
                 regions |-> failedRegionsFromBucket(bucket), breakdown |-> b]
      BY <2>2, BucketEvaluationShape
    <3> QED
      BY <3>1
  <2> QED
    BY <2>1, <2>2
<1> HIDE DEF IsRecord
<1>3. evaluateLatestIncident(http, rows) = HealthyIncidentEvaluation
      \/ \E bucket, why : evaluateLatestIncident(http, rows) = evaluateBucketIncident(bucket, why)
  BY DEF evaluateLatestIncident
<1>4. IsRecord(evaluateLatestIncident(http, rows))
  BY <1>1, <1>2, <1>3
<1> QED
  BY <1>4 DEF IsRecord
=============================================================================
