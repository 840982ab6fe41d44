--------------------- MODULE MCIncidentEvaluationProofs ---------------------
(***************************************************************************)
(* What MCIncidentEvaluation checks about the evaluation of ingested rows, *)
(* proved for every set of regions and any thresholds, times and numbers   *)
(* of rows.                                                                *)
(***************************************************************************)
EXTENDS MCIncidentEvaluation, IncidentEvaluationProofs

\* The rows of one monitor, as the ingester inserts them.
IngestedInv ==
    /\ http \in BOOLEAN
    /\ Table(rows)
    /\ \A row \in rows : /\ row.region \in Regions /\ row.at \in 0 .. MaxTime
                         /\ row.success = IsSuccessfulStatus(http, row)

\* The ingester's rows stay a table whose success column agrees with the way the
\* processor judges them.
LEMMA IngestedInvariant == Spec => []IngestedInv
<1>1. Init => IngestedInv
  BY FS_EmptySet DEF Init, IngestedInv, Table
<1>2. IngestedInv /\ [Next]_vars => IngestedInv'
  <2> SUFFICES ASSUME IngestedInv, [Next]_vars PROVE IngestedInv'
    OBVIOUS
  <2>1. CASE UNCHANGED vars
    BY <2>1 DEF vars, IngestedInv
  <2>2. ASSUME NEW region \in Regions, NEW at \in 0 .. MaxTime, NEW outcome \in Outcomes,
               InsertRow(region, at, outcome)
        PROVE  IngestedInv'
    <3> DEFINE row == IngestedRow(http, region, at, outcome)
    <3>1. /\ rows' = rows \cup {row} /\ http' = http
          /\ \A other \in rows : other.region # region \/ other.at # at
      BY <2>2 DEF InsertRow
    <3>2. /\ row = [region |-> row.region, at |-> row.at, success |-> row.success,
                    code |-> row.code, category |-> row.category]
          /\ row.region = region /\ row.at = at
          /\ row.success = IsSuccessfulStatus(http, outcome) /\ row.code = outcome.code
      BY DEF IngestedRow
    <3> HIDE DEF row
    <3>3. IsFiniteSet(rows')
      BY <3>1, FS_AddElement DEF IngestedInv, Table
    <3>4. Table(rows')
      BY <3>1, <3>2, <3>3, Zenon DEF IngestedInv, Table
    <3>5. row.success = IsSuccessfulStatus(http, row)
      <4>1. CASE http
        BY <3>2, <4>1, Zenon DEF IsSuccessfulStatus
      <4>2. CASE ~http
        <5>1. row.success = outcome.success
          BY <3>2, <4>2, Zenon DEF IsSuccessfulStatus
        <5>2. IsSuccessfulStatus(http, row) = row.success
          BY <4>2, Zenon DEF IsSuccessfulStatus
        <5> QED
          BY <5>2
      <4> QED
        BY <4>1, <4>2
    <3> QED
      BY <3>1, <3>2, <3>4, <3>5, Zenon DEF IngestedInv
  <2> QED
    BY <2>1, <2>2 DEF Next
<1> QED
  BY <1>1, <1>2, PTL DEF Spec

\* The migration that every start runs again rewrites the success column by a
\* rule of its own, and never changes status, scope, reason or affected regions
\* of a verdict, however many rows and regions there are.
THEOREM VerdictsSurviveMigration == Spec => []MigrationKeepsVerdict
<1>1. IngestedInv => MigrationKeepsVerdict
  <2> SUFFICES ASSUME IngestedInv PROVE MigrationKeepsVerdict
    OBVIOUS
  <2> DEFINE before == evaluateLatestIncident(http, rows)
             after  == evaluateLatestIncident(http, Migrated(http, rows))
  <2>1. \A b : [after EXCEPT !.breakdown = b] = [before EXCEPT !.breakdown = b]
    <3>1. http \in BOOLEAN /\ Table(rows)
      BY DEF IngestedInv
    <3> QED
      BY <3>1, MigrationKeepsEvaluation
  <2>2. [before EXCEPT !.breakdown = before.breakdown] = before
    BY VerdictShape
  <2>3. Verdict(rows) = before /\ Verdict({MigratedRow(http, row) : row \in rows}) = after
    BY DEF Verdict, Migrated
  <2> HIDE DEF before, after
  <2> QED
    BY <2>1, <2>2, <2>3 DEF MigrationKeepsVerdict
<1> QED
  BY <1>1, IngestedInvariant, PTL

\* The breakdown of a verdict names its affected regions and no other, as long
\* as per_region_failure_threshold_percent is positive: at zero a region without
\* a failing row fails, and there is nothing to break down.
THEOREM BreakdownsExplain ==
    PerRegionFailureThresholdPercent > 0 => (Spec => []BreakdownExplainsRegions)
<1> SUFFICES ASSUME PerRegionFailureThresholdPercent > 0
             PROVE  Spec => []BreakdownExplainsRegions
  OBVIOUS
<1>1. IngestedInv => BreakdownExplainsRegions
  <2> SUFFICES ASSUME IngestedInv PROVE BreakdownExplainsRegions
    OBVIOUS
  <2>1. /\ http \in BOOLEAN /\ IsFiniteSet(rows) /\ MaxTime \in Nat
        /\ \A row \in rows : row.at \in Nat /\ row.at <= MaxTime
        /\ \A row \in rows : IsSuccessfulStatus(http, row) = row.success
    BY BoundsAssumption DEF IngestedInv, Table
  <2> QED
    BY <2>1, BreakdownOfRegions DEF BreakdownExplainsRegions, Verdict
<1> QED
  BY <1>1, IngestedInvariant, PTL

(***************************************************************************)
(* The streak.  The walk back over the buckets is a recursive function, of *)
(* which a proof only knows that it is chosen to satisfy its equation:     *)
(* that it does needs a function which does, and what it is follows from   *)
(* the largest argument at which two such functions would differ.          *)
(***************************************************************************)

\* The equation of a walk has a solution, and each of its solutions finds the
\* streaks that go on until they are far enough.
LEMMA WalkIsStreak ==
    ASSUME NEW N \in Nat, NEW Goes \in [0 .. N -> BOOLEAN], NEW Far \in [1 .. N -> BOOLEAN]
    PROVE  /\ \E w : w = [n \in 0 .. N |-> n < N /\ Goes[n] /\ (Far[n + 1] \/ w[n + 1])]
           /\ \A w : w = [n \in 0 .. N |-> n < N /\ Goes[n] /\ (Far[n + 1] \/ w[n + 1])]
                => (w[0] <=> \E k \in 0 .. N - 1 : Far[k + 1] /\ \A j \in 0 .. k : Goes[j])
<1> DEFINE Streak(n) == \E k \in n .. N - 1 : Far[k + 1] /\ \A j \in n .. k : Goes[j]
           streak    == [n \in 0 .. N |-> Streak(n)]
           Body(w)   == [n \in 0 .. N |-> n < N /\ Goes[n] /\ (Far[n + 1] \/ w[n + 1])]
<1>1. ASSUME NEW n \in 0 .. N, n < N
      PROVE  Streak(n) = (Goes[n] /\ (Far[n + 1] \/ Streak(n + 1)))
  <2>1. n + 1 \in 1 .. N /\ n \in n .. N - 1 /\ n .. n = {n}
    BY <1>1
  <2>2. ASSUME Streak(n) PROVE Goes[n] /\ (Far[n + 1] \/ Streak(n + 1))
    <3>1. PICK k \in n .. N - 1 : Far[k + 1] /\ \A j \in n .. k : Goes[j]
      BY <2>2
    <3>2. n \in n .. k /\ \A j \in n + 1 .. k : j \in n .. k
      OBVIOUS
    <3>3. Goes[n]
      BY <3>1, <3>2
    <3>4. CASE k = n
      BY <3>1, <3>3, <3>4
    <3>5. CASE k # n
      <4>1. k \in n + 1 .. N - 1
        BY <3>5
      <4>2. Streak(n + 1)
        BY <3>1, <3>2, <4>1
      <4> QED
        BY <3>3, <4>2
    <3> QED
      BY <3>4, <3>5
  <2>3. ASSUME Goes[n], Far[n + 1] PROVE Streak(n)
    BY <2>1, <2>3
  <2>4. ASSUME Goes[n], Streak(n + 1) PROVE Streak(n)
    <3>1. PICK k \in n + 1 .. N - 1 : Far[k + 1] /\ \A j \in n + 1 .. k : Goes[j]
      BY <2>4
    <3>2. k \in n .. N - 1 /\ \A j \in n .. k : j = n \/ j \in n + 1 .. k
      OBVIOUS
    <3> QED
      BY <2>4, <3>1, <3>2
  <2>5. Streak(n) <=> (Goes[n] /\ (Far[n + 1] \/ Streak(n + 1)))
    BY <2>2, <2>3, <2>4
  <2> QED
    BY <2>5, Zenon
<1>2. ~Streak(N)
  OBVIOUS
<1>3. streak = Body(streak)
  <2>1. ASSUME NEW n \in 0 .. N
        PROVE  Streak(n) = (n < N /\ Goes[n] /\ (Far[n + 1] \/ streak[n + 1]))
    <3>1. CASE n < N
      <4> HIDE DEF Streak
      <4>1. n + 1 \in 0 .. N
        BY <3>1
      <4>2. streak[n + 1] = Streak(n + 1)
        BY <4>1
      <4> HIDE DEF streak
      <4> QED
        BY <1>1, <3>1, <4>2
    <3>2. CASE ~(n < N)
      <4>1. n = N
        BY <3>2
      <4> HIDE DEF Streak, streak
      <4>2. Streak(n) = FALSE
        BY <1>2, <4>1
      <4> QED
        BY <3>2, <4>2
    <3> QED
      BY <3>1, <3>2
  <2> HIDE DEF Streak
  <2> QED
    BY <2>1
<1>4. \E w : w = Body(w)
  <2> HIDE DEF streak, Body
  <2> QED
    BY <1>3
<1>5. ASSUME NEW walk, walk = Body(walk)
      PROVE  \A n \in 0 .. N : walk[n] = streak[n]
  <2> DEFINE differ == {n \in 0 .. N : walk[n] # streak[n]}
             last   == Max(differ)
  <2> SUFFICES ASSUME differ # {} PROVE FALSE
    OBVIOUS
  <2>1. differ \in SUBSET Nat /\ \A n \in differ : n <= N
    <3> HIDE DEF streak
    <3> QED
      OBVIOUS
  <2>2. last \in differ /\ \A n \in differ : n <= last
    <3> HIDE DEF differ
    <3> QED
      BY <2>1, MaxOfBounded
  <2>3. last \in 0 .. N /\ walk[last] # streak[last]
    BY <2>2
  <2> HIDE DEF last
  <2>4. last < N => walk[last + 1] = streak[last + 1]
    <3> HIDE DEF streak
    <3>1. last + 1 \notin differ
      <4> HIDE DEF differ
      <4> QED
        BY <2>2, <2>3
    <3>2. last < N => last + 1 \in 0 .. N
      BY <2>3
    <3> QED
      BY <3>1, <3>2
  <2>5. walk[last] = (last < N /\ Goes[last] /\ (Far[last + 1] \/ walk[last + 1]))
    BY <1>5, <2>3
  <2>6. streak[last] = (last < N /\ Goes[last] /\ (Far[last + 1] \/ streak[last + 1]))
    <3> HIDE DEF streak
    <3> QED
      BY <1>3, <2>3
  <2> HIDE DEF streak, differ
  <2>7. CASE last < N
    BY <2>3, <2>4, <2>5, <2>6, <2>7
  <2>8. CASE ~(last < N)
    BY <2>3, <2>5, <2>6, <2>8
  <2> QED
    BY <2>7, <2>8
<1>6. ASSUME NEW w, w = Body(w) PROVE w[0] = Streak(0)
  <2>1. w[0] = streak[0]
    <3> HIDE DEF streak, Body
    <3> QED
      BY <1>5, <1>6
  <2> HIDE DEF Streak
  <2> QED
    BY <2>1
<1> QED
  BY <1>4, <1>6

\* The smaller of the two thresholds that are set is the one that is reached first.
LEMMA PromotionThreshold ==
    /\ PromotionMinutes \in Nat \ {0}
    /\ ~(DegradedThresholdConsecutiveBuckets <= 0 /\ DegradedThresholdMinutes <= 0) =>
            \A n \in Nat :
                \/ DegradedThresholdConsecutiveBuckets > 0 /\ n >= DegradedThresholdConsecutiveBuckets
                \/ DegradedThresholdMinutes > 0 /\ n >= DegradedThresholdMinutes
                <=> n >= PromotionMinutes
<1> DEFINE c == DegradedThresholdConsecutiveBuckets
           m == DegradedThresholdMinutes
           positive == {n \in {m, c} : n > 0}
<1>1. c \in Int /\ m \in Int
  BY EvaluationAssumption
<1>2. PromotionMinutes = IF positive = {} THEN 1 ELSE Min(positive)
  BY DEF PromotionMinutes
<1>3. Min(positive) = CHOOSE x \in positive : \A y \in positive : x <= y
  BY DEF Min
<1>4. c <= 0 /\ m <= 0 <=> positive = {}
  BY <1>1
<1>5. ASSUME positive # {}
      PROVE  Min(positive) \in positive /\ \A y \in positive : Min(positive) <= y
  <2>1. \E x \in positive : \A y \in positive : x <= y
    <3>1. CASE c > 0 /\ (m > 0 => c <= m)
      BY <1>1, <3>1
    <3>2. CASE m > 0 /\ (c > 0 => m <= c)
      BY <1>1, <3>2
    <3> QED
      BY <1>1, <1>5, <3>1, <3>2
  <2> HIDE DEF positive
  <2> QED
    BY <1>3, <2>1
<1>6. ASSUME positive # {}
      PROVE  /\ Min(positive) \in Nat \ {0}
             /\ \A n \in Nat : (c > 0 /\ n >= c) \/ (m > 0 /\ n >= m) <=> n >= Min(positive)
  <2> DEFINE least == Min(positive)
  <2>1. least \in {m, c} /\ least > 0 /\ (c > 0 => least <= c) /\ (m > 0 => least <= m)
    BY <1>5, <1>6
  <2> HIDE DEF least
  <2>2. least \in Nat \ {0}
    BY <1>1, <2>1
  <2>3. \A n \in Nat : (c > 0 /\ n >= c) \/ (m > 0 /\ n >= m) <=> n >= least
    BY <1>1, <2>1
  <2> QED
    BY <2>2, <2>3 DEF least
<1> HIDE DEF positive
<1> QED
  BY <1>2, <1>4, <1>6

\* A local degradation is promoted exactly when the last PromotionMinutes minutes
\* have a bucket each, and each is a local degradation.
LEMMA PromotionIsStreak ==
    ASSUME NEW buckets, IsFiniteSet(DOMAIN buckets), DOMAIN buckets \subseteq Nat,
           NEW latest \in DOMAIN buckets, IsLocalDegraded(buckets[latest])
    PROVE  shouldPromoteLocalDegraded(buckets, latest) <=>
                \A k \in 0 .. PromotionMinutes - 1 :
                    latest - k \in DOMAIN buckets /\ IsLocalDegraded(buckets[latest - k])
<1> DEFINE c == DegradedThresholdConsecutiveBuckets
           m == DegradedThresholdMinutes
           P == PromotionMinutes
           N == Cardinality(DOMAIN buckets)
           Partials(n) == latest - n \in DOMAIN buckets /\ IsLocalDegraded(buckets[latest - n])
           Reached(n) == (c > 0 /\ n >= c) \/ (m > 0 /\ n >= m)
           Goes == [n \in 0 .. N |-> Partials(n)]
           Far  == [n \in 1 .. N |-> Reached(n)]
           walk[n \in 0 .. N] ==
                /\ n < N
                /\ latest - n \in DOMAIN buckets
                /\ IsLocalDegraded(buckets[latest - n])
                /\ Reached(n + 1) \/ walk[n + 1]
<1>1. N \in Nat /\ P \in Nat \ {0}
  BY FS_CardinalityType, PromotionThreshold
<1>2. shouldPromoteLocalDegraded(buckets, latest) <=> (c <= 0 /\ m <= 0) \/ walk[0]
  BY DEF shouldPromoteLocalDegraded
<1>3. walk[0] <=> \E k \in 0 .. N - 1 : Reached(k + 1) /\ \A j \in 0 .. k : Partials(j)
  <2> DEFINE Walk(w) ==
                [n \in 0 .. N |->
                    /\ n < N
                    /\ latest - n \in DOMAIN buckets
                    /\ IsLocalDegraded(buckets[latest - n])
                    /\ Reached(n + 1) \/ w[n + 1]]
             Body(w) == [n \in 0 .. N |-> n < N /\ Goes[n] /\ (Far[n + 1] \/ w[n + 1])]
  <2>1. Goes \in [0 .. N -> BOOLEAN] /\ Far \in [1 .. N -> BOOLEAN]
    OBVIOUS
  <2>2. \A n \in 0 .. N : Goes[n] = Partials(n)
    OBVIOUS
  <2>3. \A n \in 0 .. N : n < N => Far[n + 1] = Reached(n + 1)
    BY <1>1
  <2>4. ASSUME NEW w PROVE Walk(w) = Body(w)
    <3> HIDE DEF Goes, Far, N, Reached
    <3> QED
      BY <2>2, <2>3
  <2>5. /\ \E w : w = Body(w)
        /\ \A w : w = Body(w)
             => (w[0] <=> \E k \in 0 .. N - 1 : Far[k + 1] /\ \A j \in 0 .. k : Goes[j])
    <3> HIDE DEF Goes, Far, N
    <3> QED
      BY <1>1, <2>1, WalkIsStreak
  <2>6. walk = CHOOSE w : w = Walk(w)
    BY Zenon
  <2>7. walk = Walk(walk)
    <3> HIDE DEF walk, Walk, Body
    <3> QED
      BY <2>4, <2>5, <2>6
  <2>8. walk[0] <=> \E k \in 0 .. N - 1 : Far[k + 1] /\ \A j \in 0 .. k : Goes[j]
    <3> HIDE DEF walk, Walk, Body, Goes, Far
    <3> QED
      BY <2>4, <2>5, <2>7
  <2>9. \A k \in 0 .. N - 1 : /\ Far[k + 1] = Reached(k + 1)
                              /\ \A j \in 0 .. k : Goes[j] = Partials(j)
    <3> HIDE DEF Goes, Far
    <3> QED
      BY <1>1, <2>2, <2>3
  <2> HIDE DEF walk, Goes, Far, Partials, Reached
  <2> QED
    BY <2>8, <2>9
<1>4. CASE c <= 0 /\ m <= 0
  <2>1. P = 1
    <3>1. {n \in {m, c} : n > 0} = {}
      BY <1>4, EvaluationAssumption
    <3> QED
      BY <3>1 DEF PromotionMinutes
  <2>2. 0 .. P - 1 = {0} /\ latest - 0 = latest
    BY <2>1
  <2> HIDE DEF walk
  <2> QED
    BY <1>2, <1>4, <2>2
<1>5. CASE ~(c <= 0 /\ m <= 0)
  <2>1. \A n \in Nat : Reached(n) <=> n >= P
    BY <1>5, PromotionThreshold
  <2>2. ASSUME walk[0] PROVE \A k \in 0 .. P - 1 : Partials(k)
    <3>1. PICK k \in 0 .. N - 1 : Reached(k + 1) /\ \A j \in 0 .. k : Partials(j)
      BY <1>3, <2>2
    <3>2. k + 1 >= P
      BY <1>1, <2>1, <3>1
    <3>3. \A j \in 0 .. P - 1 : j \in 0 .. k
      BY <1>1, <3>2
    <3> HIDE DEF Partials
    <3> QED
      BY <3>1, <3>3
  <2>3. ASSUME \A k \in 0 .. P - 1 : Partials(k) PROVE walk[0]
    <3>1. P <= N
      <4> DEFINE back == [k \in 0 .. P - 1 |-> latest - k]
      <4>1. IsFiniteSet(0 .. P - 1) /\ Cardinality(0 .. P - 1) = P
        <5>1. 0 \in Int /\ P - 1 \in Int /\ ~(0 > P - 1) /\ (P - 1) - 0 + 1 = P
          BY <1>1
        <5> HIDE DEF P
        <5> QED
          BY <5>1, FS_Interval
      <4>2. back \in [0 .. P - 1 -> DOMAIN buckets]
        BY <2>3
      <4>3. \A i, j \in 0 .. P - 1 : back[i] = back[j] => i = j
        BY <1>1
      <4> HIDE DEF back
      <4>4. N < P => \E i, j \in 0 .. P - 1 : i # j /\ back[i] = back[j]
        BY <4>1, <4>2, FS_PigeonHole
      <4> QED
        BY <1>1, <4>3, <4>4
    <3>2. P - 1 \in 0 .. N - 1 /\ Reached((P - 1) + 1)
      BY <1>1, <2>1, <3>1
    <3> HIDE DEF Partials, walk
    <3> QED
      BY <1>3, <2>3, <3>2
  <2> HIDE DEF walk
  <2> QED
    BY <1>2, <1>5, <2>2, <2>3
<1> HIDE DEF walk
<1> QED
  BY <1>4, <1>5

(***************************************************************************)
(* The verdict and its reference.                                          *)
(***************************************************************************)
\* What a bucket's evaluation says, by its failed and its reporting regions.
LEMMA BucketVerdict ==
    ASSUME NEW bucket, IsFiniteSet(DOMAIN bucket), NEW why
    PROVE  LET failed == failedRegionsFromBucket(bucket)
               total  == Cardinality(DOMAIN bucket)
               outage == /\ failed # {}
                         /\ \/ failed = DOMAIN bucket
                            \/ 100 * Cardinality(failed) >= FailureThresholdPercent * total
               e      == evaluateBucketIncident(bucket, why)
           IN  /\ failed = {} => e = HealthyIncidentEvaluation
               /\ failed # {} => e.status = IF outage THEN "down" ELSE "degraded"
               /\ e.scope = "global" <=> outage /\ total > 1
               /\ e.status = "degraded" => e.scope = "local"
               /\ e.regions = failed
<1> DEFINE failed == failedRegionsFromBucket(bucket)
           total  == Cardinality(DOMAIN bucket)
           most   == 100 * Cardinality(failed) >= FailureThresholdPercent * total
           e      == evaluateBucketIncident(bucket, why)
           Incident(status, scope, kind, shown) ==
                [status |-> status, scope |-> scope,
                 reason |-> [kind |-> kind, failed |-> failed, total |-> shown],
                 regions |-> failed, breakdown |-> why]
<1>1. e = CASE failed = {} -> HealthyIncidentEvaluation
            [] failed # {} /\ failed = DOMAIN bucket ->
                    Incident("down", IF total > 1 THEN "global" ELSE "local", "all", 0)
            [] failed # {} /\ failed # DOMAIN bucket /\ most ->
                    Incident("down", "global", "multi", total)
            [] OTHER -> Incident("degraded", "local", "regional", 0)
  BY DEF evaluateBucketIncident
<1>2. failed \subseteq DOMAIN bucket
  BY DEF failedRegionsFromBucket
<1>3. failed # {} /\ failed # DOMAIN bucket => total > 1
  <2>1. /\ Cardinality(failed) \in Nat /\ total \in Nat /\ Cardinality(failed) <= total
        /\ Cardinality(failed) = total => failed = DOMAIN bucket
        /\ Cardinality(failed) = 0 <=> failed = {}
    BY <1>2, FS_Subset, FS_CardinalityType, FS_EmptySet
  <2> HIDE DEF failed, total
  <2> QED
    BY <2>1
<1> HIDE DEF failed, total, most, e
<1>4. CASE failed = {}
  <2>1. e = HealthyIncidentEvaluation
    BY <1>1, <1>4
  <2> QED
    BY <1>4, <2>1 DEF HealthyIncidentEvaluation, failed, total, e
<1>5. CASE failed # {} /\ failed = DOMAIN bucket
  <2>1. e = Incident("down", IF total > 1 THEN "global" ELSE "local", "all", 0)
    BY <1>1, <1>5
  <2>2. /\ e.status = "down" /\ e.regions = failed
        /\ e.scope = IF total > 1 THEN "global" ELSE "local"
    BY <2>1
  <2> QED
    BY <1>5, <2>2 DEF failed, total, e
<1>6. CASE failed # {} /\ failed # DOMAIN bucket /\ most
  <2>1. e = Incident("down", "global", "multi", total)
    BY <1>1, <1>6
  <2>2. e.status = "down" /\ e.regions = failed /\ e.scope = "global"
    BY <2>1
  <2> QED
    BY <1>3, <1>6, <2>2 DEF failed, total, e, most
<1>7. CASE failed # {} /\ failed # DOMAIN bucket /\ ~most
  <2>1. e = Incident("degraded", "local", "regional", 0)
    BY <1>1, <1>7
  <2>2. e.status = "degraded" /\ e.regions = failed /\ e.scope = "local"
    BY <2>1
  <2> QED
    BY <1>7, <2>2 DEF failed, total, e, most
<1> QED
  BY <1>4, <1>5, <1>6, <1>7

\* The buckets are the reference's minutes, their regions its reporting regions,
\* and the regions that do not pass are its failing regions.
LEMMA BucketsOfRows ==
    ASSUME IngestedInv
    PROVE  LET buckets == groupSubmissionByMinute(http, rows)
           IN  /\ Minutes \in SUBSET Nat /\ IsFiniteSet(Minutes)
               /\ DOMAIN buckets = Minutes
               /\ \A m \in Minutes : /\ DOMAIN buckets[m] = Reporting(m)
                                     /\ IsFiniteSet(Reporting(m))
                                     /\ failedRegionsFromBucket(buckets[m]) = Failing(m)
               /\ rows # {} => /\ latestNonEmptyBucket(buckets) = Max(Minutes)
                               /\ Max(Minutes) \in Minutes
<1> DEFINE buckets == groupSubmissionByMinute(http, rows)
<1>1. http \in BOOLEAN /\ IsFiniteSet(rows)
  BY DEF IngestedInv, Table
<1>2. \A m \in Minutes : m \in Nat /\ m <= MaxTime
  <2> SUFFICES ASSUME NEW m \in Minutes PROVE m \in Nat /\ m <= MaxTime
    OBVIOUS
  <2>1. PICK row \in rows : m = Truncate(row.at)
    BY DEF Minutes
  <2>2. row.at \in Nat /\ row.at <= MaxTime /\ MaxTime \in Nat
    BY BoundsAssumption DEF IngestedInv
  <2> QED
    BY <2>1, <2>2, TruncateType
<1>3. Minutes \in SUBSET Nat /\ IsFiniteSet(Minutes)
  BY <1>2, BoundsAssumption, FS_BoundedSetOfNaturals
<1>4. DOMAIN buckets = Minutes
  BY DEF groupSubmissionByMinute, Minutes
<1>5. ASSUME NEW m \in Minutes
      PROVE  /\ DOMAIN buckets[m] = Reporting(m)
             /\ IsFiniteSet(Reporting(m))
             /\ failedRegionsFromBucket(buckets[m]) = Failing(m)
  <2>1. buckets[m] = [region \in Reporting(m) |-> RegionPasses(http, Of(m, region))]
    BY <1>4, <1>5 DEF groupSubmissionByMinute, Minutes, Reporting, Of
  <2>2. Reporting(m) \subseteq Regions
    BY DEF IngestedInv, Reporting, InBucket
  <2>3. IsFiniteSet(Reporting(m))
    BY <2>2, FS_Subset, EvaluationAssumption
  <2>4. ASSUME NEW r \in Reporting(m)
        PROVE  ~RegionPasses(http, Of(m, r)) <=>
                    100 * Cardinality({row \in Of(m, r) : Bad(row)})
                        >= PerRegionFailureThresholdPercent * Cardinality(Of(m, r))
    <3> DEFINE bad == {row \in Of(m, r) : Bad(row)}
    <3>1. bad = {row \in Of(m, r) : ~IsSuccessfulStatus(http, row)}
      BY <1>1, Zenon DEF Bad, IsSuccessfulStatus
    <3>2. Of(m, r) \subseteq rows /\ bad \subseteq rows
      BY DEF Of, InBucket
    <3>3. Cardinality(Of(m, r)) \in Nat /\ Cardinality(bad) \in Nat
      BY <1>1, <3>2, FS_Subset, FS_CardinalityType
    <3>4. RegionPasses(http, Of(m, r)) <=>
            100 * Cardinality(bad) < PerRegionFailureThresholdPercent * Cardinality(Of(m, r))
      BY <3>1 DEF RegionPasses
    <3> HIDE DEF bad
    <3>5. 100 * Cardinality(bad) \in Nat
          /\ PerRegionFailureThresholdPercent * Cardinality(Of(m, r)) \in Nat
      BY <3>3, EvaluationAssumption
    <3> QED
      BY <3>4, <3>5 DEF bad
  <2>5. failedRegionsFromBucket(buckets[m]) = {r \in Reporting(m) : ~RegionPasses(http, Of(m, r))}
    BY <2>1 DEF failedRegionsFromBucket
  <2> QED
    BY <2>1, <2>3, <2>4, <2>5 DEF Failing
<1>6. ASSUME rows # {}
      PROVE  latestNonEmptyBucket(buckets) = Max(Minutes) /\ Max(Minutes) \in Minutes
  <2>1. Minutes # {}
    BY <1>6 DEF Minutes
  <2>2. \A m \in Minutes : Reporting(m) # {}
    BY DEF Minutes, Reporting, InBucket
  <2>3. {m \in DOMAIN buckets : DOMAIN buckets[m] # {}} = Minutes
    BY <1>4, <1>5, <2>2
  <2> QED
    BY <1>2, <1>3, <2>1, <2>3, BoundsAssumption, MaxOfBounded DEF latestNonEmptyBucket
<1> QED
  BY <1>3, <1>4, <1>5, <1>6

\* The local degradations among the buckets are the reference's partial minutes.
LEMMA PartialMinutes ==
    ASSUME IngestedInv, NEW m \in Minutes
    PROVE  IsLocalDegraded(groupSubmissionByMinute(http, rows)[m]) <=> Partial(m)
<1> DEFINE bucket == groupSubmissionByMinute(http, rows)[m]
           e      == evaluateBucketIncident(bucket, {})
<1>1. /\ DOMAIN bucket = Reporting(m) /\ IsFiniteSet(DOMAIN bucket)
      /\ failedRegionsFromBucket(bucket) = Failing(m)
  BY BucketsOfRows
<1> HIDE DEF bucket
<1>2. /\ Failing(m) = {} => e = HealthyIncidentEvaluation
      /\ Failing(m) # {} => e.status = IF Outage(m) THEN "down" ELSE "degraded"
      /\ e.status = "degraded" => e.scope = "local"
  BY <1>1, BucketVerdict DEF Outage
<1>3. IsLocalDegraded(bucket) <=> e.status = "degraded" /\ e.scope = "local"
  BY DEF IsLocalDegraded
<1>4. HealthyIncidentEvaluation.status = "healthy"
  BY DEF HealthyIncidentEvaluation
<1> HIDE DEF e
<1>5. IsLocalDegraded(bucket) <=> Partial(m)
  BY <1>2, <1>3, <1>4 DEF Partial
<1> QED
  BY <1>5 DEF bucket

\* The verdict by the reference's minutes: healthy without a failing region or a
\* streak that is long enough, and otherwise what the latest bucket says.
LEMMA VerdictOfRows ==
    ASSUME IngestedInv, rows # {}
    PROVE  LET buckets == groupSubmissionByMinute(http, rows)
               last    == Max(Minutes)
               e       == evaluateBucketIncident(buckets[last],
                                buildFailureReasonsBreakdown(buckets, rows, last))
           IN  /\ last \in Minutes
               /\ Verdict(rows) =
                    IF Partial(last) /\ ~(\A k \in 0 .. PromotionMinutes - 1 : Partial(last - k))
                    THEN HealthyIncidentEvaluation ELSE e
<1> DEFINE buckets == groupSubmissionByMinute(http, rows)
           last    == Max(Minutes)
           why     == buildFailureReasonsBreakdown(buckets, rows, last)
           e       == evaluateBucketIncident(buckets[last], why)
           Long    == \A k \in 0 .. PromotionMinutes - 1 : Partial(last - k)
<1>1. /\ DOMAIN buckets = Minutes /\ Minutes \in SUBSET Nat /\ IsFiniteSet(Minutes)
      /\ latestNonEmptyBucket(buckets) = last /\ last \in Minutes
      /\ \A m \in Minutes : IsLocalDegraded(buckets[m]) <=> Partial(m)
      /\ DOMAIN buckets[last] = Reporting(last) /\ IsFiniteSet(DOMAIN buckets[last])
      /\ failedRegionsFromBucket(buckets[last]) = Failing(last)
  BY BucketsOfRows, PartialMinutes
<1>2. Verdict(rows) =
        CASE rows = {} -> HealthyIncidentEvaluation
          [] /\ rows # {}
             /\ e.status = "degraded" /\ e.scope = "local"
             /\ ~shouldPromoteLocalDegraded(buckets, last) -> HealthyIncidentEvaluation
          [] OTHER -> e
  BY <1>1, Zenon DEF Verdict, evaluateLatestIncident
<1>3. e.status = "degraded" /\ e.scope = "local" <=> Partial(last)
  <2> HIDE DEF buckets, last, why
  <2>1. /\ Failing(last) = {} => e = HealthyIncidentEvaluation
        /\ Failing(last) # {} => e.status = IF Outage(last) THEN "down" ELSE "degraded"
        /\ e.status = "degraded" => e.scope = "local"
    BY <1>1, BucketVerdict DEF Outage
  <2>2. HealthyIncidentEvaluation.status = "healthy"
    BY DEF HealthyIncidentEvaluation
  <2> HIDE DEF e
  <2> QED
    BY <1>1, <2>1, <2>2 DEF Partial
<1>4. ASSUME Partial(last)
      PROVE  shouldPromoteLocalDegraded(buckets, last) <=> Long
  <2> HIDE DEF buckets, last
  <2>1. shouldPromoteLocalDegraded(buckets, last) <=>
            \A k \in 0 .. PromotionMinutes - 1 :
                last - k \in DOMAIN buckets /\ IsLocalDegraded(buckets[last - k])
    BY <1>1, <1>4, PromotionIsStreak
  <2>2. \A m : m \in DOMAIN buckets /\ IsLocalDegraded(buckets[m]) <=> Partial(m)
    BY <1>1 DEF Partial
  <2> QED
    BY <2>1, <2>2
<1> HIDE DEF buckets, last, why, e, Long
<1>5. Verdict(rows) = IF Partial(last) /\ ~Long THEN HealthyIncidentEvaluation ELSE e
  BY <1>2, <1>3, <1>4
<1> QED
  BY <1>1, <1>5 DEF buckets, last, why, e, Long

\* evaluateLatestIncident, which walks back over the buckets, comes to the status
\* that the documentation's terms describe: down for an outage in the latest
\* minute, degraded for a streak of partial failures without a gap, and healthy
\* otherwise; for any rows, regions and thresholds.
THEOREM StatusIsReference == Spec => []StatusMatchesReference
<1>1. IngestedInv => StatusMatchesReference
  <2> SUFFICES ASSUME IngestedInv PROVE StatusMatchesReference
    OBVIOUS
  <2> DEFINE last == Max(Minutes)
             bucket == groupSubmissionByMinute(http, rows)[last]
             e == Verdict(rows)
  <2>1. CASE rows = {}
    <3>1. Verdict(rows) = HealthyIncidentEvaluation
      BY <2>1 DEF Verdict, evaluateLatestIncident
    <3> QED
      BY <2>1, <3>1 DEF StatusMatchesReference, ReferenceStatus, HealthyIncidentEvaluation
  <2>2. CASE rows # {}
    <3>1. PICK why : last \in Minutes /\
            e = IF Partial(last) /\ ~(\A k \in 0 .. PromotionMinutes - 1 : Partial(last - k))
                THEN HealthyIncidentEvaluation ELSE evaluateBucketIncident(bucket, why)
      BY <2>2, VerdictOfRows
    <3> DEFINE b == evaluateBucketIncident(bucket, why)
               Long == \A k \in 0 .. PromotionMinutes - 1 : Partial(last - k)
    <3>2. /\ DOMAIN bucket = Reporting(last) /\ IsFiniteSet(DOMAIN bucket)
          /\ failedRegionsFromBucket(bucket) = Failing(last)
      BY <3>1, BucketsOfRows
    <3>3. Long => Partial(last)
      <4>1. 0 \in 0 .. PromotionMinutes - 1 /\ last \in Nat
        BY <3>1, PromotionThreshold, BucketsOfRows
      <4>2. last - 0 = last
        BY <4>1
      <4> HIDE DEF last
      <4> QED
        BY <4>1, <4>2
    <3> HIDE DEF last, bucket
    <3>4. /\ Failing(last) = {} => b = HealthyIncidentEvaluation
          /\ Failing(last) # {} => b.status = IF Outage(last) THEN "down" ELSE "degraded"
          /\ b.scope = "global" <=> Outage(last) /\ Cardinality(Reporting(last)) > 1
          /\ b.regions = Failing(last)
      BY <3>2, BucketVerdict DEF Outage
    <3>5. ReferenceStatus = IF Outage(last) THEN "down" ELSE IF Long THEN "degraded" ELSE "healthy"
      BY <2>2 DEF ReferenceStatus, last
    <3>6. /\ HealthyIncidentEvaluation.status = "healthy" /\ HealthyIncidentEvaluation.scope = "healthy"
          /\ HealthyIncidentEvaluation.regions = {}
      BY DEF HealthyIncidentEvaluation
    <3>7. /\ Outage(last) => Failing(last) # {} /\ ~Partial(last)
          /\ Partial(last) <=> Failing(last) # {} /\ ~Outage(last)
      BY <3>1 DEF Outage, Partial
    <3>8. e = IF Partial(last) /\ ~Long THEN HealthyIncidentEvaluation ELSE b
      BY <3>1
    <3> HIDE DEF b, e, Long
    <3>9. /\ e.status = IF Outage(last) THEN "down" ELSE IF Long THEN "degraded" ELSE "healthy"
          /\ e.status # "healthy" => e.regions = Failing(last)
          /\ e.scope = "global" <=> e.status = "down" /\ Cardinality(Reporting(last)) > 1
      <4>1. CASE Partial(last) /\ ~Long
        BY <3>6, <3>7, <3>8, <4>1
      <4>2. CASE Partial(last) /\ Long
        BY <3>4, <3>7, <3>8, <4>2
      <4>3. CASE ~Partial(last) /\ Outage(last)
        BY <3>4, <3>7, <3>8, <4>3
      <4>4. CASE ~Partial(last) /\ ~Outage(last)
        BY <3>3, <3>4, <3>6, <3>7, <3>8, <4>4
      <4> QED
        BY <4>1, <4>2, <4>3, <4>4
    <3> QED
      BY <3>5, <3>9 DEF StatusMatchesReference, e, last
  <2> QED
    BY <2>1, <2>2
<1> QED
  BY <1>1, IngestedInvariant, PTL

\* The categories and regions of a minute's failing rows in the failed regions.
Blamed(table, minute, failed) ==
    {<<row.category, row.region>> :
        row \in {r \in InBucket(table, minute) : ~r.success /\ r.region \in failed}}

\* The breakdown of a failing latest bucket is made of that bucket's rows alone.
LEMMA BreakdownOfLatest ==
    ASSUME NEW buckets, DOMAIN buckets \subseteq Nat, NEW table,
           NEW latest \in DOMAIN buckets, failedRegionsFromBucket(buckets[latest]) # {}
    PROVE  buildFailureReasonsBreakdown(buckets, table, latest) =
                Blamed(table, latest, failedRegionsFromBucket(buckets[latest]))
<1> DEFINE failing == {minute \in DOMAIN buckets :
                        minute <= latest /\ failedRegionsFromBucket(buckets[minute]) # {}}
           minute  == Max(failing)
<1>1. latest \in failing /\ failing \in SUBSET Nat /\ \A m \in failing : m <= latest
  OBVIOUS
<1>2. buildFailureReasonsBreakdown(buckets, table, latest) =
        IF failing = {} THEN {}
        ELSE Blamed(table, minute, failedRegionsFromBucket(buckets[minute]))
  BY DEF buildFailureReasonsBreakdown, Blamed
<1> HIDE DEF failing
<1>3. minute \in failing /\ \A m \in failing : m <= minute
  BY <1>1, MaxOfBounded
<1>4. minute = latest
  <2> HIDE DEF minute
  <2> QED
    BY <1>1, <1>3
<1> HIDE DEF minute
<1> QED
  BY <1>1, <1>2, <1>4

\* The buckets of the last PromotionMinutes minutes are the same without the
\* older rows, and so is the latest one.
LEMMA RecentBuckets ==
    ASSUME IngestedInv, rows # {}
    PROVE  LET last    == Max(Minutes)
               recent  == {row \in rows : Truncate(row.at) > last - PromotionMinutes}
               buckets == groupSubmissionByMinute(http, rows)
               kept    == groupSubmissionByMinute(http, recent)
           IN  /\ recent # {}
               /\ DOMAIN kept = {m \in Minutes : m > last - PromotionMinutes}
               /\ \A m \in DOMAIN kept : /\ kept[m] = buckets[m]
                                         /\ InBucket(recent, m) = InBucket(rows, m)
               /\ last \in DOMAIN kept
               /\ latestNonEmptyBucket(kept) = last
<1> DEFINE last    == Max(Minutes)
           P       == PromotionMinutes
           recent  == {row \in rows : Truncate(row.at) > last - P}
           buckets == groupSubmissionByMinute(http, rows)
           kept    == groupSubmissionByMinute(http, recent)
<1>1. /\ Minutes \in SUBSET Nat /\ DOMAIN buckets = Minutes /\ last \in Minutes
      /\ latestNonEmptyBucket(buckets) = last
  BY BucketsOfRows
<1>2. P \in Nat \ {0}
  BY PromotionThreshold
<1>3. \A m \in Minutes : m <= last
  <2>1. \A m \in Minutes : m <= MaxTime
    <3> SUFFICES ASSUME NEW m \in Minutes PROVE m <= MaxTime
      OBVIOUS
    <3>1. PICK row \in rows : m = Truncate(row.at)
      BY DEF Minutes
    <3>2. row.at \in Nat /\ row.at <= MaxTime /\ MaxTime \in Nat
      BY BoundsAssumption DEF IngestedInv
    <3> QED
      BY <3>1, <3>2, TruncateType
  <2> QED
    BY <1>1, <2>1, MaxOfBounded, BoundsAssumption
<1> HIDE DEF last, P
<1>4. DOMAIN kept = {m \in Minutes : m > last - P}
  BY DEF groupSubmissionByMinute, Minutes
<1>5. ASSUME NEW m \in DOMAIN kept
      PROVE  kept[m] = buckets[m] /\ InBucket(recent, m) = InBucket(rows, m)
  <2>1. InBucket(recent, m) = InBucket(rows, m)
    BY <1>4 DEF InBucket
  <2>2. m \in {Truncate(row.at) : row \in recent} /\ m \in {Truncate(row.at) : row \in rows}
    BY <1>4, <1>5 DEF groupSubmissionByMinute, Minutes
  <2> HIDE DEF recent
  <2>3. kept[m] = [region \in {row.region : row \in InBucket(recent, m)} |->
                    RegionPasses(http, {row \in InBucket(recent, m) : row.region = region})]
    BY <2>2 DEF groupSubmissionByMinute
  <2>4. buckets[m] = [region \in {row.region : row \in InBucket(rows, m)} |->
                    RegionPasses(http, {row \in InBucket(rows, m) : row.region = region})]
    BY <2>2 DEF groupSubmissionByMinute
  <2> QED
    BY <2>1, <2>3, <2>4
<1>6. last \in DOMAIN kept
  BY <1>1, <1>2, <1>4
<1>7. latestNonEmptyBucket(kept) = last
  <2>1. \A m \in DOMAIN kept : DOMAIN kept[m] # {}
    <3> SUFFICES ASSUME NEW m \in DOMAIN kept PROVE DOMAIN kept[m] # {}
      OBVIOUS
    <3>1. kept[m] = buckets[m] /\ m \in Minutes
      BY <1>4, <1>5
    <3>2. DOMAIN buckets[m] = Reporting(m)
      BY <3>1, BucketsOfRows
    <3>3. Reporting(m) # {}
      BY <3>1 DEF Minutes, Reporting, InBucket
    <3> QED
      BY <3>1, <3>2, <3>3
  <2>2. latestNonEmptyBucket(kept) = Max(DOMAIN kept)
    <3>1. {m \in DOMAIN kept : DOMAIN kept[m] # {}} = DOMAIN kept
      BY <2>1
    <3> QED
      BY <3>1, Zenon DEF latestNonEmptyBucket
  <2> HIDE DEF kept
  <2>3. DOMAIN kept \in SUBSET Nat /\ \A m \in DOMAIN kept : m <= last
    BY <1>1, <1>3, <1>4
  <2>4. Max(DOMAIN kept) \in DOMAIN kept /\ \A m \in DOMAIN kept : m <= Max(DOMAIN kept)
    BY <1>1, <1>6, <2>3, MaxOfBounded
  <2>5. Max(DOMAIN kept) \in Nat /\ last \in Nat
    BY <1>6, <2>3, <2>4
  <2>6. Max(DOMAIN kept) = last
    BY <1>6, <2>3, <2>4, <2>5
  <2> QED
    BY <2>2, <2>6
<1>8. recent # {}
  BY <1>6 DEF groupSubmissionByMinute
<1> HIDE DEF recent, kept, buckets
<1> QED
  BY <1>4, <1>5, <1>6, <1>7, <1>8 DEF recent, kept, buckets, last, P

\* A lookback window of PromotionMinutes minutes loses nothing: the rows that are
\* older than that never change the verdict, in any part of it.
THEOREM OldRowsNeverMatter == Spec => []OldRowsAreIrrelevant
<1>1. IngestedInv => OldRowsAreIrrelevant
  <2> SUFFICES ASSUME IngestedInv, rows # {}
               PROVE  Verdict(rows) =
                      Verdict({row \in rows : Truncate(row.at) > Max(Minutes) - PromotionMinutes})
    BY DEF OldRowsAreIrrelevant
  <2> DEFINE last    == Max(Minutes)
             P       == PromotionMinutes
             recent  == {row \in rows : Truncate(row.at) > last - P}
             buckets == groupSubmissionByMinute(http, rows)
             kept    == groupSubmissionByMinute(http, recent)
             why     == buildFailureReasonsBreakdown(buckets, rows, last)
             because == buildFailureReasonsBreakdown(kept, recent, last)
             e       == evaluateBucketIncident(buckets[last], why)
             f       == evaluateBucketIncident(kept[last], because)
  <2>1. /\ Minutes \in SUBSET Nat /\ IsFiniteSet(Minutes) /\ DOMAIN buckets = Minutes
        /\ last \in Minutes /\ latestNonEmptyBucket(buckets) = last
        /\ IsFiniteSet(DOMAIN buckets[last])
    BY BucketsOfRows
  <2>2. /\ recent # {} /\ DOMAIN kept = {m \in Minutes : m > last - P}
        /\ \A m \in DOMAIN kept : /\ kept[m] = buckets[m]
                                  /\ InBucket(recent, m) = InBucket(rows, m)
        /\ last \in DOMAIN kept /\ latestNonEmptyBucket(kept) = last
    BY RecentBuckets
  <2>3. P \in Nat \ {0} /\ last \in Nat
    BY <2>1, PromotionThreshold
  <2>4. Verdict(rows) =
            IF /\ e.status = "degraded" /\ e.scope = "local"
               /\ ~shouldPromoteLocalDegraded(buckets, last)
            THEN HealthyIncidentEvaluation ELSE e
    BY <2>1, Zenon DEF Verdict, evaluateLatestIncident
  <2>5. Verdict(recent) =
            IF /\ f.status = "degraded" /\ f.scope = "local"
               /\ ~shouldPromoteLocalDegraded(kept, last)
            THEN HealthyIncidentEvaluation ELSE f
    BY <2>2, Zenon DEF Verdict, evaluateLatestIncident
  <2> HIDE DEF last, P, recent, buckets, kept
  <2>6. f = e
    <3>1. CASE failedRegionsFromBucket(buckets[last]) = {}
      <4>1. e = HealthyIncidentEvaluation /\ f = HealthyIncidentEvaluation
        BY <2>1, <2>2, <3>1, BucketVerdict
      <4> QED
        BY <4>1
    <3>2. CASE failedRegionsFromBucket(buckets[last]) # {}
      <4>1. why = because
        <5>1. why = Blamed(rows, last, failedRegionsFromBucket(buckets[last]))
          BY <2>1, <3>2, BreakdownOfLatest
        <5>2. because = Blamed(recent, last, failedRegionsFromBucket(kept[last]))
          BY <2>1, <2>2, <3>2, BreakdownOfLatest
        <5> QED
          BY <2>2, <5>1, <5>2 DEF Blamed
      <4> QED
        BY <2>2, <4>1
    <3> QED
      BY <3>1, <3>2
  <2>7. ASSUME e.status = "degraded", e.scope = "local"
        PROVE  shouldPromoteLocalDegraded(buckets, last) <=> shouldPromoteLocalDegraded(kept, last)
    <3>1. IsLocalDegraded(buckets[last])
      <4> DEFINE bare == evaluateBucketIncident(buckets[last], {})
      <4>1. bare.status = e.status \/ (failedRegionsFromBucket(buckets[last]) = {}
                                         /\ e = HealthyIncidentEvaluation)
        BY <2>1, BucketVerdict
      <4>2. bare.status = "degraded" => bare.scope = "local"
        BY <2>1, BucketVerdict
      <4>3. HealthyIncidentEvaluation.status = "healthy"
        BY DEF HealthyIncidentEvaluation
      <4>4. bare.status = "degraded" /\ bare.scope = "local"
        <5> HIDE DEF bare, e
        <5> QED
          BY <2>7, <4>1, <4>2, <4>3
      <4> QED
        BY <4>4 DEF IsLocalDegraded
    <3>2. shouldPromoteLocalDegraded(buckets, last) <=>
            \A k \in 0 .. P - 1 : last - k \in DOMAIN buckets /\ IsLocalDegraded(buckets[last - k])
      BY <2>1, <3>1, PromotionIsStreak DEF P
    <3>3. shouldPromoteLocalDegraded(kept, last) <=>
            \A k \in 0 .. P - 1 : last - k \in DOMAIN kept /\ IsLocalDegraded(kept[last - k])
      <4>1. DOMAIN kept \subseteq Minutes
        BY <2>2
      <4>2. IsFiniteSet(DOMAIN kept)
        BY <2>1, <4>1, FS_Subset
      <4>3. DOMAIN kept \subseteq Nat /\ IsLocalDegraded(kept[last])
        BY <2>1, <2>2, <3>1, <4>1
      <4> QED
        BY <2>2, <4>2, <4>3, PromotionIsStreak DEF P
    <3>4. \A k \in 0 .. P - 1 : /\ last - k \in DOMAIN kept <=> last - k \in DOMAIN buckets
                                /\ last - k \in DOMAIN kept => kept[last - k] = buckets[last - k]
      BY <2>1, <2>2, <2>3
    <3> QED
      BY <3>2, <3>3, <3>4
  <2> HIDE DEF e, f
  <2>8. Verdict(rows) = Verdict(recent)
    BY <2>4, <2>5, <2>6, <2>7
  <2> QED
    BY <2>8 DEF recent, last, P
<1> QED
  BY <1>1, IngestedInvariant, PTL
=============================================================================
