------------------------ MODULE MCIncidentEvaluation ------------------------
(***************************************************************************)
(* Checks the evaluation of IncidentEvaluation against a reference         *)
(* definition, over every table of up to MaxRows ingested rows of one      *)
(* monitor, HTTP or not.  The reference says what an outage is with        *)
(* quantifiers over minutes and regions; the code walks buckets backwards. *)
(***************************************************************************)
EXTENDS IncidentEvaluation, TLC

CONSTANTS MaxTime, MaxRows

ASSUME BoundsAssumption == MaxTime \in Nat /\ MaxRows \in Nat

VARIABLES http, rows

vars == <<http, rows>>

Init == http \in BOOLEAN /\ rows = {}

\* What a probe reports: it passed, it was redirected, or it failed outright.
Outcomes ==
    {[success |-> TRUE, code |-> 200, category |-> "none"],
     [success |-> FALSE, code |-> 301, category |-> "http_error"],
     [success |-> FALSE, code |-> 0, category |-> "timeout"]}

\* The primary key (region, created_at) is enforced: ON CONFLICT DO NOTHING.
InsertRow(region, at, outcome) ==
    /\ Cardinality(rows) < MaxRows
    /\ \A row \in rows : row.region # region \/ row.at # at
    /\ rows' = rows \cup {IngestedRow(http, region, at, outcome)}
    /\ UNCHANGED http

Next ==
    \E region \in Regions, at \in 0 .. MaxTime, outcome \in Outcomes :
        InsertRow(region, at, outcome)

Spec == Init /\ [][Next]_vars

Symmetry == Permutations(Regions)

Verdict(table) == evaluateLatestIncident(http, table)

-----------------------------------------------------------------------------
(* The reference definition. *)

Minutes       == {Truncate(row.at) : row \in rows}
Reporting(m)  == {row.region : row \in InBucket(rows, m)}
Bad(row)      == IF http THEN row.code \notin ExpectedStatusCodes ELSE ~row.success
Of(m, r)      == {row \in InBucket(rows, m) : row.region = r}
Failing(m)    ==
    {r \in Reporting(m) :
        100 * Cardinality({row \in Of(m, r) : Bad(row)})
            >= PerRegionFailureThresholdPercent * Cardinality(Of(m, r))}
Outage(m)     ==
    /\ Failing(m) # {}
    /\ \/ Failing(m) = Reporting(m)
       \/ 100 * Cardinality(Failing(m)) >= FailureThresholdPercent * Cardinality(Reporting(m))
Partial(m)    == m \in Minutes /\ Failing(m) # {} /\ ~Outage(m)

\* The smallest number of successive partial minutes that promotes.
PromotionMinutes ==
    LET positive == {n \in {DegradedThresholdMinutes, DegradedThresholdConsecutiveBuckets} : n > 0}
    IN  IF positive = {} THEN 1 ELSE Min(positive)

ReferenceStatus ==
    IF rows = {} THEN "healthy"
    ELSE LET last == Max(Minutes)
         IN  IF Outage(last) THEN "down"
             ELSE IF \A k \in 0 .. PromotionMinutes - 1 : Partial(last - k) THEN "degraded"
             ELSE "healthy"

\* evaluateLatestIncident says down exactly when the latest reporting minute
\* is an outage, and degraded exactly when the last PromotionMinutes minutes
\* without a gap are partial failures; affected regions are the failing ones.
StatusMatchesReference ==
    LET e == Verdict(rows)
    IN  /\ e.status = ReferenceStatus
        /\ e.status # "healthy" => e.regions = Failing(Max(Minutes))
        /\ e.scope = "global" <=> e.status = "down" /\ Cardinality(Reporting(Max(Minutes))) > 1

\* While the success column is the one the ingester stored, the breakdown
\* names every affected region and no other one (a region can fail in several
\* categories, but none of them is lost and no healthy region is blamed).
BreakdownExplainsRegions ==
    LET e == Verdict(rows)
    IN  {pair[2] : pair \in e.breakdown} = e.regions

\* Rows older than the promotion threshold cannot change the verdict: a
\* lookback window of PromotionMinutes minutes loses nothing.
OldRowsAreIrrelevant ==
    rows # {} =>
        Verdict(rows) =
        Verdict({row \in rows : Truncate(row.at) > Max(Minutes) - PromotionMinutes})

\* The migration that every start runs again rewrites the success column, but
\* never changes status, scope, reason or affected regions of a verdict.
MigrationKeepsVerdict ==
    LET before == Verdict(rows)
        after  == Verdict({MigratedRow(http, row) : row \in rows})
    IN  [after EXCEPT !.breakdown = before.breakdown] = before
=============================================================================
