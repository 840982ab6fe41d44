-------------------------- MODULE ProcessorProofs ---------------------------
(***************************************************************************)
(* Proofs about Processor for every set of monitors and regions, every     *)
(* threshold and every queue driver: type correctness first, then the      *)
(* inductive invariant that ties the worker's position to the tables.      *)
(***************************************************************************)
EXTENDS Processor, IncidentEvaluationProofs

\* Impact() yields one of the words the incident tables know.
LEMMA ImpactType ==
    ASSUME NEW e \in Evaluation
    PROVE  Impact(e) \in Impacts
<1>1. e.status \in {"healthy", "degraded", "down"}
  BY DEF Evaluation, Statuses
<1>2. Impact(e) \in {"operational", "major_outage", "partial_outage", "degraded_performance"}
  BY <1>1, Zenon DEF Impact
<1> QED
  BY <1>2 DEF Impacts

\* Replacing one element of a sequence keeps its type and length.
LEMMA SeqUpdate ==
    ASSUME NEW S, NEW s \in Seq(S), NEW i \in DOMAIN s, NEW v \in S
    PROVE  /\ [s EXCEPT ![i] = v] \in Seq(S)
           /\ DOMAIN [s EXCEPT ![i] = v] = DOMAIN s
OBVIOUS

\* A worker that waits for a message, or that a crash stopped, is well formed.
LEMMA IdleType ==
    /\ Idle \in Worker /\ Idle.step = "idle"
    /\ Stopped \in Worker /\ Stopped.step = "stopped"
BY HealthyType DEF Idle, Stopped, Worker

\* The evaluation step builds a well-formed evaluation, whatever it could read.
LEMMA LookbackEvaluationType ==
    ASSUME TypeOK, NEW m \in Monitors, NEW read \in SUBSET lookback(m)
    PROVE  evaluateLatestIncident(IsHTTP(m), read) \in Evaluation
<1>1. read \in SUBSET Row /\ \A row \in read : row.at <= now
  BY DEF TypeOK, lookback
<1>2. now \in Nat /\ IsHTTP(m) \in BOOLEAN
  BY DEF TypeOK, IsHTTP
<1> HIDE DEF lookback, IsHTTP
<1> QED
  BY <1>1, <1>2, EvaluationType

\* The active incident, when there is one, is an unresolved one.
LEMMA ActiveIsUnresolved ==
    ASSUME TypeOK, NEW m \in Monitors, Unresolved(m) # {}
    PROVE  loadActiveProgrammaticIncident(m) \in Unresolved(m)
<1>1. Unresolved(m) \in SUBSET Nat /\ \A i \in Unresolved(m) : i <= Len(incidents)
  BY DEF TypeOK, Unresolved
<1>2. Len(incidents) \in Nat
  BY DEF TypeOK
<1> QED
  BY <1>1, <1>2, MaxOfBounded DEF loadActiveProgrammaticIncident

USE DEF environment, tables

(***************************************************************************)
(* What each of the three writes of syncProgrammaticIncident does, with    *)
(* the incident row it writes named.                                       *)
(***************************************************************************)
Stored ==
    /\ worker.step = "stored"
    /\ worker.monitor \in Monitors
    /\ worker.evaluation \in Evaluation

CreateEffect(incident) ==
    /\ Stored
    /\ HasActiveIncident(worker.evaluation)
    /\ Unresolved(worker.monitor) = {}
    /\ incident.monitor = worker.monitor /\ ~incident.resolved
    /\ incident.autoImpact = Impact(worker.evaluation)
    /\ incident.status = worker.evaluation.status
    /\ incident.scope = worker.evaluation.scope
    /\ incidents' = Append(incidents, incident)
    /\ insertIncidentEvent(Len(incidents) + 1, incident, "created")
    /\ Synced(Len(incidents) + 1)

UpdateEffect(i, incident) ==
    /\ Stored
    /\ HasActiveIncident(worker.evaluation)
    /\ incident.monitor = worker.monitor /\ incident.monitor = incidents[i].monitor
    /\ incident.resolved = incidents[i].resolved
    /\ incident.autoImpact = Impact(worker.evaluation)
    /\ incident.impact = preserveManualString(incidents[i].impact, incidents[i].autoImpact,
                                              Impact(worker.evaluation))
    /\ incident.status = worker.evaluation.status
    /\ incident.scope = worker.evaluation.scope
    /\ incidents' = [incidents EXCEPT ![i] = incident]
    /\ insertIncidentEvent(i, incident, "updated")
    /\ Synced(i)

ResolveEffect(i, incident) ==
    /\ Stored
    /\ ~HasActiveIncident(worker.evaluation)
    /\ incident.monitor = worker.monitor /\ incident.monitor = incidents[i].monitor
    /\ incident.resolved
    /\ incident.autoImpact = incidents[i].autoImpact /\ incident.impact = incidents[i].impact
    /\ incidents' = [incidents EXCEPT ![i] = incident]
    /\ insertIncidentEvent(i, incident, "resolved")
    /\ Synced(i)

\* createProgrammaticIncident appends one unresolved incident that mirrors the
\* evaluation in hand, logs its creation and moves the worker on.
LEMMA CreateHasEffect ==
    ASSUME TypeOK, createProgrammaticIncident
    PROVE  \E incident \in Incident : CreateEffect(incident)
<1> DEFINE e == worker.evaluation
           incident == [monitor |-> worker.monitor, lifecycle |-> "investigating",
                        autoImpact |-> Impact(e), impact |-> Impact(e),
                        status |-> e.status, scope |-> e.scope, resolved |-> FALSE]
<1>1. Stored
  BY DEF TypeOK, createProgrammaticIncident, Worker, Stored
<1>2. incident \in Incident
  BY <1>1, ImpactType DEF Stored, Incident, Evaluation
<1>3. CreateEffect(incident)
  BY <1>1 DEF createProgrammaticIncident, CreateEffect
<1> QED
  BY <1>2, <1>3

\* updateProgrammaticIncident rewrites one unresolved incident of the monitor,
\* which stays unresolved and mirrors the evaluation, and logs the update.
LEMMA UpdateHasEffect ==
    ASSUME TypeOK, updateProgrammaticIncident
    PROVE  \E i \in Unresolved(worker.monitor), incident \in Incident : UpdateEffect(i, incident)
<1> DEFINE e == worker.evaluation
           i == loadActiveProgrammaticIncident(worker.monitor)
           manual == preserveManualString(incidents[i].impact, incidents[i].autoImpact, Impact(e))
           incident == [incidents[i] EXCEPT !.autoImpact = Impact(e), !.impact = manual,
                                            !.status = e.status, !.scope = e.scope]
<1>1. Stored
  BY DEF TypeOK, updateProgrammaticIncident, Worker, Stored
<1>2. i \in Unresolved(worker.monitor)
  BY <1>1, ActiveIsUnresolved DEF updateProgrammaticIncident, Stored
<1>3. /\ HasActiveIncident(e)
      /\ incidents' = [incidents EXCEPT ![i] = incident]
      /\ insertIncidentEvent(i, incident, "updated")
      /\ Synced(i)
  BY DEF updateProgrammaticIncident
<1> HIDE DEF i
<1>4. incidents[i] \in Incident /\ incidents[i].monitor = worker.monitor
  BY <1>2 DEF TypeOK, Unresolved
<1>5. manual \in Impacts
  BY <1>1, <1>4, ImpactType DEF Stored, preserveManualString, Incident
<1> HIDE DEF manual
<1>6. incident \in Incident
  BY <1>1, <1>4, <1>5, ImpactType DEF Stored, Incident, Evaluation
<1>7. /\ incident.monitor = incidents[i].monitor
      /\ incident.resolved = incidents[i].resolved
      /\ incident.autoImpact = Impact(e) /\ incident.impact = manual
      /\ incident.status = e.status /\ incident.scope = e.scope
  BY <1>4 DEF Incident
<1> HIDE DEF incident
<1>8. UpdateEffect(i, incident)
  BY <1>1, <1>3, <1>4, <1>7 DEF UpdateEffect, manual
<1> QED
  BY <1>2, <1>6, <1>8

\* resolveProgrammaticIncident resolves one unresolved incident of the monitor
\* and logs it.
LEMMA ResolveHasEffect ==
    ASSUME TypeOK, resolveProgrammaticIncident
    PROVE  \E i \in Unresolved(worker.monitor), incident \in Incident : ResolveEffect(i, incident)
<1> DEFINE i == loadActiveProgrammaticIncident(worker.monitor)
           incident == [incidents[i] EXCEPT !.lifecycle = "resolved", !.status = "healthy",
                                            !.scope = "healthy", !.resolved = TRUE]
<1>1. Stored
  BY DEF TypeOK, resolveProgrammaticIncident, Worker, Stored
<1>2. i \in Unresolved(worker.monitor)
  BY <1>1, ActiveIsUnresolved DEF resolveProgrammaticIncident, Stored
<1>3. /\ ~HasActiveIncident(worker.evaluation)
      /\ incidents' = [incidents EXCEPT ![i] = incident]
      /\ insertIncidentEvent(i, incident, "resolved")
      /\ Synced(i)
  BY DEF resolveProgrammaticIncident
<1> HIDE DEF i
<1>4. incidents[i] \in Incident /\ incidents[i].monitor = worker.monitor
  BY <1>2 DEF TypeOK, Unresolved
<1>5. incident \in Incident
  BY <1>4 DEF Incident, Statuses, Scopes
<1>6. /\ incident.monitor = incidents[i].monitor /\ incident.resolved
      /\ incident.autoImpact = incidents[i].autoImpact /\ incident.impact = incidents[i].impact
  BY <1>4 DEF Incident
<1> HIDE DEF incident
<1>7. ResolveEffect(i, incident)
  BY <1>1, <1>3, <1>4, <1>6 DEF ResolveEffect
<1> QED
  BY <1>2, <1>5, <1>7

\* What the three writes of syncProgrammaticIncident have in common.
LEMMA SyncedType ==
    ASSUME TypeOK, worker.monitor \in Monitors,
           NEW i \in Nat, NEW incident \in Incident,
           NEW type \in {"created", "updated", "resolved"},
           incidents' \in Seq(Incident),
           insertIncidentEvent(i, incident, type), Synced(i)
    PROVE  TypeOK'
<1> DEFINE event == [incident |-> i, monitor |-> incident.monitor, type |-> type,
                     impact |-> incident.impact, status |-> incident.status,
                     scope |-> incident.scope]
<1>1. event \in Event
  BY DEF Event, Incident
<1>2. events' \in Seq(Event)
  <2>1. events' = Append(events, event)
    BY DEF insertIncidentEvent
  <2> HIDE DEF event
  <2> QED
    BY <1>1, <2>1 DEF TypeOK
<1>3. worker' \in Worker /\ worker'.monitor \in Monitors
  BY DEF TypeOK, Synced, Worker
<1> QED
  BY <1>2, <1>3 DEF TypeOK, Synced

\* The tables, the queue and the worker keep their types under every step of the
\* worker, the broker, the ingester, the operator and a crash.
THEOREM TypeCorrect == Spec => []TypeOK
<1>1. Init => TypeOK
  BY IdleType, HealthyType DEF Init, TypeOK
<1>2. TypeOK /\ [Next]_vars => TypeOK'
  <2> SUFFICES ASSUME TypeOK, [Next]_vars
               PROVE  TypeOK'
    OBVIOUS
  <2>1. CASE Tick
    BY <2>1 DEF TypeOK, Tick
  <2>2. ASSUME NEW m \in MonitorIDs, CheckerSubmission(m)
        PROVE  TypeOK'
    BY <2>2 DEF TypeOK, CheckerSubmission
  <2>3. ASSUME NEW m \in Monitors, NEW region \in Regions, NEW at \in 0 .. now,
               NEW outcome \in Outcomes, InsertRow(m, region, at, outcome)
        PROVE  TypeOK'
    <3>1. at \in Nat
      BY DEF TypeOK
    <3>2. outcome \in [success : BOOLEAN, code : StatusCodes, category : Categories]
      BY ProcessorAssumption
    <3>3. IsSuccessfulStatus(IsHTTP(m), outcome) \in BOOLEAN
      <4>1. outcome.success \in BOOLEAN
        BY <3>2
      <4>2. (outcome.code \in ExpectedStatusCodes) \in BOOLEAN
        OBVIOUS
      <4> QED
        BY <4>1, <4>2, Zenon DEF IsSuccessfulStatus
    <3>4. IngestedRow(IsHTTP(m), region, at, outcome) \in Row
      BY <3>1, <3>2, <3>3 DEF IngestedRow, Row
    <3> QED
      BY <2>3, <3>4 DEF TypeOK, InsertRow
  <2>4. ASSUME NEW m \in MonitorIDs, Redeliver(m)
        PROVE  TypeOK'
    BY <2>4 DEF TypeOK, Redeliver
  <2>5. CASE Crash
    BY <2>5, IdleType DEF TypeOK, Crash
  <2>6. CASE Restart
    <3>1. ASSUME NEW m \in Monitors, NEW row \in rows[m]
          PROVE  MigratedRow(IsHTTP(m), row) \in Row
      <4>1. row \in Row
        BY DEF TypeOK
      <4>2. \A b \in BOOLEAN : [row EXCEPT !.success = b] \in Row
        BY <4>1 DEF Row
      <4>3. (row.code \in 200 .. 399) \in BOOLEAN
        OBVIOUS
      <4> QED
        BY <4>1, <4>2, <4>3, Zenon DEF MigratedRow
    <3> QED
      BY <2>6, <3>1, IdleType DEF TypeOK, Restart
  <2>7. ASSUME NEW i \in DOMAIN incidents, NEW impact \in OperatorImpacts,
               OperatorEdit(i, impact)
        PROVE  TypeOK'
    <3>1. impact \in Impacts /\ i \in Nat
      BY ProcessorAssumption DEF TypeOK
    <3>2. incidents[i] \in Incident
      BY DEF TypeOK
    <3>3. [incidents[i] EXCEPT !.impact = impact] \in Incident
      BY <3>1, <3>2 DEF Incident
    <3>4. incidents' \in Seq(Incident)
      BY <2>7, <3>3, SeqUpdate DEF TypeOK, OperatorEdit
    <3>5. edits' \in Seq([incident : Nat, impact : Impacts])
      BY <2>7, <3>1 DEF TypeOK, OperatorEdit
    <3> QED
      BY <2>7, <3>4, <3>5 DEF TypeOK, OperatorEdit
  <2>8. ASSUME NEW m \in MonitorIDs, Receive(m)
        PROVE  TypeOK'
    <3>1. worker' \in Worker /\ worker'.step = "received"
      BY <2>8, IdleType DEF Receive, Worker
    <3>2. queue' \in [MonitorIDs -> Nat]
      BY <2>8 DEF TypeOK, Receive
    <3> QED
      BY <2>8, <3>1, <3>2 DEF TypeOK, Receive
  <2>9. CASE DropUnknown
    BY <2>9, IdleType DEF TypeOK, DropUnknown
  <2>10. CASE Evaluate
    <3>1. PICK read \in SUBSET lookback(worker.monitor) :
            /\ IF read = lookback(worker.monitor) THEN UNCHANGED faults
               ELSE faults < MaxFaults /\ faults' = faults + 1
            /\ worker' = [worker EXCEPT
                    !.step = "evaluated",
                    !.evaluation = evaluateLatestIncident(IsHTTP(worker.monitor), read),
                    !.previous = incidentState[worker.monitor]]
      BY <2>10 DEF Evaluate
    <3>2. worker.monitor \in Monitors
      BY <2>10 DEF Evaluate
    <3>3. evaluateLatestIncident(IsHTTP(worker.monitor), read) \in Evaluation
      BY <3>2, LookbackEvaluationType
    <3>4. worker' \in Worker
      BY <3>1, <3>2, <3>3 DEF TypeOK, Worker
    <3>5. faults' \in Nat
      BY <3>1 DEF TypeOK
    <3> QED
      BY <2>10, <3>4, <3>5 DEF TypeOK, Evaluate
  <2>11. CASE ReadFails \/ StoreFails
    BY <2>11, IdleType DEF TypeOK, ReadFails, StoreFails, GiveBack
  <2>12. CASE Unchanged
    BY <2>12, IdleType DEF TypeOK, Unchanged
  <2>13. CASE storeIncidentState
    <3>1. worker.monitor \in Monitors /\ worker.evaluation \in Evaluation /\ worker' \in Worker
      BY <2>13 DEF TypeOK, storeIncidentState, Worker
    <3> QED
      BY <2>13, <3>1 DEF TypeOK, storeIncidentState
  <2>14. CASE createProgrammaticIncident
    <3>1. PICK incident \in Incident : CreateEffect(incident)
      BY <2>14, CreateHasEffect
    <3>2. incidents' \in Seq(Incident) /\ Len(incidents) + 1 \in Nat
      BY <3>1 DEF TypeOK, CreateEffect
    <3> QED
      BY <3>1, <3>2, SyncedType DEF CreateEffect, Stored
  <2>15. CASE updateProgrammaticIncident
    <3>1. PICK i \in Unresolved(worker.monitor), incident \in Incident : UpdateEffect(i, incident)
      BY <2>15, UpdateHasEffect
    <3>2. i \in DOMAIN incidents /\ i \in Nat
      BY DEF Unresolved, TypeOK
    <3>3. incidents' \in Seq(Incident)
      BY <3>1, <3>2, SeqUpdate DEF TypeOK, UpdateEffect
    <3> QED
      BY <3>1, <3>2, <3>3, SyncedType DEF UpdateEffect, Stored
  <2>16. CASE resolveProgrammaticIncident
    <3>1. PICK i \in Unresolved(worker.monitor), incident \in Incident : ResolveEffect(i, incident)
      BY <2>16, ResolveHasEffect
    <3>2. i \in DOMAIN incidents /\ i \in Nat
      BY DEF Unresolved, TypeOK
    <3>3. incidents' \in Seq(Incident)
      BY <3>1, <3>2, SeqUpdate DEF TypeOK, ResolveEffect
    <3> QED
      BY <3>1, <3>2, <3>3, SyncedType DEF ResolveEffect, Stored
  <2>17. CASE NothingToResolve
    <3>1. worker' \in Worker /\ worker'.monitor \in Monitors
      BY <2>17 DEF TypeOK, NothingToResolve, Synced, Worker
    <3> QED
      BY <2>17, <3>1 DEF TypeOK, NothingToResolve, Synced
  <2>18. CASE SyncFails \/ PublishFails
    BY <2>18, IdleType DEF TypeOK, SyncFails, PublishFails
  <2>19. CASE publishAlert
    <3> DEFINE alert == [monitor |-> worker.monitor, incident |-> worker.incident,
                         status |-> worker.evaluation.status,
                         scope |-> worker.evaluation.scope,
                         transition |-> transitions[worker.monitor]]
    <3>1. alert \in Alert
      BY <2>19 DEF TypeOK, publishAlert, Alert, Worker, Evaluation
    <3>2. alerts' = Append(alerts, alert)
      BY <2>19 DEF publishAlert
    <3> HIDE DEF alert
    <3>3. alerts' \in Seq(Alert)
      BY <3>1, <3>2 DEF TypeOK
    <3> QED
      BY <2>19, <3>3, IdleType DEF TypeOK, publishAlert
  <2>20. CASE UNCHANGED vars
    BY <2>20 DEF TypeOK, vars
  <2> QED
    BY <2>1, <2>2, <2>3, <2>4, <2>5, <2>6, <2>7, <2>8, <2>9, <2>10, <2>11, <2>12, <2>13,
       <2>14, <2>15, <2>16, <2>17, <2>18, <2>19, <2>20
       DEF Next, Work, Fault, Environment, Sync
<1> QED
  BY <1>1, <1>2, PTL DEF Spec

-----------------------------------------------------------------------------
(***************************************************************************)
(* How each write of syncProgrammaticIncident changes the set of           *)
(* unresolved incidents.                                                   *)
(***************************************************************************)
\* The INSERT of an unresolved incident adds its id to the open ones of its
\* monitor and to no other's.
LEMMA UnresolvedAppend ==
    ASSUME TypeOK, NEW incident \in Incident, ~incident.resolved,
           incidents' = Append(incidents, incident), NEW m \in Monitors
    PROVE  /\ DOMAIN incidents' = DOMAIN incidents \cup {Len(incidents) + 1}
           /\ incidents'[Len(incidents) + 1] = incident
           /\ \A i \in DOMAIN incidents : incidents'[i] = incidents[i]
           /\ Unresolved(m)' = IF incident.monitor = m
                               THEN Unresolved(m) \cup {Len(incidents) + 1}
                               ELSE Unresolved(m)
<1>1. DOMAIN incidents' = DOMAIN incidents \cup {Len(incidents) + 1}
  BY DEF TypeOK
<1>2. incidents'[Len(incidents) + 1] = incident
  BY DEF TypeOK
<1>3. \A i \in DOMAIN incidents : incidents'[i] = incidents[i]
  BY DEF TypeOK
<1>4. Len(incidents) + 1 \notin DOMAIN incidents
  BY DEF TypeOK
<1> QED
  BY <1>1, <1>2, <1>3, <1>4 DEF Unresolved

\* An UPDATE of one incident keeps it open, or closes it, for its monitor and
\* changes the open ones of no other.
LEMMA UnresolvedUpdate ==
    ASSUME TypeOK, NEW i \in DOMAIN incidents, NEW incident \in Incident,
           incident.monitor = incidents[i].monitor,
           incidents' = [incidents EXCEPT ![i] = incident], NEW m \in Monitors
    PROVE  /\ DOMAIN incidents' = DOMAIN incidents
           /\ incidents'[i] = incident
           /\ \A j \in DOMAIN incidents : j # i => incidents'[j] = incidents[j]
           /\ incident.resolved = incidents[i].resolved => Unresolved(m)' = Unresolved(m)
           /\ incident.resolved => Unresolved(m)' = Unresolved(m) \ {i}
<1>1. DOMAIN incidents' = DOMAIN incidents
  BY DEF TypeOK
<1>2. incidents'[i] = incident
  BY DEF TypeOK
<1>3. \A j \in DOMAIN incidents : j # i => incidents'[j] = incidents[j]
  BY DEF TypeOK
<1>4. ASSUME incident.resolved = incidents[i].resolved
      PROVE  Unresolved(m)' = Unresolved(m)
  BY <1>1, <1>2, <1>3, <1>4 DEF Unresolved
<1>5. ASSUME incident.resolved
      PROVE  Unresolved(m)' = Unresolved(m) \ {i}
  BY <1>1, <1>2, <1>3, <1>5 DEF Unresolved
<1> QED
  BY <1>1, <1>2, <1>3, <1>4, <1>5

(* Rewriting an incident without touching its resolved_at leaves the set of       *)
(* unresolved incidents of every monitor as it is (updateProgrammaticIncident and *)
(* the operator's edit).                                                          *)
LEMMA UnresolvedKept ==
    ASSUME TypeOK, NEW i \in DOMAIN incidents, NEW incident \in Incident,
           incident.monitor = incidents[i].monitor,
           incident.resolved = incidents[i].resolved,
           incidents' = [incidents EXCEPT ![i] = incident]
    PROVE  \A m \in Monitors : Unresolved(m)' = Unresolved(m)
<1>1. DOMAIN incidents' = DOMAIN incidents
  BY DEF TypeOK
<1>2. incidents'[i] = incident
  BY DEF TypeOK
<1>3. \A j \in DOMAIN incidents : j # i => incidents'[j] = incidents[j]
  BY DEF TypeOK
<1> QED
  BY <1>1, <1>2, <1>3 DEF Unresolved

-----------------------------------------------------------------------------
(***************************************************************************)
(* The incident tables.  Neither invariant is inductive alone: when the    *)
(* worker is about to sync, what it holds is what it stored.               *)
(***************************************************************************)
StoredIsCurrent ==
    worker.step = "stored" => worker.evaluation = incidentState[worker.monitor]

TablesInv == TypeOK /\ StoredIsCurrent /\ AtMostOneUnresolved /\ StateMatchesIncident

\* The steps that touch neither the incident tables nor the worker's position
\* between storing and syncing.
TablesUntouched ==
    /\ UNCHANGED <<incidentState, incidents, unsynced>>
    /\ worker' = worker \/ worker'.step # "stored"

\* A step that writes none of the tables, and does not bring a stored transition
\* into the worker's hand, keeps the tables invariant.
LEMMA UntouchedKeepsTables ==
    ASSUME TablesInv, TypeOK', TablesUntouched
    PROVE  TablesInv'
BY DEF TablesInv, TablesUntouched, StoredIsCurrent, AtMostOneUnresolved,
       StateMatchesIncident, Unresolved

\* A sync of the monitor in hand leaves the incidents of the others alone and
\* gives its own at most one open incident, which mirrors the evaluation.
LEMMA SyncKeepsTables ==
    ASSUME TablesInv, TypeOK', NEW w \in Monitors,
           incidentState' = incidentState, unsynced' = unsynced \ {w},
           worker'.step = "synced",
           \A m \in Monitors \ {w} : Unresolved(m)' = Unresolved(m),
           \A m \in Monitors \ {w} : \A i \in Unresolved(m) : incidents'[i] = incidents[i],
           HasActiveIncident(incidentState[w]) <=> Unresolved(w)' # {},
           \A i, j \in Unresolved(w)' : i = j,
           \A i \in Unresolved(w)' : /\ incidents'[i].status = incidentState[w].status
                                     /\ incidents'[i].scope = incidentState[w].scope
                                     /\ incidents'[i].autoImpact = Impact(incidentState[w])
    PROVE  TablesInv'
<1>1. StoredIsCurrent'
  BY DEF StoredIsCurrent
<1>2. AtMostOneUnresolved'
  BY DEF TablesInv, AtMostOneUnresolved
<1>3. StateMatchesIncident'
  <2> SUFFICES ASSUME NEW m \in Monitors, m \notin unsynced'
               PROVE  /\ HasActiveIncident(incidentState[m]) <=> Unresolved(m)' # {}
                      /\ \A i \in Unresolved(m)' :
                            /\ incidents'[i].status = incidentState[m].status
                            /\ incidents'[i].scope = incidentState[m].scope
                            /\ incidents'[i].autoImpact = Impact(incidentState[m])
    BY DEF StateMatchesIncident
  <2>1. CASE m = w
    BY <2>1
  <2>2. CASE m # w
    BY <2>2 DEF TablesInv, StateMatchesIncident
  <2> QED
    BY <2>1, <2>2
<1> QED
  BY <1>1, <1>2, <1>3 DEF TablesInv

\* monitor_incidents never holds two open incidents of a monitor, and agrees
\* with monitor_incident_state except where a sync is outstanding or was lost:
\* for every set of monitors and regions and any sequence of failures,
\* redeliveries, crashes and operator edits.
THEOREM TablesInvariant == Spec => []TablesInv
<1>1. Init => TablesInv
  <2> SUFFICES ASSUME Init PROVE TablesInv
    OBVIOUS
  <2>1. TypeOK
    BY IdleType, HealthyType DEF Init, TypeOK
  <2>2. \A m \in Monitors : Unresolved(m) = {}
    BY DEF Init, Unresolved
  <2>3. \A m \in Monitors : ~HasActiveIncident(incidentState[m])
    BY DEF Init, HasActiveIncident, HealthyIncidentEvaluation
  <2> QED
    BY <2>1, <2>2, <2>3, IdleType
       DEF TablesInv, Init, StoredIsCurrent, AtMostOneUnresolved, StateMatchesIncident
<1>2. TablesInv /\ TypeOK' /\ [Next]_vars => TablesInv'
  <2> SUFFICES ASSUME TablesInv, TypeOK', [Next]_vars
               PROVE  TablesInv'
    OBVIOUS
  <2>0. TypeOK
    BY DEF TablesInv
  <2>1. ASSUME TablesUntouched PROVE TablesInv'
    BY <2>1, UntouchedKeepsTables
  <2>2. CASE Tick \/ Restart \/ Crash
    BY <2>1, <2>2, IdleType DEF TablesUntouched, Tick, Restart, Crash
  <2>3. ASSUME NEW m \in MonitorIDs, CheckerSubmission(m) \/ Redeliver(m) \/ Receive(m)
        PROVE  TablesInv'
    BY <2>0, <2>1, <2>3, IdleType
       DEF TablesUntouched, CheckerSubmission, Redeliver, Receive, TypeOK, Worker
  <2>4. ASSUME NEW m \in Monitors, NEW region \in Regions, NEW at \in 0 .. now,
               NEW outcome \in Outcomes, InsertRow(m, region, at, outcome)
        PROVE  TablesInv'
    BY <2>1, <2>4 DEF TablesUntouched, InsertRow
  <2>5. CASE DropUnknown \/ Unchanged \/ SyncFails \/ PublishFails \/ publishAlert
    BY <2>1, <2>5, IdleType
       DEF TablesUntouched, DropUnknown, Unchanged, SyncFails, PublishFails, publishAlert
  <2>6. CASE ReadFails \/ StoreFails
    BY <2>1, <2>6, IdleType DEF TablesUntouched, ReadFails, StoreFails, GiveBack
  <2>7. CASE Evaluate
    <3>1. worker'.step # "stored"
      BY <2>0, <2>7 DEF Evaluate, TypeOK, Worker
    <3> QED
      BY <2>1, <2>7, <3>1 DEF TablesUntouched, Evaluate
  <2>8. CASE storeIncidentState
    <3>1. worker.monitor \in Monitors /\ worker'.monitor = worker.monitor
          /\ worker'.evaluation = worker.evaluation
      BY <2>0, <2>8 DEF storeIncidentState, TypeOK, Worker
    <3>2. StoredIsCurrent'
      BY <2>0, <2>8, <3>1 DEF storeIncidentState, StoredIsCurrent, TypeOK
    <3>3. \A m \in Monitors : Unresolved(m)' = Unresolved(m)
      BY <2>8 DEF storeIncidentState, Unresolved
    <3>4. StateMatchesIncident'
      BY <2>0, <2>8, <3>1, <3>3
         DEF TablesInv, storeIncidentState, StateMatchesIncident, TypeOK
    <3> QED
      BY <3>2, <3>3, <3>4 DEF TablesInv, AtMostOneUnresolved
  <2>9. ASSUME NEW i \in DOMAIN incidents, NEW impact \in OperatorImpacts,
               OperatorEdit(i, impact)
        PROVE  TablesInv'
    <3> DEFINE incident == [incidents[i] EXCEPT !.impact = impact]
    <3>1. incidents[i] \in Incident /\ impact \in Impacts
      BY <2>0, ProcessorAssumption DEF TypeOK
    <3>2. incident \in Incident /\ incident.monitor = incidents[i].monitor
          /\ incident.resolved = incidents[i].resolved /\ incident.status = incidents[i].status
          /\ incident.scope = incidents[i].scope /\ incident.autoImpact = incidents[i].autoImpact
      BY <3>1 DEF Incident
    <3>3. incidents' = [incidents EXCEPT ![i] = incident]
          /\ UNCHANGED <<worker, incidentState, unsynced>>
      BY <2>9 DEF OperatorEdit
    <3> HIDE DEF incident
    <3>4. \A m \in Monitors : Unresolved(m)' = Unresolved(m)
      BY <2>0, <3>2, <3>3, UnresolvedKept
    <3>5. \A j \in DOMAIN incidents : /\ incidents'[j].status = incidents[j].status
                                      /\ incidents'[j].scope = incidents[j].scope
                                      /\ incidents'[j].autoImpact = incidents[j].autoImpact
      BY <2>0, <3>2, <3>3 DEF TypeOK
    <3>6. \A m \in Monitors : \A j \in Unresolved(m) : j \in DOMAIN incidents
      BY DEF Unresolved
    <3> QED
      BY <3>3, <3>4, <3>5, <3>6
         DEF TablesInv, StoredIsCurrent, AtMostOneUnresolved, StateMatchesIncident
  <2>10. CASE createProgrammaticIncident
    <3>1. PICK incident \in Incident : CreateEffect(incident)
      BY <2>0, <2>10, CreateHasEffect
    <3>2. incidentState' = incidentState /\ unsynced' = unsynced \ {worker.monitor}
          /\ worker'.step = "synced"
      BY <2>0, <3>1 DEF CreateEffect, Synced, TypeOK, Worker
    <3>w. PICK w \in Monitors : w = worker.monitor
      BY <3>1 DEF CreateEffect, Stored
    <3>n. PICK n \in Nat : n = Len(incidents) + 1
      BY <2>0 DEF TypeOK
    <3>3. worker.evaluation = incidentState[w]
      BY <3>1, <3>w DEF TablesInv, StoredIsCurrent, CreateEffect, Stored
    <3>4. Unresolved(w)' = {n}
      BY <2>0, <3>1, <3>w, <3>n, UnresolvedAppend DEF CreateEffect
    <3>5. ASSUME NEW m \in Monitors \ {w}
          PROVE  Unresolved(m)' = Unresolved(m)
      <4>1. incident.monitor # m /\ ~incident.resolved /\ incidents' = Append(incidents, incident)
        BY <3>1, <3>w DEF CreateEffect
      <4> QED
        BY <2>0, <4>1, UnresolvedAppend
    <3>6. incidents'[n] = incident /\ \A i \in DOMAIN incidents : incidents'[i] = incidents[i]
      BY <2>0, <3>1, <3>n, UnresolvedAppend DEF CreateEffect
    <3>7. \A m \in Monitors : \A i \in Unresolved(m) : incidents'[i] = incidents[i]
      BY <3>6 DEF Unresolved
    <3>8. /\ HasActiveIncident(incidentState[w])
          /\ incidents'[n].status = incidentState[w].status
          /\ incidents'[n].scope = incidentState[w].scope
          /\ incidents'[n].autoImpact = Impact(incidentState[w])
      BY <3>1, <3>3, <3>6 DEF CreateEffect
    <3> QED
      BY <3>2, <3>w, <3>4, <3>5, <3>7, <3>8, SyncKeepsTables
  <2>11. CASE updateProgrammaticIncident
    <3>1. PICK i \in Unresolved(worker.monitor), incident \in Incident : UpdateEffect(i, incident)
      BY <2>0, <2>11, UpdateHasEffect
    <3>2. incidentState' = incidentState /\ unsynced' = unsynced \ {worker.monitor}
          /\ worker'.step = "synced"
      BY <2>0, <3>1 DEF UpdateEffect, Synced, TypeOK, Worker
    <3>w. PICK w \in Monitors : w = worker.monitor
      BY <3>1 DEF UpdateEffect, Stored
    <3>3. worker.evaluation = incidentState[w]
      BY <3>1, <3>w DEF TablesInv, StoredIsCurrent, UpdateEffect, Stored
    <3>4. i \in DOMAIN incidents
      BY DEF Unresolved
    <3>5. \A m \in Monitors : Unresolved(m)' = Unresolved(m)
      BY <2>0, <3>1, <3>4, UnresolvedKept DEF UpdateEffect
    <3>6. incidents'[i] = incident /\ \A j \in DOMAIN incidents : j # i => incidents'[j] = incidents[j]
      BY <2>0, <3>1, <3>w, <3>4, UnresolvedUpdate DEF UpdateEffect
    <3>7. ASSUME NEW m \in Monitors \ {w}, NEW j \in Unresolved(m)
          PROVE  incidents'[j] = incidents[j]
      BY <3>6, <3>w DEF Unresolved
    <3>8. Unresolved(w) = {i}
      BY <3>w DEF TablesInv, AtMostOneUnresolved
    <3>9. /\ HasActiveIncident(incidentState[w])
          /\ incidents'[i].status = incidentState[w].status
          /\ incidents'[i].scope = incidentState[w].scope
          /\ incidents'[i].autoImpact = Impact(incidentState[w])
      BY <3>1, <3>3, <3>6 DEF UpdateEffect
    <3> QED
      BY <3>2, <3>w, <3>5, <3>7, <3>8, <3>9, SyncKeepsTables
  <2>12. CASE resolveProgrammaticIncident
    <3>1. PICK i \in Unresolved(worker.monitor), incident \in Incident : ResolveEffect(i, incident)
      BY <2>0, <2>12, ResolveHasEffect
    <3>2. incidentState' = incidentState /\ unsynced' = unsynced \ {worker.monitor}
          /\ worker'.step = "synced"
      BY <2>0, <3>1 DEF ResolveEffect, Synced, TypeOK, Worker
    <3>w. PICK w \in Monitors : w = worker.monitor
      BY <3>1 DEF ResolveEffect, Stored
    <3>3. ~HasActiveIncident(incidentState[w])
      BY <3>1, <3>w DEF TablesInv, StoredIsCurrent, ResolveEffect, Stored
    <3>4. i \in DOMAIN incidents
      BY DEF Unresolved
    <3>5. \A m \in Monitors : Unresolved(m)' = Unresolved(m) \ {i}
      BY <2>0, <3>1, <3>4, UnresolvedUpdate DEF ResolveEffect
    <3>6. \A j \in DOMAIN incidents : j # i => incidents'[j] = incidents[j]
      BY <2>0, <3>1, <3>w, <3>4, UnresolvedUpdate DEF ResolveEffect
    <3>7. ASSUME NEW m \in Monitors \ {w}
          PROVE  /\ Unresolved(m)' = Unresolved(m)
                 /\ \A j \in Unresolved(m) : incidents'[j] = incidents[j]
      <4>1. i \notin Unresolved(m)
        BY <3>w DEF Unresolved
      <4> QED
        BY <3>5, <3>6, <4>1 DEF Unresolved
    <3>8. Unresolved(w)' = {}
      BY <3>w, <3>5 DEF TablesInv, AtMostOneUnresolved
    <3> QED
      BY <3>2, <3>w, <3>3, <3>7, <3>8, SyncKeepsTables
  <2>13. CASE NothingToResolve
    <3>w. PICK w \in Monitors : w = worker.monitor
      BY <2>0, <2>13 DEF NothingToResolve, TypeOK
    <3>1. incidentState' = incidentState /\ unsynced' = unsynced \ {w} /\ worker'.step = "synced"
      BY <2>0, <2>13, <3>w DEF NothingToResolve, Synced, TypeOK, Worker
    <3>2. ~HasActiveIncident(incidentState[w]) /\ Unresolved(w) = {}
      BY <2>0, <2>13, <3>w DEF TablesInv, StoredIsCurrent, NothingToResolve, TypeOK
    <3>3. incidents' = incidents /\ \A m \in Monitors : Unresolved(m)' = Unresolved(m)
      BY <2>13 DEF NothingToResolve, Unresolved
    <3> QED
      BY <3>1, <3>2, <3>3, SyncKeepsTables
  <2>14. CASE UNCHANGED vars
    BY <2>1, <2>14 DEF TablesUntouched, vars
  <2> QED
    BY <2>2, <2>3, <2>4, <2>5, <2>6, <2>7, <2>8, <2>9, <2>10, <2>11, <2>12, <2>13, <2>14
       DEF Next, Work, Fault, Environment, Sync
<1> QED
  BY <1>1, <1>2, TypeCorrect, PTL DEF Spec

\* syncProgrammaticIncident never opens a second incident beside an open one:
\* the part of the tables invariant that the SELECT ... LIMIT 1 relies on.
THEOREM OneUnresolved == Spec => []AtMostOneUnresolved
<1>1. TablesInv => AtMostOneUnresolved
  BY DEF TablesInv
<1> QED
  BY <1>1, TablesInvariant, PTL

\* monitor_incident_state and monitor_incidents agree about every monitor whose
\* last stored transition was synced.
THEOREM StateMatches == Spec => []StateMatchesIncident
<1>1. TablesInv => StateMatchesIncident
  BY DEF TablesInv
<1> QED
  BY <1>1, TablesInvariant, PTL

-----------------------------------------------------------------------------
\* A step leaves the incident and event tables alone, is one of the three
\* writes of syncProgrammaticIncident, or is an operator's edit.
LEMMA IncidentSteps ==
    ASSUME TypeOK, [Next]_vars
    PROVE  \/ UNCHANGED <<incidents, events, edits>>
           \/ \E incident \in Incident : CreateEffect(incident)
           \/ \E i \in Unresolved(worker.monitor), incident \in Incident :
                    UpdateEffect(i, incident) \/ ResolveEffect(i, incident)
           \/ \E i \in DOMAIN incidents, impact \in OperatorImpacts : OperatorEdit(i, impact)
<1>1. CASE Tick \/ Restart \/ Crash
  BY <1>1 DEF Tick, Restart, Crash
<1>2. ASSUME NEW m \in MonitorIDs, CheckerSubmission(m) \/ Redeliver(m) \/ Receive(m)
      PROVE  UNCHANGED <<incidents, events, edits>>
  BY <1>2 DEF CheckerSubmission, Redeliver, Receive
<1>3. ASSUME NEW m \in Monitors, NEW region \in Regions, NEW at \in 0 .. now,
             NEW outcome \in Outcomes, InsertRow(m, region, at, outcome)
      PROVE  UNCHANGED <<incidents, events, edits>>
  BY <1>3 DEF InsertRow
<1>4. CASE DropUnknown \/ Evaluate \/ Unchanged \/ storeIncidentState \/ NothingToResolve
           \/ publishAlert
  BY <1>4 DEF DropUnknown, Evaluate, Unchanged, storeIncidentState, NothingToResolve, Synced,
              publishAlert
<1>5. CASE ReadFails \/ StoreFails \/ SyncFails \/ PublishFails
  BY <1>5 DEF ReadFails, StoreFails, SyncFails, PublishFails
<1>6. CASE createProgrammaticIncident
  BY <1>6, CreateHasEffect
<1>7. CASE updateProgrammaticIncident
  BY <1>7, UpdateHasEffect
<1>8. CASE resolveProgrammaticIncident
  BY <1>8, ResolveHasEffect
<1>9. CASE UNCHANGED vars
  BY <1>9 DEF vars
<1> QED
  BY <1>1, <1>2, <1>3, <1>4, <1>5, <1>6, <1>7, <1>8, <1>9
     DEF Next, Work, Fault, Environment, Sync

\* No step changes a resolved incident: loadActiveProgrammaticIncident only
\* ever hands an unresolved one to the two writes that change a row.
THEOREM ResolvedStaysResolved == Spec => ResolvedIsFinal
<1> DEFINE Final == \A i \in DOMAIN incidents :
                        incidents[i].resolved => incidents'[i] = incidents[i]
<1>1. TypeOK /\ [Next]_vars => [Final]_vars
  <2> SUFFICES ASSUME TypeOK, [Next]_vars, NEW j \in DOMAIN incidents, incidents[j].resolved
               PROVE  incidents'[j] = incidents[j]
    OBVIOUS
  <2>1. CASE UNCHANGED <<incidents, events>>
    BY <2>1
  <2>2. ASSUME NEW incident \in Incident, CreateEffect(incident)
        PROVE  incidents'[j] = incidents[j]
    BY <2>2 DEF CreateEffect, TypeOK
  <2>3. ASSUME NEW i \in Unresolved(worker.monitor), NEW incident \in Incident,
               UpdateEffect(i, incident) \/ ResolveEffect(i, incident)
        PROVE  incidents'[j] = incidents[j]
    BY <2>3 DEF UpdateEffect, ResolveEffect, Unresolved, TypeOK
  <2>4. ASSUME NEW i \in DOMAIN incidents, NEW impact \in OperatorImpacts,
               OperatorEdit(i, impact)
        PROVE  incidents'[j] = incidents[j]
    BY <2>4 DEF OperatorEdit, TypeOK
  <2> QED
    BY <2>1, <2>2, <2>3, <2>4, IncidentSteps
<1> QED
  BY <1>1, TypeCorrect, PTL DEF Spec, ResolvedIsFinal

-----------------------------------------------------------------------------
(***************************************************************************)
(* The refinement.  Phase and Log are the mapping of the Timeline instance *)
(* of Processor.                                                           *)
(***************************************************************************)
Phase == [m \in Monitors |-> IF Unresolved(m) = {} THEN "clear" ELSE "open"]
Log   == [k \in DOMAIN events |-> [monitor |-> events[k].monitor, type |-> events[k].type]]

\* insertIncidentEvent appends one entry to the abstract timeline.
LEMMA LogAppend ==
    ASSUME TypeOK, NEW i \in Nat, NEW incident \in Incident,
           NEW type \in {"created", "updated", "resolved"},
           insertIncidentEvent(i, incident, type)
    PROVE  Log' = Append(Log, [monitor |-> incident.monitor, type |-> type])
<1>1. PICK event : /\ events' = Append(events, event)
                   /\ event.monitor = incident.monitor /\ event.type = type
  BY DEF insertIncidentEvent
<1>2. events \in Seq(Event) /\ Len(events) \in Nat
  BY DEF TypeOK
<1>3. /\ DOMAIN events = 1 .. Len(events)
      /\ DOMAIN events' = 1 .. Len(events) + 1
      /\ events'[Len(events) + 1] = event
      /\ \A k \in DOMAIN events : events'[k] = events[k]
  BY <1>1, <1>2
<1>4. Log \in Seq([monitor : Monitors, type : {"created", "updated", "resolved"}])
  <2> DEFINE Entry == [monitor : Monitors, type : {"created", "updated", "resolved"}]
  <2>1. \A k \in DOMAIN events :
            [monitor |-> events[k].monitor, type |-> events[k].type] \in Entry
    <3> SUFFICES ASSUME NEW k \in DOMAIN events
                 PROVE  [monitor |-> events[k].monitor, type |-> events[k].type] \in Entry
      OBVIOUS
    <3>1. events[k] \in Event
      BY <1>2
    <3> QED
      BY <3>1 DEF Event
  <2> HIDE DEF Entry
  <2>2. Log \in [1 .. Len(events) -> Entry]
    BY <1>3, <2>1 DEF Log
  <2>3. Log \in Seq(Entry)
    BY <1>2, <2>2
  <2> QED
    BY <2>3 DEF Entry
<1>5. Len(Log) = Len(events)
  BY <1>2, <1>3, <1>4 DEF Log
<1> QED
  BY <1>1, <1>2, <1>3, <1>4, <1>5 DEF Log

\* The phase of a monitor changes with its set of unresolved incidents.
LEMMA PhaseStep ==
    ASSUME NEW w \in Monitors,
           \A m \in Monitors \ {w} : Unresolved(m)' = Unresolved(m)
    PROVE  Phase' = [Phase EXCEPT ![w] = IF Unresolved(w)' = {} THEN "clear" ELSE "open"]
BY DEF Phase

\* The incident tables implement the abstract timeline: each monitor's events
\* are created, updated*, resolved, again and again, whatever fails in between.
THEOREM TimelineImplemented == Spec => ImplementsTimeline
<1>1. Init => Timeline!Init
  BY DEF Init, Timeline!Init, Unresolved
<1>2. TablesInv /\ [Next]_vars => [Timeline!Next]_Timeline!vars
  <2> SUFFICES ASSUME TablesInv, [Next]_vars
               PROVE  \/ Phase' = Phase /\ Log' = Log
                      \/ \E m \in Monitors :
                            \/ /\ Phase[m] = "clear"
                               /\ Phase' = [Phase EXCEPT ![m] = "open"]
                               /\ Log' = Append(Log, [monitor |-> m, type |-> "created"])
                            \/ /\ Phase[m] = "open"
                               /\ Phase' = Phase
                               /\ Log' = Append(Log, [monitor |-> m, type |-> "updated"])
                            \/ /\ Phase[m] = "open"
                               /\ Phase' = [Phase EXCEPT ![m] = "clear"]
                               /\ Log' = Append(Log, [monitor |-> m, type |-> "resolved"])
    BY DEF Timeline!Next, Timeline!Open, Timeline!Update, Timeline!Resolve, Timeline!Log,
           Timeline!vars, Phase, Log
  <2>0. TypeOK
    BY DEF TablesInv
  <2>1. CASE UNCHANGED <<incidents, events>>
    BY <2>1 DEF Phase, Log, Unresolved
  <2>2. ASSUME NEW incident \in Incident, CreateEffect(incident)
        PROVE  \E m \in Monitors :
                  /\ Phase[m] = "clear"
                  /\ Phase' = [Phase EXCEPT ![m] = "open"]
                  /\ Log' = Append(Log, [monitor |-> m, type |-> "created"])
    <3>w. PICK w \in Monitors : w = worker.monitor
      BY <2>2 DEF CreateEffect, Stored
    <3>1. Phase[w] = "clear"
      BY <2>2, <3>w DEF CreateEffect, Phase
    <3>2. \A m \in Monitors \ {w} : Unresolved(m)' = Unresolved(m)
      BY <2>0, <2>2, <3>w, UnresolvedAppend DEF CreateEffect
    <3>3. Unresolved(w)' # {}
      BY <2>0, <2>2, <3>w, UnresolvedAppend DEF CreateEffect
    <3>4. Phase' = [Phase EXCEPT ![w] = "open"]
      BY <3>2, <3>3, PhaseStep
    <3>5. Len(incidents) + 1 \in Nat
      BY <2>0 DEF TypeOK
    <3>6. Log' = Append(Log, [monitor |-> w, type |-> "created"])
      BY <2>0, <2>2, <3>w, <3>5, LogAppend DEF CreateEffect
    <3> QED
      BY <3>1, <3>4, <3>6
  <2>3. ASSUME NEW i \in Unresolved(worker.monitor), NEW incident \in Incident,
               UpdateEffect(i, incident)
        PROVE  \E m \in Monitors :
                  /\ Phase[m] = "open"
                  /\ Phase' = Phase
                  /\ Log' = Append(Log, [monitor |-> m, type |-> "updated"])
    <3>w. PICK w \in Monitors : w = worker.monitor
      BY <2>3 DEF UpdateEffect, Stored
    <3>1. Phase[w] = "open"
      BY <3>w DEF Phase
    <3>2. i \in DOMAIN incidents /\ i \in Nat
      BY <2>0 DEF Unresolved, TypeOK
    <3>3. \A m \in Monitors : Unresolved(m)' = Unresolved(m)
      BY <2>0, <2>3, <3>2, UnresolvedKept DEF UpdateEffect
    <3>4. Phase' = Phase
      BY <3>3 DEF Phase
    <3>5. Log' = Append(Log, [monitor |-> w, type |-> "updated"])
      BY <2>0, <2>3, <3>w, <3>2, LogAppend DEF UpdateEffect
    <3> QED
      BY <3>1, <3>4, <3>5
  <2>4. ASSUME NEW i \in Unresolved(worker.monitor), NEW incident \in Incident,
               ResolveEffect(i, incident)
        PROVE  \E m \in Monitors :
                  /\ Phase[m] = "open"
                  /\ Phase' = [Phase EXCEPT ![m] = "clear"]
                  /\ Log' = Append(Log, [monitor |-> m, type |-> "resolved"])
    <3>w. PICK w \in Monitors : w = worker.monitor
      BY <2>4 DEF ResolveEffect, Stored
    <3>1. Phase[w] = "open"
      BY <3>w DEF Phase
    <3>2. i \in DOMAIN incidents /\ i \in Nat
      BY <2>0 DEF Unresolved, TypeOK
    <3>3. \A m \in Monitors : Unresolved(m)' = Unresolved(m) \ {i}
      BY <2>0, <2>4, <3>2, UnresolvedUpdate DEF ResolveEffect
    <3>4. \A m \in Monitors \ {w} : Unresolved(m)' = Unresolved(m)
      <4>1. \A m \in Monitors \ {w} : i \notin Unresolved(m)
        BY <3>w DEF Unresolved
      <4> QED
        BY <3>3, <4>1
    <3>5. Unresolved(w)' = {}
      BY <3>w, <3>3 DEF TablesInv, AtMostOneUnresolved
    <3>6. Phase' = [Phase EXCEPT ![w] = "clear"]
      BY <3>4, <3>5, PhaseStep
    <3>7. Log' = Append(Log, [monitor |-> w, type |-> "resolved"])
      BY <2>0, <2>4, <3>w, <3>2, LogAppend DEF ResolveEffect
    <3> QED
      BY <3>1, <3>6, <3>7
  <2>5. ASSUME NEW i \in DOMAIN incidents, NEW impact \in OperatorImpacts,
               OperatorEdit(i, impact)
        PROVE  Phase' = Phase /\ Log' = Log
    <3>1. \A j \in DOMAIN incidents : /\ incidents'[j].monitor = incidents[j].monitor
                                      /\ incidents'[j].resolved = incidents[j].resolved
      BY <2>0, <2>5 DEF OperatorEdit, TypeOK, Incident
    <3>2. DOMAIN incidents' = DOMAIN incidents /\ events' = events
      BY <2>0, <2>5 DEF OperatorEdit, TypeOK
    <3>3. \A m \in Monitors : Unresolved(m)' = Unresolved(m)
      BY <3>1, <3>2 DEF Unresolved
    <3> QED
      BY <3>2, <3>3 DEF Phase, Log
  <2> QED
    BY <2>0, <2>1, <2>2, <2>3, <2>4, <2>5, IncidentSteps
<1> QED
  BY <1>1, <1>2, TablesInvariant, PTL DEF Spec, ImplementsTimeline, Timeline!Spec

-----------------------------------------------------------------------------
(***************************************************************************)
(* Alerts.  Past alerts are numbered by the transition they announce; the  *)
(* worker, between storing a transition and publishing it, holds a newer   *)
(* one than any alert of its monitor, and the id it will publish is that   *)
(* of an incident in the matching state.                                   *)
(***************************************************************************)
AlertsAreOld ==
    \A k \in DOMAIN alerts : alerts[k].transition <= transitions[alerts[k].monitor]

HandIsNewer ==
    worker.step \in {"stored", "synced"} =>
        \A k \in DOMAIN alerts :
            alerts[k].monitor = worker.monitor
                => alerts[k].transition < transitions[worker.monitor]

Names(i, m, status) ==
    IF i = 0 THEN status = "healthy"
    ELSE /\ i \in DOMAIN incidents
         /\ incidents[i].monitor = m
         /\ status = "healthy" => incidents[i].resolved

HandNamesItsIncident ==
    worker.step = "synced" =>
        Names(worker.incident, worker.monitor, worker.evaluation.status)

AlertsInv ==
    /\ AlertAtMostOnce /\ AlertsAreOld /\ HandIsNewer
    /\ AlertNamesItsIncident /\ HandNamesItsIncident

\* Incidents are never deleted, reassigned to another monitor or reopened.
LEMMA NamesPersists ==
    ASSUME TypeOK, [Next]_vars, NEW i, NEW m, NEW status, Names(i, m, status)
    PROVE  Names(i, m, status)'
<1>1. CASE i = 0
  BY <1>1 DEF Names
<1>2. CASE i # 0
  <2>0. i \in DOMAIN incidents
    BY <1>2 DEF Names
  <2> SUFFICES /\ i \in DOMAIN incidents'
               /\ incidents'[i].monitor = incidents[i].monitor
               /\ incidents[i].resolved => incidents'[i].resolved
    BY <1>2 DEF Names
  <2>1. CASE UNCHANGED <<incidents, events>>
    BY <2>0, <2>1
  <2>2. ASSUME NEW incident \in Incident, CreateEffect(incident)
        PROVE  i \in DOMAIN incidents' /\ incidents'[i] = incidents[i]
    BY <2>0, <2>2 DEF CreateEffect, TypeOK
  <2>3. ASSUME NEW j \in Unresolved(worker.monitor), NEW incident \in Incident,
               UpdateEffect(j, incident) \/ ResolveEffect(j, incident)
        PROVE  /\ i \in DOMAIN incidents'
               /\ incidents'[i].monitor = incidents[i].monitor
               /\ incidents[i].resolved => incidents'[i].resolved
    BY <2>0, <2>3 DEF UpdateEffect, ResolveEffect, Unresolved, TypeOK
  <2>4. ASSUME NEW j \in DOMAIN incidents, NEW impact \in OperatorImpacts,
               OperatorEdit(j, impact)
        PROVE  /\ i \in DOMAIN incidents'
               /\ incidents'[i].monitor = incidents[i].monitor
               /\ incidents[i].resolved => incidents'[i].resolved
    BY <2>0, <2>4 DEF OperatorEdit, TypeOK, Incident
  <2> QED
    BY <2>1, <2>2, <2>3, <2>4, IncidentSteps
<1> QED
  BY <1>1, <1>2

\* A step that publishes nothing and does not carry the worker past a store
\* keeps every fact about alerts.
LEMMA QuietKeepsAlerts ==
    ASSUME TypeOK, [Next]_vars, AlertsInv, UNCHANGED <<alerts, transitions>>,
           worker' = worker \/ worker'.step \notin {"stored", "synced"}
    PROVE  AlertsInv'
<1>1. AlertAtMostOnce' /\ AlertsAreOld' /\ HandIsNewer'
  BY DEF AlertsInv, AlertAtMostOnce, AlertsAreOld, HandIsNewer
<1>2. \A k \in DOMAIN alerts : Names(alerts[k].incident, alerts[k].monitor, alerts[k].status)
  BY DEF AlertsInv, AlertNamesItsIncident, Names
<1>3. \A k \in DOMAIN alerts :
        Names(alerts[k].incident, alerts[k].monitor, alerts[k].status)'
  BY <1>2, NamesPersists
<1>4. AlertNamesItsIncident'
  BY <1>3 DEF AlertNamesItsIncident, Names
<1>5. HandNamesItsIncident'
  BY NamesPersists DEF AlertsInv, HandNamesItsIncident
<1> QED
  BY <1>1, <1>4, <1>5 DEF AlertsInv

\* syncProgrammaticIncident hands the worker an id that may be announced.
LEMMA SyncKeepsAlerts ==
    ASSUME TypeOK, [Next]_vars, AlertsInv, Stored, NEW i \in Nat, Synced(i),
           Names(i, worker.monitor, worker.evaluation.status)'
    PROVE  AlertsInv'
<1>1. /\ alerts' = alerts /\ transitions' = transitions
      /\ worker'.monitor = worker.monitor /\ worker'.evaluation = worker.evaluation
      /\ worker'.incident = i
  BY DEF Synced, TypeOK, Worker
<1>2. AlertAtMostOnce' /\ AlertsAreOld' /\ HandIsNewer'
  BY <1>1 DEF AlertsInv, AlertAtMostOnce, AlertsAreOld, HandIsNewer, Stored
<1>3. \A k \in DOMAIN alerts : Names(alerts[k].incident, alerts[k].monitor, alerts[k].status)
  BY DEF AlertsInv, AlertNamesItsIncident, Names
<1>4. \A k \in DOMAIN alerts :
        Names(alerts[k].incident, alerts[k].monitor, alerts[k].status)'
  BY <1>1, <1>3, NamesPersists
<1>5. AlertNamesItsIncident'
  BY <1>1, <1>4 DEF AlertNamesItsIncident, Names
<1>6. HandNamesItsIncident'
  BY <1>1 DEF HandNamesItsIncident
<1> QED
  BY <1>2, <1>5, <1>6 DEF AlertsInv

\* Each stored transition of a monitor is announced at most once and in order,
\* and an announcement names an incident of its monitor in the matching state:
\* the redelivered message finds its own state stored and stops there.
THEOREM AlertsInvariant == Spec => []AlertsInv
<1>1. Init => AlertsInv
  BY IdleType DEF Init, AlertsInv, AlertAtMostOnce, AlertsAreOld, HandIsNewer,
                  AlertNamesItsIncident, HandNamesItsIncident
<1>2. TypeOK /\ AlertsInv /\ [Next]_vars => AlertsInv'
  <2> SUFFICES ASSUME TypeOK, AlertsInv, [Next]_vars
               PROVE  AlertsInv'
    OBVIOUS
  <2>0. ASSUME UNCHANGED <<alerts, transitions>>,
               worker' = worker \/ worker'.step \notin {"stored", "synced"}
        PROVE  AlertsInv'
    BY <2>0, QuietKeepsAlerts
  <2>1. CASE Tick \/ Restart \/ Crash
    BY <2>0, <2>1, IdleType DEF Tick, Restart, Crash
  <2>2. ASSUME NEW m \in MonitorIDs, CheckerSubmission(m) \/ Redeliver(m) \/ Receive(m)
        PROVE  AlertsInv'
    <3>1. worker' = worker \/ worker'.step = "received"
      BY <2>2, IdleType DEF CheckerSubmission, Redeliver, Receive, Worker
    <3> QED
      BY <2>0, <2>2, <3>1 DEF CheckerSubmission, Redeliver, Receive
  <2>3. ASSUME NEW m \in Monitors, NEW region \in Regions, NEW at \in 0 .. now,
               NEW outcome \in Outcomes, InsertRow(m, region, at, outcome)
        PROVE  AlertsInv'
    BY <2>0, <2>3 DEF InsertRow
  <2>4. ASSUME NEW i \in DOMAIN incidents, NEW impact \in OperatorImpacts,
               OperatorEdit(i, impact)
        PROVE  AlertsInv'
    BY <2>0, <2>4 DEF OperatorEdit
  <2>5. CASE DropUnknown \/ Unchanged \/ SyncFails \/ PublishFails
    BY <2>0, <2>5, IdleType DEF DropUnknown, Unchanged, SyncFails, PublishFails
  <2>6. CASE ReadFails \/ StoreFails
    BY <2>0, <2>6, IdleType DEF ReadFails, StoreFails, GiveBack
  <2>7. CASE Evaluate
    <3>1. worker'.step = "evaluated"
      BY <2>7 DEF Evaluate, TypeOK, Worker
    <3> QED
      BY <2>0, <2>7, <3>1 DEF Evaluate
  <2>8. CASE storeIncidentState
    <3>1. /\ alerts' = alerts /\ incidents' = incidents
          /\ worker'.monitor = worker.monitor /\ worker'.step = "stored"
          /\ worker.monitor \in Monitors
      BY <2>8 DEF storeIncidentState, TypeOK, Worker
    <3>2. /\ transitions'[worker.monitor] = transitions[worker.monitor] + 1
          /\ \A m \in Monitors : transitions'[m] >= transitions[m]
          /\ \A m \in Monitors : transitions[m] \in Nat
      BY <2>8, <3>1 DEF storeIncidentState, TypeOK
    <3>3. \A k \in DOMAIN alerts : alerts[k].monitor \in Monitors /\ alerts[k].transition \in Nat
      <4>1. \A k \in DOMAIN alerts : alerts[k] \in Alert
        BY DEF TypeOK
      <4> QED
        BY <4>1 DEF Alert
    <3>4. \A m \in Monitors : transitions'[m] \in Nat
      BY <2>8, <3>1 DEF storeIncidentState, TypeOK
    <3>5. AlertsAreOld'
      BY <3>1, <3>2, <3>3, <3>4 DEF AlertsInv, AlertsAreOld
    <3>6. HandIsNewer'
      BY <3>1, <3>2, <3>3 DEF AlertsInv, AlertsAreOld, HandIsNewer
    <3>7. AlertAtMostOnce' /\ AlertNamesItsIncident' /\ HandNamesItsIncident'
      BY <3>1 DEF AlertsInv, AlertAtMostOnce, AlertNamesItsIncident, HandNamesItsIncident
    <3> QED
      BY <3>5, <3>6, <3>7 DEF AlertsInv
  <2>9. CASE createProgrammaticIncident
    <3>1. PICK incident \in Incident : CreateEffect(incident)
      BY <2>9, CreateHasEffect
    <3>2. worker'.monitor = worker.monitor /\ worker'.evaluation = worker.evaluation
      BY <3>1 DEF CreateEffect, Synced, TypeOK, Worker
    <3>3. Len(incidents) + 1 \in DOMAIN incidents' /\ incidents'[Len(incidents) + 1] = incident
      BY <3>1 DEF CreateEffect, TypeOK
    <3>4. PICK n \in Nat : n = Len(incidents) + 1
      BY DEF TypeOK
    <3>5. Names(n, worker.monitor, worker.evaluation.status)'
      BY <3>1, <3>2, <3>3, <3>4 DEF CreateEffect, Names, HasActiveIncident, TypeOK
    <3> QED
      BY <3>1, <3>4, <3>5, SyncKeepsAlerts DEF CreateEffect
  <2>10. CASE updateProgrammaticIncident
    <3>1. PICK i \in Unresolved(worker.monitor), incident \in Incident : UpdateEffect(i, incident)
      BY <2>10, UpdateHasEffect
    <3>2. worker'.monitor = worker.monitor /\ worker'.evaluation = worker.evaluation
      BY <3>1 DEF UpdateEffect, Synced, TypeOK, Worker
    <3>3. i \in Nat /\ i # 0 /\ i \in DOMAIN incidents' /\ incidents'[i] = incident
      BY <3>1 DEF UpdateEffect, Unresolved, TypeOK
    <3>4. Names(i, worker.monitor, worker.evaluation.status)'
      BY <3>1, <3>2, <3>3 DEF UpdateEffect, Names, HasActiveIncident
    <3> QED
      BY <3>1, <3>3, <3>4, SyncKeepsAlerts DEF UpdateEffect
  <2>11. CASE resolveProgrammaticIncident
    <3>1. PICK i \in Unresolved(worker.monitor), incident \in Incident : ResolveEffect(i, incident)
      BY <2>11, ResolveHasEffect
    <3>2. worker'.monitor = worker.monitor /\ worker'.evaluation = worker.evaluation
      BY <3>1 DEF ResolveEffect, Synced, TypeOK, Worker
    <3>3. i \in Nat /\ i # 0 /\ i \in DOMAIN incidents' /\ incidents'[i] = incident
      BY <3>1 DEF ResolveEffect, Unresolved, TypeOK
    <3>4. Names(i, worker.monitor, worker.evaluation.status)'
      BY <3>1, <3>2, <3>3 DEF ResolveEffect, Names
    <3> QED
      BY <3>1, <3>3, <3>4, SyncKeepsAlerts DEF ResolveEffect
  <2>12. CASE NothingToResolve
    <3>1. Stored
      BY <2>12 DEF NothingToResolve, Stored, TypeOK, Worker
    <3>2. worker'.evaluation = worker.evaluation
      BY <2>12 DEF NothingToResolve, Synced, TypeOK, Worker
    <3>3. Names(0, worker.monitor, worker.evaluation.status)'
      BY <2>12, <3>2 DEF NothingToResolve, Names, HasActiveIncident
    <3> QED
      BY <2>12, <3>1, <3>3, SyncKeepsAlerts DEF NothingToResolve
  <2>13. CASE publishAlert
    <3>0. PICK alert : /\ alerts' = Append(alerts, alert)
                       /\ alert.monitor = worker.monitor
                       /\ alert.incident = worker.incident
                       /\ alert.status = worker.evaluation.status
                       /\ alert.transition = transitions[worker.monitor]
      BY <2>13 DEF publishAlert
    <3>1. /\ worker.step = "synced" /\ worker'.step = "idle" /\ transitions' = transitions
          /\ incidents' = incidents /\ transitions[worker.monitor] \in Nat
      BY <2>13, IdleType DEF publishAlert, TypeOK
    <3>2. /\ DOMAIN alerts' = DOMAIN alerts \cup {Len(alerts) + 1}
          /\ alerts'[Len(alerts) + 1] = alert
          /\ \A k \in DOMAIN alerts : alerts'[k] = alerts[k] /\ k < Len(alerts) + 1
      BY <3>0 DEF TypeOK
    <3>3. HandIsNewer' /\ HandNamesItsIncident'
      BY <3>1 DEF HandIsNewer, HandNamesItsIncident
    <3>4. AlertsAreOld'
      BY <3>0, <3>1, <3>2 DEF AlertsInv, AlertsAreOld
    <3>5. AlertAtMostOnce'
      <4> SUFFICES ASSUME NEW i \in DOMAIN alerts', NEW j \in DOMAIN alerts', i < j,
                          alerts'[i].monitor = alerts'[j].monitor
                   PROVE  alerts'[i].transition < alerts'[j].transition
        BY DEF AlertAtMostOnce
      <4>1. i \in DOMAIN alerts
        BY <3>2 DEF TypeOK
      <4>2. CASE j \in DOMAIN alerts
        BY <3>2, <4>1, <4>2 DEF AlertsInv, AlertAtMostOnce
      <4>3. CASE j = Len(alerts) + 1
        BY <3>0, <3>1, <3>2, <4>1, <4>3 DEF AlertsInv, HandIsNewer
      <4> QED
        BY <3>2, <4>2, <4>3
    <3>6. AlertNamesItsIncident'
      BY <3>0, <3>1, <3>2
         DEF AlertsInv, AlertNamesItsIncident, HandNamesItsIncident, Names
    <3> QED
      BY <3>3, <3>4, <3>5, <3>6 DEF AlertsInv
  <2>14. CASE UNCHANGED vars
    BY <2>0, <2>14 DEF vars
  <2> QED
    BY <2>1, <2>2, <2>3, <2>4, <2>5, <2>6, <2>7, <2>8, <2>9, <2>10, <2>11, <2>12, <2>13, <2>14
       DEF Next, Work, Fault, Environment, Sync
<1> QED
  BY <1>1, <1>2, TypeCorrect, PTL DEF Spec

\* A stored transition is never announced twice nor out of order.
THEOREM AlertsAreUnique == Spec => []AlertAtMostOnce
<1>1. AlertsInv => AlertAtMostOnce
  BY DEF AlertsInv
<1> QED
  BY <1>1, AlertsInvariant, PTL

\* Every announcement names an incident of its own monitor, resolved before the
\* recovery was announced; only a recovery may name none.
THEOREM AlertsNameIncidents == Spec => []AlertNamesItsIncident
<1>1. AlertsInv => AlertNamesItsIncident
  BY DEF AlertsInv
<1> QED
  BY <1>1, AlertsInvariant, PTL

-----------------------------------------------------------------------------
(***************************************************************************)
(* The operator's word and the evaluations'.                               *)
(***************************************************************************)
EditsHaveIncidents == \A k \in DOMAIN edits : edits[k].incident \in DOMAIN incidents

AutoIsEvaluated == \A i \in DOMAIN incidents : incidents[i].autoImpact \in AutoImpacts

OverrideInv == EditsHaveIncidents /\ AutoIsEvaluated /\ ForeignOverrideKept

\* An unhealthy monitor has one of three impacts.
LEMMA ActiveImpact ==
    ASSUME NEW e \in Evaluation, HasActiveIncident(e)
    PROVE  Impact(e) \in AutoImpacts
<1>1. e.status \in {"degraded", "down"}
  BY DEF Evaluation, Statuses, HasActiveIncident
<1>2. Impact(e) \in {"major_outage", "partial_outage", "degraded_performance"}
  BY <1>1, Zenon DEF Impact
<1> QED
  BY <1>2 DEF AutoImpacts

\* preserveManualString leaves a word alone that no evaluation produced.
LEMMA ForeignPreserved ==
    ASSUME NEW current, current \notin AutoImpacts \cup {""},
           NEW previousAuto \in AutoImpacts, NEW nextAuto
    PROVE  preserveManualString(current, previousAuto, nextAuto) = current
BY DEF preserveManualString

\* The newest edit of the edited incident is the one just made; the others keep
\* theirs.
LEMMA NewestEdit ==
    ASSUME TypeOK, NEW i \in Nat, NEW impact,
           edits' = Append(edits, [incident |-> i, impact |-> impact])
    PROVE  /\ LastEdit(i)' = Len(edits) + 1 /\ edits'[Len(edits) + 1].impact = impact
           /\ \A j : j # i => /\ (Edited(j)' <=> Edited(j)) /\ LastEdit(j)' = LastEdit(j)
                              /\ Edited(j) => /\ LastEdit(j) \in DOMAIN edits
                                              /\ edits'[LastEdit(j)] = edits[LastEdit(j)]
<1> DEFINE n == Len(edits)
           Of(j) == {k \in DOMAIN edits : edits[k].incident = j}
           Then(j) == {k \in DOMAIN edits' : edits'[k].incident = j}
<1>1. /\ n \in Nat /\ DOMAIN edits = 1 .. n /\ DOMAIN edits' = 1 .. n + 1
      /\ \A k \in 1 .. n : edits'[k] = edits[k]
      /\ edits'[n + 1] = [incident |-> i, impact |-> impact]
  BY DEF TypeOK
<1>2. n + 1 \in Then(i) /\ \A k \in Then(i) : k \in Int /\ n + 1 >= k
  BY <1>1
<1>3. Max(Then(i)) = n + 1
  <2> HIDE DEF Then, n
  <2>1. \A x \in Then(i) : (\A y \in Then(i) : x >= y) => x = n + 1
    BY <1>1, <1>2
  <2>2. \A y \in Then(i) : n + 1 >= y
    BY <1>2
  <2> QED
    BY <1>2, <2>1, <2>2 DEF Max
<1>4. ASSUME NEW j, j # i
      PROVE  /\ (Edited(j)' <=> Edited(j)) /\ LastEdit(j)' = LastEdit(j)
             /\ Edited(j) => /\ LastEdit(j) \in DOMAIN edits
                             /\ edits'[LastEdit(j)] = edits[LastEdit(j)]
  <2>1. Then(j) = Of(j)
    BY <1>1, <1>4
  <2>2. LastEdit(j)' = LastEdit(j)
    BY <2>1 DEF LastEdit
  <2>3. (Edited(j)' <=> Edited(j))
    BY <1>1, <1>4 DEF Edited
  <2>4. Edited(j) => LastEdit(j) \in Of(j)
    <3>1. Edited(j) => Of(j) # {}
      BY DEF Edited
    <3>2. Of(j) \in SUBSET Nat /\ \A k \in Of(j) : k <= n
      BY <1>1
    <3> QED
      BY <1>1, <3>1, <3>2, MaxOfBounded DEF LastEdit
  <2> QED
    BY <1>1, <2>2, <2>3, <2>4
<1>5. LastEdit(i)' = n + 1
  BY <1>3 DEF LastEdit
<1>6. edits'[n + 1].impact = impact
  BY <1>1
<1> QED
  BY <1>4, <1>5, <1>6

\* An operator's impact that no evaluation produces outlives every update, the
\* resolution of its incident and every restart: the automatic impact it is
\* compared with is always one of the three an evaluation produces.
THEOREM ForeignOverridesKept == Spec => []ForeignOverrideKept
<1>1. Init => OverrideInv
  BY DEF Init, OverrideInv, EditsHaveIncidents, AutoIsEvaluated, ForeignOverrideKept
<1>2. TypeOK /\ OverrideInv /\ [Next]_vars => OverrideInv'
  <2> SUFFICES ASSUME TypeOK, OverrideInv, [Next]_vars PROVE OverrideInv'
    OBVIOUS
  <2>1. CASE UNCHANGED <<incidents, events, edits>>
    BY <2>1 DEF OverrideInv, EditsHaveIncidents, AutoIsEvaluated, ForeignOverrideKept,
                Edited, LastEdit
  <2>2. ASSUME UNCHANGED edits, DOMAIN incidents \subseteq DOMAIN incidents',
               \A i \in DOMAIN incidents' : incidents'[i].autoImpact \in AutoImpacts,
               \A i \in DOMAIN incidents : incidents[i].impact \notin AutoImpacts \cup {""}
                    => incidents'[i].impact = incidents[i].impact
        PROVE  OverrideInv'
    <3>1. \A i : (Edited(i)' <=> Edited(i)) /\ LastEdit(i)' = LastEdit(i)
      BY <2>2 DEF Edited, LastEdit
    <3>2. \A i : Edited(i) => i \in DOMAIN incidents
      BY DEF Edited, OverrideInv, EditsHaveIncidents
    <3>3. ForeignOverrideKept'
      BY <2>2, <3>1, <3>2 DEF OverrideInv, ForeignOverrideKept
    <3> QED
      BY <2>2, <3>3 DEF OverrideInv, EditsHaveIncidents, AutoIsEvaluated
  <2>3. ASSUME NEW incident \in Incident, CreateEffect(incident) PROVE OverrideInv'
    <3>1. UNCHANGED edits /\ incidents' = Append(incidents, incident)
          /\ incident.autoImpact \in AutoImpacts
      BY <2>3, ActiveImpact DEF CreateEffect, Stored, Synced
    <3>2. DOMAIN incidents' = DOMAIN incidents \cup {Len(incidents) + 1}
          /\ incidents'[Len(incidents) + 1] = incident
          /\ \A i \in DOMAIN incidents : incidents'[i] = incidents[i]
      BY <3>1 DEF TypeOK
    <3> QED
      BY <2>2, <3>1, <3>2 DEF OverrideInv, AutoIsEvaluated
  <2>4. ASSUME NEW i \in Unresolved(worker.monitor), NEW incident \in Incident,
               UpdateEffect(i, incident) \/ ResolveEffect(i, incident)
        PROVE  OverrideInv'
    <3>1. UNCHANGED edits /\ incidents' = [incidents EXCEPT ![i] = incident]
          /\ i \in DOMAIN incidents
      BY <2>4 DEF UpdateEffect, ResolveEffect, Synced, Unresolved
    <3>2. incidents[i].autoImpact \in AutoImpacts
      BY <3>1 DEF OverrideInv, AutoIsEvaluated
    <3>3. incident.autoImpact \in AutoImpacts
      BY <2>4, <3>2, ActiveImpact DEF UpdateEffect, ResolveEffect, Stored
    <3>4. incidents[i].impact \notin AutoImpacts \cup {""} => incident.impact = incidents[i].impact
      BY <2>4, <3>2, ForeignPreserved DEF UpdateEffect, ResolveEffect
    <3> QED
      BY <2>2, <3>1, <3>3, <3>4 DEF OverrideInv, AutoIsEvaluated
  <2>5. ASSUME NEW i \in DOMAIN incidents, NEW impact \in OperatorImpacts, OperatorEdit(i, impact)
        PROVE  OverrideInv'
    <3>1. /\ incidents' = [incidents EXCEPT ![i].impact = impact]
          /\ edits' = Append(edits, [incident |-> i, impact |-> impact])
          /\ i \in Nat
      BY <2>5 DEF OperatorEdit, TypeOK
    <3>2. /\ DOMAIN incidents' = DOMAIN incidents
          /\ \A j \in DOMAIN incidents : j # i => incidents'[j] = incidents[j]
          /\ incidents'[i].impact = impact /\ incidents'[i].autoImpact = incidents[i].autoImpact
      <4>1. incidents \in Seq(Incident) /\ incidents[i] \in Incident
        BY DEF TypeOK
      <4>2. /\ incidents' = [incidents EXCEPT ![i] = [incidents[i] EXCEPT !.impact = impact]]
        BY <3>1
      <4>3. /\ [incidents[i] EXCEPT !.impact = impact].impact = impact
            /\ [incidents[i] EXCEPT !.impact = impact].autoImpact = incidents[i].autoImpact
        BY <4>1 DEF Incident
      <4> QED
        BY <4>1, <4>2, <4>3
    <3>3. EditsHaveIncidents'
      BY <3>1, <3>2 DEF TypeOK, OverrideInv, EditsHaveIncidents
    <3>4. AutoIsEvaluated'
      BY <3>2 DEF OverrideInv, AutoIsEvaluated
    <3>5. /\ LastEdit(i)' = Len(edits) + 1 /\ edits'[Len(edits) + 1].impact = impact
          /\ \A j : j # i => /\ (Edited(j)' <=> Edited(j)) /\ LastEdit(j)' = LastEdit(j)
                             /\ Edited(j) => /\ LastEdit(j) \in DOMAIN edits
                                             /\ edits'[LastEdit(j)] = edits[LastEdit(j)]
      BY <3>1, NewestEdit
    <3>6. ForeignOverrideKept'
      <4> SUFFICES ASSUME NEW j \in DOMAIN incidents, Edited(j)',
                          edits'[LastEdit(j)'].impact \notin AutoImpacts \cup {""}
                   PROVE  incidents'[j].impact = edits'[LastEdit(j)'].impact
        BY <3>2 DEF ForeignOverrideKept
      <4>1. CASE j = i
        BY <3>2, <3>5, <4>1
      <4>2. CASE j # i
        <5>1. Edited(j) /\ LastEdit(j)' = LastEdit(j) /\ incidents'[j] = incidents[j]
              /\ edits'[LastEdit(j)] = edits[LastEdit(j)]
          BY <3>2, <3>5, <4>2
        <5>2. edits'[LastEdit(j)'] = edits[LastEdit(j)]
          BY <5>1
        <5>3. edits[LastEdit(j)].impact \notin AutoImpacts \cup {""}
          BY <5>2
        <5>4. incidents[j].impact = edits[LastEdit(j)].impact
          BY <5>1, <5>3, Zenon DEF OverrideInv, ForeignOverrideKept
        <5> QED
          BY <5>1, <5>2, <5>4
      <4> QED
        BY <4>1, <4>2
    <3> QED
      BY <3>3, <3>4, <3>6 DEF OverrideInv
  <2> QED
    BY <2>1, <2>3, <2>4, <2>5, IncidentSteps
<1>3. OverrideInv => ForeignOverrideKept
  BY DEF OverrideInv
<1> QED
  BY <1>1, <1>2, <1>3, TypeCorrect, PTL DEF Spec
=============================================================================
