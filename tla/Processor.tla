----------------------------- MODULE Processor ------------------------------
(***************************************************************************)
(* The processor worker (worker_processor.go): it takes submissions off    *)
(* the processor queue, evaluates the monitor's recent rows, stores the    *)
(* incident state when it changed, then brings the incident records, their *)
(* event timeline and the alert queue up to date, in that order and each   *)
(* in its own database transaction or send.                                *)
(*                                                                         *)
(* Around it: the server's submission handler that fills the queue, the    *)
(* ingester that inserts rows, the pubsub subscription (redelivery), the   *)
(* process that can die between any two steps and restarts through the     *)
(* migrations, and the operator who edits an incident.  DuckDB admits one  *)
(* process at a time, so the operator edits while the server is stopped.   *)
(*                                                                         *)
(* One worker goroutine writes the incident tables, so the two reads       *)
(* before the first write form one step.  A body that does not parse is    *)
(* left out: only the handler, which marshals it, fills the queue.         *)
(***************************************************************************)
EXTENDS IncidentEvaluation, Sequences

CONSTANTS
    Monitors,                   \* configured monitors
    HTTPMonitors,               \* those of type http
    UnknownMonitors,            \* ids no longer configured that checkers still submit
    Outcomes,                   \* probe outcomes [success, code, category]
    ProcessingLookbackMinutes,
    Nackable,                   \* does the queue driver support Nack
    DurableQueue,               \* does the queue outlive the process (mem:// does not)
    OperatorImpacts,            \* impacts an operator may write into an incident
    NoMonitor,                  \* no message in hand
    \* Bounds:
    MaxTime, MaxRows, MaxSubmissions, MaxFaults, MaxEdits

\* The impact vocabulary; "" is a cleared field.
Impacts == {"", "unknown", "operational", "maintenance", "degraded_performance",
            "partial_outage", "major_outage"}

ASSUME ProcessorAssumption ==
    /\ HTTPMonitors \subseteq Monitors
    /\ UnknownMonitors \cap Monitors = {}
    /\ NoMonitor \notin Monitors \cup UnknownMonitors
    /\ OperatorImpacts \subseteq Impacts
    /\ Outcomes \subseteq [success : BOOLEAN, code : StatusCodes, category : Categories]
    /\ ProcessingLookbackMinutes \in Nat
    /\ Nackable \in BOOLEAN /\ DurableQueue \in BOOLEAN
    /\ MaxTime \in Nat /\ MaxRows \in Nat /\ MaxSubmissions \in Nat
    /\ MaxFaults \in Nat /\ MaxEdits \in Nat

VARIABLES
    now,            \* the clock, in ticks
    rows,           \* monitor_historical, by monitor
    queue,          \* processor queue: deliveries owed, by monitor id
    incidentState,  \* monitor_incident_state (no row reads as healthy)
    incidents,      \* monitor_incidents, in the order they were started
    events,         \* monitor_incident_events, in order
    alerts,         \* what was sent to the alert topic, in order
    worker,         \* the message in hand and what the worker knows of it
    submitted,      \* submissions so far (bound)
    faults,         \* failures, crashes and redeliveries so far (bound)
    edits,          \* the operator's edits so far, in order
    unsynced,       \* history: monitors whose state was stored and not synced
    transitions     \* history: stored transitions, by monitor

vars == <<now, rows, queue, incidentState, incidents, events, alerts, worker,
          submitted, faults, edits, unsynced, transitions>>

environment == <<now, rows, submitted>>
tables == <<incidentState, incidents, events, unsynced, transitions>>

MonitorIDs == Monitors \cup UnknownMonitors
IsHTTP(m)  == m \in HTTPMonitors

\* A monitor_incidents row.  Title and body move with impact through the same
\* preserveManualString, so impact stands for the three of them.
Incident == [monitor : Monitors, lifecycle : {"investigating", "resolved"},
             autoImpact : Impacts, impact : Impacts,
             status : Statuses, scope : Scopes, resolved : BOOLEAN]

Event == [incident : Nat, monitor : Monitors,
          type : {"created", "updated", "resolved"},
          impact : Impacts, status : Statuses, scope : Scopes]

Alert == [monitor : Monitors, incident : Nat, status : Statuses, scope : Scopes,
          transition : Nat]

Worker == [step : {"idle", "received", "evaluated", "stored", "synced", "stopped"},
           monitor : MonitorIDs \cup {NoMonitor},
           evaluation : Evaluation, previous : Evaluation, incident : Nat]

Idle    == [step |-> "idle", monitor |-> NoMonitor, incident |-> 0,
            evaluation |-> HealthyIncidentEvaluation, previous |-> HealthyIncidentEvaluation]
Stopped == [Idle EXCEPT !.step = "stopped"]

-----------------------------------------------------------------------------
Init ==
    /\ now = 0
    /\ rows = [m \in Monitors |-> {}]
    /\ queue = [m \in MonitorIDs |-> 0]
    /\ incidentState = [m \in Monitors |-> HealthyIncidentEvaluation]
    /\ incidents = <<>> /\ events = <<>> /\ alerts = <<>>
    /\ worker = Idle
    /\ submitted = 0 /\ faults = 0 /\ edits = <<>>
    /\ unsynced = {}
    /\ transitions = [m \in Monitors |-> 0]

(***************************************************************************)
(* Around the worker.                                                      *)
(***************************************************************************)
Tick ==
    /\ now < MaxTime
    /\ now' = now + 1
    /\ UNCHANGED <<rows, submitted, queue, tables, alerts, worker, faults, edits>>

\* Server.CheckerSubmission: the send to the processor topic.  A request that is
\* refused changes nothing, nor does a send that fails: its error is only logged.
\* The send to the ingester topic ends in InsertRow.
CheckerSubmission(m) ==
    /\ worker # Stopped
    /\ submitted < MaxSubmissions /\ submitted' = submitted + 1
    /\ queue' = [queue EXCEPT ![m] = @ + 1]
    /\ UNCHANGED <<now, rows, tables, alerts, worker, faults, edits>>

\* The ingester's insert, ON CONFLICT (monitor, region, created_at) DO NOTHING.
InsertRow(m, region, at, outcome) ==
    /\ worker # Stopped
    /\ Cardinality(rows[m]) < MaxRows
    /\ \A row \in rows[m] : row.region # region \/ row.at # at
    /\ rows' = [rows EXCEPT ![m] = @ \cup {IngestedRow(IsHTTP(m), region, at, outcome)}]
    /\ UNCHANGED <<now, submitted, queue, tables, alerts, worker, faults, edits>>

\* The subscription's ack deadline passes while the worker holds the message.
Redeliver(m) ==
    /\ faults < MaxFaults /\ faults' = faults + 1
    /\ worker.monitor = m
    /\ queue' = [queue EXCEPT ![m] = @ + 1]
    /\ UNCHANGED <<environment, tables, alerts, worker, edits>>

\* The process dies.  An in-memory queue dies with it; a durable one still
\* owes the message in hand.
Crash ==
    /\ faults < MaxFaults /\ faults' = faults + 1
    /\ worker # Stopped
    /\ worker' = Stopped
    /\ queue' = [m \in MonitorIDs |->
                    IF ~DurableQueue THEN 0
                    ELSE IF worker.monitor = m THEN queue[m] + 1 ELSE queue[m]]
    /\ UNCHANGED <<environment, tables, alerts, edits>>

\* main: open the database, run every migration again, start the workers.
Restart ==
    /\ worker = Stopped
    /\ worker' = Idle
    /\ rows' = [m \in Monitors |-> {MigratedRow(IsHTTP(m), row) : row \in rows[m]}]
    /\ UNCHANGED <<now, submitted, queue, tables, alerts, faults, edits>>

OperatorEdit(i, impact) ==
    /\ worker = Stopped
    /\ Len(edits) < MaxEdits
    /\ ~incidents[i].resolved
    /\ incidents[i].impact # impact
    /\ incidents' = [incidents EXCEPT ![i].impact = impact]
    /\ edits' = Append(edits, [incident |-> i, impact |-> impact])
    /\ UNCHANGED <<environment, queue, incidentState, events, unsynced, transitions,
                   alerts, worker, faults>>

(***************************************************************************)
(* ProcessorWorker.Start, one iteration.                                   *)
(***************************************************************************)
Receive(m) ==
    /\ worker = Idle
    /\ queue[m] > 0
    /\ queue' = [queue EXCEPT ![m] = @ - 1]
    /\ worker' = [Idle EXCEPT !.step = "received", !.monitor = m]
    /\ UNCHANGED <<environment, tables, alerts, faults, edits>>

\* Mutant: a message for an unknown monitor is given back.
DropUnknown_Nack ==
    /\ worker.step = "received" /\ worker.monitor \notin Monitors
    /\ worker' = Idle
    /\ queue' = [queue EXCEPT ![worker.monitor] = @ + 1]
    /\ UNCHANGED <<environment, tables, alerts, faults, edits>>

\* findMonitor does not know the id: Ack.
DropUnknown ==
    /\ worker.step = "received" /\ worker.monitor \notin Monitors
    /\ worker' = Idle
    /\ UNCHANGED <<environment, queue, tables, alerts, faults, edits>>

\* Nack where the driver supports it, Ack otherwise.
GiveBack(m) ==
    /\ worker' = Idle
    /\ queue' = IF Nackable THEN [queue EXCEPT ![m] = @ + 1] ELSE queue

lookback(m) ==
    {row \in rows[m] :
        row.at >= now - ProcessingLookbackMinutes * TicksPerMinute /\ row.at <= now}

\* lookback, groupSubmissionByMinute, evaluateLatestIncident, loadIncidentState.
\* Nobody asks rows.Err() whether the read was cut short: what there is is judged.
Evaluate ==
    /\ worker.step = "received" /\ worker.monitor \in Monitors
    /\ \E read \in SUBSET lookback(worker.monitor) :
        /\ IF read = lookback(worker.monitor) THEN UNCHANGED faults
           ELSE faults < MaxFaults /\ faults' = faults + 1
        /\ worker' = [worker EXCEPT
                        !.step = "evaluated",
                        !.evaluation = evaluateLatestIncident(IsHTTP(worker.monitor), read),
                        !.previous = incidentState[worker.monitor]]
    /\ UNCHANGED <<environment, queue, tables, alerts, edits>>

\* One of the two reads fails.
ReadFails ==
    /\ faults < MaxFaults /\ faults' = faults + 1
    /\ worker.step = "received" /\ worker.monitor \in Monitors
    /\ GiveBack(worker.monitor)
    /\ UNCHANGED <<environment, tables, alerts, edits>>

\* Mutant: the comparison with the previous state is dropped before alerting.
Unchanged_Announces ==
    /\ worker.step = "evaluated"
    /\ worker.previous = worker.evaluation
    /\ worker' = [worker EXCEPT !.step = "synced"]
    /\ UNCHANGED <<environment, queue, tables, alerts, faults, edits>>

Unchanged ==
    /\ worker.step = "evaluated"
    /\ worker.previous = worker.evaluation
    /\ worker' = Idle
    /\ UNCHANGED <<environment, queue, tables, alerts, faults, edits>>

storeIncidentState ==
    /\ worker.step = "evaluated"
    /\ worker.previous # worker.evaluation
    /\ incidentState' = [incidentState EXCEPT ![worker.monitor] = worker.evaluation]
    /\ transitions' = [transitions EXCEPT ![worker.monitor] = @ + 1]
    /\ unsynced' = unsynced \cup {worker.monitor}
    /\ worker' = [worker EXCEPT !.step = "stored"]
    /\ UNCHANGED <<environment, queue, incidents, events, alerts, faults, edits>>

StoreFails ==
    /\ faults < MaxFaults /\ faults' = faults + 1
    /\ worker.step = "evaluated"
    /\ worker.previous # worker.evaluation
    /\ GiveBack(worker.monitor)
    /\ UNCHANGED <<environment, tables, alerts, edits>>

(***************************************************************************)
(* syncProgrammaticIncident: each write commits with its event.            *)
(***************************************************************************)
\* Mutant: the SELECT forgets "resolved_at IS NULL".
Unresolved_AnyIncident(m) == {i \in DOMAIN incidents : incidents[i].monitor = m}

Unresolved(m) ==
    {i \in DOMAIN incidents : incidents[i].monitor = m /\ ~incidents[i].resolved}

\* ORDER BY started_at DESC LIMIT 1
loadActiveProgrammaticIncident(m) == Max(Unresolved(m))

insertIncidentEvent(i, incident, type) ==
    events' = Append(events,
        [incident |-> i, monitor |-> incident.monitor, type |-> type,
         impact |-> incident.impact, status |-> incident.status, scope |-> incident.scope])

\* Mutant: the automatic value always wins.
preserveManualString_Overwrite(current, previousAuto, nextAuto) == nextAuto

preserveManualString(current, previousAuto, nextAuto) ==
    IF current = "" \/ current = previousAuto THEN nextAuto ELSE current

Synced(i) ==
    /\ worker' = [worker EXCEPT !.step = "synced", !.incident = i]
    /\ unsynced' = unsynced \ {worker.monitor}
    /\ UNCHANGED <<environment, queue, incidentState, transitions, alerts, faults, edits>>

\* Mutant: an incident is created without looking for an active one.
createProgrammaticIncident_Always ==
    LET e == worker.evaluation
        incident == [monitor |-> worker.monitor, lifecycle |-> "investigating",
                     autoImpact |-> Impact(e), impact |-> Impact(e),
                     status |-> e.status, scope |-> e.scope, resolved |-> FALSE]
    IN  /\ worker.step = "stored"
        /\ HasActiveIncident(e)
        /\ incidents' = Append(incidents, incident)
        /\ insertIncidentEvent(Len(incidents) + 1, incident, "created")
        /\ Synced(Len(incidents) + 1)

createProgrammaticIncident ==
    LET e == worker.evaluation
        incident == [monitor |-> worker.monitor, lifecycle |-> "investigating",
                     autoImpact |-> Impact(e), impact |-> Impact(e),
                     status |-> e.status, scope |-> e.scope, resolved |-> FALSE]
    IN  /\ worker.step = "stored"
        /\ HasActiveIncident(e) /\ Unresolved(worker.monitor) = {}
        /\ incidents' = Append(incidents, incident)
        /\ insertIncidentEvent(Len(incidents) + 1, incident, "created")
        /\ Synced(Len(incidents) + 1)

\* Mutant: the UPDATE leaves the scope column out.
updateProgrammaticIncident_KeepsScope ==
    LET e == worker.evaluation
        i == loadActiveProgrammaticIncident(worker.monitor)
        incident == [incidents[i] EXCEPT
                        !.autoImpact = Impact(e),
                        !.impact = preserveManualString(@, incidents[i].autoImpact, Impact(e)),
                        !.status = e.status]
    IN  /\ worker.step = "stored"
        /\ HasActiveIncident(e) /\ Unresolved(worker.monitor) # {}
        /\ incidents' = [incidents EXCEPT ![i] = incident]
        /\ insertIncidentEvent(i, incident, "updated")
        /\ Synced(i)

updateProgrammaticIncident ==
    LET e == worker.evaluation
        i == loadActiveProgrammaticIncident(worker.monitor)
        incident == [incidents[i] EXCEPT
                        !.autoImpact = Impact(e),
                        !.impact = preserveManualString(@, incidents[i].autoImpact, Impact(e)),
                        !.status = e.status, !.scope = e.scope]
    IN  /\ worker.step = "stored"
        /\ HasActiveIncident(e) /\ Unresolved(worker.monitor) # {}
        /\ incidents' = [incidents EXCEPT ![i] = incident]
        /\ insertIncidentEvent(i, incident, "updated")
        /\ Synced(i)

\* Mutant: the incident is resolved without its timeline event.
resolveProgrammaticIncident_NoEvent ==
    LET i == loadActiveProgrammaticIncident(worker.monitor)
    IN  /\ worker.step = "stored"
        /\ ~HasActiveIncident(worker.evaluation) /\ Unresolved(worker.monitor) # {}
        /\ incidents' = [incidents EXCEPT ![i].lifecycle = "resolved", ![i].status = "healthy",
                                          ![i].scope = "healthy", ![i].resolved = TRUE]
        /\ UNCHANGED events
        /\ Synced(i)

resolveProgrammaticIncident ==
    LET i == loadActiveProgrammaticIncident(worker.monitor)
        incident == [incidents[i] EXCEPT !.lifecycle = "resolved", !.status = "healthy",
                                         !.scope = "healthy", !.resolved = TRUE]
    IN  /\ worker.step = "stored"
        /\ ~HasActiveIncident(worker.evaluation) /\ Unresolved(worker.monitor) # {}
        /\ incidents' = [incidents EXCEPT ![i] = incident]
        /\ insertIncidentEvent(i, incident, "resolved")
        /\ Synced(i)

\* Healthy and no incident to resolve: the incident id of the alert is "".
NothingToResolve ==
    /\ worker.step = "stored"
    /\ ~HasActiveIncident(worker.evaluation) /\ Unresolved(worker.monitor) = {}
    /\ Synced(0)
    /\ UNCHANGED <<incidents, events>>

\* Mutant: the error is logged and the alert published all the same.
SyncFails_Publishes ==
    /\ faults < MaxFaults /\ faults' = faults + 1
    /\ worker.step = "stored"
    /\ worker' = [worker EXCEPT !.step = "synced"]
    /\ UNCHANGED <<environment, queue, tables, alerts, edits>>

\* The read or the transaction fails: Ack, neither redelivered nor retried.
SyncFails ==
    /\ faults < MaxFaults /\ faults' = faults + 1
    /\ worker.step = "stored"
    /\ worker' = Idle
    /\ UNCHANGED <<environment, queue, tables, alerts, edits>>

publishAlert ==
    /\ worker.step = "synced"
    /\ alerts' = Append(alerts,
            [monitor |-> worker.monitor, incident |-> worker.incident,
             status |-> worker.evaluation.status, scope |-> worker.evaluation.scope,
             transition |-> transitions[worker.monitor]])
    /\ worker' = Idle
    /\ UNCHANGED <<environment, queue, tables, faults, edits>>

\* The send fails: Ack, the alert is lost.
PublishFails ==
    /\ faults < MaxFaults /\ faults' = faults + 1
    /\ worker.step = "synced"
    /\ worker' = Idle
    /\ UNCHANGED <<environment, queue, tables, alerts, edits>>

Sync ==
    \/ createProgrammaticIncident
    \/ updateProgrammaticIncident
    \/ resolveProgrammaticIncident
    \/ NothingToResolve

\* What the worker does when nothing fails.
Work ==
    \/ \E m \in MonitorIDs : Receive(m)
    \/ DropUnknown
    \/ Evaluate
    \/ Unchanged
    \/ storeIncidentState
    \/ Sync
    \/ publishAlert

Fault ==
    \/ \E m \in MonitorIDs : Redeliver(m)
    \/ Crash
    \/ ReadFails
    \/ StoreFails
    \/ SyncFails
    \/ PublishFails

Environment ==
    \/ Tick
    \/ \E m \in MonitorIDs : CheckerSubmission(m)
    \/ \E m \in Monitors, region \in Regions, at \in 0 .. now, outcome \in Outcomes :
            InsertRow(m, region, at, outcome)
    \/ Restart
    \/ \E i \in DOMAIN incidents, impact \in OperatorImpacts : OperatorEdit(i, impact)

Next == Work \/ Fault \/ Environment

Spec == Init /\ [][Next]_vars

\* The worker goroutine is scheduled; nothing else is promised to happen.
FairSpec == Spec /\ WF_vars(Work)
-----------------------------------------------------------------------------
\* The tables, the queue and the message in hand hold what the schema and the
\* structs of incident.go allow; past the evaluation the monitor is a known one.
TypeOK ==
    /\ now \in Nat /\ submitted \in Nat /\ faults \in Nat
    /\ rows \in [Monitors -> SUBSET Row]
    /\ queue \in [MonitorIDs -> Nat]
    /\ incidentState \in [Monitors -> Evaluation]
    /\ incidents \in Seq(Incident)
    /\ events \in Seq(Event)
    /\ alerts \in Seq(Alert)
    /\ worker \in Worker
    /\ worker.step \in {"evaluated", "stored", "synced"} => worker.monitor \in Monitors
    /\ edits \in Seq([incident : Nat, impact : Impacts])
    /\ unsynced \subseteq Monitors
    /\ transitions \in [Monitors -> Nat]

\* syncProgrammaticIncident never opens a second incident beside an open one,
\* whatever failed, was redelivered or crashed before it: the SELECT ... LIMIT 1
\* of loadActiveProgrammaticIncident never has two rows to choose from.
AtMostOneUnresolved ==
    \A m \in Monitors : \A i, j \in Unresolved(m) : i = j

\* monitor_incident_state and monitor_incidents are written in two separate
\* transactions.  They disagree about a monitor only between the two, or when
\* the second one failed or the process died before it.
StateMatchesIncident ==
    \A m \in Monitors \ unsynced :
        /\ HasActiveIncident(incidentState[m]) <=> Unresolved(m) # {}
        /\ \A i \in Unresolved(m) :
                /\ incidents[i].status = incidentState[m].status
                /\ incidents[i].scope = incidentState[m].scope
                /\ incidents[i].autoImpact = Impact(incidentState[m])

\* A stored transition is announced at most once, and in order, although its
\* message may be delivered again after the state was stored.
AlertAtMostOnce ==
    \A i, j \in DOMAIN alerts :
        i < j /\ alerts[i].monitor = alerts[j].monitor
            => alerts[i].transition < alerts[j].transition

\* Every alert about a problem names an incident of its own monitor; a recovery
\* that names an incident was sent after that incident was resolved.
AlertNamesItsIncident ==
    \A k \in DOMAIN alerts :
        LET i == alerts[k].incident
        IN  IF i = 0 THEN alerts[k].status = "healthy"
            ELSE /\ i \in DOMAIN incidents
                 /\ incidents[i].monitor = alerts[k].monitor
                 /\ alerts[k].status = "healthy" => incidents[i].resolved

\* A resolved incident is never reopened, re-evaluated or resolved again:
\* later failures open a new one.
ResolvedIsFinal ==
    [][\A i \in DOMAIN incidents :
            incidents[i].resolved => incidents'[i] = incidents[i]]_vars

LastEdit(i) == Max({k \in DOMAIN edits : edits[k].incident = i})
Edited(i)   == \E k \in DOMAIN edits : edits[k].incident = i

\* The impacts that evaluations of an unhealthy monitor produce.
AutoImpacts == {"degraded_performance", "partial_outage", "major_outage"}

\* An operator's impact that no evaluation produces survives every later
\* update, restart and the resolution of the incident.
ForeignOverrideKept ==
    \A i \in DOMAIN incidents :
        Edited(i) /\ edits[LastEdit(i)].impact \notin AutoImpacts \cup {""}
            => incidents[i].impact = edits[LastEdit(i)].impact

\* An operator's impact, whatever it is, survives: the expectation the incident
\* test states as "expected manual impact override to persist".
OverrideKept ==
    \A i \in DOMAIN incidents :
        Edited(i) /\ edits[LastEdit(i)].impact # ""
            => incidents[i].impact = edits[LastEdit(i)].impact

\* Every submission is eventually dealt with, unknown monitors and failing
\* databases included, unless the process is stopped.
QueueDrains ==
    <>[](worker = Stopped \/ (worker = Idle /\ \A m \in MonitorIDs : queue[m] = 0))

\* The incident tables implement the abstract timeline.
Timeline == INSTANCE IncidentTimeline WITH
    phase <- [m \in Monitors |-> IF Unresolved(m) = {} THEN "clear" ELSE "open"],
    timeline <- [k \in DOMAIN events |->
                    [monitor |-> events[k].monitor, type |-> events[k].type]]

\* Every step of the worker opens, updates or resolves the one open incident of
\* a monitor together with the matching event, or leaves both tables alone.
ImplementsTimeline == Timeline!Spec
=============================================================================
