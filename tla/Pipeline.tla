------------------------------ MODULE Pipeline ------------------------------
(***************************************************************************)
(* The server process as a whole, for one submission after the other: the  *)
(* handler puts each one on two queues (server.go), the ingester worker    *)
(* stores it as a row, the processor worker judges the rows its monitor    *)
(* has at that moment, and main opens, shuts down and reopens all of it    *)
(* (main.go).  Processor, AlertDelivery and Dataset look into the workers; *)
(* here a worker is the steps at which another part can overtake it.       *)
(*                                                                         *)
(* A graceful shutdown closes the parts one by one while the workers still *)
(* run; what a worker calls on a part that is closed fails.  A queue may   *)
(* outlive the process or not, and may know Nack or not.  The lookback     *)
(* window holds every row: its edges are Processor's.                      *)
(***************************************************************************)
EXTENDS IncidentEvaluation, Sequences, SequencesExt

CONSTANTS
    Monitors,             \* configured monitors
    HTTPMonitors,         \* monitors with probes of type http, configured or not
    RegisteredCheckers,   \* sequence of [name, region, apiKey]
    Content,              \* by request: [apiKey, monitor, at, outcome]
    Settings,             \* requests to come and queue driver: [workload, durable, nackable]
    None,
    MaxFaults,            \* bound on sends, statements, deliveries and processes that fail
    MaxSignals            \* bound on exit signals

\* ServerConfig.Validate: no empty region or key, names and keys are unique.
\* Two checkers may share a region.
Validate(checkers) ==
    /\ \A i \in DOMAIN checkers : checkers[i].region # "" /\ checkers[i].apiKey # ""
    /\ \A i, j \in DOMAIN checkers : i # j =>
            checkers[i].name # checkers[j].name /\ checkers[i].apiKey # checkers[j].apiKey

ASSUME PipelineAssumption ==
    /\ None \notin DOMAIN Content
    /\ Validate(RegisteredCheckers)
    /\ \A i \in DOMAIN RegisteredCheckers : RegisteredCheckers[i].region \in Regions
    /\ HTTPMonitors \subseteq Monitors \cup {Content[q].monitor : q \in DOMAIN Content}
    /\ Settings \subseteq
            [workload : SUBSET DOMAIN Content, durable : BOOLEAN, nackable : BOOLEAN]
    /\ MaxFaults \in Nat /\ MaxSignals \in Nat

VARIABLES
    setting,     \* one of Settings
    process,     \* "up"; "exited" when main returned, "dead" when it did not
    done,        \* how far main's shutdown goroutine is in ShutdownSteps
    handler,     \* by request: the sends still to come and the answer
    sent,        \* history: by topic, what its producer took
    owed,        \* by topic: deliveries the subscription still owes
    ingester,    \* the worker's step and the message in hand
    processor,   \* likewise, with what it read
    rows,        \* monitor_historical, by monitor id
    state,       \* monitor_incident_state
    judged,      \* history: requests whose own message was judged with their row
    failures     \* how often each kind of fault happened

vars == <<setting, process, done, handler, sent, owed, ingester,
          processor, rows, state, judged, failures>>

Topics     == {"processor", "ingester"}
workload   == setting.workload
MonitorIDs == Monitors \cup {Content[q].monitor : q \in DOMAIN Content}
FaultKinds == {"crash", "send", "database", "redelivery", "signal"}

FreshWorker == [step |-> "receiving", message |-> None,
                evaluation |-> HealthyIncidentEvaluation, own |-> FALSE]

Fault(kind) ==
    /\ IF kind = "signal" THEN failures.signal < MaxSignals
       ELSE MapThenSumSet(LAMBDA k : failures[k], FaultKinds \ {"signal"}) < MaxFaults
    /\ failures' = [failures EXCEPT ![kind] = @ + 1]

Init ==
    /\ setting \in Settings
    /\ process = "up" /\ done = 0
    /\ handler = [q \in workload |-> [sends |-> {}, reply |-> "none"]]
    /\ sent = [t \in Topics |-> {}]
    /\ owed = [t \in Topics |-> [q \in workload |-> 0]]
    /\ ingester = FreshWorker /\ processor = FreshWorker
    /\ rows = [m \in MonitorIDs |-> {}]
    /\ state = [m \in Monitors |-> HealthyIncidentEvaluation]
    /\ judged = {}
    /\ failures = [kind \in FaultKinds |-> 0]

(***************************************************************************)
(* main's shutdown goroutine: what it closes, in order.  The caches, the   *)
(* alerter and its queue and the cleanup worker, whose Stop waits for a    *)
(* pass that it cancels, are left out: nothing here depends on them.       *)
(***************************************************************************)
\* Mutant: the context is cancelled after the server has shut down.
ShutdownSteps_LateCancel ==
    <<"server", "cancel", "processor loop", "ingester loop",
      "ingester producer", "processor producer",
      "processor subscriber", "ingester subscriber", "database">>

\* Mutant: the database is closed before the subscribers.
ShutdownSteps_DatabaseFirst ==
    <<"cancel", "server", "processor loop", "ingester loop",
      "ingester producer", "processor producer",
      "database", "processor subscriber", "ingester subscriber">>

ShutdownSteps ==
    <<"cancel", "server", "processor loop", "ingester loop",
      "ingester producer", "processor producer",
      "processor subscriber", "ingester subscriber", "database">>

Closed(part) == \E i \in 1 .. done : ShutdownSteps[i] = part

\* A signal is only taken once: the goroutine reads the channel once.
ExitSignal ==
    /\ process = "up" /\ done = 0
    /\ Fault("signal")
    /\ done' = 1
    /\ UNCHANGED <<setting, process, handler, sent, owed, ingester,
                   processor, rows, state, judged>>

InHand     == [ingester |-> ingester.message, processor |-> processor.message]
InProgress == {q \in workload : handler[q].reply = "pending"}

\* Mutant: the workers' Stop waits for their loop, like the cleanup worker's.
NextStep_AwaitsLoops ==
    /\ process = "up"
    /\ done \in 1 .. Len(ShutdownSteps) - 1
    /\ ShutdownSteps[done + 1] = "processor loop" => processor.step = "ended"
    /\ ShutdownSteps[done + 1] = "ingester loop" => ingester.step = "ended"
    /\ done' = done + 1
    /\ UNCHANGED <<setting, process, handler, sent, owed, ingester, processor, rows, state,
                   judged, failures>>

\* No step has to wait: srv.Shutdown waits for the handlers but no longer than
\* 10 seconds, the workers' Stop closes a channel, the others close at once.
NextStep ==
    /\ process = "up"
    /\ done \in 1 .. Len(ShutdownSteps) - 1
    /\ done' = done + 1
    /\ UNCHANGED <<setting, process, handler, sent, owed, ingester, processor, rows, state,
                   judged, failures>>

\* The process ends: what it had in memory is gone.  A durable queue still owes
\* the messages in hand, one in memory owes nothing any more.
Ends(how) ==
    /\ process' = how
    /\ owed' = [t \in Topics |-> [q \in workload |->
                    IF ~setting.durable THEN 0
                    ELSE IF InHand[t] = q THEN owed[t][q] + 1 ELSE owed[t][q]]]
    /\ handler' = [q \in workload |->
                    IF q \in InProgress THEN [sends |-> {}, reply |-> "broken"]
                    ELSE handler[q]]
    /\ ingester' = FreshWorker /\ processor' = FreshWorker
    /\ UNCHANGED <<setting, done, sent, rows, state, judged>>

\* ListenAndServe has returned; when the context is done, main waits for the
\* shutdown goroutine.
MainReturns ==
    /\ process = "up"
    /\ Closed("server")
    /\ Closed("cancel") => done = Len(ShutdownSteps)
    /\ Ends("exited")
    /\ UNCHANGED failures

Crash ==
    /\ process = "up"
    /\ Fault("crash")
    /\ Ends("dead")

\* main: validate the configuration, migrate, open the queues, start the workers.
Restart ==
    /\ process # "up"
    /\ process' = "up" /\ done' = 0
    /\ rows' = [m \in MonitorIDs |->
                    {MigratedRow(m \in HTTPMonitors, row) : row \in rows[m]}]
    /\ UNCHANGED <<setting, handler, sent, owed, ingester, processor,
                   state, judged, failures>>

(***************************************************************************)
(* Server.CheckerSubmission.                                               *)
(***************************************************************************)
ByKey(apiKey) ==
    SelectInSeq(RegisteredCheckers, LAMBDA checker : checker.apiKey = apiKey)

Region(q) == RegisteredCheckers[ByKey(Content[q].apiKey)].region

CheckerSubmission(q) ==
    /\ process = "up" /\ ~Closed("server")
    /\ handler[q].reply = "none"
    /\ handler' = [handler EXCEPT ![q] =
                        IF ByKey(Content[q].apiKey) = 0 THEN [sends |-> {}, reply |-> "401"]
                        ELSE [sends |-> Topics, reply |-> "pending"]]
    /\ UNCHANGED <<setting, process, done, sent, owed, ingester,
                   processor, rows, state, judged, failures>>

\* A send is over: when it was the last one the handler answers 200.
SendOver(q, t) ==
    /\ process = "up" /\ t \in handler[q].sends
    /\ handler' = [handler EXCEPT ![q] =
                        [sends |-> @.sends \ {t},
                         reply |-> IF @.sends = {t} THEN "200" ELSE "pending"]]
    /\ UNCHANGED <<setting, process, done, ingester, processor, rows,
                   state, judged>>

Producer   == [ingester |-> "ingester producer", processor |-> "processor producer"]
Subscriber == [ingester |-> "ingester subscriber", processor |-> "processor subscriber"]
Loop       == [ingester |-> "ingester loop", processor |-> "processor loop"]

Send(q, t) ==
    /\ SendOver(q, t)
    /\ ~Closed(Producer[t])
    /\ owed' = [owed EXCEPT ![t][q] = @ + 1]
    /\ sent' = [sent EXCEPT ![t] = @ \cup {q}]
    /\ UNCHANGED failures

\* The error is logged; the checker hears 200 all the same.
SendFails(q, t) ==
    /\ SendOver(q, t)
    /\ IF Closed(Producer[t]) THEN UNCHANGED failures ELSE Fault("send")
    /\ UNCHANGED <<owed, sent>>

(***************************************************************************)
(* The two workers.  A worker looks at its shutdown channel between two    *)
(* messages, so one that waits in Receive when Stop is called still takes  *)
(* a message that comes before its subscription is shut down.              *)
(***************************************************************************)
worker == [ingester |-> ingester, processor |-> processor]

Becomes(t, w) ==
    /\ ingester' = IF t = "ingester" THEN w ELSE ingester
    /\ processor' = IF t = "processor" THEN w ELSE processor

NextIteration(t) == IF Closed(Loop[t]) THEN [FreshWorker EXCEPT !.step = "ended"] ELSE FreshWorker

Receive(t, q) ==
    /\ process = "up" /\ ~Closed(Subscriber[t])
    /\ worker[t].step = "receiving" /\ owed[t][q] > 0
    /\ owed' = [owed EXCEPT ![t][q] = @ - 1]
    /\ Becomes(t, [FreshWorker EXCEPT !.step = "received", !.message = q])
    /\ UNCHANGED <<setting, process, done, handler, sent, rows, state,
                   judged, failures>>

\* Receive returns an error once the subscription is shut down; the loop goes
\* round, and ends if it was told to.
ReceiveFails(t) ==
    /\ process = "up" /\ Closed(Subscriber[t])
    /\ worker[t].step = "receiving"
    /\ Becomes(t, NextIteration(t))
    /\ UNCHANGED <<setting, process, done, handler, sent, owed, rows,
                   state, judged, failures>>

\* The ack deadline passes while the worker has the message.
Redeliver(t, q) ==
    /\ process = "up" /\ Fault("redelivery")
    /\ worker[t].message = q
    /\ owed' = [owed EXCEPT ![t][q] = @ + 1]
    /\ UNCHANGED <<setting, process, done, handler, sent, ingester,
                   processor, rows, state, judged>>

\* Message.Ack: it does not reach the queue when the subscription is shut down.
Ack(t) ==
    /\ owed' = IF Closed(Subscriber[t]) THEN [owed EXCEPT ![t][InHand[t]] = @ + 1] ELSE owed
    /\ Becomes(t, NextIteration(t))
    /\ UNCHANGED <<setting, process, done, handler, sent>>

\* Nack where the driver knows it, Ack otherwise.
GiveBack(t) ==
    /\ owed' = IF setting.nackable \/ Closed(Subscriber[t])
               THEN [owed EXCEPT ![t][InHand[t]] = @ + 1] ELSE owed
    /\ Becomes(t, NextIteration(t))
    /\ UNCHANGED <<setting, process, done, handler, sent>>

\* A statement fails: the database is closed, or something is wrong with it.
StatementFails == IF Closed("database") THEN UNCHANGED failures ELSE Fault("database")

\* A monitor that is not configured has no expected status codes: an answer that
\* is no error counts.
determineHistoricalSuccess(m, outcome) ==
    IF m \in Monitors THEN IsSuccessfulStatus(m \in HTTPMonitors, outcome)
    ELSE outcome.success \/ (m \in HTTPMonitors /\ outcome.code \in 200 .. 399)

RowOf(q) ==
    LET c == Content[q]
    IN  [region |-> Region(q), at |-> c.at, code |-> c.outcome.code,
         category |-> c.outcome.category,
         success |-> determineHistoricalSuccess(c.monitor, c.outcome)]

Stored(q) ==
    \E row \in rows[Content[q].monitor] : row.region = Region(q) /\ row.at = Content[q].at

\* INSERT ... ON CONFLICT DO NOTHING, for monitors that are not configured too.
ingestMonitorHistorical ==
    LET q == ingester.message
    IN  /\ process = "up" /\ ingester.step = "received" /\ ~Closed("database")
        /\ rows' = IF Stored(q) THEN rows
                   ELSE [rows EXCEPT ![Content[q].monitor] = @ \cup {RowOf(q)}]
        /\ ingester' = [ingester EXCEPT !.step = "inserted"]
        /\ UNCHANGED <<setting, process, done, handler, sent, owed,
                       processor, state, judged, failures>>

\* Mutant: the error path leaves the loop.
IngestFails_LeavesLoop ==
    /\ process = "up" /\ ingester.step = "received"
    /\ StatementFails
    /\ owed' = [owed EXCEPT !["ingester"][ingester.message] = @ + 1]
    /\ ingester' = [FreshWorker EXCEPT !.step = "ended"]
    /\ UNCHANGED <<setting, process, done, handler, sent, processor,
                   rows, state, judged>>

IngestFails ==
    /\ process = "up" /\ ingester.step = "received"
    /\ StatementFails
    /\ GiveBack("ingester")
    /\ UNCHANGED <<rows, state, judged>>

IngesterAck ==
    /\ process = "up" /\ ingester.step = "inserted"
    /\ Ack("ingester")
    /\ UNCHANGED <<rows, state, judged, failures>>

\* findMonitor does not know the id: Ack.
DropUnknown ==
    /\ process = "up" /\ processor.step = "received"
    /\ Content[processor.message].monitor \notin Monitors
    /\ Ack("processor")
    /\ UNCHANGED <<rows, state, judged, failures>>

\* lookback and evaluateLatestIncident, of a read that was not cut short.
Evaluate ==
    LET m == Content[processor.message].monitor
    IN  /\ process = "up" /\ processor.step = "received" /\ m \in Monitors
        /\ ~Closed("database")
        /\ processor' = [processor EXCEPT
                !.step = "evaluated", !.own = Stored(processor.message),
                !.evaluation = evaluateLatestIncident(m \in HTTPMonitors, rows[m])]
        /\ UNCHANGED <<setting, process, done, handler, sent, owed,
                       ingester, rows, state, judged, failures>>

\* A read or storeIncidentState fails before anything was written.
EvaluateFails ==
    /\ process = "up" /\ processor.step \in {"received", "evaluated"}
    /\ Content[processor.message].monitor \in Monitors
    /\ StatementFails
    /\ GiveBack("processor")
    /\ UNCHANGED <<rows, state, judged>>

\* Mutant: only the status is compared.
Equal_StatusOnly(e, other) == e.status = other.status

Equal(e, other) == e = other

\* History: the message's own row was among those that were judged.
Judge ==
    judged' = IF processor.own THEN judged \cup {processor.message} ELSE judged

\* The stored state is the evaluation already: Ack.
Unchanged ==
    /\ process = "up" /\ processor.step = "evaluated" /\ ~Closed("database")
    /\ Equal(state[Content[processor.message].monitor], processor.evaluation)
    /\ Judge
    /\ Ack("processor")
    /\ UNCHANGED <<rows, state, failures>>

storeIncidentState ==
    /\ process = "up" /\ processor.step = "evaluated" /\ ~Closed("database")
    /\ ~Equal(state[Content[processor.message].monitor], processor.evaluation)
    /\ state' = [state EXCEPT ![Content[processor.message].monitor] = processor.evaluation]
    /\ Judge
    /\ processor' = [processor EXCEPT !.step = "stored"]
    /\ UNCHANGED <<setting, process, done, handler, sent, owed,
                   ingester, rows, failures>>

\* syncProgrammaticIncident and publishAlert; whether they succeed or not: Ack.
ProcessorAck ==
    /\ process = "up" /\ processor.step = "stored"
    /\ Ack("processor")
    /\ UNCHANGED <<rows, state, judged, failures>>
-----------------------------------------------------------------------------
Sending == \E q \in workload, t \in Topics : Send(q, t) \/ SendFails(q, t)

Ingest ==
    \/ \E q \in workload : Receive("ingester", q)
    \/ ReceiveFails("ingester")
    \/ ingestMonitorHistorical
    \/ IngestFails
    \/ IngesterAck

Process ==
    \/ \E q \in workload : Receive("processor", q)
    \/ ReceiveFails("processor")
    \/ DropUnknown
    \/ Evaluate
    \/ EvaluateFails
    \/ Unchanged
    \/ storeIncidentState
    \/ ProcessorAck

Shutdown == NextStep \/ MainReturns

Environment ==
    \/ ExitSignal
    \/ Crash
    \/ Restart
    \/ \E q \in workload : CheckerSubmission(q)
    \/ \E q \in workload, t \in Topics : Redeliver(t, q)

Work == Sending \/ Ingest \/ Process \/ Shutdown

Next == Work \/ Environment

Spec == Init /\ [][Next]_vars

\* Some goroutine that can run does.  Nobody has to start the process again, to
\* submit or to send a signal.
FairSpec == Spec /\ WF_vars(Work)
-----------------------------------------------------------------------------
Missing == {q \in sent["ingester"] : ~Stored(q)}

\* A submission that the ingester's queue took becomes a row or is still owed,
\* across crashes, redeliveries and restarts.  With a driver that has no Nack it
\* can be lost to a failing statement, but never to a graceful shutdown: when
\* the database closes, nothing a worker acknowledges reaches the queue.
AcceptedIsKept ==
    setting.durable /\ (setting.nackable \/ failures.database = 0) =>
        \A q \in Missing : owed["ingester"][q] > 0 \/ ingester.message = q

\* The rows of a monitor that a submission the ingester's queue took accounts for.
Arrived(m) == {q \in sent["ingester"] \ Missing : Content[q].monitor = m}

\* The same verdict; the breakdown is left out, since a restart rewrites what
\* it is made of.
SameVerdict(e, other) == [e EXCEPT !.breakdown = {}] = [other EXCEPT !.breakdown = {}]

\* Each submission is judged by a message of its own that races its row, and
\* regions report one after the other: a verdict can be premature.  But it is
\* put right: the stored state is the evaluation of all rows as soon as the
\* message of each of them was judged when its row was there, whatever is still
\* under way.  (A row whose own message came too early, was dropped or was never
\* sent waits for the next submission.)
VerdictCatchesUp ==
    \A m \in Monitors : Arrived(m) \subseteq judged =>
        SameVerdict(state[m], evaluateLatestIncident(m \in HTTPMonitors, rows[m]))

\* main does not return before its shutdown goroutine has closed everything:
\* a process that exits has closed its database.
ExitIsComplete == process = "exited" => Closed("database")

\* A graceful shutdown ends, whatever the handlers and workers are doing.
GracefulShutdownEnds == done > 0 ~> process # "up"

\* Everything that a durable driver with Nack took for the ingester ends up
\* stored, or the process is not there to do it.
AcceptedIsStored ==
    <>[](setting.durable /\ setting.nackable /\ process = "up" /\ done = 0 => Missing = {})
=============================================================================
