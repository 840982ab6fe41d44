--------------------------- MODULE PipelineProofs ---------------------------
(***************************************************************************)
(* Proofs about Pipeline for every workload, queue driver and number of    *)
(* faults and exit signals.                                                *)
(***************************************************************************)
EXTENDS Pipeline, IncidentEvaluationProofs

\* A fault is counted.
LEMMA FaultCounts ==
    ASSUME NEW kind, Fault(kind)
    PROVE  failures' = [failures EXCEPT ![kind] = @ + 1]
BY Zenon DEF Fault

\* The shutdown goroutine closes the ingester's subscriber before the database,
\* and the database last.
LEMMA ShutdownOrder ==
    ASSUME done \in 0 .. Len(ShutdownSteps)
    PROVE  /\ Closed("database") <=> done = Len(ShutdownSteps)
           /\ Closed("database") => Closed("ingester subscriber")
           /\ Closed("server") => Closed("cancel")
<1>1. /\ Len(ShutdownSteps) = 9
      /\ ShutdownSteps[1] = "cancel" /\ ShutdownSteps[2] = "server"
      /\ ShutdownSteps[3] = "processor loop" /\ ShutdownSteps[4] = "ingester loop"
      /\ ShutdownSteps[5] = "ingester producer" /\ ShutdownSteps[6] = "processor producer"
      /\ ShutdownSteps[7] = "processor subscriber" /\ ShutdownSteps[8] = "ingester subscriber"
      /\ ShutdownSteps[9] = "database"
  BY DEF ShutdownSteps
<1>2. \A i \in 1 .. 9 : i = 1 \/ i = 2 \/ i = 3 \/ i = 4 \/ i = 5 \/ i = 6 \/ i = 7 \/ i = 8 \/ i = 9
  OBVIOUS
<1>3. done \in 0 .. 9
  BY <1>1
<1>4. \A i \in 1 .. done : i \in 1 .. 9
  BY <1>3
<1>5. \A i \in 1 .. 9 :
        /\ ShutdownSteps[i] = "database" => i = 9
        /\ ShutdownSteps[i] = "ingester subscriber" => i = 8
        /\ ShutdownSteps[i] = "server" => i = 2
        /\ ShutdownSteps[i] = "cancel" => i = 1
  BY <1>1, <1>2
<1>6. /\ Closed("database") <=> 9 \in 1 .. done
      /\ Closed("ingester subscriber") <=> 8 \in 1 .. done
      /\ Closed("server") <=> 2 \in 1 .. done
      /\ Closed("cancel") <=> 1 \in 1 .. done
  BY <1>1, <1>4, <1>5, Zenon DEF Closed
<1>7. 9 \in 1 .. done <=> done = 9
  BY <1>3
<1>8. (9 \in 1 .. done => 8 \in 1 .. done)
      /\ (2 \in 1 .. done => 1 \in 1 .. done)
  BY <1>3
<1> QED
  BY <1>1, <1>6, <1>7, <1>8

(***************************************************************************)
(* Graceful shutdown.                                                      *)
(***************************************************************************)
ShutdownInv ==
    /\ done \in 0 .. Len(ShutdownSteps)
    /\ ExitIsComplete

\* Only four steps have to do with the shutdown.
LEMMA DoneSteps ==
    ASSUME [Next]_vars
    PROVE  \/ UNCHANGED <<process, done>>
           \/ ExitSignal \/ NextStep \/ MainReturns \/ Crash \/ Restart
BY DEF Next, Work, Sending, Send, SendFails, SendOver, Ingest, Receive, ReceiveFails,
       ingestMonitorHistorical, IngestFails, GiveBack, IngesterAck, Ack, Process, DropUnknown,
       Evaluate, EvaluateFails, Unchanged, storeIncidentState, ProcessorAck, Shutdown,
       Environment, CheckerSubmission, Redeliver, vars

\* At the start nothing is closed and nobody has exited.
LEMMA ShutdownInit == Init => ShutdownInv
BY DEF Init, ShutdownInv, ExitIsComplete, ShutdownSteps

\* main only returns when the shutdown goroutine is through.
LEMMA ShutdownStep == ShutdownInv /\ [Next]_vars => ShutdownInv'
<1> SUFFICES ASSUME ShutdownInv, [Next]_vars PROVE ShutdownInv'
  OBVIOUS
<1>1. CASE UNCHANGED <<process, done>>
  BY <1>1 DEF ShutdownInv, ExitIsComplete, Closed
<1>2. CASE ExitSignal
  BY <1>2 DEF ExitSignal, ShutdownInv, ExitIsComplete, ShutdownSteps
<1>3. CASE NextStep
  BY <1>3 DEF NextStep, ShutdownInv, ExitIsComplete, ShutdownSteps
<1>4. CASE MainReturns
  <2>1. Closed("database") /\ done' = done /\ process' = "exited"
    BY <1>4, ShutdownOrder DEF MainReturns, Ends, ShutdownInv
  <2> QED
    BY <2>1 DEF ShutdownInv, ExitIsComplete, Closed
<1>5. CASE Crash \/ Restart
  BY <1>5 DEF Crash, Ends, Restart, ShutdownInv, ExitIsComplete, ShutdownSteps
<1> QED
  BY <1>1, <1>2, <1>3, <1>4, <1>5, DoneSteps

\* When main returns, by whichever of its paths, the shutdown goroutine has
\* closed everything up to the database: main waits for it once the context is
\* done, and the server is never shut down before that.
THEOREM ExitsAreComplete == Spec => []ExitIsComplete
<1>1. ShutdownInv => ExitIsComplete
  BY DEF ShutdownInv
<1> QED
  BY <1>1, ShutdownInit, ShutdownStep, PTL DEF Spec

(***************************************************************************)
(* Type correctness, as far as the proofs need it.  Evaluations and rows   *)
(* have fields; the rows of a monitor are a table: finite, and keyed by    *)
(* region and time.                                                        *)
(***************************************************************************)
WorkerType(w, busy) ==
    /\ DOMAIN w = {"step", "message", "evaluation", "own"}
    /\ \/ w.step \in {"receiving", "ended"} /\ w.message = None
       \/ w.step \in busy /\ w.message \in workload

QueueType ==
    /\ owed \in [Topics -> [workload -> Nat]]
    /\ sent \in [Topics -> SUBSET workload]

TablesType ==
    /\ DOMAIN rows = MonitorIDs /\ rows = [m \in MonitorIDs |-> rows[m]]
    /\ \A m \in MonitorIDs : Table(rows[m])
    /\ state = [m \in Monitors |-> state[m]]

PipelineType ==
    /\ setting \in Settings
    /\ done \in 0 .. Len(ShutdownSteps)
    /\ failures \in [FaultKinds -> Nat]
    /\ QueueType /\ TablesType
    /\ WorkerType(ingester, {"received", "inserted"})
    /\ WorkerType(processor, {"received", "evaluated", "stored"})
    /\ process # "up" => ingester = FreshWorker /\ processor = FreshWorker

\* The requests to come and the driver never change.
LEMMA SettingFixed == [Next]_vars => setting' = setting
BY DEF Next, Work, Sending, Send, SendFails, SendOver, Ingest, Receive, ReceiveFails,
       ingestMonitorHistorical, IngestFails, GiveBack, IngesterAck, Ack, Process, DropUnknown,
       Evaluate, EvaluateFails, Unchanged, storeIncidentState, ProcessorAck, Shutdown,
       NextStep, MainReturns, Ends, Environment, ExitSignal, Crash, Restart,
       CheckerSubmission, Redeliver, vars

\* A worker that waits, and one that ended, is well formed.
LEMMA FreshWorkerType ==
    ASSUME NEW busy
    PROVE  /\ WorkerType(FreshWorker, busy) /\ FreshWorker.step = "receiving" /\ FreshWorker.message = None
           /\ \A t : /\ WorkerType(NextIteration(t), busy)
                     /\ NextIteration(t).step \in {"receiving", "ended"}
                     /\ NextIteration(t).message = None
<1>1. WorkerType(FreshWorker, busy) /\ FreshWorker.step = "receiving" /\ FreshWorker.message = None
  BY DEF WorkerType, FreshWorker
<1>2. /\ WorkerType([FreshWorker EXCEPT !.step = "ended"], busy)
      /\ [FreshWorker EXCEPT !.step = "ended"].step = "ended"
      /\ [FreshWorker EXCEPT !.step = "ended"].message = None
  <2>1. /\ DOMAIN FreshWorker = {"step", "message", "evaluation", "own"}
        /\ FreshWorker.message = None
    BY DEF FreshWorker
  <2> QED
    BY <2>1 DEF WorkerType
<1>3. \A t : NextIteration(t) = FreshWorker \/ NextIteration(t) = [FreshWorker EXCEPT !.step = "ended"]
  BY DEF NextIteration
<1> QED
  BY <1>1, <1>2, <1>3, Zenon

\* Requests that exist have a monitor with a table.
LEMMA WorkloadType ==
    ASSUME setting \in Settings, NEW q \in workload
    PROVE  q \in DOMAIN Content /\ q # None /\ Content[q].monitor \in MonitorIDs
BY PipelineAssumption DEF workload, MonitorIDs

\* An insert on a free key keeps a table a table.
LEMMA InsertKeepsTable ==
    ASSUME NEW q, Content[q].monitor \in MonitorIDs, TablesType, ~Stored(q)
    PROVE  Table(rows[Content[q].monitor] \cup {RowOf(q)})
<1> DEFINE table == rows[Content[q].monitor]
<1>1. RowOf(q) = [region |-> RowOf(q).region, at |-> RowOf(q).at, success |-> RowOf(q).success,
                  code |-> RowOf(q).code, category |-> RowOf(q).category]
      /\ RowOf(q).region = Region(q) /\ RowOf(q).at = Content[q].at
  BY DEF RowOf
<1>2. \A row \in table : ~(row.region = Region(q) /\ row.at = Content[q].at)
  BY DEF Stored
<1>3. Table(table)
  BY DEF TablesType
<1>4. IsFiniteSet(table \cup {RowOf(q)})
  BY <1>3, FS_AddElement DEF Table
<1> HIDE DEF table
<1> QED
  BY <1>1, <1>2, <1>3, <1>4, Zenon DEF Table, table

(***************************************************************************)
(* What a step does to the rows: nothing, one insert on a free key for the *)
(* message in the ingester's hands, or the migration.  A key that is taken *)
(* stays taken.                                                            *)
(***************************************************************************)
Inserts(q) ==
    /\ process = "up" /\ ingester.step = "received" /\ ingester.message = q /\ ~Stored(q)
    /\ rows' = [rows EXCEPT ![Content[q].monitor] = @ \cup {RowOf(q)}]
    /\ ingester' = [ingester EXCEPT !.step = "inserted"]
    /\ UNCHANGED <<setting, process, done, handler, sent, owed, processor, state, judged, failures>>

\* The three ways of the rows.
LEMMA RowSteps ==
    ASSUME PipelineType, [Next]_vars
    PROVE  \/ rows' = rows
           \/ \E q \in workload : Inserts(q)
           \/ Restart
<1>1. ASSUME ingestMonitorHistorical PROVE rows' = rows \/ \E q \in workload : Inserts(q)
  BY <1>1 DEF ingestMonitorHistorical, Inserts, PipelineType, WorkerType
<1> QED
  BY <1>1 DEF Next, Work, Sending, Send, SendFails, SendOver, Ingest, Receive, ReceiveFails,
       IngestFails, GiveBack, IngesterAck, Ack, Process, DropUnknown,
       Evaluate, EvaluateFails, Unchanged, storeIncidentState, ProcessorAck, Shutdown,
       NextStep, MainReturns, Ends, Environment, ExitSignal, Crash,
       CheckerSubmission, Redeliver, vars

\* A row that is stored stays stored.
LEMMA StoredStable ==
    ASSUME PipelineType, [Next]_vars, NEW q \in workload, Stored(q)
    PROVE  Stored(q)'
<1>1. Content[q].monitor \in MonitorIDs
  BY WorkloadType DEF PipelineType
<1>2. CASE rows' = rows
  BY <1>2 DEF Stored
<1>3. ASSUME NEW p \in workload, Inserts(p) PROVE Stored(q)'
  <2>1. rows[Content[q].monitor] \subseteq rows'[Content[q].monitor]
    BY <1>1, <1>3 DEF Inserts, PipelineType, TablesType
  <2> QED
    BY <2>1 DEF Stored
<1>4. CASE Restart
  <2> DEFINE m == Content[q].monitor
  <2>1. rows'[m] = Migrated(m \in HTTPMonitors, rows[m])
    BY <1>1, <1>4 DEF Restart, Migrated
  <2>2. PICK row \in rows[m] : row.region = Region(q) /\ row.at = Content[q].at
    BY DEF Stored
  <2>3. Table(rows[m])
    BY <1>1 DEF PipelineType, TablesType
  <2>4. MigratedRow(m \in HTTPMonitors, row) \in rows'[m]
    BY <2>1, <2>2 DEF Migrated
  <2>5. /\ MigratedRow(m \in HTTPMonitors, row).region = row.region
        /\ MigratedRow(m \in HTTPMonitors, row).at = row.at
    <3> HIDE DEF m
    <3>1. (m \in HTTPMonitors) \in BOOLEAN
      OBVIOUS
    <3>2. \A http \in BOOLEAN : /\ MigratedRow(http, row).region = row.region
                               /\ MigratedRow(http, row).at = row.at
      BY <2>2, <2>3, MigratedRowFields
    <3> QED
      BY <3>1, <3>2, Zenon
  <2> QED
    BY <2>2, <2>4, <2>5 DEF Stored
<1> QED
  BY <1>2, <1>3, <1>4, RowSteps

\* A step counts at most one fault.
LEMMA FailuresStep ==
    ASSUME PipelineType, [Next]_vars
    PROVE  failures' \in [FaultKinds -> Nat]
<1>1. UNCHANGED failures \/ \E kind \in FaultKinds : Fault(kind)
  BY DEF Next, Work, Sending, Send, SendFails, SendOver, Ingest, Receive, ReceiveFails,
       ingestMonitorHistorical, IngestFails, StatementFails, IngesterAck, Process, DropUnknown,
       Evaluate, EvaluateFails, Unchanged, storeIncidentState, ProcessorAck, Shutdown,
       NextStep, MainReturns, Environment, ExitSignal, Crash, Restart,
       CheckerSubmission, Redeliver, vars, FaultKinds
<1>2. ASSUME NEW kind \in FaultKinds, failures' = [failures EXCEPT ![kind] = @ + 1]
      PROVE  failures' \in [FaultKinds -> Nat]
  BY <1>2 DEF PipelineType
<1> QED
  BY <1>1, <1>2, FaultCounts DEF PipelineType

\* The shutdown goroutine's position is one of its steps.
LEMMA DoneStep ==
    ASSUME PipelineType, [Next]_vars
    PROVE  done' \in 0 .. Len(ShutdownSteps)
<1>1. Len(ShutdownSteps) = 9
  BY DEF ShutdownSteps
<1>2. done' = done \/ done' = 0 \/ done' = 1
      \/ (done \in 1 .. Len(ShutdownSteps) - 1 /\ done' = done + 1)
  BY DoneSteps DEF ExitSignal, NextStep, MainReturns, Crash, Ends, Restart
<1> QED
  BY <1>1, <1>2 DEF PipelineType

\* The tables stay tables through inserts and migrations.
LEMMA TablesStep ==
    ASSUME PipelineType, [Next]_vars
    PROVE  TablesType'
<1>1. state' = [m \in Monitors |-> state'[m]]
  <2>1. \/ state' = state
        \/ \E m, e : state' = [state EXCEPT ![m] = e]
    BY DEF Next, Work, Sending, Send, SendFails, SendOver, Ingest, Receive, ReceiveFails,
       ingestMonitorHistorical, IngestFails, GiveBack, IngesterAck, Ack, Process, DropUnknown,
       Evaluate, EvaluateFails, Unchanged, storeIncidentState, ProcessorAck, Shutdown,
       NextStep, MainReturns, Ends, Environment, ExitSignal, Crash, Restart,
       CheckerSubmission, Redeliver, vars
  <2> QED
    BY <2>1 DEF PipelineType, TablesType
<1>2. DOMAIN rows' = MonitorIDs /\ rows' = [m \in MonitorIDs |-> rows'[m]]
      /\ \A m \in MonitorIDs : Table(rows'[m])
  <2>1. CASE rows' = rows
    BY <2>1 DEF PipelineType, TablesType
  <2>2. ASSUME NEW q \in workload, Inserts(q) PROVE <1>2
    <3>1. Content[q].monitor \in MonitorIDs
      BY WorkloadType DEF PipelineType
    <3>2. Table(rows[Content[q].monitor] \cup {RowOf(q)})
      BY <2>2, <3>1, InsertKeepsTable DEF Inserts, PipelineType
    <3> QED
      BY <2>2, <3>1, <3>2 DEF Inserts, PipelineType, TablesType
  <2>3. CASE Restart
    <3>1. rows' = [m \in MonitorIDs |-> Migrated(m \in HTTPMonitors, rows[m])]
      BY <2>3 DEF Restart, Migrated
    <3>2. ASSUME NEW m \in MonitorIDs PROVE Table(Migrated(m \in HTTPMonitors, rows[m]))
      <4>1. \A http \in BOOLEAN : Table(Migrated(http, rows[m]))
        BY MigratedTable DEF PipelineType, TablesType
      <4>2. (m \in HTTPMonitors) \in BOOLEAN
        OBVIOUS
      <4> QED
        BY <4>1, <4>2, Zenon
    <3> QED
      BY <3>1, <3>2, Zenon
  <2> QED
    BY <2>1, <2>2, <2>3, RowSteps
<1> QED
  BY <1>1, <1>2 DEF TablesType

\* What a delivery or its return does to a queue.
LEMMA OwedUpdates ==
    ASSUME QueueType, NEW t \in Topics, NEW q \in workload
    PROVE  /\ [owed EXCEPT ![t][q] = @ + 1] \in [Topics -> [workload -> Nat]]
           /\ owed[t][q] > 0 => [owed EXCEPT ![t][q] = @ - 1] \in [Topics -> [workload -> Nat]]
BY DEF QueueType

Busy == [ingester |-> {"received", "inserted"}, processor |-> {"received", "evaluated", "stored"}]

\* The queues and the workers, which type correctness has left to show.
MovingType ==
    /\ QueueType
    /\ WorkerType(ingester, Busy.ingester) /\ WorkerType(processor, Busy.processor)
    /\ process # "up" => ingester = FreshWorker /\ processor = FreshWorker

\* A delivery puts a request of the workload in a worker's hands.
LEMMA ReceiveMoves ==
    ASSUME PipelineType, NEW t \in Topics, NEW q \in workload, Receive(t, q)
    PROVE  MovingType'
<1> USE DEF PipelineType
<1>1. workload' = workload /\ process = "up" /\ process' = "up" /\ sent' = sent /\ owed[t][q] > 0
  BY DEF Receive, workload
<1>2. owed' \in [Topics -> [workload -> Nat]]
  BY <1>1, OwedUpdates DEF Receive
<1>3. QueueType'
  BY <1>1, <1>2 DEF QueueType
<1> DEFINE w == [FreshWorker EXCEPT !.step = "received", !.message = q]
<1>4. DOMAIN w = {"step", "message", "evaluation", "own"} /\ w.step = "received" /\ w.message = q
  BY DEF FreshWorker
<1> HIDE DEF w
<1>5. WorkerType(w, Busy.ingester) /\ WorkerType(w, Busy.processor)
  BY <1>4 DEF WorkerType, Busy
<1>6. \/ ingester' = w /\ processor' = processor
      \/ ingester' = ingester /\ processor' = w
  BY DEF Receive, Becomes, Topics, w
<1>7. WorkerType(ingester, Busy.ingester) /\ WorkerType(processor, Busy.processor)
  BY DEF Busy
<1> QED
  BY <1>1, <1>3, <1>5, <1>6, <1>7 DEF MovingType, WorkerType

\* A worker that is done with its message owes it once more or not at all.
LEMMA NextIterationMoves ==
    ASSUME PipelineType, NEW t \in Topics, process = "up",
           Becomes(t, NextIteration(t)),
           \/ owed' = owed
           \/ worker[t].message \in workload /\ owed' = [owed EXCEPT ![t][worker[t].message] = @ + 1],
           UNCHANGED <<setting, process, sent>>
    PROVE  MovingType'
<1> USE DEF PipelineType
<1>1. workload' = workload /\ process' = "up"
  BY DEF workload
<1>2. owed' \in [Topics -> [workload -> Nat]]
  <2>1. owed \in [Topics -> [workload -> Nat]]
    BY DEF QueueType
  <2>2. \A q \in workload : [owed EXCEPT ![t][q] = @ + 1] \in [Topics -> [workload -> Nat]]
    BY OwedUpdates
  <2> QED
    BY <2>1, <2>2
<1>3. QueueType'
  BY <1>1, <1>2 DEF QueueType
<1>4. /\ WorkerType(NextIteration(t), Busy.ingester) /\ WorkerType(NextIteration(t), Busy.processor)
  BY FreshWorkerType
<1>5. \/ ingester' = NextIteration(t) /\ processor' = processor
      \/ ingester' = ingester /\ processor' = NextIteration(t)
  BY DEF Becomes, Topics
<1>6. WorkerType(ingester, Busy.ingester) /\ WorkerType(processor, Busy.processor)
  BY DEF Busy
<1> QED
  BY <1>1, <1>3, <1>4, <1>5, <1>6 DEF MovingType, WorkerType

\* Giving a message back, acknowledging it and failing to receive one all end
\* the worker's round.
LEMMA RoundEnds ==
    ASSUME PipelineType, NEW t \in Topics,
           \/ ReceiveFails(t)
           \/ process = "up" /\ worker[t].message \in workload /\ (Ack(t) \/ GiveBack(t))
    PROVE  MovingType'
<1>1. InHand[t] = worker[t].message
  BY DEF InHand, worker, Topics
<1> QED
  BY <1>1, NextIterationMoves DEF ReceiveFails, Ack, GiveBack

\* A busy worker has a message of the workload.
LEMMA BusyHasMessage ==
    ASSUME PipelineType
    PROVE  /\ ingester.step \in {"received", "inserted"} => worker["ingester"].message \in workload
           /\ processor.step \in {"received", "evaluated", "stored"} =>
                    worker["processor"].message \in workload
BY DEF PipelineType, WorkerType, worker

\* The end of the process: what was in hand is owed again by a durable queue.
LEMMA EndsMoves ==
    ASSUME PipelineType, NEW how, Ends(how)
    PROVE  MovingType'
<1> USE DEF PipelineType
<1>1. workload' = workload
  BY DEF Ends, workload
<1>2. owed' \in [Topics -> [workload -> Nat]]
  <2>1. \A t \in Topics, q \in workload : owed[t][q] \in Nat /\ owed[t][q] + 1 \in Nat
    BY DEF QueueType
  <2> QED
    BY <2>1 DEF Ends
<1>3. QueueType'
  BY <1>1, <1>2 DEF QueueType, Ends
<1>4. ingester' = FreshWorker /\ processor' = FreshWorker
  BY DEF Ends
<1>5. \A busy : WorkerType(FreshWorker, busy)
  BY FreshWorkerType
<1> QED
  BY <1>1, <1>3, <1>4, <1>5 DEF MovingType, WorkerType

\* The steps of a worker that keeps its message in hand.
LEMMA HeldMoves ==
    ASSUME PipelineType, [Next]_vars,
           ingestMonitorHistorical \/ Evaluate \/ storeIncidentState
    PROVE  MovingType'
<1> USE DEF PipelineType
<1>1. /\ UNCHANGED <<process, owed, sent>> /\ process = "up" /\ workload' = workload
  BY DEF ingestMonitorHistorical, Evaluate, storeIncidentState, workload
<1>2. QueueType'
  BY <1>1 DEF QueueType
<1>3. WorkerType(ingester, Busy.ingester) /\ WorkerType(processor, Busy.processor)
  BY DEF Busy
<1>4. CASE ingestMonitorHistorical
  <2>1. ingester' = [ingester EXCEPT !.step = "inserted"] /\ processor' = processor
        /\ ingester.step = "received"
    BY <1>4 DEF ingestMonitorHistorical
  <2> QED
    BY <1>1, <1>2, <1>3, <2>1 DEF MovingType, WorkerType, Busy
<1>5. CASE Evaluate
  <2>1. \E own, e : processor' = [processor EXCEPT !.step = "evaluated", !.own = own, !.evaluation = e]
    BY <1>5, Zenon DEF Evaluate
  <2>2. ingester' = ingester /\ processor.step = "received"
    BY <1>5 DEF Evaluate
  <2> QED
    BY <1>1, <1>2, <1>3, <2>1, <2>2 DEF MovingType, WorkerType, Busy
<1>6. CASE storeIncidentState
  <2>1. processor' = [processor EXCEPT !.step = "stored"] /\ ingester' = ingester
        /\ processor.step = "evaluated"
    BY <1>6 DEF storeIncidentState
  <2> QED
    BY <1>1, <1>2, <1>3, <2>1 DEF MovingType, WorkerType, Busy
<1> QED
  BY <1>4, <1>5, <1>6

\* Sends and redeliveries add to what a queue owes.
LEMMA QueueMoves ==
    ASSUME PipelineType, NEW t \in Topics, NEW q \in workload,
           Send(q, t) \/ SendFails(q, t) \/ Redeliver(t, q)
    PROVE  MovingType'
<1> USE DEF PipelineType
<1>1. UNCHANGED <<process, ingester, processor>> /\ workload' = workload
  BY DEF Send, SendFails, SendOver, Redeliver, workload
<1>2. owed' = owed \/ owed' = [owed EXCEPT ![t][q] = @ + 1]
  BY DEF Send, SendFails, Redeliver
<1>3. owed' \in [Topics -> [workload -> Nat]]
  <2>1. owed \in [Topics -> [workload -> Nat]]
    BY DEF QueueType
  <2>2. [owed EXCEPT ![t][q] = @ + 1] \in [Topics -> [workload -> Nat]]
    BY OwedUpdates
  <2> QED
    BY <1>2, <2>1, <2>2
<1>4. sent' = sent \/ sent' = [sent EXCEPT ![t] = @ \cup {q}]
  BY DEF Send, SendFails, Redeliver
<1>5. sent' \in [Topics -> SUBSET workload]
  BY <1>4 DEF QueueType
<1> QED
  BY <1>1, <1>3, <1>5 DEF MovingType, QueueType, WorkerType, Busy

\* The other steps leave queues and workers alone.
LEMMA IdleMoves ==
    ASSUME PipelineType, 
           \/ NextStep \/ ExitSignal \/ Restart
           \/ \E q \in workload : CheckerSubmission(q)
           \/ UNCHANGED vars
    PROVE  MovingType'
<1>1. UNCHANGED <<owed, sent, ingester, processor>> /\ workload' = workload
      /\ (process' = process \/ process' = "up")
  BY DEF NextStep, ExitSignal, Restart, CheckerSubmission, vars, workload
<1> QED
  BY <1>1 DEF PipelineType, MovingType, QueueType, WorkerType, Busy

\* Every step keeps the types.
LEMMA PipelineTypeStep ==
    ASSUME PipelineType, [Next]_vars
    PROVE  PipelineType'
<1>1. setting' = setting /\ failures' \in [FaultKinds -> Nat] /\ TablesType'
      /\ done' \in 0 .. Len(ShutdownSteps)
  BY SettingFixed, FailuresStep, DoneStep, TablesStep
<1>2. "ingester" \in Topics /\ "processor" \in Topics
  BY DEF Topics
<1>3. ASSUME Ingest PROVE MovingType'
  <2>1. ASSUME \E q \in workload : Receive("ingester", q) PROVE MovingType'
    BY <1>2, <2>1, ReceiveMoves
  <2>2. ASSUME ReceiveFails("ingester") PROVE MovingType'
    BY <1>2, <2>2, RoundEnds
  <2>3. ASSUME IngestFails \/ IngesterAck PROVE MovingType'
    BY <1>2, <2>3, RoundEnds, BusyHasMessage DEF IngestFails, IngesterAck
  <2> QED
    BY <1>3, <2>1, <2>2, <2>3, HeldMoves DEF Ingest
<1>4. ASSUME Process PROVE MovingType'
  <2>1. ASSUME \E q \in workload : Receive("processor", q) PROVE MovingType'
    BY <1>2, <2>1, ReceiveMoves
  <2>2. ASSUME ReceiveFails("processor") PROVE MovingType'
    BY <1>2, <2>2, RoundEnds
  <2>3. ASSUME DropUnknown \/ EvaluateFails \/ Unchanged \/ ProcessorAck PROVE MovingType'
    BY <1>2, <2>3, RoundEnds, BusyHasMessage DEF DropUnknown, EvaluateFails, Unchanged, ProcessorAck
  <2> QED
    BY <1>4, <2>1, <2>2, <2>3, HeldMoves DEF Process
<1>5. ASSUME Sending PROVE MovingType'
  BY <1>5, QueueMoves DEF Sending
<1>6. ASSUME Shutdown PROVE MovingType'
  BY <1>6, IdleMoves, EndsMoves DEF Shutdown, MainReturns
<1>7. ASSUME Environment PROVE MovingType'
  BY <1>7, IdleMoves, EndsMoves, QueueMoves DEF Environment, Crash
<1>8. MovingType'
  BY <1>3, <1>4, <1>5, <1>6, <1>7, IdleMoves DEF Next, Work
<1> QED
  BY <1>1, <1>8 DEF PipelineType, MovingType, Busy

\* The initial state is well formed.
LEMMA PipelineTypeInit == Init => PipelineType
<1> SUFFICES ASSUME Init PROVE PipelineType
  OBVIOUS
<1>1. \A busy : WorkerType(FreshWorker, busy)
  BY FreshWorkerType
<1>2. Table({})
  BY FS_EmptySet DEF Table
<1>3. QueueType /\ TablesType
  BY <1>2 DEF Init, QueueType, TablesType
<1>4. done \in 0 .. Len(ShutdownSteps)
  BY DEF Init, ShutdownSteps
<1> QED
  BY <1>1, <1>3, <1>4 DEF Init, PipelineType

(***************************************************************************)
(* Submissions the ingester's queue took.                                  *)
(***************************************************************************)
InHandStored == ingester.step = "inserted" => Stored(ingester.message)

\* What the ingester marks as inserted is stored.
LEMMA InHandStoredStep ==
    ASSUME PipelineType, InHandStored, [Next]_vars
    PROVE  InHandStored'
<1>1. \/ ingester' = ingester
      \/ ingester'.step # "inserted"
      \/ ingestMonitorHistorical
  <2>1. FreshWorker.step = "receiving" /\ [FreshWorker EXCEPT !.step = "ended"].step = "ended"
        /\ \A q : [FreshWorker EXCEPT !.step = "received", !.message = q].step = "received"
    BY DEF FreshWorker
  <2>2. \A t, q : Receive(t, q) => ingester' = ingester \/ ingester'.step # "inserted"
    BY <2>1 DEF Receive, Becomes
  <2>3. \A t : Becomes(t, NextIteration(t)) => ingester' = ingester \/ ingester'.step # "inserted"
    BY <2>1 DEF Becomes, NextIteration
  <2> QED
    BY <2>1, <2>2, <2>3 DEF Next, Work, Sending, Send, SendFails, SendOver, Ingest, ReceiveFails,
       IngestFails, GiveBack, IngesterAck, Ack, Process, DropUnknown,
       Evaluate, EvaluateFails, Unchanged, storeIncidentState, ProcessorAck, Shutdown,
       NextStep, MainReturns, Ends, Environment, ExitSignal, Crash, Restart,
       CheckerSubmission, Redeliver, vars
<1>2. CASE ingester' = ingester
  <2>1. ingester.step = "inserted" => ingester.message \in workload
    BY DEF PipelineType, WorkerType
  <2>2. ingester.step = "inserted" =>
            \E q \in workload : q = ingester.message /\ q = ingester'.message /\ Stored(q)'
    BY <1>2, <2>1, StoredStable DEF InHandStored
  <2> QED
    BY <1>2, <2>2 DEF InHandStored, Stored
<1>3. CASE ingestMonitorHistorical
  <2> DEFINE q == ingester.message
  <2>1. q \in workload /\ DOMAIN ingester = {"step", "message", "evaluation", "own"}
    BY <1>3 DEF ingestMonitorHistorical, PipelineType, WorkerType
  <2>2. Content[q].monitor \in MonitorIDs
    BY <2>1, WorkloadType DEF PipelineType
  <2>3. ingester'.message = q
    BY <1>3, <2>1 DEF ingestMonitorHistorical
  <2>4. \E row \in rows'[Content[q].monitor] : row.region = Region(q) /\ row.at = Content[q].at
    <3>1. CASE Stored(q)
      BY <1>3, <3>1 DEF ingestMonitorHistorical, Stored
    <3>2. CASE ~Stored(q)
      <4>1. RowOf(q) \in rows'[Content[q].monitor]
        BY <1>3, <2>2, <3>2 DEF ingestMonitorHistorical, PipelineType, TablesType
      <4>2. RowOf(q).region = Region(q) /\ RowOf(q).at = Content[q].at
        BY DEF RowOf
      <4> QED
        BY <4>1, <4>2
    <3> QED
      BY <3>1, <3>2
  <2> QED
    BY <2>3, <2>4 DEF InHandStored, Stored
<1> QED
  BY <1>1, <1>2, <1>3 DEF InHandStored

KeptInv == PipelineType /\ ShutdownInv /\ InHandStored /\ AcceptedIsKept

\* The queue of the ingester and its worker, by what a step does to them.
LEMMA IngesterSteps ==
    ASSUME PipelineType, [Next]_vars
    PROVE  \/ UNCHANGED <<sent["ingester"], owed["ingester"], ingester.message>>
           \/ \E q \in workload : Send(q, "ingester") \/ Redeliver("ingester", q)
           \/ \E q \in workload : Receive("ingester", q)
           \/ IngesterAck \/ IngestFails
           \/ \E how : Ends(how)
           \/ ReceiveFails("ingester")
<1>1. ASSUME NEW q \in workload, NEW t \in Topics, Send(q, t) \/ SendFails(q, t) \/ Redeliver(t, q),
             t # "ingester"
      PROVE  UNCHANGED <<sent["ingester"], owed["ingester"], ingester.message>>
  BY <1>1 DEF Send, SendFails, SendOver, Redeliver, PipelineType, QueueType, Topics
<1>2. ASSUME NEW q \in workload, SendFails(q, "ingester")
      PROVE  UNCHANGED <<sent["ingester"], owed["ingester"], ingester.message>>
  BY <1>2 DEF SendFails, SendOver
<1>3. ASSUME NEW q \in workload, Receive("processor", q)
      PROVE  UNCHANGED <<sent["ingester"], owed["ingester"], ingester.message>>
  BY <1>3 DEF Receive, Becomes, PipelineType, QueueType, Topics
<1>4. ASSUME ReceiveFails("processor") \/ DropUnknown \/ Evaluate \/ EvaluateFails \/ Unchanged
             \/ storeIncidentState \/ ProcessorAck
      PROVE  UNCHANGED <<sent["ingester"], owed["ingester"], ingester.message>>
  <2>1. owed' = owed \/ \E q : owed' = [owed EXCEPT !["processor"][q] = @ + 1]
    BY <1>4 DEF ReceiveFails, DropUnknown, Evaluate, EvaluateFails, Unchanged,
         storeIncidentState, ProcessorAck, Ack, GiveBack
  <2>2. UNCHANGED <<sent, ingester>>
    BY <1>4 DEF ReceiveFails, DropUnknown, Evaluate, EvaluateFails, Unchanged,
         storeIncidentState, ProcessorAck, Ack, GiveBack, Becomes
  <2> QED
    BY <2>1, <2>2 DEF PipelineType, QueueType, Topics
<1>5. ASSUME ingestMonitorHistorical
      PROVE  UNCHANGED <<sent["ingester"], owed["ingester"], ingester.message>>
  BY <1>5 DEF ingestMonitorHistorical, PipelineType, WorkerType
<1>6. ASSUME NextStep \/ ExitSignal \/ Restart \/ (\E q \in workload : CheckerSubmission(q))
             \/ UNCHANGED vars
      PROVE  UNCHANGED <<sent["ingester"], owed["ingester"], ingester.message>>
  BY <1>6 DEF NextStep, ExitSignal, Restart, CheckerSubmission, vars
<1>7. MainReturns \/ Crash => \E how : Ends(how)
  BY DEF MainReturns, Crash
<1> QED
  BY <1>1, <1>2, <1>3, <1>4, <1>5, <1>6, <1>7, Zenon
     DEF Next, Work, Sending, Ingest, Process, Shutdown, Environment

\* A statement of the ingester that fails is given back, unless the driver has
\* no Nack: then the fault is counted, for the database is only closed when
\* the subscriber is, and an acknowledgement does not reach the queue any more.
LEMMA FailedInsert ==
    ASSUME KeptInv, IngestFails, setting.nackable \/ failures'["database"] = 0
    PROVE  owed' = [owed EXCEPT !["ingester"][ingester.message] = @ + 1]
<1>1. InHand["ingester"] = ingester.message
  BY DEF InHand
<1>2. CASE setting.nackable \/ Closed("ingester subscriber")
  BY <1>1, <1>2 DEF IngestFails, GiveBack, Subscriber
<1>3. CASE ~(setting.nackable \/ Closed("ingester subscriber"))
  <2>1. ~Closed("database")
    BY <1>3, ShutdownOrder DEF KeptInv, PipelineType
  <2>2. failures' = [failures EXCEPT !["database"] = @ + 1]
    BY <2>1, FaultCounts DEF IngestFails, StatementFails
  <2>3. failures["database"] \in Nat /\ failures'["database"] = failures["database"] + 1
    BY <2>2 DEF KeptInv, PipelineType, FaultKinds
  <2>4. failures'["database"] # 0
    BY <2>3
  <2>5. ~setting.nackable
    BY <1>3
  <2> QED
    BY <2>4, <2>5, Zenon
<1> QED
  BY <1>2, <1>3

\* Faults are only counted up.
LEMMA FailuresGrow ==
    ASSUME PipelineType, [Next]_vars
    PROVE  failures'["database"] = 0 => failures["database"] = 0
<1>1. UNCHANGED failures \/ \E kind \in FaultKinds : Fault(kind)
  BY DEF Next, Work, Sending, Send, SendFails, SendOver, Ingest, Receive, ReceiveFails,
       ingestMonitorHistorical, IngestFails, StatementFails, IngesterAck, Process, DropUnknown,
       Evaluate, EvaluateFails, Unchanged, storeIncidentState, ProcessorAck, Shutdown,
       NextStep, MainReturns, Environment, ExitSignal, Crash, Restart,
       CheckerSubmission, Redeliver, vars, FaultKinds
<1>2. ASSUME NEW kind \in FaultKinds, failures' = [failures EXCEPT ![kind] = @ + 1],
             failures'["database"] = 0
      PROVE  failures["database"] = 0
  BY <1>2 DEF PipelineType, FaultKinds
<1> QED
  BY <1>1, <1>2, FaultCounts

\* What the queue or the worker has of a submission, one of them has after a
\* step too, unless the submission is stored.
LEMMA AcceptedStep ==
    ASSUME KeptInv, PipelineType', [Next]_vars
    PROVE  AcceptedIsKept'
<1> SUFFICES ASSUME setting.durable, setting.nackable \/ failures'["database"] = 0,
                    NEW q \in sent'["ingester"], ~Stored(q)'
             PROVE  owed'["ingester"][q] > 0 \/ ingester'.message = q
  BY SettingFixed DEF AcceptedIsKept, Missing
<1> USE DEF KeptInv
<1>1. workload' = workload /\ q \in workload /\ "ingester" \in Topics
  BY SettingFixed DEF workload, PipelineType, QueueType, Topics
<1>2. ~Stored(q)
  BY <1>1, StoredStable
<1>3. q \in sent["ingester"] => owed["ingester"][q] > 0 \/ ingester.message = q
  BY <1>2, FailuresGrow DEF AcceptedIsKept, Missing
<1>4. \A p \in workload : owed["ingester"][p] \in Nat /\ owed'["ingester"][p] \in Nat
  BY <1>1 DEF PipelineType, QueueType
<1>5. CASE UNCHANGED <<sent["ingester"], owed["ingester"], ingester.message>>
  BY <1>3, <1>5
<1>6. ASSUME NEW p \in workload, Send(p, "ingester") \/ Redeliver("ingester", p)
      PROVE  owed'["ingester"][q] > 0 \/ ingester'.message = q
  <2>1. /\ owed' = [owed EXCEPT !["ingester"][p] = @ + 1] /\ ingester' = ingester
        /\ sent' = sent \/ sent' = [sent EXCEPT !["ingester"] = @ \cup {p}]
    BY <1>6 DEF Send, SendOver, Redeliver
  <2>2. owed'["ingester"][p] = owed["ingester"][p] + 1
        /\ \A r \in workload : r # p => owed'["ingester"][r] = owed["ingester"][r]
    BY <1>1, <2>1 DEF PipelineType, QueueType
  <2>3. q # p => q \in sent["ingester"]
    BY <2>1 DEF PipelineType, QueueType, Topics
  <2> QED
    BY <1>1, <1>3, <1>4, <2>1, <2>2, <2>3
<1>7. ASSUME NEW p \in workload, Receive("ingester", p)
      PROVE  owed'["ingester"][q] > 0 \/ ingester'.message = q
  <2>1. /\ owed' = [owed EXCEPT !["ingester"][p] = @ - 1] /\ sent' = sent
        /\ ingester' = [FreshWorker EXCEPT !.step = "received", !.message = p]
        /\ ingester.step = "receiving"
    BY <1>7 DEF Receive, Becomes, worker
  <2>2. \A r \in workload : r # p => owed'["ingester"][r] = owed["ingester"][r]
    BY <1>1, <2>1 DEF PipelineType, QueueType
  <2>3. ingester'.message = p
    BY <2>1 DEF FreshWorker
  <2>4. ingester.message # q
    BY <1>1, <2>1, WorkloadType DEF PipelineType, WorkerType
  <2> QED
    BY <1>1, <1>3, <2>1, <2>2, <2>3, <2>4
<1>8. CASE IngesterAck
  <2>1. ingester.message # q
    BY <1>2, <1>8 DEF IngesterAck, InHandStored
  <2>2. sent' = sent /\ (owed' = owed \/ owed' = [owed EXCEPT !["ingester"][ingester.message] = @ + 1])
    BY <1>8 DEF IngesterAck, Ack, InHand
  <2>3. owed'["ingester"][q] = owed["ingester"][q]
    BY <1>1, <2>1, <2>2 DEF PipelineType, QueueType
  <2> QED
    BY <1>3, <2>1, <2>2, <2>3
<1>9. CASE IngestFails
  <2>1. owed' = [owed EXCEPT !["ingester"][ingester.message] = @ + 1] /\ sent' = sent
    BY <1>9, FailedInsert DEF IngestFails, GiveBack
  <2>2. ingester.message = q => owed'["ingester"][q] = owed["ingester"][q] + 1
    BY <1>1, <2>1 DEF PipelineType, QueueType
  <2>3. ingester.message # q => owed'["ingester"][q] = owed["ingester"][q]
    BY <1>1, <2>1 DEF PipelineType, QueueType
  <2> QED
    BY <1>1, <1>3, <1>4, <2>1, <2>2, <2>3
<1>10. ASSUME NEW how, Ends(how)
       PROVE  owed'["ingester"][q] > 0 \/ ingester'.message = q
  <2>1. owed'["ingester"][q] = IF ingester.message = q THEN owed["ingester"][q] + 1
                               ELSE owed["ingester"][q]
    BY <1>1, <1>10 DEF Ends, InHand
  <2>2. sent' = sent
    BY <1>10 DEF Ends
  <2> QED
    BY <1>1, <1>3, <1>4, <2>1, <2>2
<1>11. CASE ReceiveFails("ingester")
  <2>1. UNCHANGED <<sent, owed>> /\ ingester.step = "receiving"
    BY <1>11 DEF ReceiveFails, worker
  <2>2. ingester.message # q
    BY <1>1, <2>1, WorkloadType DEF PipelineType, WorkerType
  <2> QED
    BY <1>3, <2>1, <2>2
<1> QED
  BY <1>5, <1>6, <1>7, <1>8, <1>9, <1>10, <1>11, IngesterSteps

\* A submission that the ingester's queue took is stored or still owed: the
\* crash between insert and ack, the redelivery, the failed insert and the
\* graceful shutdown, which closes the subscriber before the database, lose
\* none where the queue is durable (and can give a message back, or no
\* statement ever failed).
THEOREM AcceptedAreKept == Spec => []AcceptedIsKept
<1>1. Init => KeptInv
  <2>1. Init => AcceptedIsKept
    BY DEF Init, AcceptedIsKept, Missing, Topics
  <2>2. Init => InHandStored
    BY DEF Init, InHandStored, FreshWorker
  <2> QED
    BY <2>1, <2>2, PipelineTypeInit, ShutdownInit DEF KeptInv
<1>2. KeptInv /\ [Next]_vars => KeptInv'
  BY PipelineTypeStep, ShutdownStep, InHandStoredStep, AcceptedStep DEF KeptInv
<1>3. KeptInv => AcceptedIsKept
  BY DEF KeptInv
<1> QED
  BY <1>1, <1>2, <1>3, PTL DEF Spec

(***************************************************************************)
(* The verdict that is stored.                                             *)
(***************************************************************************)
Verdict(m) == evaluateLatestIncident(m \in HTTPMonitors, rows[m])

\* The ingester only has what its queue once took.
OwedIsSent ==
    /\ \A q \in workload : owed["ingester"][q] > 0 => q \in sent["ingester"]
    /\ ingester.message # None => ingester.message \in sent["ingester"]

JudgedIsStored == judged \subseteq workload /\ \A q \in judged : Stored(q)

\* The requests that are judged with their row once the evaluation in the
\* processor's hands is compared or stored.
AboutToJudge == IF processor.own THEN judged \cup {processor.message} ELSE judged

\* An evaluation in the processor's hands that is not that of the rows any more
\* was overtaken by the row of a request which is still to be judged.
InHandCatchesUp ==
    processor.step = "evaluated" =>
        /\ processor.own => Stored(processor.message)
        /\ \A m \in Monitors :
                m = Content[processor.message].monitor /\ Arrived(m) \subseteq AboutToJudge
                    => SameVerdict(processor.evaluation, Verdict(m))

CatchUpInv ==
    PipelineType /\ OwedIsSent /\ JudgedIsStored /\ InHandCatchesUp /\ VerdictCatchesUp

\* Every request that the ingester has came through its queue.
LEMMA OwedIsSentStep ==
    ASSUME PipelineType, OwedIsSent, [Next]_vars
    PROVE  OwedIsSent'
<1> USE DEF PipelineType
<1>1. workload' = workload /\ "ingester" \in Topics
  BY SettingFixed DEF workload, Topics
<1>2. \A p \in workload : owed["ingester"][p] \in Nat
  BY <1>1 DEF QueueType
<1>3. CASE UNCHANGED <<sent["ingester"], owed["ingester"], ingester.message>>
  BY <1>1, <1>3 DEF OwedIsSent
<1>4. ASSUME NEW p \in workload, p \in sent'["ingester"], ingester' = ingester,
             owed' = [owed EXCEPT !["ingester"][p] = @ + 1],
             sent["ingester"] \subseteq sent'["ingester"]
      PROVE  OwedIsSent'
  <2>1. \A q \in workload : q # p => owed'["ingester"][q] = owed["ingester"][q]
    BY <1>1, <1>4 DEF QueueType
  <2> QED
    BY <1>1, <1>4, <2>1 DEF OwedIsSent
<1>5. ASSUME NEW p \in workload, Send(p, "ingester") PROVE OwedIsSent'
  <2>1. p \in sent'["ingester"] /\ sent["ingester"] \subseteq sent'["ingester"]
    BY <1>1, <1>5 DEF Send, QueueType
  <2> QED
    BY <1>4, <1>5, <2>1 DEF Send, SendOver
<1>6. ASSUME NEW p \in workload, Redeliver("ingester", p) PROVE OwedIsSent'
  <2>1. ingester.message = p /\ p # None /\ sent' = sent
    BY <1>6, WorkloadType DEF Redeliver, worker
  <2> QED
    BY <1>4, <1>6, <2>1 DEF Redeliver, OwedIsSent
<1>7. ASSUME NEW p \in workload, Receive("ingester", p) PROVE OwedIsSent'
  <2>1. /\ owed' = [owed EXCEPT !["ingester"][p] = @ - 1] /\ sent' = sent
        /\ ingester' = [FreshWorker EXCEPT !.step = "received", !.message = p]
        /\ owed["ingester"][p] > 0
    BY <1>7 DEF Receive, Becomes
  <2>2. \A q \in workload : owed'["ingester"][q] > 0 => owed["ingester"][q] > 0
    BY <1>1, <1>2, <2>1 DEF QueueType
  <2>3. ingester'.message = p
    BY <2>1 DEF FreshWorker
  <2> QED
    BY <1>1, <2>1, <2>2, <2>3 DEF OwedIsSent
<1>8. CASE IngesterAck \/ IngestFails
  <2>1. ingester.message \in workload /\ ingester.message \in sent["ingester"]
    BY <1>8, WorkloadType DEF IngesterAck, IngestFails, WorkerType, OwedIsSent
  <2>2. /\ sent' = sent /\ ingester' = NextIteration("ingester")
        /\ owed' = owed \/ owed' = [owed EXCEPT !["ingester"][ingester.message] = @ + 1]
    BY <1>8 DEF IngesterAck, IngestFails, Ack, GiveBack, Becomes, InHand
  <2>3. ingester'.message = None
    BY <2>2, FreshWorkerType
  <2>4. \A q \in workload : owed'["ingester"][q] > 0 =>
            owed["ingester"][q] > 0 \/ q = ingester.message
    BY <1>1, <1>2, <2>1, <2>2 DEF QueueType
  <2> QED
    BY <1>1, <2>1, <2>2, <2>3, <2>4 DEF OwedIsSent
<1>9. ASSUME NEW how, Ends(how) PROVE OwedIsSent'
  <2>1. /\ \A q \in workload : owed'["ingester"][q] > 0 =>
                owed["ingester"][q] > 0 \/ q = ingester.message
        /\ sent' = sent /\ ingester' = FreshWorker
    BY <1>1, <1>2, <1>9 DEF Ends, InHand
  <2>2. ingester'.message = None
    BY <2>1, FreshWorkerType
  <2>3. \A q \in workload : q # None
    BY WorkloadType
  <2> QED
    BY <1>1, <2>1, <2>2, <2>3 DEF OwedIsSent
<1>10. CASE ReceiveFails("ingester")
  <2>1. UNCHANGED <<sent, owed>> /\ ingester' = NextIteration("ingester")
    BY <1>10 DEF ReceiveFails, Becomes
  <2>2. ingester'.message = None
    BY <2>1, FreshWorkerType
  <2> QED
    BY <1>1, <2>1, <2>2 DEF OwedIsSent
<1> QED
  BY <1>3, <1>5, <1>6, <1>7, <1>8, <1>9, <1>10, IngesterSteps

\* What arrived has arrived for good.
LEMMA ArrivedGrows ==
    ASSUME PipelineType, [Next]_vars, NEW m
    PROVE  Arrived(m) \subseteq Arrived(m)'
<1>1. sent["ingester"] \subseteq workload
  BY DEF PipelineType, QueueType, Topics
<1>2. \A q \in workload : Stored(q) => Stored(q)'
  BY StoredStable
<1>3. sent["ingester"] \subseteq sent'["ingester"]
  <2>1. ASSUME NEW q \in workload, NEW t \in Topics, Send(q, t)
        PROVE  sent["ingester"] \subseteq sent'["ingester"]
    BY <2>1 DEF Send, PipelineType, QueueType, Topics
  <2> QED
    BY <2>1 DEF Next, Work, Sending, SendFails, SendOver, Ingest, Receive, ReceiveFails,
       ingestMonitorHistorical, IngestFails, GiveBack, IngesterAck, Ack, Process, DropUnknown,
       Evaluate, EvaluateFails, Unchanged, storeIncidentState, ProcessorAck, Shutdown,
       NextStep, MainReturns, Ends, Environment, ExitSignal, Crash, Restart,
       CheckerSubmission, Redeliver, vars
<1> QED
  BY <1>1, <1>2, <1>3 DEF Arrived, Missing

\* The steps, by what they do to the rows and to the judgement of them.
LEMMA JudgementSteps ==
    ASSUME PipelineType, [Next]_vars
    PROVE  \/ /\ UNCHANGED <<rows, state, judged>>
              /\ processor' = processor \/ processor'.step # "evaluated"
           \/ Evaluate \/ Unchanged \/ storeIncidentState
           \/ \E q \in workload : Inserts(q)
           \/ Restart
<1>1. FreshWorker.step = "receiving" /\ [FreshWorker EXCEPT !.step = "ended"].step = "ended"
      /\ \A q : [FreshWorker EXCEPT !.step = "received", !.message = q].step = "received"
  BY DEF FreshWorker
<1>2. \A t, q : Receive(t, q) => processor' = processor \/ processor'.step # "evaluated"
  BY <1>1 DEF Receive, Becomes
<1>3. \A t : Becomes(t, NextIteration(t)) => processor' = processor \/ processor'.step # "evaluated"
  BY <1>1 DEF Becomes, NextIteration
<1>4. ASSUME rows' = rows, ~Unchanged, ~storeIncidentState, ~Evaluate, ~Restart
      PROVE  /\ UNCHANGED <<rows, state, judged>>
             /\ processor' = processor \/ processor'.step # "evaluated"
  BY <1>1, <1>2, <1>3, <1>4 DEF Next, Work, Sending, Send, SendFails, SendOver, Ingest, Receive,
       ReceiveFails, ingestMonitorHistorical, IngestFails, GiveBack, IngesterAck, Ack, Process,
       DropUnknown, EvaluateFails, ProcessorAck, Shutdown,
       NextStep, MainReturns, Ends, Environment, ExitSignal, Crash,
       CheckerSubmission, Redeliver, vars
<1> QED
  BY <1>4, RowSteps

\* The same rows have the same verdict.
LEMMA VerdictOfRows ==
    ASSUME NEW m, rows'[m] = rows[m]
    PROVE  Verdict(m)' = Verdict(m)
BY DEF Verdict

\* Judged requests are stored, whoever stores or migrates the rows.
LEMMA JudgedIsStoredStep ==
    ASSUME CatchUpInv, [Next]_vars
    PROVE  JudgedIsStored'
<1> USE DEF CatchUpInv
<1>1. workload' = workload
  BY SettingFixed DEF workload
<1>2. judged' = judged \/ (judged' = AboutToJudge /\ processor.step = "evaluated")
  BY JudgementSteps DEF Evaluate, Unchanged, storeIncidentState, Judge, AboutToJudge, Inserts, Restart
<1>3. \A q \in judged' : q \in workload /\ Stored(q)
  <2>1. processor.step = "evaluated" => processor.message \in workload
    BY DEF PipelineType, WorkerType
  <2> QED
    BY <1>2, <2>1 DEF JudgedIsStored, AboutToJudge, InHandCatchesUp
<1>4. \A q \in judged' : q \in workload' /\ Stored(q)'
  BY <1>1, <1>3, StoredStable
<1> QED
  BY <1>4 DEF JudgedIsStored

\* A row that comes in between is that of a request nobody has judged yet.
LEMMA InsertCatchesUp ==
    ASSUME CatchUpInv, [Next]_vars, NEW q \in workload, Inserts(q)
    PROVE  VerdictCatchesUp' /\ InHandCatchesUp'
<1> USE DEF CatchUpInv
<1>1. Content[q].monitor \in MonitorIDs /\ q # None
  BY WorkloadType DEF PipelineType
<1>2. UNCHANGED <<processor, state, judged, sent>> /\ ~Stored(q)
  BY DEF Inserts
<1>3. \A m \in MonitorIDs : m # Content[q].monitor => rows'[m] = rows[m]
  BY DEF Inserts, PipelineType, TablesType
<1>4. Stored(q)'
  <2>1. RowOf(q) \in rows'[Content[q].monitor]
    BY <1>1 DEF Inserts, PipelineType, TablesType
  <2>2. RowOf(q).region = Region(q) /\ RowOf(q).at = Content[q].at
    BY DEF RowOf
  <2> QED
    BY <2>1, <2>2 DEF Stored
<1>5. q \in sent["ingester"]
  BY <1>1 DEF Inserts, OwedIsSent
<1>6. ASSUME NEW m, m = Content[q].monitor PROVE q \in Arrived(m)'
  BY <1>2, <1>4, <1>5, <1>6 DEF Arrived, Missing
<1>7. q \notin judged
  BY <1>2 DEF JudgedIsStored
<1>8. processor.step = "evaluated" => q \notin AboutToJudge
  BY <1>2, <1>7 DEF AboutToJudge, InHandCatchesUp
<1>9. ASSUME NEW m \in Monitors, m # Content[q].monitor
      PROVE  Arrived(m) \subseteq Arrived(m)' /\ Verdict(m)' = Verdict(m)
  <2>1. rows'[m] = rows[m]
    BY <1>3, <1>9 DEF MonitorIDs
  <2> QED
    BY <2>1, ArrivedGrows, VerdictOfRows
<1>10. ASSUME NEW m \in Monitors, Arrived(m)' \subseteq judged'
       PROVE  SameVerdict(state'[m], Verdict(m)')
  <2>1. m # Content[q].monitor
    BY <1>2, <1>6, <1>7, <1>10
  <2>2. SameVerdict(state[m], Verdict(m))
    BY <1>2, <1>9, <1>10, <2>1 DEF VerdictCatchesUp, Verdict
  <2> QED
    BY <1>2, <1>9, <2>1, <2>2
<1>11. VerdictCatchesUp'
  BY <1>10 DEF VerdictCatchesUp, Verdict
<1>12. ASSUME processor.step = "evaluated"
       PROVE  InHandCatchesUp'
  <2>1. processor.own => Stored(processor.message)'
    <3>1. processor.message \in workload
      BY <1>12 DEF PipelineType, WorkerType
    <3>2. ASSUME NEW p \in workload, p = processor.message, Stored(p) PROVE Stored(processor.message)'
      <4>1. Stored(p)'
        BY <3>2, StoredStable
      <4> QED
        BY <1>2, <3>2, <4>1 DEF Stored
    <3> QED
      BY <1>12, <3>1, <3>2 DEF InHandCatchesUp
  <2>2. AboutToJudge' = AboutToJudge
    BY <1>2 DEF AboutToJudge
  <2>3. ASSUME NEW m \in Monitors, m = Content[processor.message].monitor,
               Arrived(m)' \subseteq AboutToJudge
        PROVE  SameVerdict(processor.evaluation, Verdict(m)')
    <3>1. m # Content[q].monitor
      BY <1>6, <1>8, <1>12, <2>3
    <3> QED
      BY <1>9, <1>12, <2>3, <3>1 DEF InHandCatchesUp
  <2> QED
    BY <1>2, <2>1, <2>2, <2>3 DEF InHandCatchesUp
<1>13. processor.step # "evaluated" => InHandCatchesUp'
  BY <1>2 DEF InHandCatchesUp
<1> QED
  BY <1>11, <1>12, <1>13

\* A restart migrates the rows, which changes no verdict.
LEMMA RestartCatchesUp ==
    ASSUME CatchUpInv, [Next]_vars, Restart
    PROVE  VerdictCatchesUp' /\ InHandCatchesUp'
<1> USE DEF CatchUpInv
<1>1. UNCHANGED <<processor, state, judged>> /\ processor.step # "evaluated"
  BY DEF Restart, PipelineType, FreshWorker
<1>2. ASSUME NEW m \in Monitors
      PROVE  [Verdict(m)' EXCEPT !.breakdown = {}] = [Verdict(m) EXCEPT !.breakdown = {}]
  <2>1. rows'[m] = Migrated(m \in HTTPMonitors, rows[m])
    BY DEF Restart, Migrated, MonitorIDs
  <2>2. \A http \in BOOLEAN :
            [evaluateLatestIncident(http, Migrated(http, rows[m])) EXCEPT !.breakdown = {}] =
            [evaluateLatestIncident(http, rows[m]) EXCEPT !.breakdown = {}]
    <3>1. Table(rows[m])
      BY DEF PipelineType, TablesType, MonitorIDs
    <3> QED
      BY <3>1, MigrationKeepsEvaluation
  <2>3. (m \in HTTPMonitors) \in BOOLEAN
    OBVIOUS
  <2>4. [evaluateLatestIncident(m \in HTTPMonitors, Migrated(m \in HTTPMonitors, rows[m])) EXCEPT !.breakdown = {}] =
        [evaluateLatestIncident(m \in HTTPMonitors, rows[m]) EXCEPT !.breakdown = {}]
    BY <2>2, <2>3, Zenon
  <2> QED
    BY <2>1, <2>4 DEF Verdict
<1>3. ASSUME NEW m \in Monitors, Arrived(m)' \subseteq judged'
      PROVE  SameVerdict(state'[m], Verdict(m)')
  <2>1. SameVerdict(state[m], Verdict(m))
    BY <1>1, <1>3, ArrivedGrows DEF VerdictCatchesUp, Verdict
  <2> QED
    BY <1>1, <1>2, <2>1 DEF SameVerdict
<1> QED
  BY <1>1, <1>3 DEF VerdictCatchesUp, Verdict, InHandCatchesUp

\* Judging puts the stored state right, as far as the evaluation is.
LEMMA JudgingCatchesUp ==
    ASSUME CatchUpInv, [Next]_vars, Unchanged \/ storeIncidentState
    PROVE  VerdictCatchesUp' /\ InHandCatchesUp'
<1> USE DEF CatchUpInv
<1> DEFINE mine == Content[processor.message].monitor
<1>1. processor.step = "evaluated" /\ judged' = AboutToJudge /\ rows' = rows
  BY DEF Unchanged, storeIncidentState, Judge, AboutToJudge
<1>2. processor'.step # "evaluated"
  <2>1. CASE Unchanged
    <3>1. processor' = NextIteration("processor")
      BY <2>1 DEF Unchanged, Ack, Becomes
    <3>2. NextIteration("processor").step \in {"receiving", "ended"}
      BY FreshWorkerType
    <3> QED
      BY <3>1, <3>2
  <2>2. CASE storeIncidentState
    BY <2>2 DEF storeIncidentState, PipelineType, WorkerType
  <2> QED
    BY <2>1, <2>2
<1>3. \A m \in Monitors : state'[m] = IF m = mine THEN processor.evaluation ELSE state[m]
  BY DEF Unchanged, storeIncidentState, Equal, PipelineType, TablesType
<1>4. ASSUME NEW m \in Monitors, Arrived(m)' \subseteq judged'
      PROVE  SameVerdict(state'[m], Verdict(m)')
  <2>1. Arrived(m) \subseteq AboutToJudge /\ Verdict(m)' = Verdict(m)
    BY <1>1, <1>4, ArrivedGrows, VerdictOfRows
  <2>2. CASE m = mine
    BY <1>1, <1>3, <2>1, <2>2 DEF InHandCatchesUp
  <2>3. CASE m # mine
    <3>1. Arrived(m) \subseteq judged
      BY <2>1, <2>3 DEF AboutToJudge, Arrived
    <3> QED
      BY <1>3, <2>1, <2>3, <3>1 DEF VerdictCatchesUp, Verdict
  <2> QED
    BY <2>2, <2>3
<1> QED
  BY <1>2, <1>4 DEF VerdictCatchesUp, Verdict, InHandCatchesUp

\* An evaluation is right when it is made.
LEMMA EvaluateCatchesUp ==
    ASSUME CatchUpInv, [Next]_vars, Evaluate
    PROVE  VerdictCatchesUp' /\ InHandCatchesUp'
<1> USE DEF CatchUpInv
<1> DEFINE mine == Content[processor.message].monitor
<1>1. UNCHANGED <<rows, state, judged, sent>>
  BY DEF Evaluate
<1>2. DOMAIN processor = {"step", "message", "evaluation", "own"}
  BY DEF PipelineType, WorkerType
<1>3. /\ processor'.message = processor.message
      /\ processor'.own => Stored(processor.message)
      /\ mine \in Monitors
      /\ processor'.evaluation = evaluateLatestIncident(mine \in HTTPMonitors, rows[mine])
  BY <1>2, Zenon DEF Evaluate
<1>4. VerdictCatchesUp'
  BY <1>1 DEF VerdictCatchesUp, Arrived, Missing, Stored
<1>5. processor'.own => Stored(processor.message)'
  <2>1. ASSUME NEW q, q = processor.message, processor'.own PROVE Stored(processor.message)'
    <3>1. Stored(q)' /\ q = processor'.message
      BY <1>1, <1>3, <2>1 DEF Stored
    <3> QED
      BY <3>1 DEF Stored
  <2> QED
    BY <2>1
<1>6. ASSUME NEW m \in Monitors, m = Content[processor'.message].monitor
      PROVE  SameVerdict(processor'.evaluation, Verdict(m)')
  BY <1>1, <1>3, <1>6 DEF SameVerdict, Verdict
<1> QED
  BY <1>4, <1>5, <1>6 DEF InHandCatchesUp

\* Nothing else touches the rows or the verdict; requests arrive at most.
LEMMA OthersCatchUp ==
    ASSUME CatchUpInv, [Next]_vars, UNCHANGED <<rows, state, judged>>,
           processor' = processor \/ processor'.step # "evaluated"
    PROVE  VerdictCatchesUp' /\ InHandCatchesUp'
<1> USE DEF CatchUpInv
<1>1. \A m : Arrived(m) \subseteq Arrived(m)' /\ Verdict(m)' = Verdict(m)
  BY ArrivedGrows DEF Verdict
<1>2. ASSUME NEW m \in Monitors, Arrived(m)' \subseteq judged'
      PROVE  SameVerdict(state'[m], Verdict(m)')
  BY <1>1, <1>2 DEF VerdictCatchesUp, Verdict
<1>3. CASE processor' = processor
  <2>1. ASSUME processor.step = "evaluated", NEW m \in Monitors,
               m = Content[processor.message].monitor, Arrived(m)' \subseteq AboutToJudge
        PROVE  SameVerdict(processor.evaluation, Verdict(m)')
    BY <1>1, <2>1 DEF InHandCatchesUp
  <2>2. AboutToJudge' = AboutToJudge
    BY <1>3 DEF AboutToJudge
  <2>3. processor.step = "evaluated" /\ processor.own => Stored(processor.message)'
    BY <1>3 DEF InHandCatchesUp, Stored
  <2> QED
    BY <1>2, <1>3, <2>1, <2>2, <2>3 DEF VerdictCatchesUp, Verdict, InHandCatchesUp
<1>4. CASE processor'.step # "evaluated"
  BY <1>2, <1>4 DEF VerdictCatchesUp, Verdict, InHandCatchesUp
<1> QED
  BY <1>3, <1>4

\* The stored state is the verdict on all rows of a monitor as soon as each of
\* the requests that brought them was judged when its row was there: whichever
\* of a row and the message that judges it comes first, however often either
\* is delivered, and across crashes and the migration of every start.
THEOREM VerdictsCatchUp == Spec => []VerdictCatchesUp
<1>1. Init => CatchUpInv
  <2> SUFFICES ASSUME Init PROVE CatchUpInv
    OBVIOUS
  <2>1. OwedIsSent /\ JudgedIsStored /\ InHandCatchesUp
    BY DEF Init, OwedIsSent, JudgedIsStored, InHandCatchesUp, FreshWorker, Topics
  <2>2. \A m \in Monitors : rows[m] = {} /\ state[m] = HealthyIncidentEvaluation
    BY DEF Init, MonitorIDs
  <2>3. \A http : evaluateLatestIncident(http, {}) = HealthyIncidentEvaluation
    BY DEF evaluateLatestIncident
  <2>4. VerdictCatchesUp
    BY <2>2, <2>3 DEF VerdictCatchesUp, SameVerdict
  <2> QED
    BY <2>1, <2>4, PipelineTypeInit DEF CatchUpInv
<1>2. CatchUpInv /\ [Next]_vars => CatchUpInv'
  <2> SUFFICES ASSUME CatchUpInv, [Next]_vars PROVE CatchUpInv'
    OBVIOUS
  <2>1. PipelineType' /\ OwedIsSent' /\ JudgedIsStored'
    BY PipelineTypeStep, OwedIsSentStep, JudgedIsStoredStep DEF CatchUpInv
  <2>2. VerdictCatchesUp' /\ InHandCatchesUp'
    <3>1. PipelineType
      BY DEF CatchUpInv
    <3> QED
      BY <3>1, JudgementSteps, OthersCatchUp, EvaluateCatchesUp, JudgingCatchesUp, InsertCatchesUp,
         RestartCatchesUp
  <2> QED
    BY <2>1, <2>2 DEF CatchUpInv
<1>3. CatchUpInv => VerdictCatchesUp
  BY DEF CatchUpInv
<1> QED
  BY <1>1, <1>2, <1>3, PTL DEF Spec
=============================================================================
