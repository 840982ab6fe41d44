--------------------------- MODULE AlertDelivery ----------------------------
(***************************************************************************)
(* From the alert queue to the people: the alerter worker                  *)
(* (worker_alerter.go), which hands each alert to the selected targets one *)
(* after the other, and the buffering ntfy target                          *)
(* (alerter_ntfy_buffered.go), which suppresses repeated outages, collects *)
(* degradations into digests and forgets recoveries nobody waits for.      *)
(*                                                                         *)
(* Two goroutines share the ntfy state: the worker and the digest loop.    *)
(* The mutex is released around every HTTP request, so a request is a step *)
(* between two critical sections.  The digest's `degradedSince` is always  *)
(* the time of the first buffered alert and is not kept apart.             *)
(***************************************************************************)
EXTENDS Integers, Sequences, FiniteSets, SequencesExt, Bags

CONSTANTS
    Monitors,
    Targets,            \* the configured targets: [name, kind, enabled, url]
    Ntfy,               \* the name of the buffered one; the others send directly
    Configurations,     \* the alert_names of each monitor that is configured
    NoName,             \* the empty name
    SuppressWindow,     \* suppress_window_minutes
    DigestEnabled,      \* digest_interval_minutes > 0
    Nackable, DurableQueue,
    \* Bounds:
    MaxTime, MaxFaults,
    MaxAlerts           \* by configuration

\* The order of the target kinds is the order of the sections of BuildAlerters.
Kinds == <<"webhook", "slack", "discord", "teams", "ntfy">>

\* ServerConfig.Validate: the names of the targets are given and unique.
validateAlertName(targets) ==
    /\ \A i \in DOMAIN targets : targets[i].name # NoName
    /\ \A i, j \in DOMAIN targets : targets[i].name = targets[j].name => i = j

\* At most one target is a buffered ntfy one.  BuildAlerters makes one for each
\* configured entry; they would share nothing.
ASSUME DeliveryAssumption ==
    /\ Targets \in Seq([name : STRING, kind : ToSet(Kinds), enabled : BOOLEAN, url : BOOLEAN])
    /\ validateAlertName(Targets)
    /\ \A i \in DOMAIN Targets : Targets[i].kind = "ntfy" <=> Targets[i].name = Ntfy
    /\ \A names \in Configurations :
            DOMAIN names \subseteq Monitors /\ names \in [DOMAIN names -> SUBSET STRING]
    /\ SuppressWindow \in Nat \ {0}
    /\ DigestEnabled \in BOOLEAN /\ Nackable \in BOOLEAN /\ DurableQueue \in BOOLEAN
    /\ MaxTime \in Nat /\ MaxFaults \in Nat /\ MaxAlerts \in [Configurations -> Nat]

VARIABLES
    now,
    published,  \* the alerts sent to the topic, in order
    pending,    \* deliveries owed, by alert number
    worker,     \* AlerterWorker: the alert in hand and its target loop
    ticker,     \* runDigestLoop: the monitors still to flush in this round
    flush,      \* flushDigestForMonitor as run by each of the two goroutines
    states,     \* BufferedNtfyAlerter.states
    alertNames, \* the configuration, fixed while it runs
    sent,       \* history: what reached its recipients, and the last kind each
                \* monitor's ntfy subscribers got
    took,       \* history: the alerts whose Send returned nil, by target, and the
                \* last status of each monitor that ntfy took
    extra,      \* history: by alert number, broker redeliveries, crashes with the
                \* alert in hand and errors reported for a request that got through
    faults

vars == <<now, alertNames, published, pending, worker, ticker, flush, states,
          sent, took, extra, faults>>
queueVars == <<now, alertNames, published, pending>>

\* The targets that become alerters; their names are unique, and stand for them.
BuildAlerters == {t \in ToSet(Targets) : t.enabled /\ t.url}
Alerters      == {t.name : t \in BuildAlerters}

\* Its sections follow each other by kind, and each is in the order of the file.
Precedes(a, b) ==
    LET Section(i) == CHOOSE k \in DOMAIN Kinds : Kinds[k] = Targets[i].kind
    IN  \E i, j \in DOMAIN Targets :
            /\ Targets[i].name = a /\ Targets[j].name = b
            /\ Section(i) < Section(j) \/ (Section(i) = Section(j) /\ i < j)

Status   == {"down", "degraded", "healthy"}
Flushers == {"worker", "ticker"}
NoState  == [exists |-> FALSE, suppressUntil |-> 0, buffer |-> <<>>, notified |-> FALSE]
NoFlush  == [pc |-> "idle", monitor |-> "", batch |-> {}]
Nothing  == "nothing"
Idle     == [pc |-> "idle", alert |-> 0, todo |-> {}, delivered |-> 0, failed |-> FALSE]

Init ==
    /\ now = 0 /\ published = <<>> /\ pending = <<>>
    /\ worker = Idle /\ ticker = {}
    /\ flush = [p \in Flushers |-> NoFlush]
    /\ states = [m \in Monitors |-> NoState]
    /\ alertNames \in Configurations
    /\ sent = [messages |-> EmptyBag, last |-> [m \in Monitors |-> Nothing]]
    /\ took = [alerts |-> {}, last |-> [m \in Monitors |-> Nothing]]
    /\ extra = <<>> /\ faults = 0

\* A digest is sent by the digest loop, or by a recovery that finds one waiting.
DigestKind(p) == IF p = "ticker" THEN "digest" ELSE "closing"

Sent(to, monitor, kind, alerts) ==
    [messages |-> sent.messages (+) SetToBag({[to |-> to, monitor |-> monitor, kind |-> kind,
                                               alerts |-> alerts]}),
     last     |-> IF to = Ntfy THEN [sent.last EXCEPT ![monitor] = kind] ELSE sent.last]

(***************************************************************************)
(* Around the two goroutines.                                              *)
(***************************************************************************)
Tick == now < MaxTime /\ now' = now + 1
        /\ UNCHANGED <<alertNames, published, pending, worker, ticker, flush, states,
                       sent, took, extra, faults>>

\* Blank names do not count; a list of nothing else is no list.
EffectiveAlertNames(m) == alertNames[m] \ {NoName}

\* The processor's publishAlert, for a monitor it finds; the names travel with the alert.
Publish(m, status) ==
    /\ m \in DOMAIN alertNames
    /\ Len(published) < MaxAlerts[alertNames]
    /\ published' = Append(published, [monitor |-> m, status |-> status,
                                       names |-> EffectiveAlertNames(m)])
    /\ pending' = Append(pending, 1)
    /\ extra' = Append(extra, 0)
    /\ UNCHANGED <<now, alertNames, worker, ticker, flush, states, sent, took, faults>>

\* The broker delivers the alert in hand a second time.
Redeliver ==
    /\ faults < MaxFaults /\ faults' = faults + 1
    /\ worker # Idle
    /\ pending' = [pending EXCEPT ![worker.alert] = @ + 1]
    /\ extra' = [extra EXCEPT ![worker.alert] = @ + 1]
    /\ UNCHANGED <<now, alertNames, published, worker, ticker, flush, states, sent, took>>

\* The process dies and restarts: states, digests and an in-memory queue are gone.
Crash ==
    /\ faults < MaxFaults /\ faults' = faults + 1
    /\ pending' = [n \in DOMAIN pending |->
                    IF ~DurableQueue THEN 0
                    ELSE IF worker.alert = n THEN pending[n] + 1 ELSE pending[n]]
    /\ worker' = Idle /\ ticker' = {}
    /\ flush' = [p \in Flushers |-> NoFlush]
    /\ states' = [m \in Monitors |-> NoState]
    /\ extra' = [n \in DOMAIN extra |-> IF worker.alert = n THEN extra[n] + 1 ELSE extra[n]]
    /\ UNCHANGED <<now, alertNames, published, sent, took>>

(***************************************************************************)
(* AlerterWorker.Start                                                     *)
(***************************************************************************)
selectNamedAlerters(names) ==
    IF names = {} THEN Alerters ELSE Alerters \cap names

\* Mutant: an alert without a target is given back.
Receive_KeepsUntargeted(n) ==
    /\ worker = Idle
    /\ pending[n] > 0
    /\ LET targets == selectNamedAlerters(published[n].names)
       IN  /\ pending' = IF targets = {} THEN pending ELSE [pending EXCEPT ![n] = @ - 1]
           /\ worker' = IF targets = {} THEN Idle
                        ELSE [Idle EXCEPT !.pc = "next", !.alert = n, !.todo = targets]
    /\ UNCHANGED <<now, alertNames, published, ticker, flush, states, sent, took, extra, faults>>

\* An alert without a target is acknowledged at once.
Receive(n) ==
    /\ worker = Idle
    /\ pending[n] > 0
    /\ pending' = [pending EXCEPT ![n] = @ - 1]
    /\ LET targets == selectNamedAlerters(published[n].names)
       IN  worker' = IF targets = {} THEN Idle
                     ELSE [Idle EXCEPT !.pc = "next", !.alert = n, !.todo = targets]
    /\ UNCHANGED <<now, alertNames, published, ticker, flush, states, sent, took, extra, faults>>

Alert == published[worker.alert]

\* The targets of the alert in hand are tried in the order of BuildAlerters.
Turn(a) ==
    /\ worker.pc = "next"
    /\ a \in worker.todo
    /\ \A b \in worker.todo \ {a} : Precedes(a, b)

\* Send returned nil to sendAlertToAlerters.
Delivered(to) ==
    /\ worker' = [worker EXCEPT !.pc = "next", !.todo = @ \ {to}, !.delivered = @ + 1]
    /\ took' = [alerts |-> took.alerts \cup {[alert |-> worker.alert, to |-> to]},
                last   |-> IF to = Ntfy
                           THEN [took.last EXCEPT ![Alert.monitor] = Alert.status]
                           ELSE took.last]

\* Send returned an error.
Failed(to) ==
    /\ worker' = [worker EXCEPT !.pc = "next", !.todo = @ \ {to}, !.failed = TRUE]
    /\ UNCHANGED took

\* A request succeeds, or fails (transport error, 429, any other non-2xx) before
\* or after the recipient got the alert; no error is told from another.
doAlertRequest(to, kind, succeeded) ==
    LET delivered == Sent(to, Alert.monitor, kind, {worker.alert})
    IN  \/ succeeded /\ sent' = delivered /\ UNCHANGED <<extra, faults>>
        \/ /\ ~succeeded
           /\ faults < MaxFaults /\ faults' = faults + 1
           /\ \/ sent' = delivered /\ extra' = [extra EXCEPT ![worker.alert] = @ + 1]
              \/ UNCHANGED <<sent, extra>>

\* Webhook, Slack, Discord and Teams: one request.
SendDirect(a) ==
    /\ a # Ntfy /\ Turn(a)
    /\ \E succeeded \in BOOLEAN :
        /\ doAlertRequest(a, "alert", succeeded)
        /\ IF succeeded THEN Delivered(a) ELSE Failed(a)
    /\ UNCHANGED <<queueVars, ticker, flush, states>>

\* Mutant: any failed target sends the alert back to the queue.
Finish_NackPartial ==
    /\ worker.pc = "next" /\ worker.todo = {}
    /\ pending' = IF worker.failed /\ Nackable
                  THEN [pending EXCEPT ![worker.alert] = @ + 1] ELSE pending
    /\ worker' = Idle
    /\ UNCHANGED <<now, alertNames, published, ticker, flush, states, sent, took, extra, faults>>

\* Mutant: an alert is acknowledged whatever happened to it.
Finish_AlwaysAck ==
    /\ worker.pc = "next" /\ worker.todo = {}
    /\ worker' = Idle
    /\ UNCHANGED <<queueVars, ticker, flush, states, sent, took, extra, faults>>

\* Nack when no target took the alert and the driver can; Ack otherwise.
Finish ==
    /\ worker.pc = "next" /\ worker.todo = {}
    /\ pending' = IF worker.failed /\ worker.delivered = 0 /\ Nackable
                  THEN [pending EXCEPT ![worker.alert] = @ + 1] ELSE pending
    /\ worker' = Idle
    /\ UNCHANGED <<now, alertNames, published, ticker, flush, states, sent, took, extra, faults>>

(***************************************************************************)
(* BufferedNtfyAlerter.Send, run by the worker.                            *)
(***************************************************************************)
State == states[Alert.monitor]

\* First critical section of handleDownAlert; a repeat within the window is
\* dropped and extends the window.
handleDownAlert ==
    /\ Turn(Ntfy) /\ Alert.status = "down"
    /\ states' = [states EXCEPT ![Alert.monitor] =
                    [@ EXCEPT !.exists = TRUE, !.suppressUntil = now + SuppressWindow,
                              !.buffer = <<>>]]
    /\ IF now < State.suppressUntil THEN Delivered(Ntfy)
       ELSE worker' = [worker EXCEPT !.pc = "sendDown"] /\ UNCHANGED took
    /\ UNCHANGED <<queueVars, ticker, flush, sent, extra, faults>>

handleDegradedAlert ==
    /\ Turn(Ntfy) /\ Alert.status = "degraded"
    /\ states' = [states EXCEPT ![Alert.monitor] =
                    [@ EXCEPT !.exists = TRUE,
                              !.buffer = IF DigestEnabled /\ now >= State.suppressUntil
                                         THEN Append(State.buffer, worker.alert)
                                         ELSE State.buffer]]
    /\ Delivered(Ntfy)
    /\ UNCHANGED <<queueVars, ticker, flush, sent, extra, faults>>

\* First critical section of handleHealthyAlert: flush the digest instead, send
\* (an unknown monitor's recovery passes through), or drop the recovery.
handleHealthyAlert ==
    /\ Turn(Ntfy) /\ Alert.status = "healthy"
    /\ \/ /\ State.exists /\ State.buffer # <<>>
          /\ worker' = [worker EXCEPT !.pc = "flushing"]
          /\ UNCHANGED took
       \/ /\ ~State.exists
          /\ worker' = [worker EXCEPT !.pc = "sendUnknown"]
          /\ UNCHANGED took
       \/ /\ State.exists /\ State.buffer = <<>> /\ State.notified
          /\ worker' = [worker EXCEPT !.pc = "sendRecovery"]
          /\ UNCHANGED took
       \/ /\ State.exists /\ State.buffer = <<>> /\ ~State.notified
          /\ Delivered(Ntfy)
    /\ UNCHANGED <<queueVars, ticker, flush, states, sent, extra, faults>>

\* The request that follows; a delivered outage or recovery is noted under the
\* mutex afterwards.
NtfyRequest(pc, kind, next) ==
    /\ worker.pc = pc
    /\ \E succeeded \in BOOLEAN :
        /\ doAlertRequest(Ntfy, kind, succeeded)
        /\ IF ~succeeded THEN Failed(Ntfy)
           ELSE IF next = "next" THEN Delivered(Ntfy)
           ELSE worker' = [worker EXCEPT !.pc = next] /\ UNCHANGED took
    /\ UNCHANGED <<queueVars, ticker, flush, states>>

SendDown     == NtfyRequest("sendDown", "down", "noteDown")
SendRecovery == NtfyRequest("sendRecovery", "recovery", "noteRecovery")
SendUnknown  == NtfyRequest("sendUnknown", "unknown", "next")

\* Mutant: a delivered recovery leaves the flag set.
NoteNotified_Sticky(pc, notified) ==
    /\ worker.pc = pc
    /\ states' = [states EXCEPT ![Alert.monitor].notified = TRUE]
    /\ Delivered(Ntfy)
    /\ UNCHANGED <<queueVars, ticker, flush, sent, extra, faults>>

NoteNotified(pc, notified) ==
    /\ worker.pc = pc
    /\ states' = [states EXCEPT ![Alert.monitor].notified = notified]
    /\ Delivered(Ntfy)
    /\ UNCHANGED <<queueVars, ticker, flush, sent, extra, faults>>

(***************************************************************************)
(* The digest loop, and flushDigestForMonitor of either goroutine.         *)
(***************************************************************************)
\* Mutant: only monitors whose subscribers already heard of a problem are listed.
TickerFires_OnlyNotified ==
    /\ DigestEnabled
    /\ ticker = {} /\ flush["ticker"].pc = "idle"
    /\ ticker' = {m \in Monitors : states[m].exists /\ states[m].notified}
    /\ UNCHANGED <<queueVars, worker, flush, states, sent, took, extra, faults>>

\* flushDigest: the ticker fires and the known monitors are listed.
TickerFires ==
    /\ DigestEnabled
    /\ ticker = {} /\ flush["ticker"].pc = "idle"
    /\ ticker' = {m \in Monitors : states[m].exists}
    /\ UNCHANGED <<queueVars, worker, flush, states, sent, took, extra, faults>>

\* flushDigestForMonitor returns: to the loop, or to the healthy handler, which
\* returns nil whatever came of the digest.
FlushEnds(p) ==
    /\ flush' = [flush EXCEPT ![p] = NoFlush]
    /\ IF p = "worker" THEN Delivered(Ntfy) ELSE UNCHANGED <<worker, took>>

\* First critical section: build the digest from the buffer and empty it.
TakeDigest(p, m) ==
    LET buffer == states[m].buffer
    IN  /\ IF p = "ticker" THEN m \in ticker /\ flush[p] = NoFlush
           ELSE worker.pc = "flushing" /\ flush[p] = NoFlush /\ m = Alert.monitor
        /\ ticker' = IF p = "ticker" THEN ticker \ {m} ELSE ticker
        /\ IF buffer = <<>> THEN FlushEnds(p)
           ELSE /\ flush' = [flush EXCEPT ![p] =
                                [pc |-> "send", monitor |-> m, batch |-> ToSet(buffer)]]
                /\ UNCHANGED <<worker, took>>
        /\ states' = [states EXCEPT ![m].buffer = <<>>]
        /\ UNCHANGED <<queueVars, sent, extra, faults>>

\* The request; when it fails the digest is lost.  The digest loop's has neither a
\* deadline nor a client timeout, and may never return.
SendDigest(p) ==
    LET digest == Sent(Ntfy, flush[p].monitor, DigestKind(p), flush[p].batch)
    IN  /\ flush[p].pc = "send"
        /\ \/ /\ flush' = [flush EXCEPT ![p].pc = "note"]
              /\ sent' = digest
              /\ UNCHANGED <<worker, took, faults>>
           \/ /\ faults < MaxFaults /\ faults' = faults + 1
              /\ FlushEnds(p)
              /\ sent' \in {sent, digest}
        /\ UNCHANGED <<queueVars, ticker, states, extra>>

NoteDigest(p) ==
    /\ flush[p].pc = "note"
    /\ states' = [states EXCEPT ![flush[p].monitor].notified = TRUE]
    /\ FlushEnds(p)
    /\ UNCHANGED <<queueVars, ticker, sent, extra, faults>>

flushDigestForMonitor(p) == (\E m \in Monitors : TakeDigest(p, m)) \/ SendDigest(p) \/ NoteDigest(p)

Work ==
    \/ \E n \in DOMAIN pending : Receive(n)
    \/ \E a \in Alerters : SendDirect(a)
    \/ handleDownAlert \/ handleDegradedAlert \/ handleHealthyAlert
    \/ SendDown \/ SendRecovery \/ SendUnknown
    \/ NoteNotified("noteDown", TRUE) \/ NoteNotified("noteRecovery", FALSE)
    \/ flushDigestForMonitor("worker")
    \/ Finish

DigestLoop ==
    \/ TickerFires
    \/ flushDigestForMonitor("ticker")

Environment ==
    \/ Tick
    \/ \E m \in Monitors, status \in Status : Publish(m, status)
    \/ Redeliver
    \/ Crash

Next == Work \/ DigestLoop \/ Environment

Spec == Init /\ [][Next]_vars

\* The steps of the digest loop that do not wait for a server.
DigestSteps ==
    \/ TickerFires
    \/ \E m \in Monitors : TakeDigest("ticker", m)
    \/ NoteDigest("ticker")

\* Both goroutines are scheduled, the ticker goes on firing, and the worker's
\* requests end with their context (15 s); the digest loop's need not.
FairSpec == Spec /\ WF_vars(Work) /\ WF_vars(DigestSteps)
-----------------------------------------------------------------------------
\* The worker acknowledges an alert for good only when some target took it or
\* none was selected; a total failure sends it back (Nackable, durable queue).
HandledOrOwed ==
    Nackable /\ DurableQueue =>
        \A n \in DOMAIN published :
            pending[n] = 0 /\ worker.alert # n =>
                \/ \E t \in took.alerts : t.alert = n
                \/ selectNamedAlerters(published[n].names) = {}

\* How many times these messages reached their recipients, each copy of a message
\* told from the others by a number.
Copies(messages) == Cardinality(UNION {{s} \X (1 .. sent.messages[s]) : s \in messages})

\* A recipient is told of an alert once: retries after failures of other targets
\* and the two concurrent digest flushes never repeat it.  Only the broker, a
\* crash, or an error for a request that got through makes it come again.
NoRepeatByRetry ==
    \A n \in DOMAIN published, a \in Alerters :
        Copies({s \in DOMAIN sent.messages : s.to = a /\ n \in s.alerts}) <= 1 + extra[n]

SentTo(a, m, kinds) ==
    {s \in DOMAIN sent.messages : s.to = a /\ s.monitor = m /\ s.kind \in kinds}

\* The ntfy target announces no more recoveries of a monitor than problems, with
\* the flag notifiedUnhealthy written by two goroutines outside the request.
\* Recoveries that come again for one of the reasons above are not counted.
RecoveriesAreEarned ==
    \A m \in Monitors :
        Copies({s \in SentTo(Ntfy, m, {"recovery"}) : \A n \in s.alerts : extra[n] = 0})
            <= Copies(SentTo(Ntfy, m, {"down", "digest", "closing"}))

\* A suppressed outage repeats one that was announced: what the test calls
\* "expected 1 sent alert (repeat down suppressed)".
DownIsSent ==
    \A t \in took.alerts :
        t.to = Ntfy /\ published[t.alert].status = "down"
            => SentTo(Ntfy, published[t.alert].monitor, {"down"}) # {}

Quiet ==
    /\ worker = Idle /\ ticker = {} /\ \A p \in Flushers : flush[p] = NoFlush
    /\ \A n \in DOMAIN pending : pending[n] = 0

\* Once everything is delivered, a monitor whose digest went out and whose last
\* alert is a recovery was told so: "expected 2 sent alerts (degraded digest and
\* recovery healthy)".
RecoveryFollowsDigest ==
    Quiet => \A m \in Monitors : took.last[m] = "healthy" => sent.last[m] # "digest"

\* Every alert is eventually dealt with, whatever fails, whatever targets its
\* monitor names, and even when the digest loop hangs in a request.
AlertsDrain == <>[](worker = Idle /\ \A n \in DOMAIN pending : pending[n] = 0)

\* No request of the digest loop hangs for ever.
DigestsReturn == []<>(flush["ticker"].pc # "send")

\* A buffered degradation does not stay in the buffer: a round of the digest loop
\* reaches its monitor, whatever became of the others' digests, unless a recovery
\* or an outage comes first.  A request that hangs ends the rounds of all monitors.
DigestFlushed ==
    DigestsReturn => \A m \in Monitors : states[m].buffer # <<>> ~> states[m].buffer = <<>>
=============================================================================
