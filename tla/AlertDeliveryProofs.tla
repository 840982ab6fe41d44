------------------------- MODULE AlertDeliveryProofs -------------------------
(***************************************************************************)
(* Proofs about AlertDelivery for every list of targets, every selection   *)
(* of them and any number of alerts, failures, redeliveries and crashes.   *)
(***************************************************************************)
EXTENDS AlertDelivery, FiniteSetTheorems, TLAPS

(***************************************************************************)
(* An alert that is not owed any more was taken by a target: what that     *)
(* rests on are the worker's two counters and where its digest flush is.   *)
(***************************************************************************)
Published == [monitor : Monitors, status : Status, names : SUBSET STRING]

QueueInv ==
    /\ alertNames \in Configurations
    /\ published \in Seq(Published)
    /\ pending \in Seq(Nat) /\ Len(pending) = Len(published)

\* `delivered` counts targets that took the alert in hand, and a worker that
\* neither delivered nor failed has a target left to try.
WorkerInv ==
    /\ DOMAIN worker = {"pc", "alert", "todo", "delivered", "failed"}
    /\ worker.delivered \in Nat
    /\ worker.pc = "idle" => worker = Idle
    /\ worker.pc # "idle" =>
        /\ worker.alert \in DOMAIN published
        /\ worker.delivered > 0 => \E t \in took.alerts : t.alert = worker.alert
        /\ worker.delivered = 0 /\ ~worker.failed => worker.todo # {}

\* The worker flushes a digest only within its healthy handler.
FlushInv ==
    /\ DOMAIN flush = Flushers
    /\ \A p \in Flushers : DOMAIN flush[p] = {"pc", "monitor", "batch"}
    /\ flush["worker"].pc # "idle" => worker.pc = "flushing"

DeliveryInv == QueueInv /\ WorkerInv /\ FlushInv /\ HandledOrOwed

\* The worker goes on with the alert in hand.
GoesOn ==
    /\ worker.pc # "idle"
    /\ \/ UNCHANGED <<worker, took>>
       \/ \E to : Delivered(to) \/ Failed(to)
       \/ \E pc \in {"sendDown", "sendRecovery", "sendUnknown", "noteDown", "noteRecovery", "flushing"} :
            worker' = [worker EXCEPT !.pc = pc] /\ UNCHANGED took
    /\ UNCHANGED <<alertNames, published, pending>>

\* Whatever a target answers, the worker keeps count of it.
LEMMA GoesOnKeeps ==
    ASSUME QueueInv, WorkerInv, HandledOrOwed, GoesOn
    PROVE  QueueInv' /\ WorkerInv' /\ HandledOrOwed' /\ worker'.pc # "idle"
<1>1. QueueInv'
  BY DEF QueueInv, GoesOn
<1>2. ASSUME worker'.alert = worker.alert, took.alerts \subseteq took'.alerts PROVE HandledOrOwed'
  BY <1>2 DEF GoesOn, HandledOrOwed
<1>3. /\ DOMAIN worker = {"pc", "alert", "todo", "delivered", "failed"} /\ worker.delivered \in Nat
      /\ worker.alert \in DOMAIN published /\ worker.pc # "idle" /\ published' = published
  BY DEF WorkerInv, GoesOn
<1>4. CASE UNCHANGED <<worker, took>>
  BY <1>1, <1>2, <1>3, <1>4 DEF WorkerInv, Idle
<1>5. ASSUME NEW to, Delivered(to)
      PROVE  QueueInv' /\ WorkerInv' /\ HandledOrOwed' /\ worker'.pc # "idle"
  <2>1. worker' = [worker EXCEPT !.pc = "next", !.todo = worker.todo \ {to},
                                 !.delivered = worker.delivered + 1]
    BY <1>5 DEF Delivered
  <2>2. /\ DOMAIN worker' = DOMAIN worker /\ worker'.pc = "next" /\ worker'.alert = worker.alert
        /\ worker'.delivered = worker.delivered + 1
    BY <1>3, <2>1
  <2>3. took'.alerts = took.alerts \cup {[alert |-> worker.alert, to |-> to]}
    BY <1>5 DEF Delivered
  <2>4. \E t \in took'.alerts : t.alert = worker'.alert
    <3> DEFINE t == [alert |-> worker.alert, to |-> to]
    <3>1. t \in took'.alerts
      BY <2>3
    <3>2. t.alert = worker'.alert
      BY <2>2
    <3> QED
      BY <3>1, <3>2
  <2> QED
    BY <1>1, <1>2, <1>3, <2>2, <2>3, <2>4 DEF WorkerInv
<1>6. ASSUME NEW to, Failed(to)
      PROVE  QueueInv' /\ WorkerInv' /\ HandledOrOwed' /\ worker'.pc # "idle"
  <2>1. /\ worker' = [worker EXCEPT !.pc = "next", !.todo = worker.todo \ {to}, !.failed = TRUE]
        /\ took' = took
    BY <1>6 DEF Failed
  <2>2. /\ DOMAIN worker' = DOMAIN worker /\ worker'.pc = "next" /\ worker'.alert = worker.alert
        /\ worker'.delivered = worker.delivered /\ worker'.failed
    BY <1>3, <2>1
  <2> QED
    BY <1>1, <1>2, <1>3, <2>1, <2>2 DEF WorkerInv
<1>7. ASSUME NEW pc \in {"sendDown", "sendRecovery", "sendUnknown", "noteDown", "noteRecovery",
                         "flushing"},
             worker' = [worker EXCEPT !.pc = pc], took' = took
      PROVE  QueueInv' /\ WorkerInv' /\ HandledOrOwed' /\ worker'.pc # "idle"
  <2>1. /\ DOMAIN worker' = DOMAIN worker /\ worker'.pc = pc /\ worker'.alert = worker.alert
        /\ worker'.delivered = worker.delivered /\ worker'.failed = worker.failed
        /\ worker'.todo = worker.todo
    BY <1>3, <1>7
  <2> QED
    BY <1>1, <1>2, <1>3, <1>7, <2>1 DEF WorkerInv
<1> QED
  BY <1>4, <1>5, <1>6, <1>7 DEF GoesOn

\* A step that leaves the flushes alone and does not leave the healthy handler.
LEMMA FlushKept ==
    ASSUME FlushInv, flush' = flush,
           worker.pc # "flushing" \/ worker' = worker
    PROVE  FlushInv'
BY DEF FlushInv

\* The turns of the targets: the direct ones and the ntfy handlers' requests.
LEMMA TurnsGoOn ==
    ASSUME WorkerInv
    PROVE  /\ \A a : SendDirect(a) => GoesOn /\ flush' = flush /\ worker.pc # "flushing"
           /\ handleDownAlert \/ handleDegradedAlert \/ handleHealthyAlert
                => GoesOn /\ flush' = flush /\ worker.pc # "flushing"
           /\ SendDown \/ SendRecovery \/ SendUnknown
                => GoesOn /\ flush' = flush /\ worker.pc # "flushing"
           /\ NoteNotified("noteDown", TRUE) \/ NoteNotified("noteRecovery", FALSE)
                => GoesOn /\ flush' = flush /\ worker.pc # "flushing"
<1> USE DEF queueVars
<1>1. ASSUME NEW a, SendDirect(a) PROVE GoesOn /\ flush' = flush /\ worker.pc # "flushing"
  <2>1. worker.pc = "next" /\ UNCHANGED <<alertNames, published, pending, flush>>
    BY <1>1 DEF SendDirect, Turn
  <2>2. Delivered(a) \/ Failed(a)
    BY <1>1, Zenon DEF SendDirect
  <2> QED
    BY <2>1, <2>2 DEF GoesOn
<1>2. ASSUME handleDownAlert \/ handleDegradedAlert \/ handleHealthyAlert
      PROVE  GoesOn /\ flush' = flush /\ worker.pc # "flushing"
  <2>1. worker.pc = "next" /\ UNCHANGED <<alertNames, published, pending, flush>>
    BY <1>2 DEF handleDownAlert, handleDegradedAlert, handleHealthyAlert, Turn
  <2>2. \/ Delivered(Ntfy)
        \/ \E pc \in {"sendDown", "sendRecovery", "sendUnknown", "noteDown", "noteRecovery", "flushing"} :
            worker' = [worker EXCEPT !.pc = pc] /\ UNCHANGED took
    BY <1>2 DEF handleDownAlert, handleDegradedAlert, handleHealthyAlert
  <2> QED
    BY <2>1, <2>2 DEF GoesOn
<1>3. ASSUME NEW pc \in {"sendDown", "sendRecovery", "sendUnknown"}, NEW kind,
             NEW next \in {"next", "noteDown", "noteRecovery"}, NtfyRequest(pc, kind, next)
      PROVE  GoesOn /\ flush' = flush /\ worker.pc # "flushing"
  <2>1. worker.pc = pc /\ UNCHANGED <<alertNames, published, pending, flush>>
    BY <1>3 DEF NtfyRequest
  <2>2. Delivered(Ntfy) \/ Failed(Ntfy) \/ (next # "next" /\ worker' = [worker EXCEPT !.pc = next] /\ UNCHANGED took)
    BY <1>3, Zenon DEF NtfyRequest
  <2> QED
    BY <2>1, <2>2 DEF GoesOn
<1>4. ASSUME NEW pc \in {"noteDown", "noteRecovery"}, NEW notified, NoteNotified(pc, notified)
      PROVE  GoesOn /\ flush' = flush /\ worker.pc # "flushing"
  BY <1>4 DEF NoteNotified, GoesOn
<1>5. SendDown \/ SendRecovery \/ SendUnknown
        => GoesOn /\ flush' = flush /\ worker.pc # "flushing"
  BY <1>3 DEF SendDown, SendRecovery, SendUnknown
<1> QED
  BY <1>1, <1>2, <1>4, <1>5

\* A digest flush of either goroutine.
LEMMA FlushSteps ==
    ASSUME DeliveryInv, NEW p \in Flushers, flushDigestForMonitor(p)
    PROVE  DeliveryInv'
<1> USE DEF queueVars
<1>1. QueueInv /\ WorkerInv /\ FlushInv /\ HandledOrOwed
      /\ UNCHANGED <<alertNames, published, pending>>
  BY DEF DeliveryInv, flushDigestForMonitor, TakeDigest, SendDigest, NoteDigest
<1>2. p = "worker" => worker.pc = "flushing"
  BY <1>1 DEF FlushInv, flushDigestForMonitor, TakeDigest, SendDigest, NoteDigest
<1>3. \/ FlushEnds(p)
      \/ /\ UNCHANGED <<worker, took>>
         /\ \E r : flush' = [flush EXCEPT ![p] = r] /\ DOMAIN r = {"pc", "monitor", "batch"}
  <2>1. ASSUME NEW m, TakeDigest(p, m)
        PROVE  \/ FlushEnds(p)
               \/ /\ UNCHANGED <<worker, took>>
                  /\ \E r : flush' = [flush EXCEPT ![p] = r] /\ DOMAIN r = {"pc", "monitor", "batch"}
    <3> DEFINE r == [pc |-> "send", monitor |-> m, batch |-> ToSet(states[m].buffer)]
    <3>1. DOMAIN r = {"pc", "monitor", "batch"}
      OBVIOUS
    <3>2. FlushEnds(p) \/ (flush' = [flush EXCEPT ![p] = r] /\ UNCHANGED <<worker, took>>)
      BY <2>1, Zenon DEF TakeDigest
    <3> QED
      BY <3>1, <3>2, Zenon
  <2>2. ASSUME SendDigest(p)
        PROVE  \/ FlushEnds(p)
               \/ /\ UNCHANGED <<worker, took>>
                  /\ \E r : flush' = [flush EXCEPT ![p] = r] /\ DOMAIN r = {"pc", "monitor", "batch"}
    <3>1. DOMAIN [flush[p] EXCEPT !.pc = "note"] = {"pc", "monitor", "batch"}
      BY <1>1 DEF FlushInv
    <3>2. CASE flush' = [flush EXCEPT ![p].pc = "note"] /\ UNCHANGED <<worker, took>>
      BY <3>1, <3>2
    <3> QED
      BY <2>2, <3>2 DEF SendDigest
  <2>3. NoteDigest(p) => FlushEnds(p)
    BY DEF NoteDigest
  <2> QED
    BY <2>1, <2>2, <2>3 DEF flushDigestForMonitor
<1>4. ASSUME UNCHANGED <<worker, took>> PROVE QueueInv' /\ WorkerInv' /\ HandledOrOwed'
  BY <1>1, <1>4 DEF QueueInv, WorkerInv, HandledOrOwed, Idle
<1>5. CASE FlushEnds(p)
  <2>1. /\ flush' = [flush EXCEPT ![p] = NoFlush]
        /\ DOMAIN NoFlush = {"pc", "monitor", "batch"} /\ NoFlush.pc = "idle"
    BY <1>5 DEF FlushEnds, NoFlush
  <2>2. CASE p = "worker"
    <3>1. GoesOn
      BY <1>1, <1>2, <1>5, <2>2 DEF FlushEnds, GoesOn
    <3>2. FlushInv'
      BY <1>1, <2>1, <2>2 DEF FlushInv, Flushers
    <3> QED
      BY <1>1, <3>1, <3>2, GoesOnKeeps DEF DeliveryInv
  <2>3. CASE p # "worker"
    <3>1. UNCHANGED <<worker, took>>
      BY <1>5, <2>3 DEF FlushEnds
    <3>2. FlushInv'
      BY <1>1, <2>1, <2>3, <3>1 DEF FlushInv, Flushers
    <3> QED
      BY <1>4, <3>1, <3>2 DEF DeliveryInv
  <2> QED
    BY <2>2, <2>3
<1>6. ASSUME UNCHANGED <<worker, took>>,
             NEW r, flush' = [flush EXCEPT ![p] = r], DOMAIN r = {"pc", "monitor", "batch"}
      PROVE  DeliveryInv'
  <2>1. FlushInv'
    BY <1>1, <1>2, <1>6 DEF FlushInv, Flushers
  <2> QED
    BY <1>4, <1>6, <2>1 DEF DeliveryInv
<1> QED
  BY <1>3, <1>5, <1>6

\* Idle is a worker without an alert.
LEMMA IdleWorker ==
    /\ DOMAIN Idle = {"pc", "alert", "todo", "delivered", "failed"}
    /\ Idle.pc = "idle" /\ Idle.alert = 0 /\ Idle.delivered = 0
BY DEF Idle

\* The alert in hand is counted as owed by nobody while the worker has it, and is
\* dealt with or sent back when the worker lets go of it.
LEMMA FinishKeeps ==
    ASSUME DeliveryInv, Finish
    PROVE  DeliveryInv'
<1> DEFINE n == worker.alert
<1>1. QueueInv /\ WorkerInv /\ FlushInv /\ HandledOrOwed
  BY DEF DeliveryInv
<1>2. /\ worker.pc = "next" /\ worker.todo = {} /\ worker' = Idle
      /\ UNCHANGED <<alertNames, published, flush, took>>
      /\ pending' = IF worker.failed /\ worker.delivered = 0 /\ Nackable
                    THEN [pending EXCEPT ![n] = @ + 1] ELSE pending
  BY DEF Finish
<1>3. n \in DOMAIN published /\ worker.delivered \in Nat
      /\ (worker.delivered > 0 => \E t \in took.alerts : t.alert = n)
      /\ ~(worker.delivered = 0 /\ ~worker.failed)
  BY <1>1, <1>2 DEF WorkerInv
<1> HIDE DEF n
<1>4. /\ pending \in Seq(Nat) /\ DOMAIN pending = DOMAIN published
      /\ pending' \in Seq(Nat) /\ Len(pending') = Len(pending)
      /\ \A k \in DOMAIN pending : k # n => pending'[k] = pending[k]
      /\ worker.failed /\ worker.delivered = 0 /\ Nackable => pending'[n] > 0
  BY <1>1, <1>2, <1>3 DEF QueueInv
<1>5. QueueInv'
  BY <1>1, <1>2, <1>4 DEF QueueInv
<1>6. WorkerInv' /\ FlushInv'
  BY <1>1, <1>2, IdleWorker DEF WorkerInv, FlushInv
<1>7. HandledOrOwed'
  <2> SUFFICES ASSUME Nackable, DurableQueue, NEW k \in DOMAIN published, pending'[k] = 0
               PROVE  \/ \E t \in took.alerts : t.alert = k
                      \/ selectNamedAlerters(published[k].names) = {}
    BY <1>2 DEF HandledOrOwed
  <2>1. CASE k = n
    BY <1>3, <1>4, <2>1
  <2>2. CASE k # n
    BY <1>1, <1>4, <2>2 DEF HandledOrOwed, n
  <2> QED
    BY <2>1, <2>2
<1> QED
  BY <1>5, <1>6, <1>7 DEF DeliveryInv

\* An alert is taken from the queue for the targets it selects, or has none.
LEMMA ReceiveKeeps ==
    ASSUME DeliveryInv, NEW n \in DOMAIN pending, Receive(n)
    PROVE  DeliveryInv'
<1> DEFINE targets == selectNamedAlerters(published[n].names)
           taken == [Idle EXCEPT !.pc = "next", !.alert = n, !.todo = targets]
<1>1. QueueInv /\ WorkerInv /\ FlushInv /\ HandledOrOwed
  BY DEF DeliveryInv
<1>2. /\ worker = Idle /\ pending[n] > 0 /\ pending' = [pending EXCEPT ![n] = @ - 1]
      /\ worker' = IF targets = {} THEN Idle ELSE taken
      /\ UNCHANGED <<alertNames, published, flush, took>>
  BY DEF Receive
<1>3. /\ DOMAIN taken = {"pc", "alert", "todo", "delivered", "failed"} /\ taken.pc = "next"
      /\ taken.alert = n /\ taken.delivered = 0 /\ taken.todo = targets
  BY DEF Idle
<1> HIDE DEF taken, targets
<1>4. /\ pending \in Seq(Nat) /\ DOMAIN pending = DOMAIN published
      /\ pending' \in Seq(Nat) /\ Len(pending') = Len(pending)
      /\ \A k \in DOMAIN pending : k # n => pending'[k] = pending[k]
  BY <1>1, <1>2 DEF QueueInv
<1>5. QueueInv'
  BY <1>1, <1>2, <1>4 DEF QueueInv
<1>6. WorkerInv'
  BY <1>2, <1>3, <1>4, IdleWorker DEF WorkerInv
<1>7. FlushInv'
  BY <1>1, <1>2, IdleWorker DEF FlushInv
<1>8. HandledOrOwed'
  <2> SUFFICES ASSUME Nackable, DurableQueue, NEW k \in DOMAIN published, pending'[k] = 0,
                      worker'.alert # k
               PROVE  \/ \E t \in took.alerts : t.alert = k
                      \/ selectNamedAlerters(published[k].names) = {}
    BY <1>2 DEF HandledOrOwed
  <2>1. CASE k = n
    BY <1>2, <1>3, <2>1 DEF targets
  <2>2. CASE k # n
    <3>1. worker.alert # k /\ pending[k] = 0
      BY <1>2, <1>4, <2>2, IdleWorker DEF QueueInv
    <3> QED
      BY <1>1, <3>1 DEF HandledOrOwed
  <2> QED
    BY <2>1, <2>2
<1> QED
  BY <1>5, <1>6, <1>7, <1>8 DEF DeliveryInv

\* The processor sends, the broker redelivers, the process dies.
LEMMA EnvironmentKeeps ==
    ASSUME DeliveryInv, Environment
    PROVE  DeliveryInv'
<1>1. QueueInv /\ WorkerInv /\ FlushInv /\ HandledOrOwed
  BY DEF DeliveryInv
<1>2. CASE Tick
  BY <1>1, <1>2 DEF Tick, DeliveryInv, QueueInv, WorkerInv, FlushInv, HandledOrOwed, Idle
<1>3. ASSUME NEW m \in Monitors, NEW status \in Status, Publish(m, status) PROVE DeliveryInv'
  <2> DEFINE new == [monitor |-> m, status |-> status, names |-> EffectiveAlertNames(m)]
  <2>1. /\ published' = Append(published, new) /\ pending' = Append(pending, 1)
        /\ UNCHANGED <<alertNames, worker, flush, took>>
    BY <1>3 DEF Publish
  <2>2. new \in Published
    <3>1. alertNames \in [DOMAIN alertNames -> SUBSET STRING] /\ m \in DOMAIN alertNames
      BY <1>1, <1>3, DeliveryAssumption DEF QueueInv, Publish
    <3>2. alertNames[m] \in SUBSET STRING
      BY <3>1
    <3> QED
      BY <3>2 DEF Published, EffectiveAlertNames
  <2> HIDE DEF new
  <2>3. /\ published' \in Seq(Published) /\ pending' \in Seq(Nat)
        /\ Len(pending') = Len(published') /\ Len(pending) \in Nat
        /\ DOMAIN published' = 1 .. Len(pending) + 1 /\ DOMAIN published = 1 .. Len(pending)
        /\ \A k \in 1 .. Len(pending) : pending'[k] = pending[k] /\ published'[k] = published[k]
        /\ pending'[Len(pending) + 1] = 1
    BY <1>1, <2>1, <2>2 DEF QueueInv
  <2>4. QueueInv' /\ FlushInv'
    BY <1>1, <2>1, <2>3 DEF QueueInv, FlushInv
  <2>5. WorkerInv'
    BY <1>1, <2>1, <2>3 DEF WorkerInv, Idle
  <2>6. HandledOrOwed'
    <3> SUFFICES ASSUME Nackable, DurableQueue, NEW k \in 1 .. Len(pending) + 1, pending'[k] = 0,
                        worker.alert # k
                 PROVE  \/ \E t \in took.alerts : t.alert = k
                        \/ selectNamedAlerters(published'[k].names) = {}
      BY <2>1, <2>3 DEF HandledOrOwed
    <3>1. k \in DOMAIN published /\ pending[k] = 0 /\ published'[k] = published[k]
      BY <2>3
    <3> QED
      BY <1>1, <3>1 DEF HandledOrOwed
  <2> QED
    BY <2>4, <2>5, <2>6 DEF DeliveryInv
<1>4. ASSUME Redeliver PROVE DeliveryInv'
  <2>1. /\ worker # Idle /\ pending' = [pending EXCEPT ![worker.alert] = @ + 1]
        /\ UNCHANGED <<alertNames, published, worker, flush, took>>
    BY <1>4 DEF Redeliver
  <2>2. worker.alert \in DOMAIN published
    BY <1>1, <2>1 DEF WorkerInv
  <2>3. /\ pending' \in Seq(Nat) /\ Len(pending') = Len(pending)
        /\ DOMAIN published = DOMAIN pending
        /\ \A k \in DOMAIN pending : k # worker.alert => pending'[k] = pending[k]
    BY <1>1, <2>1, <2>2 DEF QueueInv
  <2>4. QueueInv' /\ FlushInv'
    BY <1>1, <2>1, <2>3 DEF QueueInv, FlushInv
  <2>5. WorkerInv'
    BY <1>1, <2>1 DEF WorkerInv, Idle
  <2>6. HandledOrOwed'
    BY <1>1, <2>1, <2>3 DEF HandledOrOwed
  <2> QED
    BY <2>4, <2>5, <2>6 DEF DeliveryInv
<1>5. ASSUME Crash PROVE DeliveryInv'
  <2>1. /\ worker' = Idle /\ flush' = [p \in Flushers |-> NoFlush]
        /\ UNCHANGED <<alertNames, published, took>>
        /\ pending' = [n \in DOMAIN pending |->
                        IF ~DurableQueue THEN 0
                        ELSE IF worker.alert = n THEN pending[n] + 1 ELSE pending[n]]
    BY <1>5 DEF Crash
  <2>2. pending \in Seq(Nat) /\ DOMAIN published = DOMAIN pending /\ Len(pending) \in Nat
    BY <1>1 DEF QueueInv
  <2>3. /\ pending' \in Seq(Nat) /\ Len(pending') = Len(pending)
        /\ DurableQueue => \A k \in DOMAIN pending :
            IF worker.alert = k THEN pending'[k] > 0 ELSE pending'[k] = pending[k]
    <3>1. pending' \in [1 .. Len(pending) -> Nat]
      BY <2>1, <2>2
    <3> QED
      BY <2>1, <2>2, <3>1
  <2>4. QueueInv'
    BY <1>1, <2>1, <2>3 DEF QueueInv
  <2>5. WorkerInv'
    BY <2>1, IdleWorker DEF WorkerInv
  <2>6. FlushInv'
    BY <2>1 DEF FlushInv, NoFlush, Flushers
  <2>7. HandledOrOwed'
    <3> SUFFICES ASSUME Nackable, DurableQueue, NEW k \in DOMAIN published, pending'[k] = 0
                 PROVE  \/ \E t \in took.alerts : t.alert = k
                        \/ selectNamedAlerters(published[k].names) = {}
      BY <2>1 DEF HandledOrOwed
    <3>1. worker.alert # k /\ pending[k] = 0
      BY <2>2, <2>3
    <3> QED
      BY <1>1, <3>1 DEF HandledOrOwed
  <2> QED
    BY <2>4, <2>5, <2>6, <2>7 DEF DeliveryInv
<1> QED
  BY <1>2, <1>3, <1>4, <1>5 DEF Environment

\* Every step keeps the queue, the worker's counters and the alerts owed.
LEMMA DeliveryInvariant == Spec => []DeliveryInv
<1>1. Init => DeliveryInv
  <2> SUFFICES ASSUME Init PROVE DeliveryInv
    OBVIOUS
  <2>1. QueueInv
    BY DEF Init, QueueInv
  <2>2. WorkerInv
    BY IdleWorker DEF Init, WorkerInv
  <2>3. FlushInv
    BY DEF Init, FlushInv, NoFlush, Flushers
  <2>4. HandledOrOwed
    BY DEF Init, HandledOrOwed
  <2> QED
    BY <2>1, <2>2, <2>3, <2>4 DEF DeliveryInv
<1>2. DeliveryInv /\ [Next]_vars => DeliveryInv'
  <2> SUFFICES ASSUME DeliveryInv, [Next]_vars PROVE DeliveryInv'
    OBVIOUS
  <2>1. QueueInv /\ WorkerInv /\ FlushInv /\ HandledOrOwed
    BY DEF DeliveryInv
  <2>2. GoesOn /\ flush' = flush /\ worker.pc # "flushing" => DeliveryInv'
    BY <2>1, GoesOnKeeps, FlushKept DEF DeliveryInv
  <2>3. CASE Work
    <3>1. (\E n \in DOMAIN pending : Receive(n)) \/ Finish => DeliveryInv'
      BY ReceiveKeeps, FinishKeeps
    <3>2. flushDigestForMonitor("worker") => DeliveryInv'
      BY FlushSteps DEF Flushers
    <3>3. (\E a \in Alerters : SendDirect(a)) => DeliveryInv'
      BY <2>1, <2>2, TurnsGoOn
    <3>4. handleDownAlert \/ handleDegradedAlert \/ handleHealthyAlert => DeliveryInv'
      BY <2>1, <2>2, TurnsGoOn
    <3>5. SendDown \/ SendRecovery \/ SendUnknown => DeliveryInv'
      BY <2>1, <2>2, TurnsGoOn
    <3>6. NoteNotified("noteDown", TRUE) \/ NoteNotified("noteRecovery", FALSE) => DeliveryInv'
      BY <2>1, <2>2, TurnsGoOn
    <3> QED
      BY <2>3, <3>1, <3>2, <3>3, <3>4, <3>5, <3>6, Zenon DEF Work
  <2>4. CASE DigestLoop
    <3>1. TickerFires => DeliveryInv'
      BY <2>1 DEF TickerFires, queueVars, DeliveryInv, QueueInv, WorkerInv, FlushInv,
                  HandledOrOwed, Idle
    <3>2. flushDigestForMonitor("ticker") => DeliveryInv'
      BY FlushSteps DEF Flushers
    <3> QED
      BY <2>4, <3>1, <3>2 DEF DigestLoop
  <2>5. CASE Environment
    BY <2>5, EnvironmentKeeps
  <2>6. CASE UNCHANGED vars
    BY <2>1, <2>6 DEF vars, DeliveryInv, QueueInv, WorkerInv, FlushInv, HandledOrOwed, Idle
  <2> QED
    BY <2>3, <2>4, <2>5, <2>6 DEF Next
<1> QED
  BY <1>1, <1>2, PTL DEF Spec

\* sendAlertToAlerters' counts decide between Ack and Nack so that no alert is
\* acknowledged for good that had targets and reached none, whatever fails,
\* comes again or crashes in between.
THEOREM AlertsAreHandled == Spec => []HandledOrOwed
<1>1. DeliveryInv => HandledOrOwed
  BY DEF DeliveryInv
<1> QED
  BY <1>1, DeliveryInvariant, PTL

(***************************************************************************)
(* Two budgets.  What reached a target of an alert, and what the queue,    *)
(* the worker, the buffer and the digests may still send it, are together  *)
(* at most one and the exceptions.  The recoveries announced, the problems *)
(* that none answered yet and the requests that got through but are not    *)
(* noted yet are together at most the problems announced.                  *)
(***************************************************************************)
Count(b) == IF b THEN 1 ELSE 0

Pcs == {"idle", "next", "sendDown", "sendRecovery", "sendUnknown", "noteDown", "noteRecovery",
        "flushing"}

States == [exists : BOOLEAN, suppressUntil : Nat, buffer : Seq(Nat), notified : BOOLEAN]

\* What the variables hold, as far as the budgets below depend on it.
StateInv ==
    /\ now \in Nat
    /\ extra \in Seq(Nat) /\ Len(extra) = Len(published)
    /\ states \in [Monitors -> States]
    /\ \A m \in Monitors : \A n \in ToSet(states[m].buffer) :
            n \in DOMAIN published /\ published[n].monitor = m
    /\ flush \in [Flushers -> [pc : {"idle", "send", "note"}, monitor : Monitors \cup {""},
                               batch : SUBSET (DOMAIN published)]]
    /\ worker.pc \in Pcs
    /\ worker.pc \notin {"idle", "next"} => Ntfy \in worker.todo

\* The messages that got through are copies of published alerts.
MessagesInv ==
    /\ IsFiniteSet(DOMAIN sent.messages)
    /\ \A s \in DOMAIN sent.messages :
            sent.messages[s] \in Nat /\ s.alerts \subseteq DOMAIN published

\* The two critical sections that follow a delivered request of the worker.
Notes == {"noteDown", "noteRecovery"}

\* The alert in hand may still be sent to the target: its turn is to come, or
\* the alert goes back to the queue because no target took it.
InHand(n, a) ==
    /\ worker.pc # "idle" /\ worker.alert = n
    /\ worker.delivered = 0 \/ a \in worker.todo
    /\ a = Ntfy => worker.pc \notin Notes

\* The alert waits for a digest, or is part of one whose request is to come.
Buffered(n, a)    == a = Ntfy /\ n \in ToSet(states[published[n].monitor].buffer)
Digested(p, n, a) == a = Ntfy /\ flush[p].pc = "send" /\ n \in flush[p].batch

\* How often the alert may still come to the target by what the system holds.
Chances(n, a) ==
    pending[n] + Count(InHand(n, a)) + Count(Buffered(n, a))
        + Count(Digested("worker", n, a)) + Count(Digested("ticker", n, a))

Repeats(n, a) == Copies({s \in DOMAIN sent.messages : s.to = a /\ n \in s.alerts})

RepeatBudget ==
    \A n \in DOMAIN published, a \in Alerters :
        Repeats(n, a) + Chances(n, a) <= 1 + extra[n]

Problems(m)   == Copies(SentTo(Ntfy, m, {"down", "digest", "closing"}))
Recoveries(m) == Copies({s \in SentTo(Ntfy, m, {"recovery"}) : \A n \in s.alerts : extra[n] = 0})

\* The worker notes a delivered outage or recovery of the monitor, or a goroutine
\* notes a delivered digest.
Noting(pc, m)   == worker.pc = pc /\ Alert.monitor = m
NotingOf(p, m)  == flush[p].pc = "note" /\ flush[p].monitor = m

\* Problems announced that no recovery has answered, and the requests not noted yet.
Open(m) ==
    Count(states[m].notified /\ ~Noting("noteRecovery", m)) + Count(Noting("noteDown", m))
        + Count(NotingOf("worker", m)) + Count(NotingOf("ticker", m))

RecoveryBudget ==
    \A m \in Monitors :
        /\ Recoveries(m) + Open(m) <= Problems(m)
        /\ Noting("sendRecovery", m) => states[m].notified

BudgetInv == StateInv /\ MessagesInv /\ RepeatBudget /\ RecoveryBudget

FlushStates(messages) == [pc : {"idle", "send", "note"}, monitor : Monitors \cup {""},
                          batch : SUBSET messages]

\* The three values of the worker's pc that the recovery budget looks at.
Marks == Notes \cup {"sendRecovery"}

(***************************************************************************)
(* Counting copies.  The history `sent.messages` is a bag; the copies of   *)
(* some of its messages are numbered, and adding one adds a number.     *)
(***************************************************************************)
Numbered(bag, messages) == UNION {{s} \X (1 .. bag[s]) : s \in messages}

\* Finitely many messages have finitely many copies, and fewer messages fewer copies.
LEMMA CopiesAreFinite ==
    ASSUME NEW bag, NEW T, IsFiniteSet(T), \A s \in T : bag[s] \in Nat
    PROVE  /\ IsFiniteSet(Numbered(bag, T))
           /\ Cardinality(Numbered(bag, T)) \in Nat
           /\ \A U \in SUBSET T : Cardinality(Numbered(bag, U)) <= Cardinality(Numbered(bag, T))
<1> DEFINE copies == [s \in T |-> {s} \X (1 .. bag[s])]
           all    == {copies[s] : s \in T}
<1>1. IsFiniteSet(all)
  <2>1. copies \in Surjection(T, all)
    BY DEF Surjection
  <2> HIDE DEF copies, all
  <2> QED
    BY <2>1, FS_Surjection
<1>2. \A c \in all : IsFiniteSet(c)
  <2> SUFFICES ASSUME NEW s \in T PROVE IsFiniteSet({s} \X (1 .. bag[s]))
    OBVIOUS
  <2>1. IsFiniteSet({s}) /\ IsFiniteSet(1 .. bag[s])
    <3>1. 1 \in Int /\ bag[s] \in Int
      OBVIOUS
    <3> QED
      BY <3>1, FS_Singleton, FS_Interval
  <2> QED
    BY <2>1, FS_Product
<1>3. Numbered(bag, T) = UNION all
  BY DEF Numbered
<1>4. IsFiniteSet(Numbered(bag, T))
  <2> HIDE DEF all
  <2> QED
    BY <1>1, <1>2, <1>3, FS_UNION
<1>5. \A U \in SUBSET T : Numbered(bag, U) \subseteq Numbered(bag, T)
  BY DEF Numbered
<1> QED
  BY <1>4, <1>5, FS_Subset, FS_CardinalityType

\* Adding gives one more copy to the messages that include the added one, and
\* nothing to the others.
LEMMA OneMoreCopy ==
    ASSUME NEW bag, IsFiniteSet(DOMAIN bag), \A s \in DOMAIN bag : bag[s] \in Nat, NEW x
    PROVE  /\ DOMAIN (bag (+) SetToBag({x})) = DOMAIN bag \cup {x}
           /\ IsFiniteSet(DOMAIN (bag (+) SetToBag({x})))
           /\ \A s \in DOMAIN (bag (+) SetToBag({x})) : (bag (+) SetToBag({x}))[s] \in Nat
           /\ \A T \in SUBSET (DOMAIN bag) :
                /\ x \notin T => Numbered((bag (+) SetToBag({x})), T) = Numbered(bag, T)
                /\ (x \in DOMAIN bag => x \in T) =>
                        Cardinality(Numbered((bag (+) SetToBag({x})), T \cup {x}))
                            = Cardinality(Numbered(bag, T)) + 1
<1> DEFINE more == (bag (+) SetToBag({x}))
           last == IF x \in DOMAIN bag THEN bag[x] + 1 ELSE 1
<1>1. /\ DOMAIN more = DOMAIN bag \cup {x}
      /\ \A s \in DOMAIN bag : s # x => more[s] = bag[s]
      /\ more[x] = last
  BY DEF (+), SetToBag
<1>2. IsFiniteSet(DOMAIN more)
  BY <1>1, FS_AddElement
<1>3. \A s \in DOMAIN more : more[s] \in Nat
  BY <1>1
<1>4. ASSUME NEW T \in SUBSET (DOMAIN bag), x \notin T
      PROVE  Numbered(more, T) = Numbered(bag, T)
  <2>1. \A s \in T : more[s] = bag[s]
    BY <1>1, <1>4
  <2> HIDE DEF more
  <2> QED
    BY <2>1 DEF Numbered
<1>5. ASSUME NEW T \in SUBSET (DOMAIN bag), x \in DOMAIN bag => x \in T
      PROVE  Cardinality(Numbered(more, T \cup {x})) = Cardinality(Numbered(bag, T)) + 1
  <2>1. \A p : p \in Numbered(more, T \cup {x})
                <=> \E s \in T \cup {x} : \E i \in 1 .. more[s] : p = <<s, i>>
    BY DEF Numbered
  <2>2. \A p : p \in Numbered(bag, T) <=> \E s \in T : \E i \in 1 .. bag[s] : p = <<s, i>>
    BY DEF Numbered
  <2>3. last \in Nat /\ last >= 1 /\ (x \in T => last = bag[x] + 1) /\ (x \notin T => last = 1)
    BY <1>5
  <2> HIDE DEF more, last
  <2>4. <<x, last>> \notin Numbered(bag, T)
    BY <2>2, <2>3
  <2>5. Numbered(more, T \cup {x}) = Numbered(bag, T) \cup {<<x, last>>}
    <3>1. ASSUME NEW s \in T \cup {x}, NEW i \in 1 .. more[s]
          PROVE  <<s, i>> \in Numbered(bag, T) \cup {<<x, last>>}
      <4>1. CASE s # x
        BY <1>1, <2>2, <4>1
      <4>2. CASE s = x /\ i = last
        BY <4>2
      <4>3. CASE s = x /\ i # last
        <5>1. x \in T /\ i \in 1 .. bag[x]
          BY <1>1, <2>3, <4>3
        <5> QED
          BY <2>2, <4>3, <5>1
      <4> QED
        BY <4>1, <4>2, <4>3
    <3>2. ASSUME NEW s \in T, NEW i \in 1 .. bag[s]
          PROVE  <<s, i>> \in Numbered(more, T \cup {x})
      <4>1. i \in 1 .. more[s]
        BY <1>1, <2>3
      <4> QED
        BY <2>1, <4>1
    <3>3. <<x, last>> \in Numbered(more, T \cup {x})
      <4>1. x \in T \cup {x} /\ last \in 1 .. more[x]
        BY <1>1, <2>3
      <4> QED
        BY <2>1, <4>1
    <3> QED
      BY <2>1, <2>2, <3>1, <3>2, <3>3
  <2>6. IsFiniteSet(Numbered(bag, T))
    <3>1. IsFiniteSet(T) /\ \A s \in T : bag[s] \in Nat
      BY FS_Subset
    <3> QED
      BY <3>1, CopiesAreFinite
  <2> QED
    BY <2>4, <2>5, <2>6, FS_AddElement
<1> QED
  BY <1>1, <1>2, <1>3, <1>4, <1>5

\* A message that gets through adds one copy to the counts it belongs to, while
\* a redelivery or an error takes recoveries out of account.
LEMMA SendCounts ==
    ASSUME MessagesInv, NEW to, NEW monitor, NEW kind, NEW alerts \in SUBSET (DOMAIN published),
           sent' = Sent(to, monitor, kind, alerts),
           DOMAIN published \subseteq DOMAIN published',
           \A n \in DOMAIN published : extra[n] \in Nat /\ extra'[n] \in Nat /\ extra[n] <= extra'[n]
    PROVE  /\ MessagesInv'
           /\ \A n, a : Repeats(n, a)' = Repeats(n, a) + Count(to = a /\ n \in alerts)
           /\ \A m : Problems(m)' = Problems(m)
                        + Count(to = Ntfy /\ monitor = m /\ kind \in {"down", "digest", "closing"})
           /\ \A m : Recoveries(m)' <= Recoveries(m)
                        + Count(to = Ntfy /\ monitor = m /\ kind = "recovery"
                                    /\ \A n \in alerts : extra'[n] = 0)
<1> DEFINE x    == [to |-> to, monitor |-> monitor, kind |-> kind, alerts |-> alerts]
           bag  == sent.messages
           more == bag (+) SetToBag({x})
           Before(T) == Cardinality(Numbered(bag, T))
           After(T)  == Cardinality(Numbered(more, T))
<1>1. sent'.messages = more
  BY DEF Sent
<1>2. x.to = to /\ x.monitor = monitor /\ x.kind = kind /\ x.alerts = alerts
  OBVIOUS
<1>3. IsFiniteSet(DOMAIN bag) /\ \A s \in DOMAIN bag : bag[s] \in Nat /\ s.alerts \subseteq DOMAIN published
  BY DEF MessagesInv
<1> HIDE DEF x
<1>4. /\ DOMAIN more = DOMAIN bag \cup {x}
      /\ IsFiniteSet(DOMAIN more)
      /\ \A s \in DOMAIN more : more[s] \in Nat
      /\ \A T \in SUBSET (DOMAIN bag) :
            /\ x \notin T => Numbered(more, T) = Numbered(bag, T)
            /\ (x \in DOMAIN bag => x \in T) =>
                    After(T \cup {x}) = Before(T) + 1
  BY <1>3, OneMoreCopy
<1> HIDE DEF more, bag
<1>5. MessagesInv'
  <2>1. \A s \in DOMAIN more : s.alerts \subseteq DOMAIN published'
    BY <1>2, <1>3, <1>4
  <2> QED
    BY <1>1, <1>4, <2>1 DEF MessagesInv
<1>6. ASSUME NEW T \in SUBSET (DOMAIN bag)
      PROVE  Before(T) \in Nat /\ \A W \in SUBSET T : Before(W) <= Before(T)
  <2>1. IsFiniteSet(T) /\ \A s \in T : bag[s] \in Nat
    BY <1>3, FS_Subset
  <2> QED
    BY <2>1, CopiesAreFinite
<1>7. ASSUME NEW T \in SUBSET (DOMAIN bag), NEW U \in SUBSET (DOMAIN more),
             \A s \in DOMAIN bag : s \in U <=> s \in T
      PROVE  After(U) = Before(T) + Count(x \in U)
  <2>2. Before(T) \in Nat
    BY <1>6
  <2>3. CASE x \in U
    <3>1. U = T \cup {x} /\ (x \in DOMAIN bag => x \in T)
      BY <1>4, <1>7, <2>3
    <3> QED
      BY <1>4, <1>6, <2>3, <3>1 DEF Count
  <2>4. CASE x \notin U
    <3>1. U = T /\ x \notin T
      BY <1>4, <1>7, <2>4
    <3>2. After(T) = Before(T)
      BY <1>4, <3>1
    <3>3. Count(x \in U) = 0
      BY <2>4 DEF Count
    <3> HIDE DEF Before, After
    <3> QED
      BY <2>2, <3>1, <3>2, <3>3
  <2> QED
    BY <2>3, <2>4
<1>8. ASSUME NEW n, NEW a PROVE Repeats(n, a)' = Repeats(n, a) + Count(to = a /\ n \in alerts)
  <2> DEFINE T == {s \in DOMAIN bag : s.to = a /\ n \in s.alerts}
             U == {s \in DOMAIN more : s.to = a /\ n \in s.alerts}
  <2>1. After(U) = Before(T) + Count(x \in U)
    <3>1. \A s \in DOMAIN bag : s \in U <=> s \in T
      BY <1>4
    <3> HIDE DEF T, U
    <3>2. T \in SUBSET (DOMAIN bag) /\ U \in SUBSET (DOMAIN more)
      BY DEF T, U
    <3> QED
      BY <1>7, <3>1, <3>2
  <2>2. x \in U <=> to = a /\ n \in alerts
    BY <1>2, <1>4
  <2>3. Repeats(n, a) = Before(T) /\ Repeats(n, a)' = After(U)
    BY <1>1 DEF Repeats, Copies, Numbered, bag
  <2> HIDE DEF T, U
  <2> QED
    BY <2>1, <2>2, <2>3 DEF Count
<1>9. ASSUME NEW m
      PROVE  Problems(m)' = Problems(m)
                + Count(to = Ntfy /\ monitor = m /\ kind \in {"down", "digest", "closing"})
  <2> DEFINE P(s) == s.to = Ntfy /\ s.monitor = m /\ s.kind \in {"down", "digest", "closing"}
             T    == {s \in DOMAIN bag : P(s)}
             U    == {s \in DOMAIN more : P(s)}
  <2>1. After(U) = Before(T) + Count(x \in U)
    <3>1. \A s \in DOMAIN bag : s \in U <=> s \in T
      BY <1>4
    <3> HIDE DEF T, U
    <3>2. T \in SUBSET (DOMAIN bag) /\ U \in SUBSET (DOMAIN more)
      BY DEF T, U
    <3> QED
      BY <1>7, <3>1, <3>2
  <2>2. x \in U <=> to = Ntfy /\ monitor = m /\ kind \in {"down", "digest", "closing"}
    BY <1>2, <1>4
  <2>3. Problems(m) = Before(T) /\ Problems(m)' = After(U)
    BY <1>1 DEF Problems, SentTo, Copies, Numbered, bag
  <2> HIDE DEF T, U
  <2> QED
    BY <2>1, <2>2, <2>3 DEF Count
<1>10. ASSUME NEW m
       PROVE  Recoveries(m)' <= Recoveries(m)
                + Count(to = Ntfy /\ monitor = m /\ kind = "recovery" /\ \A n \in alerts : extra'[n] = 0)
  <2> DEFINE P(s) == s.to = Ntfy /\ s.monitor = m /\ s.kind \in {"recovery"}
             T    == {s \in DOMAIN bag : P(s) /\ \A n \in s.alerts : extra[n] = 0}
             V    == {s \in DOMAIN more : P(s) /\ \A n \in s.alerts : extra'[n] = 0}
  <2>1. Recoveries(m) = Before(T) /\ Recoveries(m)' = After(V)
    BY <1>1 DEF Recoveries, SentTo, Copies, Numbered, bag
  <2>2. \A s \in DOMAIN bag : s \in V => s \in T
    <3> SUFFICES ASSUME NEW s \in DOMAIN bag, P(s), NEW n \in s.alerts, extra'[n] = 0
                 PROVE  extra[n] = 0
      BY <1>4
    <3>1. n \in DOMAIN published
      BY <1>3
    <3> QED
      BY <3>1
  <2>3. x \in V <=> to = Ntfy /\ monitor = m /\ kind = "recovery" /\ \A n \in alerts : extra'[n] = 0
    BY <1>2, <1>4
  <2> HIDE DEF P
  <2>4. T \in SUBSET (DOMAIN bag) /\ V \in SUBSET (DOMAIN more)
    OBVIOUS
  <2> HIDE DEF T, V
  <2>5. After(V) \in Nat
    <3>1. IsFiniteSet(V) /\ \A s \in V : more[s] \in Nat
      BY <1>4, <2>4, FS_Subset
    <3> QED
      BY <3>1, CopiesAreFinite
  <2>6. Before(T) \in Nat /\ \A W \in SUBSET T : Before(W) <= Before(T)
    BY <1>6, <2>4
  <2>7. CASE x \in V
    <3>1. V \subseteq T \cup {x} /\ (x \in DOMAIN bag => x \in T)
      BY <1>4, <2>2, <2>4, <2>7
    <3>2. After(T \cup {x}) = Before(T) + 1
      BY <1>4, <2>4, <3>1
    <3>3. IsFiniteSet(T \cup {x}) /\ \A s \in T \cup {x} : more[s] \in Nat
      <4>1. T \cup {x} \subseteq DOMAIN more
        BY <1>4, <2>4
      <4> QED
        BY <1>4, <4>1, FS_Subset
    <3>4. After(V) <= After(T \cup {x})
      BY <3>1, <3>3, CopiesAreFinite
    <3> QED
      BY <2>1, <2>3, <2>5, <2>6, <2>7, <3>2, <3>4 DEF Count
  <2>8. CASE x \notin V
    <3>1. V \subseteq T /\ V \in SUBSET (DOMAIN bag)
      BY <1>4, <2>2, <2>4, <2>8
    <3>2. After(V) = Before(V)
      BY <1>4, <2>8, <3>1
    <3> QED
      BY <2>1, <2>3, <2>5, <2>6, <2>8, <3>1, <3>2 DEF Count
  <2> QED
    BY <2>7, <2>8
<1> QED
  BY <1>5, <1>8, <1>9, <1>10

\* Without a message every count stays, but for recoveries that are taken out of
\* account.
LEMMA QuietCounts ==
    ASSUME MessagesInv, sent'.messages = sent.messages,
           DOMAIN published \subseteq DOMAIN published',
           \A n \in DOMAIN published : extra[n] \in Nat /\ extra'[n] \in Nat /\ extra[n] <= extra'[n]
    PROVE  /\ MessagesInv'
           /\ \A n, a : Repeats(n, a)' = Repeats(n, a)
           /\ \A m : Problems(m)' = Problems(m)
           /\ \A m : Recoveries(m)' <= Recoveries(m)
<1> DEFINE bag == sent.messages
<1>1. IsFiniteSet(DOMAIN bag) /\ \A s \in DOMAIN bag : bag[s] \in Nat /\ s.alerts \subseteq DOMAIN published
  BY DEF MessagesInv
<1>2. MessagesInv'
  BY <1>1 DEF MessagesInv
<1>3. \A n, a : Repeats(n, a)' = Repeats(n, a)
  BY DEF Repeats, Copies
<1>4. \A m : Problems(m)' = Problems(m)
  BY DEF Problems, Copies, SentTo
<1>5. ASSUME NEW m PROVE Recoveries(m)' <= Recoveries(m)
  <2> DEFINE P(s) == s.to = Ntfy /\ s.monitor = m /\ s.kind \in {"recovery"}
             T    == {s \in DOMAIN bag : P(s) /\ \A n \in s.alerts : extra[n] = 0}
             U    == {s \in DOMAIN bag : P(s) /\ \A n \in s.alerts : extra'[n] = 0}
  <2>1. /\ Recoveries(m) = Cardinality(Numbered(bag, T))
        /\ Recoveries(m)' = Cardinality(Numbered(bag, U))
    BY DEF Recoveries, SentTo, Copies, Numbered
  <2>2. U \subseteq T
    <3> SUFFICES ASSUME NEW s \in DOMAIN bag, NEW n \in s.alerts, extra'[n] = 0 PROVE extra[n] = 0
      OBVIOUS
    <3>1. n \in DOMAIN published
      BY <1>1
    <3> QED
      BY <3>1
  <2>3. IsFiniteSet(T) /\ \A s \in T : bag[s] \in Nat
    <3>1. T \subseteq DOMAIN bag
      OBVIOUS
    <3> HIDE DEF T
    <3> QED
      BY <1>1, <3>1, FS_Subset
  <2> HIDE DEF T, U, bag
  <2> QED
    BY <2>1, <2>2, <2>3, CopiesAreFinite
<1> QED
  BY <1>2, <1>3, <1>4, <1>5

\* The counts are numbers, now and in the next state.
LEMMA CountsAreNumbers ==
    /\ MessagesInv => /\ \A n, a : Repeats(n, a) \in Nat
                      /\ \A m : Problems(m) \in Nat /\ Recoveries(m) \in Nat
    /\ MessagesInv' => /\ \A n, a : Repeats(n, a)' \in Nat
                       /\ \A m : Problems(m)' \in Nat /\ Recoveries(m)' \in Nat
<1>1. ASSUME NEW bag, IsFiniteSet(DOMAIN bag), \A s \in DOMAIN bag : bag[s] \in Nat,
             NEW T \in SUBSET (DOMAIN bag)
      PROVE  Cardinality(Numbered(bag, T)) \in Nat
  <2>1. IsFiniteSet(T) /\ \A s \in T : bag[s] \in Nat
    BY <1>1, FS_Subset
  <2> QED
    BY <2>1, CopiesAreFinite
<1> HIDE DEF Numbered
<1>2. ASSUME MessagesInv
      PROVE  /\ \A n, a : Repeats(n, a) \in Nat
             /\ \A m : Problems(m) \in Nat /\ Recoveries(m) \in Nat
  <2>1. ASSUME NEW T \in SUBSET (DOMAIN sent.messages) PROVE Copies(T) \in Nat
    <3>1. Copies(T) = Cardinality(Numbered(sent.messages, T))
      BY DEF Copies, Numbered
    <3> QED
      BY <1>1, <1>2, <3>1 DEF MessagesInv
  <2> QED
    BY <2>1 DEF Repeats, Problems, Recoveries, SentTo
<1>3. ASSUME MessagesInv'
      PROVE  /\ \A n, a : Repeats(n, a)' \in Nat
             /\ \A m : Problems(m)' \in Nat /\ Recoveries(m)' \in Nat
  <2>1. ASSUME NEW T \in SUBSET (DOMAIN sent'.messages)
        PROVE  Cardinality(UNION {{s} \X (1 .. sent'.messages[s]) : s \in T}) \in Nat
    <3>1. Cardinality(Numbered(sent'.messages, T)) \in Nat
      BY <1>1, <1>3 DEF MessagesInv
    <3> QED
      BY <3>1 DEF Numbered
  <2> QED
    BY <2>1 DEF Repeats, Problems, Recoveries, SentTo, Copies
<1> QED
  BY <1>2, <1>3

\* What the worker has in hand for a target shrinks as it goes on.
LEMMA WorkerMoves ==
    ASSUME WorkerInv, worker.pc # "idle"
    PROVE  /\ \A to : Delivered(to) =>
                /\ worker'.pc = "next" /\ worker'.alert = worker.alert
                /\ (worker.pc \in Notes => to = Ntfy) =>
                        \A n, a : InHand(n, a)' => InHand(n, a) /\ a # to
           /\ \A to : Failed(to) =>
                /\ worker'.pc = "next" /\ worker'.alert = worker.alert
                /\ worker.pc \notin Notes => \A n, a : InHand(n, a)' => InHand(n, a)
           /\ \A pc \in Pcs \ {"idle"} : worker' = [worker EXCEPT !.pc = pc] =>
                /\ worker'.pc = pc /\ worker'.alert = worker.alert /\ worker'.todo = worker.todo
                /\ worker.pc \notin Notes =>
                        \A n, a : InHand(n, a)' => InHand(n, a) /\ (pc \in Notes => a # Ntfy)
<1>1. DOMAIN worker = {"pc", "alert", "todo", "delivered", "failed"} /\ worker.delivered \in Nat
  BY DEF WorkerInv
<1>2. ASSUME NEW to, Delivered(to)
      PROVE  /\ worker'.pc = "next" /\ worker'.alert = worker.alert
             /\ (worker.pc \in Notes => to = Ntfy) =>
                    \A n, a : InHand(n, a)' => InHand(n, a) /\ a # to
  <2>1. worker' = [worker EXCEPT !.pc = "next", !.todo = worker.todo \ {to},
                                 !.delivered = worker.delivered + 1]
    BY <1>2 DEF Delivered
  <2>2. /\ worker'.pc = "next" /\ worker'.alert = worker.alert
        /\ worker'.todo = worker.todo \ {to} /\ worker'.delivered = worker.delivered + 1
    BY <1>1, <2>1
  <2> QED
    BY <1>1, <2>2 DEF InHand, Notes
<1>3. ASSUME NEW to, Failed(to)
      PROVE  /\ worker'.pc = "next" /\ worker'.alert = worker.alert
             /\ worker.pc \notin Notes => \A n, a : InHand(n, a)' => InHand(n, a)
  <2>1. worker' = [worker EXCEPT !.pc = "next", !.todo = worker.todo \ {to}, !.failed = TRUE]
    BY <1>3 DEF Failed
  <2>2. /\ worker'.pc = "next" /\ worker'.alert = worker.alert
        /\ worker'.todo = worker.todo \ {to} /\ worker'.delivered = worker.delivered
    BY <1>1, <2>1
  <2> QED
    BY <2>2 DEF InHand, Notes
<1>4. ASSUME NEW pc \in Pcs \ {"idle"}, worker' = [worker EXCEPT !.pc = pc]
      PROVE  /\ worker'.pc = pc /\ worker'.alert = worker.alert /\ worker'.todo = worker.todo
             /\ worker.pc \notin Notes =>
                    \A n, a : InHand(n, a)' => InHand(n, a) /\ (pc \in Notes => a # Ntfy)
  <2>1. /\ worker'.pc = pc /\ worker'.alert = worker.alert
        /\ worker'.todo = worker.todo /\ worker'.delivered = worker.delivered
    BY <1>1, <1>4
  <2> QED
    BY <2>1 DEF InHand, Notes
<1> QED
  BY <1>2, <1>3, <1>4

\* Every published alert has its entry in the queue and in the history.
LEMMA HistoriesMatch ==
    ASSUME StateInv, QueueInv
    PROVE  /\ extra \in Seq(Nat) /\ DOMAIN extra = DOMAIN published
           /\ pending \in Seq(Nat) /\ DOMAIN pending = DOMAIN published
           /\ \A n \in DOMAIN published : extra[n] \in Nat /\ pending[n] \in Nat
<1>1. /\ extra \in Seq(Nat) /\ pending \in Seq(Nat) /\ published \in Seq(Published)
      /\ Len(extra) = Len(published) /\ Len(pending) = Len(published)
  BY DEF StateInv, QueueInv
<1> HIDE DEF Published
<1> QED
  BY <1>1

\* Every published alert is about a monitor.
LEMMA AlertsHaveMonitors ==
    ASSUME QueueInv
    PROVE  \A n \in DOMAIN published : n \in Nat /\ published[n].monitor \in Monitors
<1>1. published \in Seq(Published)
  BY DEF QueueInv
<1>2. \A n \in DOMAIN published : n \in Nat /\ published[n] \in Published
  <2> HIDE DEF Published
  <2> QED
    BY <1>1
<1>3. \A x \in Published : x.monitor \in Monitors
  BY DEF Published
<1> QED
  BY <1>2, <1>3

\* The records of BufferedNtfyAlerter.states.
LEMMA OneStateChanges ==
    ASSUME NEW S, states \in [Monitors -> S], NEW m0 \in Monitors, NEW new \in S,
           states' = [states EXCEPT ![m0] = new]
    PROVE  /\ states' \in [Monitors -> S]
           /\ states'[m0] = new
           /\ \A m \in Monitors \ {m0} : states'[m] = states[m]
OBVIOUS

\* A request uses up the chance of its alert and target, whether the recipient got
\* it or not; an error for a request that got through is one of the exceptions.
LEMMA RequestKeeps ==
    ASSUME DeliveryInv, BudgetInv,
           NEW to \in worker.todo, NEW kind, NEW succeeded \in BOOLEAN,
           NEW next \in {"next"} \cup Notes,
           worker.pc \notin {"idle"} \cup Notes,
           doAlertRequest(to, kind, succeeded),
           IF ~succeeded THEN Failed(to)
           ELSE IF next = "next" THEN Delivered(to)
           ELSE to = Ntfy /\ worker' = [worker EXCEPT !.pc = next],
           kind = "recovery" => worker.pc = "sendRecovery" /\ next = "noteRecovery",
           next = "noteDown" => kind = "down",
           UNCHANGED <<queueVars, ticker, flush, states>>
    PROVE  BudgetInv'
<1> USE DEF queueVars
<1> DEFINE k       == worker.alert
           m0      == Alert.monitor
<1>1. /\ QueueInv /\ WorkerInv /\ FlushInv /\ k \in DOMAIN published
      /\ StateInv /\ MessagesInv /\ RepeatBudget /\ RecoveryBudget
  BY DEF DeliveryInv, BudgetInv, WorkerInv
<1>2. /\ extra \in Seq(Nat) /\ DOMAIN extra = DOMAIN published /\ DOMAIN pending = DOMAIN published
      /\ \A n \in DOMAIN published : extra[n] \in Nat /\ pending[n] \in Nat
  BY <1>1, HistoriesMatch
<1>3. PICK through \in BOOLEAN :
        /\ through => sent' = Sent(to, m0, kind, {k})
        /\ ~through => sent' = sent /\ ~succeeded
        /\ extra' = IF through /\ ~succeeded THEN [extra EXCEPT ![k] = extra[k] + 1] ELSE extra
  <2>1. CASE succeeded
    <3>1. sent' = Sent(to, m0, kind, {k}) /\ extra' = extra
      BY <2>1 DEF doAlertRequest
    <3> QED
      BY <2>1, <3>1
  <2>2. CASE ~succeeded
    <3>1. \/ sent' = Sent(to, m0, kind, {k}) /\ extra' = [extra EXCEPT ![k] = extra[k] + 1]
          \/ sent' = sent /\ extra' = extra
      BY <2>2 DEF doAlertRequest
    <3> QED
      BY <2>2, <3>1
  <2> QED
    BY <2>1, <2>2
<1>4. /\ worker'.alert = k
      /\ worker'.pc = IF succeeded THEN next ELSE "next"
      /\ \A n, a : InHand(n, a)' => InHand(n, a) /\ (succeeded => a # to)
  <2>1. CASE ~succeeded
    BY <1>1, <2>1, WorkerMoves
  <2>2. CASE succeeded /\ next = "next"
    BY <1>1, <2>2, WorkerMoves
  <2>3. CASE succeeded /\ next # "next"
    BY <1>1, <2>3, WorkerMoves DEF Notes, Pcs
  <2> QED
    BY <2>1, <2>2, <2>3
<1>5. /\ extra' \in Seq(Nat) /\ Len(extra') = Len(extra)
      /\ \A n \in DOMAIN published : extra'[n] \in Nat /\ extra[n] <= extra'[n]
  BY <1>1, <1>2, <1>3
<1>6. StateInv'
  <2>1. worker'.pc \in Pcs /\ (worker'.pc \notin {"idle", "next"} => Ntfy \in worker'.todo)
    <3>1. CASE succeeded /\ next # "next"
      BY <1>1, <3>1, WorkerMoves DEF Notes, Pcs
    <3>2. CASE ~(succeeded /\ next # "next")
      BY <1>4, <3>2 DEF Pcs
    <3> QED
      BY <3>1, <3>2
  <2> QED
    BY <1>1, <1>5, <2>1 DEF StateInv
<1>7. /\ MessagesInv'
      /\ \A n, a : Repeats(n, a)' = Repeats(n, a) + Count(through /\ to = a /\ n = k)
      /\ \A m : Problems(m)' = Problems(m)
                    + Count(through /\ to = Ntfy /\ m0 = m /\ kind \in {"down", "digest", "closing"})
      /\ \A m : Recoveries(m)' <= Recoveries(m)
                    + Count(through /\ to = Ntfy /\ m0 = m /\ kind = "recovery" /\ succeeded)
  <2>1. CASE through
    <3>1. /\ MessagesInv'
          /\ \A n, a : Repeats(n, a)' = Repeats(n, a) + Count(to = a /\ n \in {k})
          /\ \A m : Problems(m)' = Problems(m)
                        + Count(to = Ntfy /\ m0 = m /\ kind \in {"down", "digest", "closing"})
          /\ \A m : Recoveries(m)' <= Recoveries(m)
                        + Count(to = Ntfy /\ m0 = m /\ kind = "recovery"
                                    /\ \A n \in {k} : extra'[n] = 0)
      <4>1. {k} \in SUBSET (DOMAIN published) /\ DOMAIN published \subseteq DOMAIN published'
        BY <1>1
      <4> HIDE DEF m0
      <4> QED
        BY <1>1, <1>2, <1>3, <1>5, <2>1, <4>1, SendCounts
    <3>2. ~succeeded => extra'[k] # 0
      BY <1>1, <1>2, <1>3, <2>1
    <3>3. \A m : Recoveries(m)' <= Recoveries(m)
                + Count(through /\ to = Ntfy /\ m0 = m /\ kind = "recovery" /\ succeeded)
      <4> SUFFICES ASSUME NEW m
                   PROVE  Recoveries(m)' <= Recoveries(m)
                            + Count(through /\ to = Ntfy /\ m0 = m /\ kind = "recovery" /\ succeeded)
        OBVIOUS
      <4>1. (\A n \in {k} : extra'[n] = 0) => succeeded
        BY <3>2
      <4>2. /\ Recoveries(m) \in Nat /\ Recoveries(m)' \in Nat
            /\ Recoveries(m)' <= Recoveries(m)
                    + Count(to = Ntfy /\ m0 = m /\ kind = "recovery" /\ \A n \in {k} : extra'[n] = 0)
        BY <1>1, <3>1, CountsAreNumbers
      <4> QED
        BY <2>1, <4>1, <4>2 DEF Count
    <3> QED
      BY <2>1, <3>1, <3>3
  <2>2. CASE ~through
    <3>1. sent' = sent
      BY <1>3, <2>2
    <3>2. /\ MessagesInv'
          /\ \A n, a : Repeats(n, a)' = Repeats(n, a)
          /\ \A m : Problems(m)' = Problems(m)
          /\ \A m : Recoveries(m)' <= Recoveries(m)
      BY <1>1, <1>2, <1>5, <3>1, QuietCounts
    <3>3. /\ \A n, a : Repeats(n, a) \in Nat
          /\ \A m : Problems(m) \in Nat /\ Recoveries(m) \in Nat
      BY <1>1, CountsAreNumbers
    <3> QED
      BY <2>2, <3>2, <3>3 DEF Count
  <2> QED
    BY <2>1, <2>2
<1>8. RepeatBudget'
  <2> SUFFICES ASSUME NEW n \in DOMAIN published, NEW a \in Alerters
               PROVE  (Repeats(n, a) + Chances(n, a))' <= 1 + extra'[n]
    BY DEF RepeatBudget
  <2> DEFINE rest == pending[n] + Count(Buffered(n, a)) + Count(Digested("worker", n, a))
                        + Count(Digested("ticker", n, a))
  <2>1. /\ Chances(n, a) = rest + Count(InHand(n, a))
        /\ Chances(n, a)' = rest + Count(InHand(n, a)')
    <3>1. /\ Buffered(n, a)' = Buffered(n, a)
          /\ \A p : Digested(p, n, a)' = Digested(p, n, a)
      BY DEF Buffered, Digested
    <3>2. pending[n] \in Nat
      BY <1>2
    <3> QED
      BY <3>1, <3>2 DEF Chances, Count
  <2>2. rest \in Nat /\ Repeats(n, a) \in Nat /\ extra[n] \in Nat /\ extra'[n] \in Nat
    <3>1. pending[n] \in Nat /\ extra[n] \in Nat /\ extra'[n] \in Nat
      BY <1>2, <1>5
    <3>2. Repeats(n, a) \in Nat
      BY <1>1, CountsAreNumbers
    <3>3. \A b : Count(b) \in Nat
      BY DEF Count
    <3> HIDE DEF Count
    <3> QED
      BY <3>1, <3>2, <3>3
  <2>3. Repeats(n, a) + Chances(n, a) <= 1 + extra[n]
    BY <1>1 DEF RepeatBudget
  <2>4. n = k /\ a = to => InHand(n, a) /\ (succeeded => ~InHand(n, a)')
    BY <1>1, <1>4 DEF InHand
  <2>5. extra'[n] = extra[n] + Count(through /\ ~succeeded /\ n = k)
    BY <1>2, <1>3, <2>2 DEF Count
  <2> HIDE DEF rest, k
  <2>6. Repeats(n, a) + Count(through /\ to = a /\ n = k) + Count(InHand(n, a)')
            <= Repeats(n, a) + Count(InHand(n, a)) + Count(through /\ ~succeeded /\ n = k)
    <3>1. InHand(n, a)' => InHand(n, a)
      BY <1>4
    <3> QED
      BY <1>3, <2>2, <2>4, <3>1 DEF Count
  <2>7. Repeats(n, a)' = Repeats(n, a) + Count(through /\ to = a /\ n = k)
    BY <1>7
  <2>8. \A b : Count(b) \in Nat
    BY DEF Count
  <2> HIDE DEF Count
  <2> QED
    BY <2>1, <2>2, <2>3, <2>5, <2>6, <2>7, <2>8
<1>9. RecoveryBudget'
  <2>1. \A m : Noting("sendRecovery", m)' = FALSE
    BY <1>4 DEF Noting, Notes
  <2> SUFFICES ASSUME NEW m \in Monitors
               PROVE  Recoveries(m)' + Open(m)' <= Problems(m)'
    BY <2>1 DEF RecoveryBudget
  <2>2. /\ Recoveries(m) + Count(states[m].notified /\ ~Noting("noteRecovery", m))
            + Count(Noting("noteDown", m))
            + Count(NotingOf("worker", m)) + Count(NotingOf("ticker", m)) <= Problems(m)
        /\ Noting("sendRecovery", m) => states[m].notified
    BY <1>1, CountsAreNumbers DEF RecoveryBudget, Open, Count
  <2>3. /\ Recoveries(m) \in Nat /\ Recoveries(m)' \in Nat /\ Problems(m) \in Nat
        /\ Problems(m)' \in Nat
    BY <1>1, <1>7, CountsAreNumbers
  <2>4. /\ NotingOf("worker", m)' = NotingOf("worker", m)
        /\ NotingOf("ticker", m)' = NotingOf("ticker", m)
        /\ (states[m].notified)' = states[m].notified
        /\ Noting("noteRecovery", m) = FALSE /\ Noting("noteDown", m) = FALSE
    BY DEF NotingOf, Noting, Notes
  <2>5. /\ Noting("noteRecovery", m)' = (succeeded /\ next = "noteRecovery" /\ m0 = m)
        /\ Noting("noteDown", m)' = (succeeded /\ next = "noteDown" /\ m0 = m)
    BY <1>4 DEF Noting, Alert, Notes
  <2>6. kind = "recovery" /\ m0 = m => Noting("sendRecovery", m)
    BY DEF Noting
  <2>7. next # "next" /\ succeeded => to = Ntfy
    OBVIOUS
  <2>8. /\ Problems(m)' = Problems(m)
                + Count(through /\ to = Ntfy /\ m0 = m /\ kind \in {"down", "digest", "closing"})
        /\ Recoveries(m)' <= Recoveries(m)
                + Count(through /\ to = Ntfy /\ m0 = m /\ kind = "recovery" /\ succeeded)
    BY <1>7
  <2> HIDE DEF m0
  <2> DEFINE others == Count(NotingOf("worker", m)) + Count(NotingOf("ticker", m))
  <2>9. others \in Nat
    BY DEF Count
  <2>10. Recoveries(m) + Count(states[m].notified) + others <= Problems(m)
    BY <2>2, <2>3, <2>4, <2>9 DEF Count
  <2> HIDE DEF others
  <2>11. Recoveries(m)' + Count(states[m].notified /\ ~Noting("noteRecovery", m)')
            + Count(Noting("noteDown", m)') + others <= Problems(m)'
    <3> DEFINE after == Count(states[m].notified /\ ~Noting("noteRecovery", m)')
               down  == Count(Noting("noteDown", m)')
               now1  == Count(states[m].notified)
               p     == Count(through /\ to = Ntfy /\ m0 = m /\ kind \in {"down", "digest", "closing"})
               r     == Count(through /\ to = Ntfy /\ m0 = m /\ kind = "recovery" /\ succeeded)
    <3>1. after \in Nat /\ down \in Nat /\ now1 \in Nat /\ p \in Nat /\ r \in Nat
      BY DEF Count
    <3>2. r + after + down <= now1 + p
      <4>1. CASE kind = "recovery" /\ m0 = m /\ succeeded
        <5>1. states[m].notified /\ Noting("noteRecovery", m)' /\ ~Noting("noteDown", m)'
          BY <2>2, <2>5, <2>6, <4>1
        <5>2. after = 0 /\ down = 0 /\ now1 = 1 /\ r <= 1
          BY <5>1 DEF Count
        <5> HIDE DEF after, down, now1, p, r
        <5> QED
          BY <3>1, <5>2
      <4>2. CASE ~(kind = "recovery" /\ m0 = m /\ succeeded)
        <5>1. r = 0 /\ after <= now1
          BY <4>2 DEF Count
        <5>2. down <= p
          <6>1. Noting("noteDown", m)' => through /\ to = Ntfy /\ m0 = m /\ kind = "down"
            BY <1>3, <2>5, <2>7 DEF Notes
          <6> QED
            BY <6>1 DEF Count
        <5> HIDE DEF after, down, now1, p, r
        <5> QED
          BY <3>1, <5>1, <5>2
      <4> QED
        BY <4>1, <4>2
    <3>3. Problems(m)' = Problems(m) + p /\ Recoveries(m)' <= Recoveries(m) + r
          /\ Recoveries(m) + now1 + others <= Problems(m)
      BY <2>8, <2>10
    <3>4. Recoveries(m)' + after + down + others <= Problems(m)'
      <4> HIDE DEF after, down, now1, p, r
      <4> QED
        BY <2>3, <2>9, <3>1, <3>2, <3>3
    <3> QED
      BY <3>4
  <2> QED
    BY <2>3, <2>4, <2>9, <2>11 DEF others, Open, Count
<1> QED
  BY <1>6, <1>7, <1>8, <1>9 DEF BudgetInv

\* Every request of the worker is one of these.
LEMMA RequestsKeep ==
    ASSUME DeliveryInv, BudgetInv,
           (\E a \in Alerters : SendDirect(a)) \/ SendDown \/ SendRecovery \/ SendUnknown
    PROVE  BudgetInv'
<1>1. StateInv
  BY DEF BudgetInv
<1>2. ASSUME NEW a \in Alerters, SendDirect(a) PROVE BudgetInv'
  <2>1. PICK succeeded \in BOOLEAN :
            /\ doAlertRequest(a, "alert", succeeded)
            /\ IF succeeded THEN Delivered(a) ELSE Failed(a)
    BY <1>2 DEF SendDirect
  <2>2. /\ worker.pc \notin {"idle"} \cup Notes /\ a \in worker.todo
        /\ UNCHANGED <<queueVars, ticker, flush, states>>
    BY <1>2 DEF SendDirect, Turn, Notes
  <2>3. "next" \in {"next"} \cup Notes /\ "next" # "noteDown" /\ "alert" # "recovery"
    OBVIOUS
  <2> QED
    BY <2>1, <2>2, <2>3, RequestKeeps
<1>3. ASSUME NEW pc, NEW kind, NEW next \in {"next"} \cup Notes, NtfyRequest(pc, kind, next),
             pc \in {"sendDown", "sendRecovery", "sendUnknown"},
             kind = "recovery" => pc = "sendRecovery" /\ next = "noteRecovery",
             next = "noteDown" => kind = "down"
      PROVE  BudgetInv'
  <2>1. PICK succeeded \in BOOLEAN :
            /\ doAlertRequest(Ntfy, kind, succeeded)
            /\ IF ~succeeded THEN Failed(Ntfy)
               ELSE IF next = "next" THEN Delivered(Ntfy)
               ELSE worker' = [worker EXCEPT !.pc = next] /\ UNCHANGED took
    BY <1>3 DEF NtfyRequest
  <2>2. /\ worker.pc = pc /\ worker.pc \notin {"idle"} \cup Notes /\ Ntfy \in worker.todo
        /\ UNCHANGED <<queueVars, ticker, flush, states>>
    BY <1>1, <1>3 DEF NtfyRequest, Notes, StateInv
  <2> QED
    BY <1>3, <2>1, <2>2, RequestKeeps
<1>4. CASE SendDown
  BY <1>3, <1>4 DEF SendDown, Notes
<1>5. CASE SendRecovery
  BY <1>3, <1>5 DEF SendRecovery, Notes
<1>6. CASE SendUnknown
  BY <1>3, <1>6 DEF SendUnknown, Notes
<1> QED
  BY <1>2, <1>4, <1>5, <1>6

\* What the worker hands to the buffer, or a flush takes out of it, is still one
\* chance: none is made where nothing is sent.
LEMMA ChancesMove ==
    ASSUME NEW n, NEW a, NEW p \in Flushers, pending[n] \in Nat, pending'[n] = pending[n],
           InHand(n, a)' => InHand(n, a),
           Buffered(n, a)' => Buffered(n, a) \/ (InHand(n, a) /\ ~InHand(n, a)'),
           Digested(p, n, a)' => Digested(p, n, a) \/ (Buffered(n, a) /\ ~Buffered(n, a)'),
           \A q \in Flushers \ {p} : Digested(q, n, a)' => Digested(q, n, a)
    PROVE  Chances(n, a)' <= Chances(n, a)
<1>1. p = "worker" \/ p = "ticker"
  BY DEF Flushers
<1>2. \A q \in Flushers \ {p} : Count(Digested(q, n, a)') <= Count(Digested(q, n, a))
  BY DEF Count
<1>3. Count(InHand(n, a)') + Count(Buffered(n, a)') + Count(Digested(p, n, a)')
        <= Count(InHand(n, a)) + Count(Buffered(n, a)) + Count(Digested(p, n, a))
  BY DEF Count
<1>4. /\ Chances(n, a) = pending[n] + Count(InHand(n, a)) + Count(Buffered(n, a))
            + Count(Digested("worker", n, a)) + Count(Digested("ticker", n, a))
      /\ Chances(n, a)' = pending[n] + Count(InHand(n, a)') + Count(Buffered(n, a)')
            + Count(Digested("worker", n, a)') + Count(Digested("ticker", n, a)')
  BY DEF Chances, Count
<1>5. \A b : Count(b) \in Nat
  BY DEF Count
<1> HIDE DEF Count, InHand, Buffered, Digested, Chances
<1>6. CASE p = "worker"
  <2>1. Count(Digested("ticker", n, a)') <= Count(Digested("ticker", n, a))
    BY <1>2, <1>6 DEF Flushers
  <2> QED
    BY <1>3, <1>4, <1>5, <1>6, <2>1
<1>7. CASE p = "ticker"
  <2>1. Count(Digested("worker", n, a)') <= Count(Digested("worker", n, a))
    BY <1>2, <1>7 DEF Flushers
  <2> QED
    BY <1>3, <1>4, <1>5, <1>7, <2>1
<1> QED
  BY <1>1, <1>6, <1>7

\* A note turns a pending announcement of a problem into the flag, and no other
\* step but a request opens one.
LEMMA OpenMoves ==
    ASSUME NEW m, NEW p \in Flushers,
           LET open == states[m].notified /\ ~Noting("noteRecovery", m)
           IN  open' => \/ open
                        \/ Noting("noteDown", m) /\ ~Noting("noteDown", m)'
                        \/ NotingOf(p, m) /\ ~NotingOf(p, m)',
           Noting("noteDown", m)' => Noting("noteDown", m),
           \A q \in Flushers : NotingOf(q, m)' => NotingOf(q, m)
    PROVE  Open(m)' <= Open(m)
<1> DEFINE open == states[m].notified /\ ~Noting("noteRecovery", m)
<1>1. /\ Open(m) = Count(open) + Count(Noting("noteDown", m))
            + Count(NotingOf("worker", m)) + Count(NotingOf("ticker", m))
      /\ Open(m)' = Count(open') + Count(Noting("noteDown", m)')
            + Count(NotingOf("worker", m)') + Count(NotingOf("ticker", m)')
  BY DEF Open, Count
<1>2. /\ open' => \/ open
                  \/ Noting("noteDown", m) /\ ~Noting("noteDown", m)'
                  \/ NotingOf("worker", m) /\ ~NotingOf("worker", m)'
                  \/ NotingOf("ticker", m) /\ ~NotingOf("ticker", m)'
      /\ NotingOf("worker", m)' => NotingOf("worker", m)
      /\ NotingOf("ticker", m)' => NotingOf("ticker", m)
  BY DEF Flushers
<1> HIDE DEF open
<1> QED
  BY <1>1, <1>2 DEF Count

\* A step that sends nothing keeps the budgets when it makes no chance that an
\* exception does not pay for, and opens no announcement.
LEMMA QuietKeeps ==
    ASSUME DeliveryInv, BudgetInv, StateInv', sent' = sent, published' = published,
           \A n \in DOMAIN published : extra'[n] \in Nat /\ extra[n] <= extra'[n],
           \A n \in DOMAIN published, a \in Alerters :
                /\ Chances(n, a)' \in Nat
                /\ Chances(n, a)' + extra[n] <= Chances(n, a) + extra'[n],
           \A m \in Monitors :
                /\ Open(m)' <= Open(m)
                /\ Noting("sendRecovery", m)' => states'[m].notified
    PROVE  BudgetInv'
<1>1. StateInv /\ MessagesInv /\ RepeatBudget /\ RecoveryBudget /\ QueueInv
  BY DEF BudgetInv, DeliveryInv
<1>2. \A n \in DOMAIN published : extra[n] \in Nat /\ pending[n] \in Nat
  BY <1>1, HistoriesMatch
<1>3. /\ MessagesInv'
      /\ \A n, a : Repeats(n, a)' = Repeats(n, a)
      /\ \A m : Problems(m)' = Problems(m)
      /\ \A m : Recoveries(m)' <= Recoveries(m)
  BY <1>1, <1>2, QuietCounts
<1>4. /\ \A n, a : Repeats(n, a) \in Nat
      /\ \A m : Problems(m) \in Nat /\ Recoveries(m) \in Nat /\ Recoveries(m)' \in Nat
  BY <1>1, <1>3, CountsAreNumbers
<1>5. \A n \in DOMAIN published, a \in Alerters : Chances(n, a) \in Nat
  BY <1>2 DEF Chances, Count
<1>6. \A m : Open(m) \in Nat /\ Open(m)' \in Nat
  BY DEF Open, Count
<1>7. RepeatBudget'
  <2> SUFFICES ASSUME NEW n \in DOMAIN published, NEW a \in Alerters
               PROVE  Repeats(n, a)' + Chances(n, a)' <= 1 + extra'[n]
    BY DEF RepeatBudget
  <2>1. Repeats(n, a) + Chances(n, a) <= 1 + extra[n]
    BY <1>1 DEF RepeatBudget
  <2>2. Repeats(n, a)' = Repeats(n, a) /\ Repeats(n, a) \in Nat
    BY <1>3, <1>4
  <2>3. /\ extra[n] \in Nat /\ extra'[n] \in Nat
        /\ Chances(n, a) \in Nat /\ Chances(n, a)' \in Nat
        /\ Chances(n, a)' + extra[n] <= Chances(n, a) + extra'[n]
    BY <1>2, <1>5
  <2> QED
    BY <2>1, <2>2, <2>3
<1>8. RecoveryBudget'
  <2> SUFFICES ASSUME NEW m \in Monitors
               PROVE  Recoveries(m)' + Open(m)' <= Problems(m)'
    BY DEF RecoveryBudget
  <2>1. /\ Recoveries(m) + Open(m) <= Problems(m)
        /\ Open(m)' <= Open(m) /\ Recoveries(m)' <= Recoveries(m) /\ Problems(m)' = Problems(m)
    BY <1>1, <1>3 DEF RecoveryBudget
  <2> QED
    BY <1>4, <1>6, <2>1
<1> QED
  BY <1>3, <1>7, <1>8 DEF BudgetInv

\* The first critical section of a handler sends nothing; it may put the alert in
\* hand into the buffer, and then nothing of it stays in hand for the target.
LEMMA HandlerKeeps ==
    ASSUME DeliveryInv, BudgetInv, handleDownAlert \/ handleDegradedAlert \/ handleHealthyAlert
    PROVE  BudgetInv'
<1> USE DEF queueVars
<1> DEFINE k  == worker.alert
           m0 == Alert.monitor
<1>1. /\ QueueInv /\ WorkerInv /\ FlushInv /\ StateInv /\ MessagesInv /\ RecoveryBudget
      /\ UNCHANGED <<queueVars, ticker, flush, sent, extra, faults>>
      /\ Turn(Ntfy)
  BY DEF DeliveryInv, BudgetInv, handleDownAlert, handleDegradedAlert, handleHealthyAlert
<1>2. /\ worker.pc = "next" /\ Ntfy \in worker.todo /\ k \in DOMAIN published
      /\ published[k].monitor = m0 /\ m0 \in Monitors /\ k \in Nat
  <2>1. worker.pc = "next" /\ Ntfy \in worker.todo
    BY <1>1 DEF Turn
  <2>2. k \in DOMAIN published
    BY <1>1, <2>1 DEF WorkerInv
  <2> QED
    BY <1>1, <2>1, <2>2, AlertsHaveMonitors DEF Alert
<1>3. \A n \in DOMAIN published : extra[n] \in Nat /\ pending[n] \in Nat
  BY <1>1, HistoriesMatch
<1>4. states \in [Monitors -> States]
      /\ now \in Nat
      /\ \A m \in Monitors : \A n \in ToSet(states[m].buffer) :
                n \in DOMAIN published /\ published[n].monitor = m
  BY <1>1 DEF StateInv
<1>5. /\ worker'.alert = k /\ worker'.pc \in Pcs \ Notes
      /\ worker'.pc \notin {"idle", "next"} => Ntfy \in worker'.todo
      /\ worker'.pc = "sendRecovery" => states[m0].notified /\ states' = states
      /\ \A n, a : InHand(n, a)' => InHand(n, a)
      /\ handleDegradedAlert => \A n : ~InHand(n, Ntfy)'
  <2>1. CASE Delivered(Ntfy)
    BY <1>1, <1>2, <2>1, WorkerMoves DEF Pcs, Notes
  <2>2. CASE \E pc \in {"sendDown", "flushing", "sendUnknown", "sendRecovery"} :
                /\ worker' = [worker EXCEPT !.pc = pc]
                /\ pc = "sendRecovery" => states[m0].notified /\ states' = states
                /\ ~handleDegradedAlert
    BY <1>1, <1>2, <2>2, WorkerMoves DEF Pcs, Notes
  <2>3. CASE handleDownAlert
    BY <2>1, <2>2, <2>3 DEF handleDownAlert, handleDegradedAlert
  <2>4. CASE handleDegradedAlert
    BY <2>1, <2>4 DEF handleDegradedAlert
  <2>5. CASE handleHealthyAlert
    BY <2>1, <2>2, <2>5 DEF handleHealthyAlert, handleDegradedAlert, State
  <2> QED
    BY <2>3, <2>4, <2>5
<1>6. /\ states' \in [Monitors -> States]
      /\ \A m \in Monitors :
            /\ states'[m].notified = states[m].notified
            /\ \A n \in ToSet(states'[m].buffer) :
                  n \in ToSet(states[m].buffer) \/ (n = k /\ m = m0 /\ handleDegradedAlert)
  <2> DEFINE s0 == states[m0]
  <2>0. s0 \in States /\ s0.buffer \in Seq(Nat)
    BY <1>2, <1>4 DEF States
  <2>1. CASE handleDownAlert
    <3> DEFINE new == [s0 EXCEPT !.exists = TRUE, !.suppressUntil = now + SuppressWindow,
                                 !.buffer = <<>>]
    <3>1. states' = [states EXCEPT ![m0] = new]
      BY <2>1 DEF handleDownAlert
    <3>2. now + SuppressWindow \in Nat /\ <<>> \in Seq(Nat)
      BY <1>4, DeliveryAssumption
    <3>3. new \in States /\ new.notified = s0.notified /\ new.buffer = <<>>
      BY <2>0, <3>2 DEF States
    <3>4. ToSet(<<>>) = {}
      BY DEF ToSet
    <3> HIDE DEF new, m0
    <3>5. /\ states' \in [Monitors -> States] /\ states'[m0] = new
          /\ \A m \in Monitors \ {m0} : states'[m] = states[m]
      BY <1>2, <1>4, <3>1, <3>3, OneStateChanges
    <3> QED
      BY <3>3, <3>4, <3>5
  <2>2. CASE handleDegradedAlert
    <3> DEFINE buffer == IF DigestEnabled /\ now >= State.suppressUntil
                         THEN Append(s0.buffer, k) ELSE s0.buffer
               new    == [s0 EXCEPT !.exists = TRUE, !.buffer = buffer]
    <3>1. states' = [states EXCEPT ![m0] = new]
      BY <2>2 DEF handleDegradedAlert, State
    <3>2. /\ buffer \in Seq(Nat)
          /\ \A n \in ToSet(buffer) : n \in ToSet(s0.buffer) \/ n = k
      <4> HIDE DEF s0, k
      <4> QED
        BY <1>2, <2>0 DEF ToSet
    <3> HIDE DEF buffer
    <3>3. new \in States /\ new.notified = s0.notified /\ new.buffer = buffer
      BY <2>0, <3>2 DEF States
    <3> HIDE DEF new, m0
    <3>4. /\ states' \in [Monitors -> States] /\ states'[m0] = new
          /\ \A m \in Monitors \ {m0} : states'[m] = states[m]
      BY <1>2, <1>4, <3>1, <3>3, OneStateChanges
    <3> QED
      BY <2>2, <3>2, <3>3, <3>4
  <2>3. CASE handleHealthyAlert
    BY <1>4, <2>3 DEF handleHealthyAlert
  <2> QED
    BY <1>1, <2>1, <2>2, <2>3 DEF handleDownAlert, handleDegradedAlert, handleHealthyAlert
<1>7. StateInv'
  <2>1. \A m \in Monitors : \A n \in ToSet(states'[m].buffer) :
            n \in DOMAIN published /\ published[n].monitor = m
    <3> HIDE DEF k, m0
    <3> QED
      BY <1>2, <1>4, <1>6
  <2> HIDE DEF k, m0
  <2> QED
    BY <1>1, <1>5, <1>6, <2>1 DEF StateInv
<1>8. ASSUME NEW n \in DOMAIN published, NEW a \in Alerters
      PROVE  Chances(n, a)' \in Nat /\ Chances(n, a)' + extra[n] <= Chances(n, a) + extra'[n]
  <2>1. Buffered(n, a)' => Buffered(n, a) \/ (InHand(n, a) /\ ~InHand(n, a)')
    <3> SUFFICES ASSUME a = Ntfy, n \in ToSet(states'[published[n].monitor].buffer)
                 PROVE  \/ n \in ToSet(states[published[n].monitor].buffer)
                        \/ InHand(n, a) /\ ~InHand(n, a)'
      BY <1>1 DEF Buffered
    <3>1. published[n].monitor \in Monitors
      BY <1>1, AlertsHaveMonitors
    <3>2. n = k /\ handleDegradedAlert => InHand(n, a) /\ ~InHand(n, a)'
      BY <1>2, <1>5 DEF InHand, Notes
    <3> QED
      BY <1>6, <3>1, <3>2
  <2>2. \A q \in Flushers : Digested(q, n, a)' = Digested(q, n, a)
    BY <1>1 DEF Digested
  <2>3. Chances(n, a)' <= Chances(n, a)
    <3>1. "worker" \in Flushers /\ pending'[n] = pending[n]
      BY <1>1 DEF Flushers
    <3> QED
      BY <1>3, <1>5, <2>1, <2>2, <3>1, ChancesMove
  <2>4. Chances(n, a) \in Nat /\ Chances(n, a)' \in Nat
    BY <1>1, <1>3 DEF Chances, Count
  <2> QED
    BY <1>1, <1>3, <2>3, <2>4
<1>9. ASSUME NEW m \in Monitors
      PROVE  Open(m)' <= Open(m) /\ (Noting("sendRecovery", m)' => states'[m].notified)
  <2>1. /\ \A q : NotingOf(q, m)' = NotingOf(q, m)
        /\ Noting("noteDown", m)' = FALSE /\ Noting("noteRecovery", m)' = FALSE
        /\ Noting("noteDown", m) = FALSE /\ Noting("noteRecovery", m) = FALSE
    BY <1>1, <1>2, <1>5 DEF NotingOf, Noting, Notes
  <2>2. Open(m)' <= Open(m)
    BY <1>6, <2>1, OpenMoves DEF Flushers
  <2>3. Noting("sendRecovery", m)' => states'[m].notified
    BY <1>1, <1>5, <1>6 DEF Noting, Alert
  <2> QED
    BY <2>2, <2>3
<1> QED
  BY <1>1, <1>3, <1>7, <1>8, <1>9, QuietKeeps

\* Noting a delivered outage or recovery ends the work on the target.
LEMMA NoteKeeps ==
    ASSUME DeliveryInv, BudgetInv, NEW pc \in Notes, NEW notified \in BOOLEAN,
           pc = "noteRecovery" => notified = FALSE,
           NoteNotified(pc, notified)
    PROVE  BudgetInv'
<1> USE DEF queueVars
<1> DEFINE m0  == Alert.monitor
           new == [states[m0] EXCEPT !.notified = notified]
<1>1. /\ QueueInv /\ WorkerInv /\ FlushInv /\ StateInv /\ MessagesInv
      /\ UNCHANGED <<queueVars, ticker, flush, sent, extra, faults>>
      /\ worker.pc = pc /\ Delivered(Ntfy)
      /\ states' = [states EXCEPT ![m0] = new]
  BY DEF DeliveryInv, BudgetInv, NoteNotified
<1>2. m0 \in Monitors /\ worker.pc # "idle" /\ pc # "sendRecovery"
  <2>1. worker.pc # "idle" /\ pc # "sendRecovery"
    BY <1>1 DEF Notes
  <2>2. worker.alert \in DOMAIN published
    BY <1>1, <2>1 DEF WorkerInv
  <2> QED
    BY <1>1, <2>1, <2>2, AlertsHaveMonitors DEF Alert
<1>3. \A n \in DOMAIN published : extra[n] \in Nat /\ pending[n] \in Nat
  BY <1>1, HistoriesMatch
<1>4. /\ worker'.alert = worker.alert /\ worker'.pc = "next"
      /\ \A n, a : InHand(n, a)' => InHand(n, a)
  BY <1>1, <1>2, WorkerMoves
<1>5. /\ states' \in [Monitors -> States]
      /\ states'[m0].notified = notified
      /\ \A m \in Monitors : states'[m].buffer = states[m].buffer
      /\ \A m \in Monitors \ {m0} : states'[m].notified = states[m].notified
  <2>1. states \in [Monitors -> States]
    BY <1>1 DEF StateInv
  <2>2. new \in States /\ new.notified = notified /\ new.buffer = states[m0].buffer
    BY <1>2, <2>1 DEF States
  <2> HIDE DEF new, m0
  <2> QED
    BY <1>1, <1>2, <2>1, <2>2, OneStateChanges
<1> HIDE DEF new, m0
<1>6. StateInv'
  BY <1>1, <1>4, <1>5 DEF StateInv, Pcs
<1>7. ASSUME NEW n \in DOMAIN published, NEW a \in Alerters
      PROVE  Chances(n, a)' \in Nat /\ Chances(n, a)' + extra[n] <= Chances(n, a) + extra'[n]
  <2>1. /\ Buffered(n, a)' = Buffered(n, a)
        /\ \A q \in Flushers : Digested(q, n, a)' = Digested(q, n, a)
    BY <1>1, <1>5, AlertsHaveMonitors DEF Buffered, Digested
  <2>2. Chances(n, a)' <= Chances(n, a)
    <3>1. "worker" \in Flushers /\ pending'[n] = pending[n]
      BY <1>1 DEF Flushers
    <3> QED
      BY <1>3, <1>4, <2>1, <3>1, ChancesMove
  <2>3. Chances(n, a) \in Nat /\ Chances(n, a)' \in Nat
    BY <1>1, <1>3 DEF Chances, Count
  <2> QED
    BY <1>1, <1>3, <2>2, <2>3
<1>8. ASSUME NEW m \in Monitors
      PROVE  Open(m)' <= Open(m) /\ (Noting("sendRecovery", m)' => states'[m].notified)
  <2>1. /\ \A q : NotingOf(q, m)' = NotingOf(q, m)
        /\ Noting("noteDown", m)' = FALSE /\ Noting("noteRecovery", m)' = FALSE
        /\ Noting("sendRecovery", m)' = FALSE
        /\ Noting(pc, m) = (m = m0)
        /\ \A other \in Notes \ {pc} : Noting(other, m) = FALSE
    BY <1>1, <1>4 DEF NotingOf, Noting, m0
  <2>2. Open(m)' <= Open(m)
    <3>1. pc = "noteDown" \/ pc = "noteRecovery"
      BY DEF Notes
    <3>2. "worker" \in Flushers
      BY DEF Flushers
    <3>3. CASE m = m0
      BY <1>5, <2>1, <3>1, <3>2, <3>3, OpenMoves DEF Notes
    <3>4. CASE m # m0
      BY <1>5, <2>1, <3>1, <3>2, <3>4, OpenMoves DEF Notes
    <3> QED
      BY <3>3, <3>4
  <2> QED
    BY <2>1, <2>2
<1> QED
  BY <1>1, <1>3, <1>6, <1>7, <1>8, QuietKeeps

\* Taking an alert from the queue and giving it back trade one chance for another.
LEMMA QueueKeeps ==
    ASSUME DeliveryInv, BudgetInv, (\E n \in DOMAIN pending : Receive(n)) \/ Finish
    PROVE  BudgetInv'
<1> DEFINE k == worker.alert
<1>1. /\ QueueInv /\ WorkerInv /\ StateInv
      /\ UNCHANGED <<now, alertNames, published, ticker, flush, states, sent, took, extra, faults>>
  BY DEF DeliveryInv, BudgetInv, Receive, Finish
<1>2. /\ DOMAIN pending = DOMAIN published
      /\ \A n \in DOMAIN published : extra[n] \in Nat /\ pending[n] \in Nat
  BY <1>1, HistoriesMatch
<1>3. /\ worker'.pc \in {"idle", "next"} /\ worker.pc \in {"idle", "next"}
      /\ \A n \in DOMAIN published, a \in Alerters :
            /\ pending'[n] \in Nat
            /\ pending'[n] + Count(InHand(n, a)') <= pending[n] + Count(InHand(n, a))
  <2>1. ASSUME NEW i \in DOMAIN pending, Receive(i)
        PROVE  /\ worker'.pc \in {"idle", "next"} /\ worker.pc \in {"idle", "next"}
               /\ \A n \in DOMAIN published, a \in Alerters :
                    /\ pending'[n] \in Nat
                    /\ pending'[n] + Count(InHand(n, a)') <= pending[n] + Count(InHand(n, a))
    <3>1. /\ worker = Idle /\ pending[i] > 0 /\ pending' = [pending EXCEPT ![i] = @ - 1]
          /\ \/ worker' = Idle
             \/ worker'.pc = "next" /\ worker'.alert = i
      BY <2>1 DEF Receive, Idle
    <3>2. ASSUME NEW n \in DOMAIN published, NEW a \in Alerters
          PROVE  /\ pending'[n] \in Nat
                 /\ pending'[n] + Count(InHand(n, a)') <= pending[n] + Count(InHand(n, a))
      <4>1. ~InHand(n, a)
        BY <3>1 DEF InHand, Idle
      <4>2. CASE n = i
        BY <1>2, <3>1, <4>1, <4>2 DEF Count
      <4>3. CASE n # i
        <5>1. ~InHand(n, a)'
          BY <3>1, <4>3 DEF InHand, Idle
        <5>2. pending'[n] = pending[n]
          BY <1>2, <3>1, <4>3
        <5> QED
          BY <1>2, <4>1, <5>1, <5>2 DEF Count
      <4> QED
        BY <4>2, <4>3
    <3> QED
      BY <3>1, <3>2 DEF Idle
  <2>2. CASE Finish
    <3>1. /\ worker.pc = "next" /\ worker.todo = {} /\ worker' = Idle
          /\ pending' = IF worker.failed /\ worker.delivered = 0 /\ Nackable
                        THEN [pending EXCEPT ![k] = @ + 1] ELSE pending
      BY <2>2 DEF Finish
    <3>2. ASSUME NEW n \in DOMAIN published, NEW a \in Alerters
          PROVE  /\ pending'[n] \in Nat
                 /\ pending'[n] + Count(InHand(n, a)') <= pending[n] + Count(InHand(n, a))
      <4>1. ~InHand(n, a)'
        BY <3>1 DEF InHand, Idle
      <4>2. worker.delivered = 0 /\ n = k => InHand(n, a)
        BY <3>1 DEF InHand, Notes
      <4>3. pending'[n] = IF worker.failed /\ worker.delivered = 0 /\ Nackable /\ n = k
                          THEN pending[n] + 1 ELSE pending[n]
        BY <1>2, <3>1
      <4> QED
        BY <1>2, <4>1, <4>2, <4>3 DEF Count
    <3> QED
      BY <3>1, <3>2 DEF Idle
  <2> QED
    BY <2>1, <2>2
<1>4. StateInv'
  BY <1>1, <1>3 DEF StateInv, Pcs
<1>5. ASSUME NEW n \in DOMAIN published, NEW a \in Alerters
      PROVE  Chances(n, a)' \in Nat /\ Chances(n, a)' + extra[n] <= Chances(n, a) + extra'[n]
  <2> DEFINE rest == Count(Buffered(n, a)) + Count(Digested("worker", n, a))
                        + Count(Digested("ticker", n, a))
  <2>1. rest' = rest /\ rest \in Nat
    BY <1>1 DEF Buffered, Digested, Count
  <2>2. Chances(n, a) = pending[n] + Count(InHand(n, a)) + rest
    BY <1>2 DEF Chances, Count
  <2>3. Chances(n, a)' = pending'[n] + Count(InHand(n, a)') + rest
    BY <1>3, <2>1 DEF Chances, Count
  <2>4. \A b : Count(b) \in Nat
    BY DEF Count
  <2> HIDE DEF rest, Count
  <2> QED
    BY <1>1, <1>2, <1>3, <2>1, <2>2, <2>3, <2>4
<1>6. ASSUME NEW m \in Monitors
      PROVE  Open(m)' <= Open(m) /\ (Noting("sendRecovery", m)' => states'[m].notified)
  <2>1. /\ \A q : NotingOf(q, m)' = NotingOf(q, m)
        /\ \A pc \in {"noteDown", "noteRecovery", "sendRecovery"} :
                Noting(pc, m) = FALSE /\ Noting(pc, m)' = FALSE
    BY <1>1, <1>3 DEF NotingOf, Noting
  <2> QED
    BY <1>1, <2>1, OpenMoves DEF Flushers
<1> QED
  BY <1>1, <1>2, <1>4, <1>5, <1>6, QuietKeeps

\* A redelivery and a crash are paid for: each is an exception of the alert in hand.
LEMMA FaultKeeps ==
    ASSUME DeliveryInv, BudgetInv, Redeliver \/ Crash
    PROVE  BudgetInv'
<1> DEFINE k == worker.alert
<1>1. QueueInv /\ WorkerInv /\ FlushInv /\ StateInv /\ published' = published /\ sent' = sent
      /\ now' = now
  BY DEF DeliveryInv, BudgetInv, Redeliver, Crash
<1>2. /\ extra \in Seq(Nat) /\ pending \in Seq(Nat)
      /\ DOMAIN pending = DOMAIN published /\ DOMAIN extra = DOMAIN published
      /\ \A n \in DOMAIN published : extra[n] \in Nat /\ pending[n] \in Nat
  BY <1>1, HistoriesMatch
<1>3. CASE Redeliver
  <2>1. /\ pending' = [pending EXCEPT ![k] = @ + 1] /\ extra' = [extra EXCEPT ![k] = @ + 1]
        /\ UNCHANGED <<now, alertNames, published, worker, ticker, flush, states, sent, took>>
    BY <1>3 DEF Redeliver
  <2>2. \A n \in DOMAIN published :
            \/ extra'[n] = extra[n] /\ pending'[n] = pending[n]
            \/ extra'[n] = extra[n] + 1 /\ pending'[n] = pending[n] + 1
    BY <1>2, <2>1
  <2>3. StateInv'
    <3>1. extra' \in Seq(Nat) /\ Len(extra') = Len(extra)
      <4> DEFINE more == [n \in 1 .. Len(extra) |-> IF n = k THEN extra[n] + 1 ELSE extra[n]]
      <4>1. DOMAIN extra = 1 .. Len(extra) /\ Len(extra) \in Nat
        BY <1>2
      <4>2. extra' = more
        BY <1>2, <2>1, <4>1
      <4>3. \A n \in 1 .. Len(extra) : (IF n = k THEN extra[n] + 1 ELSE extra[n]) \in Nat
        BY <1>2, <4>1
      <4> QED
        BY <4>1, <4>2, <4>3
    <3> QED
      BY <1>1, <2>1, <3>1 DEF StateInv
  <2>4. ASSUME NEW n \in DOMAIN published, NEW a \in Alerters
        PROVE  Chances(n, a)' \in Nat /\ Chances(n, a)' + extra[n] <= Chances(n, a) + extra'[n]
    <3> DEFINE rest == Count(InHand(n, a)) + Count(Buffered(n, a))
                            + Count(Digested("worker", n, a)) + Count(Digested("ticker", n, a))
    <3>1. rest' = rest /\ rest \in Nat
      BY <2>1 DEF InHand, Buffered, Digested, Count
    <3>2. Chances(n, a) = pending[n] + rest
      BY <1>2 DEF Chances, Count
    <3>3. pending'[n] \in Nat
      BY <1>2, <2>2
    <3>4. Chances(n, a)' = pending'[n] + rest'
      BY <3>3 DEF Chances, Count
    <3> HIDE DEF rest
    <3>5. extra[n] \in Nat /\ pending[n] \in Nat
      BY <1>2
    <3>6. CASE extra'[n] = extra[n] /\ pending'[n] = pending[n]
      BY <3>1, <3>2, <3>3, <3>4, <3>5, <3>6
    <3>7. CASE extra'[n] = extra[n] + 1 /\ pending'[n] = pending[n] + 1
      BY <3>1, <3>2, <3>3, <3>4, <3>5, <3>7
    <3> QED
      BY <2>2, <3>6, <3>7
  <2>5. ASSUME NEW m \in Monitors
        PROVE  Open(m)' <= Open(m) /\ (Noting("sendRecovery", m)' => states'[m].notified)
    <3>1. Open(m)' = Open(m) /\ Noting("sendRecovery", m)' = Noting("sendRecovery", m)
      BY <2>1 DEF Open, Noting, NotingOf, Alert, Count
    <3> QED
      BY <2>1, <3>1 DEF BudgetInv, RecoveryBudget, Open, Count
  <2>6. ASSUME NEW n \in DOMAIN published PROVE extra'[n] \in Nat /\ extra[n] <= extra'[n]
    <3>1. extra[n] \in Nat /\ extra'[n] \in {extra[n], extra[n] + 1}
      BY <1>2, <2>2
    <3> QED
      BY <3>1
  <2> QED
    BY <1>1, <2>3, <2>4, <2>5, <2>6, QuietKeeps
<1>4. CASE Crash
  <2>1. /\ worker' = Idle
        /\ flush' = [p \in Flushers |-> NoFlush] /\ states' = [m \in Monitors |-> NoState]
        /\ pending' = [n \in DOMAIN pending |->
                        IF ~DurableQueue THEN 0 ELSE IF k = n THEN pending[n] + 1 ELSE pending[n]]
        /\ extra' = [n \in DOMAIN extra |-> IF k = n THEN extra[n] + 1 ELSE extra[n]]
    BY <1>4 DEF Crash
  <2>2. \A n \in DOMAIN published :
            /\ extra'[n] = IF k = n THEN extra[n] + 1 ELSE extra[n]
            /\ pending'[n] \in Nat
            /\ pending'[n] <= IF k = n THEN pending[n] + 1 ELSE pending[n]
    BY <1>2, <2>1
  <2>3. StateInv'
    <3>1. extra' \in Seq(Nat) /\ Len(extra') = Len(extra)
      <4>1. DOMAIN extra = 1 .. Len(extra) /\ Len(extra) \in Nat
        BY <1>2
      <4>2. \A n \in 1 .. Len(extra) : (IF k = n THEN extra[n] + 1 ELSE extra[n]) \in Nat
        BY <1>2, <4>1
      <4> QED
        BY <2>1, <4>1, <4>2
    <3>2. states' \in [Monitors -> States] /\ \A m \in Monitors : ToSet(states'[m].buffer) = {}
      BY <2>1 DEF NoState, States, ToSet
    <3>3. flush' \in [Flushers -> [pc : {"idle", "send", "note"}, monitor : Monitors \cup {""},
                                   batch : SUBSET (DOMAIN published)]]
      BY <2>1 DEF NoFlush
    <3>4. worker'.pc = "idle"
      BY <2>1 DEF Idle
    <3> QED
      BY <1>1, <3>1, <3>2, <3>3, <3>4 DEF StateInv, Pcs
  <2>4. ASSUME NEW n \in DOMAIN published, NEW a \in Alerters
        PROVE  Chances(n, a)' \in Nat /\ Chances(n, a)' + extra[n] <= Chances(n, a) + extra'[n]
    <3>1. ~InHand(n, a)' /\ ~Buffered(n, a)' /\ ~Digested("worker", n, a)' /\ ~Digested("ticker", n, a)'
      <4>1. published[n].monitor \in Monitors
        BY <1>1, AlertsHaveMonitors
      <4>2. worker'.pc = "idle" /\ flush'["worker"].pc = "idle" /\ flush'["ticker"].pc = "idle"
        BY <2>1 DEF Idle, NoFlush, Flushers
      <4>3. ToSet(states'[published[n].monitor].buffer) = {}
        BY <2>1, <4>1 DEF NoState, ToSet
      <4> QED
        BY <1>1, <4>2, <4>3 DEF InHand, Buffered, Digested
    <3>2. Chances(n, a)' = pending'[n]
      BY <2>2, <3>1 DEF Chances, Count
    <3>3. Chances(n, a) >= pending[n] /\ Chances(n, a) \in Nat
      BY <1>2 DEF Chances, Count
    <3>4. extra[n] \in Nat /\ pending[n] \in Nat /\ pending'[n] \in Nat
      BY <1>2, <2>2
    <3>5. CASE k = n
      <4>1. extra'[n] = extra[n] + 1 /\ pending'[n] <= pending[n] + 1
        BY <2>2, <3>5
      <4> QED
        BY <3>2, <3>3, <3>4, <4>1
    <3>6. CASE k # n
      <4>1. extra'[n] = extra[n] /\ pending'[n] <= pending[n]
        BY <2>2, <3>6
      <4> QED
        BY <3>2, <3>3, <3>4, <4>1
    <3> QED
      BY <3>5, <3>6
  <2>5. ASSUME NEW m \in Monitors
        PROVE  Open(m)' <= Open(m) /\ (Noting("sendRecovery", m)' => states'[m].notified)
    <3>1. worker'.pc = "idle" /\ flush'["worker"].pc = "idle" /\ flush'["ticker"].pc = "idle"
          /\ states'[m].notified = FALSE
      BY <2>1 DEF Idle, NoFlush, NoState, Flushers
    <3>2. Open(m)' = 0
      BY <3>1 DEF Open, Noting, NotingOf, Count
    <3>3. Open(m) \in Nat
      BY DEF Open, Count
    <3>4. Open(m)' <= Open(m)
      BY <3>2, <3>3
    <3>5. ~Noting("sendRecovery", m)'
      BY <3>1 DEF Noting
    <3> QED
      BY <3>4, <3>5
  <2>6. ASSUME NEW n \in DOMAIN published PROVE extra'[n] \in Nat /\ extra[n] <= extra'[n]
    <3>1. extra[n] \in Nat /\ extra'[n] \in {extra[n], extra[n] + 1}
      BY <1>2, <2>2
    <3> QED
      BY <3>1
  <2> QED
    BY <1>1, <2>3, <2>4, <2>5, <2>6, QuietKeeps
<1> QED
  BY <1>3, <1>4

\* A flush that ends is idle, and the worker that ran it goes on to the next target.
LEMMA FlushMoves ==
    ASSUME WorkerInv, StateInv, published' = published, NEW p \in Flushers, FlushEnds(p),
           p = "worker" => worker.pc = "flushing"
    PROVE  /\ flush' \in [Flushers -> FlushStates(DOMAIN published)]
           /\ flush'[p].pc = "idle"
           /\ \A q \in Flushers \ {p} : flush'[q] = flush[q]
           /\ worker'.pc \in Pcs /\ (worker'.pc \notin {"idle", "next"} => Ntfy \in worker'.todo)
           /\ \A n, a : InHand(n, a)' => InHand(n, a)
           /\ \A m : \A pc \in Marks : Noting(pc, m)' = Noting(pc, m)
<1>1. /\ flush' \in [Flushers -> FlushStates(DOMAIN published)]
      /\ flush'[p].pc = "idle"
      /\ \A q \in Flushers \ {p} : flush'[q] = flush[q]
  <2>1. flush \in [Flushers -> FlushStates(DOMAIN published)]
    BY DEF StateInv, FlushStates
  <2>2. NoFlush \in FlushStates(DOMAIN published) /\ NoFlush.pc = "idle"
    BY DEF NoFlush, FlushStates
  <2> QED
    BY <2>1, <2>2 DEF FlushEnds
<1>2. CASE p = "worker"
  <2>1. Delivered(Ntfy) /\ worker.pc = "flushing"
    BY <1>2 DEF FlushEnds
  <2>2. /\ worker'.pc = "next" /\ worker'.alert = worker.alert
        /\ \A n, a : InHand(n, a)' => InHand(n, a)
    BY <2>1, WorkerMoves DEF Notes
  <2>3. \A m : \A pc \in Marks : Noting(pc, m)' = Noting(pc, m)
    BY <2>1, <2>2 DEF Noting, Marks, Notes
  <2> QED
    BY <1>1, <2>2, <2>3 DEF Pcs
<1>3. CASE p # "worker"
  <2>1. worker' = worker
    BY <1>3 DEF FlushEnds
  <2> QED
    BY <1>1, <2>1 DEF InHand, Noting, Alert, StateInv
<1> QED
  BY <1>2, <1>3

\* Taking a buffer into a digest moves the chances of its alerts; noting a
\* delivered digest turns its announcement into the flag.
LEMMA DigestKeeps ==
    ASSUME DeliveryInv, BudgetInv, NEW p \in Flushers,
           (\E m \in Monitors : TakeDigest(p, m)) \/ NoteDigest(p)
    PROVE  BudgetInv'
<1> USE DEF queueVars
<1>1. /\ QueueInv /\ WorkerInv /\ FlushInv /\ StateInv /\ RecoveryBudget
      /\ UNCHANGED <<queueVars, sent, extra, faults>>
  BY DEF DeliveryInv, BudgetInv, TakeDigest, NoteDigest
<1>2. \A n \in DOMAIN published : extra[n] \in Nat /\ pending[n] \in Nat
  BY <1>1, HistoriesMatch
<1>3. /\ states \in [Monitors -> States]
      /\ flush \in [Flushers -> FlushStates(DOMAIN published)]
      /\ \A m \in Monitors : \A n \in ToSet(states[m].buffer) :
              n \in DOMAIN published /\ published[n].monitor = m
  BY <1>1 DEF StateInv, FlushStates
<1> DEFINE Effect ==
            /\ states' \in [Monitors -> States]
            /\ flush' \in [Flushers -> FlushStates(DOMAIN published)]
            /\ worker'.pc \in Pcs /\ (worker'.pc \notin {"idle", "next"} => Ntfy \in worker'.todo)
            /\ \A n, a : InHand(n, a)' => InHand(n, a)
            /\ \A m : \A pc \in Marks : Noting(pc, m)' = Noting(pc, m)
            /\ \A q \in Flushers \ {p} : flush'[q] = flush[q]
            /\ \A m \in Monitors :
                  /\ ToSet(states'[m].buffer) \subseteq ToSet(states[m].buffer)
                  /\ states[m].notified => states'[m].notified
                  /\ states'[m].notified => states[m].notified \/ (NotingOf(p, m) /\ ~NotingOf(p, m)')
                  /\ NotingOf(p, m)' => NotingOf(p, m)
            /\ \A n \in DOMAIN published :
                  flush'[p].pc = "send" /\ n \in flush'[p].batch =>
                      \/ flush[p].pc = "send" /\ n \in flush[p].batch
                      \/ /\ n \in ToSet(states[published[n].monitor].buffer)
                         /\ n \notin ToSet(states'[published[n].monitor].buffer)
<1>4. Effect
  <2>1. ASSUME NEW m0 \in Monitors, TakeDigest(p, m0)
        PROVE  Effect
    <3> DEFINE buffer == states[m0].buffer
               new    == [states[m0] EXCEPT !.buffer = <<>>]
    <3>1. /\ flush[p] = NoFlush /\ (p = "worker" => worker.pc = "flushing")
          /\ states' = [states EXCEPT ![m0] = new]
          /\ \/ FlushEnds(p)
             \/ /\ flush' = [flush EXCEPT ![p] = [pc |-> "send", monitor |-> m0, batch |-> ToSet(buffer)]]
                /\ UNCHANGED worker
      BY <2>1 DEF TakeDigest
    <3>2. new \in States /\ new.notified = states[m0].notified /\ new.buffer = <<>> /\ ToSet(<<>>) = {}
      <4>1. states[m0] \in States /\ <<>> \in Seq(Nat)
        BY <1>3
      <4>2. new \in States /\ new.notified = states[m0].notified /\ new.buffer = <<>>
        BY <4>1 DEF States
      <4>3. ToSet(<<>>) = {}
        BY DEF ToSet
      <4> QED
        BY <4>2, <4>3
    <3> HIDE DEF new
    <3>3. /\ states' \in [Monitors -> States] /\ states'[m0] = new
          /\ \A m \in Monitors \ {m0} : states'[m] = states[m]
      BY <1>3, <3>1, <3>2, OneStateChanges
    <3>4. \A m \in Monitors :
            /\ ToSet(states'[m].buffer) \subseteq ToSet(states[m].buffer)
            /\ states'[m].notified = states[m].notified
      BY <3>2, <3>3
    <3>5. flush[p].pc = "idle"
      <4>1. NoFlush.pc = "idle"
        BY DEF NoFlush
      <4> QED
        BY <3>1, <4>1
    <3>6. CASE FlushEnds(p)
      <4>1. /\ flush' \in [Flushers -> FlushStates(DOMAIN published)]
            /\ flush'[p].pc = "idle"
            /\ \A q \in Flushers \ {p} : flush'[q] = flush[q]
            /\ worker'.pc \in Pcs /\ (worker'.pc \notin {"idle", "next"} => Ntfy \in worker'.todo)
            /\ \A n, a : InHand(n, a)' => InHand(n, a)
            /\ \A m : \A pc \in Marks : Noting(pc, m)' = Noting(pc, m)
        BY <1>1, <3>1, <3>6, FlushMoves
      <4>2. \A m : ~NotingOf(p, m)'
        BY <4>1 DEF NotingOf
      <4> QED
        BY <3>3, <3>4, <4>1, <4>2
    <3>7. CASE /\ flush' = [flush EXCEPT ![p] = [pc |-> "send", monitor |-> m0, batch |-> ToSet(buffer)]]
               /\ UNCHANGED worker
      <4>1. [pc |-> "send", monitor |-> m0, batch |-> ToSet(buffer)] \in FlushStates(DOMAIN published)
        BY <1>3 DEF FlushStates
      <4>2. /\ flush' \in [Flushers -> FlushStates(DOMAIN published)]
            /\ flush'[p].pc = "send" /\ flush'[p].batch = ToSet(buffer)
            /\ \A q \in Flushers \ {p} : flush'[q] = flush[q]
        BY <1>3, <3>7, <4>1
      <4>3. \A m : ~NotingOf(p, m)'
        BY <4>2 DEF NotingOf
      <4>4. /\ \A n, a : InHand(n, a)' = InHand(n, a)
            /\ \A pc, m : Noting(pc, m)' = Noting(pc, m)
            /\ worker'.pc \in Pcs /\ (worker'.pc \notin {"idle", "next"} => Ntfy \in worker'.todo)
        BY <1>1, <3>7 DEF InHand, Noting, Alert, StateInv
      <4>5. \A n \in ToSet(buffer) : published[n].monitor = m0 /\ n \notin ToSet(states'[m0].buffer)
        BY <1>3, <3>2, <3>3
      <4>6. \A n \in DOMAIN published : n \in flush'[p].batch =>
                /\ n \in ToSet(states[published[n].monitor].buffer)
                /\ n \notin ToSet(states'[published[n].monitor].buffer)
        BY <4>2, <4>5
      <4> HIDE DEF buffer
      <4> QED
        BY <3>3, <3>4, <4>2, <4>3, <4>4, <4>6
    <3> QED
      BY <3>1, <3>6, <3>7
  <2>2. CASE NoteDigest(p)
    <3> DEFINE m0  == flush[p].monitor
               new == [states[m0] EXCEPT !.notified = TRUE]
    <3>1. /\ flush[p].pc = "note" /\ states' = [states EXCEPT ![m0] = new] /\ FlushEnds(p)
          /\ p = "worker" => worker.pc = "flushing"
      BY <1>1, <2>2 DEF NoteDigest, FlushInv
    <3>2. /\ flush' \in [Flushers -> FlushStates(DOMAIN published)]
          /\ flush'[p].pc = "idle"
          /\ \A q \in Flushers \ {p} : flush'[q] = flush[q]
          /\ worker'.pc \in Pcs /\ (worker'.pc \notin {"idle", "next"} => Ntfy \in worker'.todo)
          /\ \A n, a : InHand(n, a)' => InHand(n, a)
          /\ \A m : \A pc \in Marks : Noting(pc, m)' = Noting(pc, m)
      BY <1>1, <3>1, FlushMoves
    <3>3. \A m : ~NotingOf(p, m)'
      BY <3>2 DEF NotingOf
    <3>4. /\ states' \in [Monitors -> States]
          /\ \A m \in Monitors :
                /\ states'[m].buffer = states[m].buffer
                /\ states'[m].notified = (states[m].notified \/ m = m0)
      <4>1. CASE m0 \in Monitors
        <5>1. new \in States /\ new.notified = TRUE /\ new.buffer = states[m0].buffer
          <6>1. states[m0] \in States
            BY <1>3, <4>1
          <6> HIDE DEF m0
          <6> QED
            BY <6>1 DEF States
        <5> HIDE DEF new, m0
        <5>2. /\ states' \in [Monitors -> States] /\ states'[m0] = new
              /\ \A m \in Monitors \ {m0} : states'[m] = states[m]
          BY <1>3, <3>1, <4>1, <5>1, OneStateChanges
        <5>3. \A m \in Monitors : states[m].notified \in BOOLEAN
          BY <1>3 DEF States
        <5> QED
          BY <4>1, <5>1, <5>2, <5>3
      <4>2. CASE m0 \notin Monitors
        <5>1. states' = states
          BY <1>3, <3>1, <4>2
        <5>2. \A m \in Monitors : states[m].notified \in BOOLEAN
          BY <1>3 DEF States
        <5> QED
          BY <1>3, <4>2, <5>1, <5>2
      <4> QED
        BY <4>1, <4>2
    <3>5. NotingOf(p, m0)
      BY <3>1 DEF NotingOf
    <3> HIDE DEF m0, new
    <3> QED
      BY <3>2, <3>3, <3>4, <3>5
  <2> QED
    BY <2>1, <2>2
<1>5. StateInv'
  BY <1>1, <1>3, <1>4 DEF StateInv, FlushStates
<1>6. ASSUME NEW n \in DOMAIN published, NEW a \in Alerters
      PROVE  Chances(n, a)' \in Nat /\ Chances(n, a)' + extra[n] <= Chances(n, a) + extra'[n]
  <2>1. published[n].monitor \in Monitors
    BY <1>1, AlertsHaveMonitors
  <2>2. Buffered(n, a)' => Buffered(n, a)
    BY <1>1, <1>4, <2>1 DEF Buffered
  <2>3. Digested(p, n, a)' => Digested(p, n, a) \/ (Buffered(n, a) /\ ~Buffered(n, a)')
    BY <1>1, <1>4 DEF Digested, Buffered
  <2>4. \A q \in Flushers \ {p} : Digested(q, n, a)' => Digested(q, n, a)
    BY <1>4 DEF Digested
  <2>5. Chances(n, a)' <= Chances(n, a)
    BY <1>1, <1>2, <1>4, <2>2, <2>3, <2>4, ChancesMove
  <2>6. Chances(n, a) \in Nat /\ Chances(n, a)' \in Nat
    BY <1>1, <1>2 DEF Chances, Count
  <2> QED
    BY <1>1, <1>2, <2>5, <2>6
<1>7. ASSUME NEW m \in Monitors
      PROVE  Open(m)' <= Open(m) /\ (Noting("sendRecovery", m)' => states'[m].notified)
  <2>1. \A pc \in {"noteDown", "noteRecovery", "sendRecovery"} : Noting(pc, m)' = Noting(pc, m)
    BY <1>4 DEF Marks, Notes
  <2>2. \A q \in Flushers : NotingOf(q, m)' => NotingOf(q, m)
    BY <1>4 DEF NotingOf
  <2>3. Open(m)' <= Open(m)
    BY <1>4, <2>1, <2>2, OpenMoves
  <2> QED
    BY <1>1, <1>4, <2>1, <2>3 DEF RecoveryBudget
<1> QED
  BY <1>1, <1>2, <1>5, <1>6, <1>7, QuietKeeps

\* The request of a digest uses up the chances of its alerts, and announces a
\* problem when it gets through.
LEMMA SendDigestKeeps ==
    ASSUME DeliveryInv, BudgetInv, NEW p \in Flushers, SendDigest(p)
    PROVE  BudgetInv'
<1> USE DEF queueVars
<1> DEFINE m0    == flush[p].monitor
           batch == flush[p].batch
<1>1. /\ QueueInv /\ WorkerInv /\ FlushInv /\ StateInv /\ MessagesInv /\ RepeatBudget /\ RecoveryBudget
      /\ UNCHANGED <<queueVars, ticker, states, extra>>
      /\ flush[p].pc = "send"
      /\ p = "worker" => worker.pc = "flushing"
  BY DEF DeliveryInv, BudgetInv, SendDigest, FlushInv
<1>2. \A n \in DOMAIN published : extra[n] \in Nat /\ pending[n] \in Nat
  BY <1>1, HistoriesMatch
<1>3. flush \in [Flushers -> FlushStates(DOMAIN published)] /\ batch \in SUBSET (DOMAIN published)
  BY <1>1 DEF StateInv, FlushStates
<1>4. PICK through \in BOOLEAN :
        /\ through => sent' = Sent(Ntfy, m0, DigestKind(p), batch)
        /\ ~through => sent' = sent
        /\ \/ through /\ flush' = [flush EXCEPT ![p].pc = "note"] /\ worker' = worker
           \/ FlushEnds(p)
  <2>1. \/ /\ sent' = Sent(Ntfy, m0, DigestKind(p), batch)
           /\ flush' = [flush EXCEPT ![p].pc = "note"] /\ worker' = worker
        \/ FlushEnds(p) /\ sent' = Sent(Ntfy, m0, DigestKind(p), batch)
        \/ FlushEnds(p) /\ sent' = sent
    BY DEF SendDigest
  <2> HIDE DEF m0, batch
  <2> QED
    BY <2>1
<1>5. /\ flush' \in [Flushers -> FlushStates(DOMAIN published)]
      /\ flush'[p].pc \in {"note", "idle"}
      /\ flush'[p].pc = "note" => through /\ flush'[p].monitor = m0
      /\ \A q \in Flushers \ {p} : flush'[q] = flush[q]
      /\ worker'.pc \in Pcs /\ (worker'.pc \notin {"idle", "next"} => Ntfy \in worker'.todo)
      /\ \A n, a : InHand(n, a)' => InHand(n, a)
      /\ \A m : \A pc \in Marks : Noting(pc, m)' = Noting(pc, m)
  <2>1. CASE through /\ flush' = [flush EXCEPT ![p].pc = "note"] /\ worker' = worker
    <3>1. /\ flush' \in [Flushers -> FlushStates(DOMAIN published)]
          /\ flush'[p].pc = "note" /\ flush'[p].monitor = m0
          /\ \A q \in Flushers \ {p} : flush'[q] = flush[q]
      <4> DEFINE new == [flush[p] EXCEPT !.pc = "note"]
      <4>1. flush' = [flush EXCEPT ![p] = new]
        BY <2>1
      <4>2. new \in FlushStates(DOMAIN published) /\ new.pc = "note" /\ new.monitor = m0
        <5>1. flush[p] \in FlushStates(DOMAIN published)
          BY <1>3
        <5> QED
          BY <5>1 DEF FlushStates
      <4> HIDE DEF new, m0
      <4> QED
        BY <1>3, <4>1, <4>2
    <3>2. /\ \A n, a : InHand(n, a)' = InHand(n, a)
          /\ \A pc, m : Noting(pc, m)' = Noting(pc, m)
          /\ worker'.pc \in Pcs /\ (worker'.pc \notin {"idle", "next"} => Ntfy \in worker'.todo)
      BY <1>1, <2>1 DEF InHand, Noting, Alert, StateInv
    <3> QED
      BY <2>1, <3>1, <3>2
  <2>2. CASE FlushEnds(p)
    BY <1>1, <2>2, FlushMoves
  <2> QED
    BY <1>4, <2>1, <2>2
<1>6. StateInv'
  BY <1>1, <1>5 DEF StateInv, FlushStates
<1>7. /\ MessagesInv'
      /\ \A n, a : Repeats(n, a)' = Repeats(n, a) + Count(through /\ Ntfy = a /\ n \in batch)
      /\ \A m : Problems(m)' = Problems(m) + Count(through /\ m0 = m)
      /\ \A m : Recoveries(m)' <= Recoveries(m)
  <2>1. CASE through
    <3>1. /\ MessagesInv'
          /\ \A n, a : Repeats(n, a)' = Repeats(n, a) + Count(Ntfy = a /\ n \in batch)
          /\ \A m : Problems(m)' = Problems(m)
                + Count(Ntfy = Ntfy /\ m0 = m /\ DigestKind(p) \in {"down", "digest", "closing"})
          /\ \A m : Recoveries(m)' <= Recoveries(m)
                + Count(Ntfy = Ntfy /\ m0 = m /\ DigestKind(p) = "recovery"
                            /\ \A n \in batch : extra'[n] = 0)
      <4>1. DOMAIN published \subseteq DOMAIN published'
        BY <1>1
      <4>2. \A n \in DOMAIN published : extra[n] \in Nat /\ extra'[n] \in Nat /\ extra[n] <= extra'[n]
        BY <1>1, <1>2
      <4> HIDE DEF m0, batch
      <4> QED
        BY <1>1, <1>3, <1>4, <2>1, <4>1, <4>2, SendCounts
    <3>2. DigestKind(p) \in {"digest", "closing"}
      BY DEF DigestKind
    <3>3. /\ \A m : Count(Ntfy = Ntfy /\ m0 = m /\ DigestKind(p) \in {"down", "digest", "closing"})
                        = Count(through /\ m0 = m)
          /\ \A m : Count(Ntfy = Ntfy /\ m0 = m /\ DigestKind(p) = "recovery"
                            /\ \A n \in batch : extra'[n] = 0) = 0
          /\ \A n, a : Count(Ntfy = a /\ n \in batch) = Count(through /\ Ntfy = a /\ n \in batch)
      BY <2>1, <3>2 DEF Count
    <3>4. \A m : Recoveries(m) \in Nat /\ Recoveries(m)' \in Nat
      BY <1>1, <3>1, CountsAreNumbers
    <3>5. \A m : Recoveries(m)' <= Recoveries(m)
      <4> SUFFICES ASSUME NEW m PROVE Recoveries(m)' <= Recoveries(m)
        OBVIOUS
      <4>1. /\ Recoveries(m)' <= Recoveries(m)
                + Count(Ntfy = Ntfy /\ m0 = m /\ DigestKind(p) = "recovery"
                            /\ \A n \in batch : extra'[n] = 0)
            /\ Count(Ntfy = Ntfy /\ m0 = m /\ DigestKind(p) = "recovery"
                            /\ \A n \in batch : extra'[n] = 0) = 0
        BY <3>1, <3>3
      <4> HIDE DEF Count
      <4> QED
        BY <3>4, <4>1
    <3> QED
      BY <3>1, <3>3, <3>5
  <2>2. CASE ~through
    <3>1. sent' = sent
      BY <1>4, <2>2
    <3>2. /\ MessagesInv'
          /\ \A n, a : Repeats(n, a)' = Repeats(n, a)
          /\ \A m : Problems(m)' = Problems(m)
          /\ \A m : Recoveries(m)' <= Recoveries(m)
      BY <1>1, <1>2, <3>1, QuietCounts
    <3>3. /\ \A n, a : Repeats(n, a) \in Nat
          /\ \A m : Problems(m) \in Nat /\ Recoveries(m) \in Nat
      BY <1>1, CountsAreNumbers
    <3> QED
      BY <2>2, <3>2, <3>3 DEF Count
  <2> QED
    BY <2>1, <2>2
<1>8. /\ \A n, a : Repeats(n, a) \in Nat /\ Repeats(n, a)' \in Nat
      /\ \A m : /\ Problems(m) \in Nat /\ Recoveries(m) \in Nat
                /\ Problems(m)' \in Nat /\ Recoveries(m)' \in Nat
  BY <1>1, <1>7, CountsAreNumbers
<1>9. RepeatBudget'
  <2> SUFFICES ASSUME NEW n \in DOMAIN published, NEW a \in Alerters
               PROVE  Repeats(n, a)' + Chances(n, a)' <= 1 + extra[n]
    BY <1>1 DEF RepeatBudget
  <2>1. Repeats(n, a) + Chances(n, a) <= 1 + extra[n]
    BY <1>1 DEF RepeatBudget
  <2>2. Chances(n, a) \in Nat /\ Chances(n, a)' \in Nat
    BY <1>1, <1>2 DEF Chances, Count
  <2>3. Chances(n, a)' + Count(Digested(p, n, a)) <= Chances(n, a)
    <3>1. Count(Digested(p, n, a)') = 0
      BY <1>5 DEF Digested, Count
    <3>2. \A q \in Flushers \ {p} : Count(Digested(q, n, a)') = Count(Digested(q, n, a))
      BY <1>5 DEF Digested, Count
    <3>3. Count(InHand(n, a)') <= Count(InHand(n, a))
      BY <1>5 DEF Count
    <3>4. Count(Buffered(n, a)') = Count(Buffered(n, a))
      BY <1>1 DEF Buffered, Count
    <3>5. \A b : Count(b) \in Nat
      BY DEF Count
    <3>6. /\ Chances(n, a) = pending[n] + Count(InHand(n, a)) + Count(Buffered(n, a))
                + Count(Digested("worker", n, a)) + Count(Digested("ticker", n, a))
          /\ Chances(n, a)' = pending[n] + Count(InHand(n, a)') + Count(Buffered(n, a)')
                + Count(Digested("worker", n, a)') + Count(Digested("ticker", n, a)')
      BY <1>1, <1>2 DEF Chances, Count
    <3>7. p = "worker" \/ p = "ticker"
      BY DEF Flushers
    <3>8. CASE p = "worker"
      <4>1. Count(Digested("ticker", n, a)') = Count(Digested("ticker", n, a))
        BY <3>2, <3>8 DEF Flushers
      <4> HIDE DEF Count, Chances
      <4> QED
        BY <1>2, <3>1, <3>3, <3>4, <3>5, <3>6, <3>8, <4>1
    <3>9. CASE p = "ticker"
      <4>1. Count(Digested("worker", n, a)') = Count(Digested("worker", n, a))
        BY <3>2, <3>9 DEF Flushers
      <4> HIDE DEF Count, Chances
      <4> QED
        BY <1>2, <3>1, <3>3, <3>4, <3>5, <3>6, <3>9, <4>1
    <3> QED
      BY <3>7, <3>8, <3>9
  <2>4. Repeats(n, a)' <= Repeats(n, a) + Count(Digested(p, n, a))
    <3>1. through /\ Ntfy = a /\ n \in batch => Digested(p, n, a)
      BY <1>1 DEF Digested
    <3>2. Repeats(n, a)' = Repeats(n, a) + Count(through /\ Ntfy = a /\ n \in batch)
      BY <1>7
    <3> HIDE DEF batch
    <3> QED
      BY <1>8, <3>1, <3>2 DEF Count
  <2>5. Count(Digested(p, n, a)) \in Nat /\ extra[n] \in Nat
    BY <1>2 DEF Count
  <2> HIDE DEF Count
  <2> QED
    BY <1>8, <2>1, <2>2, <2>3, <2>4, <2>5
<1>10. RecoveryBudget'
  <2> SUFFICES ASSUME NEW m \in Monitors
               PROVE  /\ Recoveries(m)' + Open(m)' <= Problems(m)'
                      /\ Noting("sendRecovery", m)' => states[m].notified
    BY <1>1 DEF RecoveryBudget
  <2>1. /\ Recoveries(m) + Open(m) <= Problems(m)
        /\ Noting("sendRecovery", m) => states[m].notified
    BY <1>1 DEF RecoveryBudget
  <2>2. \A pc \in {"noteDown", "noteRecovery", "sendRecovery"} : Noting(pc, m)' = Noting(pc, m)
    BY <1>5 DEF Marks, Notes
  <2>3. /\ NotingOf(p, m)' => through /\ m0 = m
        /\ \A q \in Flushers \ {p} : NotingOf(q, m)' = NotingOf(q, m)
    BY <1>5 DEF NotingOf
  <2>4. Open(m)' <= Open(m) + Count(through /\ m0 = m) /\ Open(m) \in Nat /\ Open(m)' \in Nat
    <3>1. p = "worker" \/ p = "ticker"
      BY DEF Flushers
    <3>2. ~NotingOf(p, m)
      BY <1>1 DEF NotingOf
    <3>3. CASE p = "worker"
      BY <1>1, <2>2, <2>3, <3>2, <3>3 DEF Open, Count, Flushers
    <3>4. CASE p = "ticker"
      BY <1>1, <2>2, <2>3, <3>2, <3>4 DEF Open, Count, Flushers
    <3> QED
      BY <3>1, <3>3, <3>4
  <2>5. /\ Recoveries(m)' <= Recoveries(m)
        /\ Problems(m)' = Problems(m) + Count(through /\ m0 = m)
        /\ Count(through /\ m0 = m) \in Nat
    BY <1>7 DEF Count
  <2> HIDE DEF Count
  <2> QED
    BY <1>8, <2>1, <2>2, <2>4, <2>5
<1> QED
  BY <1>6, <1>7, <1>9, <1>10 DEF BudgetInv

\* A new alert has its one chance, and nothing that the system holds is about it yet.
LEMMA PublishKeeps ==
    ASSUME DeliveryInv, BudgetInv, NEW m0 \in Monitors, NEW status \in Status, Publish(m0, status)
    PROVE  BudgetInv'
<1> DEFINE old   == DOMAIN published
           fresh == Len(published) + 1
<1>1. /\ QueueInv /\ WorkerInv /\ StateInv /\ MessagesInv /\ RepeatBudget /\ RecoveryBudget
      /\ UNCHANGED <<now, alertNames, worker, ticker, flush, states, sent, took, faults>>
  BY DEF DeliveryInv, BudgetInv, Publish
<1>2. /\ extra \in Seq(Nat) /\ pending \in Seq(Nat) /\ published \in Seq(Published)
      /\ Len(extra) = Len(published) /\ Len(pending) = Len(published)
  BY <1>1 DEF StateInv, QueueInv
<1>3. \A n \in old : extra[n] \in Nat /\ pending[n] \in Nat /\ published[n].monitor \in Monitors
  BY <1>1, HistoriesMatch, AlertsHaveMonitors
<1>4. /\ extra' \in Seq(Nat) /\ Len(extra') = Len(published')
      /\ DOMAIN published' = old \cup {fresh} /\ fresh \notin old
      /\ \A n \in old : extra'[n] = extra[n] /\ pending'[n] = pending[n] /\ published'[n] = published[n]
      /\ extra'[fresh] = 0 /\ pending'[fresh] = 1
      /\ published'[fresh].monitor \in Monitors
  <2>1. PICK alert : /\ published' = Append(published, alert) /\ alert.monitor = m0
                     /\ pending' = Append(pending, 1) /\ extra' = Append(extra, 0)
    BY DEF Publish
  <2> HIDE DEF Published
  <2> QED
    BY <1>2, <2>1
<1>5. worker.pc # "idle" => worker.alert \in old /\ Alert' = Alert
  BY <1>1, <1>4 DEF WorkerInv, Alert
<1>6. StateInv'
  <2>1. flush' \in [Flushers -> [pc : {"idle", "send", "note"}, monitor : Monitors \cup {""},
                                 batch : SUBSET (DOMAIN published')]]
    <3>1. FlushStates(old) \subseteq FlushStates(DOMAIN published')
      BY <1>4 DEF FlushStates
    <3> QED
      BY <1>1, <3>1 DEF StateInv, FlushStates
  <2>2. \A m \in Monitors : \A n \in ToSet(states'[m].buffer) :
            n \in DOMAIN published' /\ published'[n].monitor = m
    <3>1. states' = states
          /\ \A m \in Monitors : \A n \in ToSet(states[m].buffer) : n \in old /\ published[n].monitor = m
      BY <1>1 DEF StateInv
    <3> HIDE DEF old, fresh
    <3> QED
      BY <1>4, <3>1
  <2> QED
    BY <1>1, <1>4, <2>1, <2>2 DEF StateInv
<1>7. /\ MessagesInv'
      /\ \A n, a : Repeats(n, a)' = Repeats(n, a)
      /\ \A m : Problems(m)' = Problems(m)
      /\ \A m : Recoveries(m)' <= Recoveries(m)
  <2>1. old \subseteq DOMAIN published'
        /\ \A n \in old : extra[n] \in Nat /\ extra'[n] \in Nat /\ extra[n] <= extra'[n]
    BY <1>3, <1>4
  <2> HIDE DEF fresh
  <2> QED
    BY <1>1, <2>1, QuietCounts
<1>8. \A m : Problems(m) \in Nat /\ Recoveries(m) \in Nat /\ Recoveries(m)' \in Nat
  BY <1>1, <1>7, CountsAreNumbers
<1>9. RepeatBudget'
  <2> SUFFICES ASSUME NEW n \in old \cup {fresh}, NEW a \in Alerters
               PROVE  Repeats(n, a)' + Chances(n, a)' <= 1 + extra'[n]
    BY <1>4 DEF RepeatBudget
  <2>1. CASE n \in old
    <3>1. /\ Buffered(n, a)' = Buffered(n, a) /\ InHand(n, a)' = InHand(n, a)
          /\ \A q : Digested(q, n, a)' = Digested(q, n, a)
      BY <1>1, <1>4, <2>1 DEF Buffered, InHand, Digested
    <3>2. Chances(n, a)' = Chances(n, a)
      BY <1>3, <1>4, <2>1, <3>1 DEF Chances, Count
    <3> QED
      BY <1>1, <1>4, <1>7, <2>1, <3>2 DEF RepeatBudget
  <2>2. CASE n = fresh
    <3>1. ~Buffered(n, a)' /\ ~InHand(n, a)' /\ ~Digested("worker", n, a)' /\ ~Digested("ticker", n, a)'
      <4>1. ~InHand(n, a)'
        BY <1>1, <1>4, <1>5, <2>2 DEF InHand
      <4>2. ~Buffered(n, a)'
        BY <1>1, <1>4, <2>2 DEF Buffered, StateInv
      <4>3. flush["worker"].batch \subseteq old /\ flush["ticker"].batch \subseteq old
        BY <1>1 DEF StateInv, Flushers
      <4> QED
        BY <1>1, <1>4, <2>2, <4>1, <4>2, <4>3 DEF Digested
    <3>2. Chances(n, a)' = 1
      BY <1>4, <2>2, <3>1 DEF Chances, Count
    <3>3. Repeats(n, a) = 0
      <4>1. {s \in DOMAIN sent.messages : s.to = a /\ n \in s.alerts} = {}
        BY <1>1, <1>4, <2>2 DEF MessagesInv
      <4>2. UNION {{s} \X (1 .. sent.messages[s]) : s \in {}} = {}
        OBVIOUS
      <4> QED
        BY <4>1, <4>2, FS_EmptySet DEF Repeats, Copies
    <3>4. extra'[n] = 0
      BY <1>4, <2>2
    <3> QED
      BY <1>7, <3>2, <3>3, <3>4
  <2> QED
    BY <2>1, <2>2
<1>10. RecoveryBudget'
  <2> SUFFICES ASSUME NEW m \in Monitors
               PROVE  /\ Recoveries(m)' + Open(m)' <= Problems(m)'
                      /\ Noting("sendRecovery", m)' => states[m].notified
    BY <1>1 DEF RecoveryBudget
  <2>1. \A pc \in {"noteDown", "noteRecovery", "sendRecovery"} : Noting(pc, m)' = Noting(pc, m)
    BY <1>1, <1>5 DEF Noting
  <2>2. Open(m)' = Open(m) /\ Open(m) \in Nat
    BY <1>1, <2>1 DEF Open, NotingOf, Count
  <2> HIDE DEF Open
  <2> QED
    BY <1>1, <1>7, <1>8, <2>1, <2>2 DEF RecoveryBudget
<1> QED
  BY <1>6, <1>7, <1>9, <1>10 DEF BudgetInv

\* Time, the ticker and a step of somebody else change none of the counts.
LEMMA RestKeeps ==
    ASSUME DeliveryInv, BudgetInv, Tick \/ TickerFires \/ UNCHANGED vars
    PROVE  BudgetInv'
<1>1. /\ UNCHANGED <<published, pending, worker, flush, states, sent, extra>>
      /\ now' = now \/ now' = now + 1
      /\ StateInv /\ QueueInv /\ RecoveryBudget
  BY DEF Tick, TickerFires, vars, queueVars, DeliveryInv, BudgetInv
<1>2. \A n \in DOMAIN published : extra[n] \in Nat /\ pending[n] \in Nat
  BY <1>1, HistoriesMatch
<1>3. StateInv'
  <2>1. now \in Nat /\ now' \in {now, now + 1}
    BY <1>1 DEF StateInv
  <2>2. now' \in Nat
    BY <2>1
  <2> QED
    BY <1>1, <2>2 DEF StateInv
<1>4. ASSUME NEW n \in DOMAIN published, NEW a \in Alerters
      PROVE  Chances(n, a)' \in Nat /\ Chances(n, a)' + extra[n] <= Chances(n, a) + extra'[n]
  <2>1. Chances(n, a)' = Chances(n, a)
    BY <1>1 DEF Chances, InHand, Buffered, Digested, Count
  <2>2. Chances(n, a) \in Nat
    BY <1>2 DEF Chances, Count
  <2> QED
    BY <1>1, <1>2, <2>1, <2>2
<1>5. ASSUME NEW m \in Monitors
      PROVE  Open(m)' <= Open(m) /\ (Noting("sendRecovery", m)' => states'[m].notified)
  <2>1. Open(m)' = Open(m) /\ Noting("sendRecovery", m)' = Noting("sendRecovery", m)
    BY <1>1 DEF Open, Noting, NotingOf, Alert, Count
  <2> QED
    BY <1>1, <2>1 DEF RecoveryBudget, Open, Count
<1> QED
  BY <1>1, <1>2, <1>3, <1>4, <1>5, QuietKeeps

\* Both budgets are kept by every step.
LEMMA BudgetsHold == Spec => []BudgetInv
<1>1. Init => BudgetInv
  <2> SUFFICES ASSUME Init PROVE BudgetInv
    OBVIOUS
  <2>1. StateInv
    <3>1. states \in [Monitors -> States] /\ \A m \in Monitors : ToSet(states[m].buffer) = {}
      BY DEF Init, NoState, States, ToSet
    <3>2. flush \in [Flushers -> [pc : {"idle", "send", "note"}, monitor : Monitors \cup {""},
                                  batch : SUBSET (DOMAIN published)]]
      BY DEF Init, NoFlush
    <3>3. now \in Nat /\ extra \in Seq(Nat) /\ Len(extra) = Len(published) /\ worker.pc = "idle"
      BY DEF Init, Idle
    <3> QED
      BY <3>1, <3>2, <3>3 DEF StateInv, Pcs
  <2>2. DOMAIN sent.messages = {} /\ MessagesInv
    BY FS_EmptySet DEF Init, MessagesInv, EmptyBag, SetToBag
  <2>3. RepeatBudget
    BY DEF Init, RepeatBudget
  <2>4. RecoveryBudget
    <3> SUFFICES ASSUME NEW m \in Monitors
                 PROVE  Recoveries(m) + Open(m) <= Problems(m) /\ ~Noting("sendRecovery", m)
      BY DEF RecoveryBudget
    <3>1. worker.pc = "idle" /\ flush["worker"].pc = "idle" /\ flush["ticker"].pc = "idle"
          /\ states[m].notified = FALSE
      BY DEF Init, Idle, NoFlush, NoState, Flushers
    <3>2. Open(m) = 0 /\ ~Noting("sendRecovery", m)
      BY <3>1 DEF Open, Noting, NotingOf, Count
    <3>3. Recoveries(m) = 0 /\ Problems(m) = 0
      <4>1. /\ {s \in SentTo(Ntfy, m, {"recovery"}) : \A n \in s.alerts : extra[n] = 0} = {}
            /\ SentTo(Ntfy, m, {"down", "digest", "closing"}) = {}
        BY <2>2 DEF SentTo
      <4>2. Copies({}) = 0
        <5>1. UNION {{s} \X (1 .. sent.messages[s]) : s \in {}} = {}
          OBVIOUS
        <5> QED
          BY <5>1, FS_EmptySet DEF Copies
      <4> QED
        BY <4>1, <4>2 DEF Recoveries, Problems
    <3> QED
      BY <3>2, <3>3
  <2> QED
    BY <2>1, <2>2, <2>3, <2>4 DEF BudgetInv
<1>2. DeliveryInv /\ BudgetInv /\ [Next]_vars => BudgetInv'
  <2> SUFFICES ASSUME DeliveryInv, BudgetInv, [Next]_vars PROVE BudgetInv'
    OBVIOUS
  <2>1. ASSUME NEW p \in Flushers, flushDigestForMonitor(p) PROVE BudgetInv'
    BY <2>1, DigestKeeps, SendDigestKeeps DEF flushDigestForMonitor
  <2>2. CASE Work
    <3>1. (\E n \in DOMAIN pending : Receive(n)) \/ Finish => BudgetInv'
      BY QueueKeeps
    <3>2. (\E a \in Alerters : SendDirect(a)) \/ SendDown \/ SendRecovery \/ SendUnknown => BudgetInv'
      BY RequestsKeep
    <3>3. handleDownAlert \/ handleDegradedAlert \/ handleHealthyAlert => BudgetInv'
      BY HandlerKeeps
    <3>4. NoteNotified("noteDown", TRUE) \/ NoteNotified("noteRecovery", FALSE) => BudgetInv'
      BY NoteKeeps DEF Notes
    <3>5. flushDigestForMonitor("worker") => BudgetInv'
      BY <2>1 DEF Flushers
    <3> QED
      BY <2>2, <3>1, <3>2, <3>3, <3>4, <3>5, Zenon DEF Work
  <2>3. CASE DigestLoop
    <3>1. flushDigestForMonitor("ticker") => BudgetInv'
      BY <2>1 DEF Flushers
    <3> QED
      BY <2>3, <3>1, RestKeeps DEF DigestLoop
  <2>4. CASE Environment
    BY <2>4, RestKeeps, PublishKeeps, FaultKeeps DEF Environment
  <2>5. CASE UNCHANGED vars
    BY <2>5, RestKeeps
  <2> QED
    BY <2>2, <2>3, <2>4, <2>5 DEF Next
<1> QED
  BY <1>1, <1>2, DeliveryInvariant, PTL DEF Spec

\* A recipient is told of an alert once: what was sent and what may still be sent
\* together never exceed one, but for the broker's redeliveries, the crashes with
\* the alert in hand and the errors of requests that got through.
THEOREM RetriesNeverRepeat == Spec => []NoRepeatByRetry
<1>1. DeliveryInv /\ BudgetInv => NoRepeatByRetry
  <2> SUFFICES ASSUME DeliveryInv, BudgetInv, NEW n \in DOMAIN published, NEW a \in Alerters
               PROVE  Repeats(n, a) <= 1 + extra[n]
    BY DEF NoRepeatByRetry, Repeats
  <2>1. Repeats(n, a) + Chances(n, a) <= 1 + extra[n] /\ Repeats(n, a) \in Nat
    BY CountsAreNumbers DEF BudgetInv, RepeatBudget
  <2>2. Chances(n, a) \in Nat /\ extra[n] \in Nat
    BY HistoriesMatch DEF BudgetInv, DeliveryInv, Chances, Count
  <2> HIDE DEF Repeats, Chances
  <2> QED
    BY <2>1, <2>2
<1> QED
  BY <1>1, BudgetsHold, DeliveryInvariant, PTL

\* The ntfy target announces no more recoveries of a monitor than problems, however
\* the worker and the digest loop write the flag notifiedUnhealthy between their
\* requests.
THEOREM RecoveriesFollowProblems == Spec => []RecoveriesAreEarned
<1>1. BudgetInv => RecoveriesAreEarned
  <2> SUFFICES ASSUME BudgetInv, NEW m \in Monitors
               PROVE  Recoveries(m) <= Problems(m)
    BY DEF RecoveriesAreEarned, Recoveries, Problems
  <2>1. /\ Recoveries(m) + Open(m) <= Problems(m) /\ Open(m) \in Nat
        /\ Recoveries(m) \in Nat /\ Problems(m) \in Nat
    BY CountsAreNumbers DEF BudgetInv, RecoveryBudget, Open, Count
  <2> HIDE DEF Recoveries, Problems, Open
  <2> QED
    BY <2>1
<1> QED
  BY <1>1, BudgetsHold, PTL
=============================================================================
