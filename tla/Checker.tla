------------------------------ MODULE Checker -------------------------------
(***************************************************************************)
(* A checker process (checker.go): it registers with the server, probes    *)
(* its monitors at every full minute, submits the results in the           *)
(* background, fetches its configuration again now and then, and drains    *)
(* the submissions when it is told to stop.                                *)
(*                                                                         *)
(* Concurrent parts: the main loop, one goroutine per monitor of a cycle   *)
(* behind a semaphore, the submissions, the configuration fetches and the  *)
(* shutdown handler.  The clock knows minutes (modulo a common multiple of *)
(* the intervals) and, within one, its first second and the rest.  What a  *)
(* probe measures is data; that it takes time is what matters here.        *)
(***************************************************************************)
EXTENDS Integers, FiniteSets

CONSTANTS
    Monitors,           \* every monitor the server may assign
    Interval,           \* [Monitors -> minutes]
    Configs,            \* the assignments the server may answer with
    Slots,              \* the semaphore (10)
    MinutesInCycle,     \* the clock's modulus, a common multiple of the intervals
    FetchPeriod,        \* minutes between two configuration fetches (10)
    maxAttempts,        \* submission attempts (3)
    \* Bounds:
    MaxChanges, MaxFaults

ASSUME CheckerAssumption ==
    /\ IsFiniteSet(Monitors)
    /\ Interval \in [Monitors -> Nat \ {0}]
    /\ \A m \in Monitors : MinutesInCycle % Interval[m] = 0
    /\ Configs \subseteq SUBSET Monitors /\ Configs # {}
    /\ Slots \in Nat \ {0} /\ MinutesInCycle \in Nat \ {0}
    /\ FetchPeriod \in Nat \ {0} /\ maxAttempts \in Nat \ {0}
    /\ MaxChanges \in Nat /\ MaxFaults \in Nat

VARIABLES
    minute, second,     \* the clock; second is 0 or 1 (later than the first)
    upstream,           \* the assignment the server would answer with now
    pc,                 \* Checker.Start
    rested,             \* may the sleep of a second (or of thirty) be over
    monitors,           \* Checker.monitors
    fetchIn,            \* nextUpstreamFetch: minutes until the fetch is due
    fetchDue,           \* was it due when this iteration read the clock
    task,               \* the goroutines of the cycle, by monitor
    fetches,            \* background fetches, by slot (two can overlap)
    inFlight,           \* the attempts at which there is some submission
    stop,               \* Checker.Stop
    probes,             \* history: probes of each monitor in this minute
    owed,               \* history: due when the cycle began and not probed in it
    changes, faults

vars == <<minute, second, upstream, pc, rested, monitors, fetchIn, fetchDue, task, fetches,
          inFlight, stop, probes, owed, changes, faults>>

clock   == <<minute, second, upstream, changes>>
mainLoop == <<pc, rested, fetchIn, fetchDue>>
history == <<probes, owed>>

NoFetch    == [pc |-> "none", config |-> {}, old |-> FALSE]
Fetchers   == {1, 2}
NoTasks    == [m \in Monitors |-> "none"]
Due(m)     == second = 0 /\ minute % Interval[m] = 0
Exited     == pc \in {"failed", "exited"}
Closing    == stop \in {"closing", "drained", "timeout"}
Fault      == faults < MaxFaults /\ faults' = faults + 1

Init ==
    /\ minute = 0 /\ second \in {0, 1}
    /\ upstream \in Configs
    /\ pc = "register" /\ rested = FALSE
    /\ monitors = {} /\ fetchIn = 0 /\ fetchDue = FALSE
    /\ task = NoTasks
    /\ fetches = [f \in Fetchers |-> NoFetch]
    /\ inFlight = {} /\ stop = "running"
    /\ probes = [m \in Monitors |-> 0] /\ owed = {}
    /\ changes = 0 /\ faults = 0

(***************************************************************************)
(* The clock and the server.                                               *)
(***************************************************************************)
\* A loop that waits for the full minute gets to run within its first second.
AwaitsMinute == pc = "asleep" \/ pc = "loop"

Tick ==
    /\ ~Exited
    /\ rested' = (pc \in {"sleep", "dozing"})
    /\ \/ /\ second = 0 /\ ~AwaitsMinute
          /\ second' = 1
          /\ UNCHANGED <<minute, fetchIn, fetches, probes>>
       \/ /\ second = 1
          /\ second' = 0 /\ minute' = (minute + 1) % MinutesInCycle
          /\ fetchIn' = IF fetchIn > 0 THEN fetchIn - 1 ELSE 0
          /\ probes' = [m \in Monitors |-> 0]
          /\ \A f \in Fetchers : ~fetches[f].old      \* over, or failed, after a minute
          /\ fetches' = [f \in Fetchers |->
                [fetches[f] EXCEPT !.old = fetches[f].pc # "none"]]
    /\ UNCHANGED <<upstream, changes, pc, monitors, fetchDue, task, inFlight, stop, owed, faults>>

\* The server restarts with another monitor configuration.
Reconfigure(config) ==
    /\ ~Exited
    /\ changes < MaxChanges /\ changes' = changes + 1
    /\ upstream' = config
    /\ UNCHANGED <<minute, second, mainLoop, monitors, task, fetches, inFlight, stop, history,
                   faults>>

(***************************************************************************)
(* Checker.Start: registration.                                            *)
(***************************************************************************)
registerToUpstream ==
    /\ pc = "register"
    /\ monitors' = upstream
    /\ fetchIn' = FetchPeriod
    /\ pc' = "loop"
    /\ UNCHANGED <<clock, rested, fetchDue, task, fetches, inFlight, stop, history, faults>>

\* A refusal is retried; no answer at all ends the process.
RegistrationFails ==
    /\ Fault
    /\ pc = "register"
    /\ pc' \in {"retry", "failed"}
    /\ UNCHANGED <<clock, rested, monitors, fetchIn, fetchDue, task, fetches, inFlight, stop, history>>

RetryRegistration ==
    /\ pc = "retry"
    /\ \/ stop = "running" /\ pc' = "register"
       \/ stop # "running" /\ pc' \in {"register", "stopped"}
    /\ UNCHANGED <<clock, rested, monitors, fetchIn, fetchDue, task, fetches, inFlight, stop,
                   history, faults>>

(***************************************************************************)
(* Checker.Start: one iteration.                                           *)
(***************************************************************************)
LeaveLoop ==
    /\ pc = "loop" /\ stop # "running"
    /\ pc' = "stopped"
    /\ UNCHANGED <<clock, rested, monitors, fetchIn, fetchDue, task, fetches, inFlight, stop,
                   history, faults>>

\* No monitors: sleep and start over.
SleepNoMonitors ==
    /\ pc = "loop" /\ stop = "running"
    /\ monitors = {}
    /\ pc' = "dozing" /\ rested' = (second # 0)
    /\ UNCHANGED <<clock, monitors, fetchIn, fetchDue, task, fetches, inFlight, stop, history, faults>>

\* Mutant: the second that ends an iteration is not slept.
EndCycle_NoSleep ==
    /\ pc = "cycle"
    /\ \A m \in Monitors : task[m] = "none"
    /\ pc' = "loop" /\ rested' = FALSE
    /\ UNCHANGED fetches
    /\ UNCHANGED <<clock, monitors, fetchIn, fetchDue, task, inFlight, stop, history, faults>>

SleepUntilMinute ==
    /\ pc = "loop" /\ stop = "running"
    /\ monitors # {} /\ second # 0
    /\ pc' = "asleep"
    /\ UNCHANGED <<clock, rested, monitors, fetchIn, fetchDue, task, fetches, inFlight, stop,
                   history, faults>>

StartCycle ==
    /\ pc = "loop" /\ stop = "running"
    /\ monitors # {} /\ second = 0
    /\ pc' = "cycle"
    /\ fetchDue' = (fetchIn = 0)
    /\ task' = [m \in Monitors |-> IF m \in monitors THEN "waiting" ELSE "none"]
    /\ owed' = {m \in monitors : Due(m)}
    /\ UNCHANGED <<clock, rested, monitors, fetchIn, fetches, inFlight, stop, probes, faults>>

\* wg.Wait returns; a fetch that was due when the iteration began is started.
EndCycle ==
    /\ pc = "cycle"
    /\ \A m \in Monitors : task[m] = "none"
    /\ pc' = "sleep" /\ rested' = (second # 0)
    /\ \/ ~fetchDue /\ UNCHANGED fetches
       \/ fetchDue /\ \E f \in Fetchers :
            /\ fetches[f].pc = "none"
            /\ fetches' = [fetches EXCEPT ![f].pc = "request"]
    /\ fetchDue' = FALSE
    /\ UNCHANGED <<clock, monitors, fetchIn, task, inFlight, stop, history, faults>>

\* A sleep of a second, or of thirty, outlasts the first second of a minute; the
\* one until the next minute ends with it.
WakeUp ==
    /\ \/ pc \in {"sleep", "dozing"} /\ rested
       \/ pc = "asleep" /\ second = 0
    /\ pc' = "loop" /\ rested' = FALSE
    /\ owed' = {}
    /\ UNCHANGED <<clock, monitors, fetchIn, fetchDue, task, fetches, inFlight, stop, probes,
                   faults>>

(***************************************************************************)
(* performMonitorCheck, one goroutine per monitor of the cycle.            *)
(***************************************************************************)
Probing == {m \in Monitors : task[m] = "probing"}

\* The slot is acquired, then the clock is read to tell whether the interval
\* of a monitor that is not checked every minute has come.
performMonitorCheck(m) ==
    /\ task[m] = "waiting" /\ Cardinality(Probing) < Slots
    /\ IF Interval[m] > 1 /\ ~Due(m)
       THEN task' = [task EXCEPT ![m] = "none"] /\ UNCHANGED history
       ELSE /\ task' = [task EXCEPT ![m] = "probing"]
            /\ probes' = [probes EXCEPT ![m] = @ + 1]
            /\ owed' = owed \ {m}
    /\ UNCHANGED <<clock, mainLoop, monitors, fetches, inFlight, stop, faults>>

\* The cycle's five minutes are over before a slot is free.
AcquireFails(m) ==
    /\ Fault
    /\ task[m] = "waiting"
    /\ task' = [task EXCEPT ![m] = "none"]
    /\ UNCHANGED <<clock, mainLoop, monitors, fetches, inFlight, stop, history>>

\* Mutant: the closing flag is not looked at.
ProbeDone_Always(m) ==
    /\ task[m] = "probing"
    /\ task' = [task EXCEPT ![m] = "none"]
    /\ inFlight' = inFlight \cup {1}
    /\ UNCHANGED <<clock, mainLoop, monitors, fetches, stop, history, faults>>

\* The result is handed to a submission goroutine, unless Stop closed them.
ProbeDone(m) ==
    /\ task[m] = "probing"
    /\ task' = [task EXCEPT ![m] = "none"]
    /\ inFlight' = IF Closing THEN inFlight ELSE inFlight \cup {1}
    /\ UNCHANGED <<clock, mainLoop, monitors, fetches, stop, history, faults>>

(***************************************************************************)
(* sendMonitorSubmission: an attempt ends a submission or leads it to the  *)
(* next one; there may be other submissions at the same attempt.           *)
(***************************************************************************)
Attempt(n) ==
    /\ ~Exited /\ n \in inFlight
    /\ \E rest \in {inFlight, inFlight \ {n}} :
            \/ inFlight' = rest
            \/ n < maxAttempts /\ inFlight' = rest \cup {n + 1}
    /\ UNCHANGED <<clock, mainLoop, monitors, task, fetches, stop, history, faults>>

(***************************************************************************)
(* The background fetch: the server answers with the assignment of that    *)
(* moment, and the answer is applied when it arrives.                      *)
(***************************************************************************)
FetchAnswered(f) ==
    /\ ~Exited /\ fetches[f].pc = "request"
    /\ fetches' = [fetches EXCEPT ![f].pc = "answer", ![f].config = upstream]
    /\ UNCHANGED <<clock, mainLoop, monitors, task, inFlight, stop, history, faults>>

\* Mutant: the answer is decoded into a copy.
FetchApplied_Dropped(f) ==
    /\ ~Exited /\ fetches[f].pc = "answer"
    /\ fetches' = [fetches EXCEPT ![f].pc = "schedule", ![f].config = {}]
    /\ UNCHANGED <<clock, mainLoop, monitors, task, inFlight, stop, history, faults>>

FetchApplied(f) ==
    /\ ~Exited /\ fetches[f].pc = "answer"
    /\ monitors' = fetches[f].config
    /\ fetches' = [fetches EXCEPT ![f].pc = "schedule", ![f].config = {}]
    /\ UNCHANGED <<clock, mainLoop, task, inFlight, stop, history, faults>>

\* The next fetch is due FetchPeriod after the iteration that asked for this one
\* began, which its cycle has put any number of minutes in the past.
FetchScheduled(f) ==
    /\ ~Exited /\ fetches[f].pc = "schedule"
    /\ fetchIn' \in 0 .. FetchPeriod
    /\ fetches' = [fetches EXCEPT ![f] = NoFetch]
    /\ UNCHANGED <<clock, pc, rested, fetchDue, monitors, task, inFlight, stop, history, faults>>

\* Logged; the fetch stays due.
FetchFails(f) ==
    /\ Fault
    /\ ~Exited /\ fetches[f].pc \in {"request", "answer"}
    /\ fetches' = [fetches EXCEPT ![f] = NoFetch]
    /\ UNCHANGED <<clock, mainLoop, monitors, task, inFlight, stop, history>>

(***************************************************************************)
(* The shutdown handler of main and Checker.Stop.                          *)
(***************************************************************************)
ExitSignal ==
    /\ ~Exited /\ stop = "running"
    /\ stop' = "closed"
    /\ UNCHANGED <<clock, mainLoop, monitors, task, fetches, inFlight, history, faults>>

CloseSubmissions ==
    /\ ~Exited /\ stop = "closed"
    /\ stop' = "closing"
    /\ UNCHANGED <<clock, mainLoop, monitors, task, fetches, inFlight, history, faults>>

\* Mutant: Stop waits for the submissions whatever it takes.
StopReturns_NoTimeout ==
    /\ ~Exited /\ stop = "closing"
    /\ inFlight = {} /\ stop' = "drained"
    /\ UNCHANGED <<clock, mainLoop, monitors, task, fetches, inFlight, history, faults>>

\* The submissions are drained, or ten seconds have passed.
StopReturns ==
    /\ ~Exited /\ stop = "closing"
    /\ \/ inFlight = {} /\ stop' = "drained"
       \/ stop' = "timeout"
    /\ UNCHANGED <<clock, mainLoop, monitors, task, fetches, inFlight, history, faults>>

\* main: Start has returned and the handler is through.
Exit ==
    /\ pc = "stopped" /\ stop \in {"drained", "timeout"}
    /\ pc' = "exited"
    /\ UNCHANGED <<clock, rested, monitors, fetchIn, fetchDue, task, fetches, inFlight, stop,
                   history, faults>>
-----------------------------------------------------------------------------
MainLoop ==
    \/ registerToUpstream \/ RetryRegistration
    \/ LeaveLoop \/ SleepNoMonitors \/ SleepUntilMinute \/ StartCycle \/ EndCycle \/ WakeUp

Checks == \E m \in Monitors : performMonitorCheck(m) \/ ProbeDone(m)

Submissions == \E n \in 1 .. maxAttempts : Attempt(n)

Fetching == \E f \in Fetchers : FetchAnswered(f) \/ FetchApplied(f) \/ FetchScheduled(f)

Stopping == CloseSubmissions \/ StopReturns \/ Exit

Failures ==
    \/ RegistrationFails
    \/ \E m \in Monitors : AcquireFails(m)
    \/ \E f \in Fetchers : FetchFails(f)

Next ==
    \/ Tick \/ MainLoop \/ Checks \/ Submissions \/ Fetching \/ Stopping \/ Failures
    \/ ExitSignal
    \/ \E config \in Configs : Reconfigure(config)

Spec == Init /\ [][Next]_vars

\* Time passes and every goroutine is scheduled; requests are answered or time
\* out.  Nothing is assumed of the submissions, whose requests have no timeout.
FairSpec ==
    Spec /\ WF_vars(Tick) /\ WF_vars(MainLoop) /\ WF_vars(Checks) /\ WF_vars(Fetching)
         /\ WF_vars(Stopping)
-----------------------------------------------------------------------------
\* A monitor is probed at most once a minute, however long a cycle waits for
\* slots and wherever in the minute it ends.
OncePerMinute == \A m \in Monitors : probes[m] <= 1

\* When Stop reports that the submissions are drained, none is in flight and no
\* probe that is still running adds one: "wait for the ones already in flight so
\* their results are not lost on process exit".
DrainedMeansDrained == stop = "drained" => inFlight = {}

\* A monitor whose interval has come when the cycle begins is checked in it: "if
\* the interval is 5 minutes, we want to perform checks at 0, 5, 10, 15, ... minutes".
CheckedWhenDue == pc = "sleep" => owed = {}

\* A checker with something to check ends up with the server's assignment once
\* that stops changing, although fetches fail, overlap and bring stale answers.
ConfigCatchesUp == <>[](Exited \/ stop # "running" \/ monitors \in {upstream, {}})

\* So does every checker: "We fetch new monitor config from upstream in the
\* background".
AssignmentReachesAll == <>[](Exited \/ stop # "running" \/ monitors = upstream)

\* A process that is told to stop exits, although submissions may hang, cycles
\* wait for slots and the registration is retried.
ShutdownCompletes == stop # "running" ~> Exited
=============================================================================
