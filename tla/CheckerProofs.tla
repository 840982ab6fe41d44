---------------------------- MODULE CheckerProofs ----------------------------
(***************************************************************************)
(* Proofs about Checker for every set of monitors with any intervals, any  *)
(* number of slots and attempts, and any bound on changes and faults.      *)
(***************************************************************************)
EXTENDS Checker, TLAPS

\* Once Stop has closed the submissions nothing opens them again, so none is in
\* flight any more after Stop found none: a probe that is still running keeps
\* its result to itself, and attempts only follow attempts.
THEOREM DrainedStaysDrained == Spec => []DrainedMeansDrained
<1>1. Init => DrainedMeansDrained
  BY DEF Init, DrainedMeansDrained
<1>2. DrainedMeansDrained /\ [Next]_vars => DrainedMeansDrained'
  <2> SUFFICES ASSUME DrainedMeansDrained, [Next]_vars, stop' = "drained"
               PROVE  inFlight' = {}
    BY DEF DrainedMeansDrained
  <2> USE DEF DrainedMeansDrained
  <2>1. CASE Tick
    BY <2>1 DEF Tick
  <2>2. CASE MainLoop
    BY <2>2 DEF MainLoop, registerToUpstream, RetryRegistration, LeaveLoop, SleepNoMonitors,
                SleepUntilMinute, StartCycle, EndCycle, WakeUp
  <2>3. CASE Checks
    BY <2>3 DEF Checks, performMonitorCheck, ProbeDone, Closing
  <2>4. CASE Submissions
    BY <2>4 DEF Submissions, Attempt
  <2>5. CASE Fetching
    BY <2>5 DEF Fetching, FetchAnswered, FetchApplied, FetchScheduled
  <2>6. CASE Stopping
    BY <2>6 DEF Stopping, CloseSubmissions, StopReturns, Exit
  <2>7. CASE Failures
    BY <2>7 DEF Failures, RegistrationFails, AcquireFails, FetchFails
  <2>8. CASE ExitSignal \/ \E config \in Configs : Reconfigure(config)
    BY <2>8 DEF ExitSignal, Reconfigure
  <2>9. CASE UNCHANGED vars
    BY <2>9 DEF vars
  <2> QED
    BY <2>1, <2>2, <2>3, <2>4, <2>5, <2>6, <2>7, <2>8, <2>9 DEF Next
<1> QED
  BY <1>1, <1>2, PTL DEF Spec

(***************************************************************************)
(* One probe of a monitor per minute.                                      *)
(***************************************************************************)
ProbeType ==
    /\ second \in {0, 1}
    /\ task \in [Monitors -> {"none", "waiting", "probing"}]
    /\ probes \in [Monitors -> Nat]

\* Goroutines that check a monitor only run while their cycle does.
TasksOfCycle == pc # "cycle" => task = NoTasks

\* A monitor that was probed in this minute does not wait for a slot; and in the
\* first second of the minute the loop is not where it could start a cycle: the
\* sleep that ends one is not over before that second is.
NotAgain ==
    \A m \in Monitors : probes[m] > 0 =>
        /\ probes[m] = 1
        /\ task[m] # "waiting"
        /\ second = 0 => \/ pc \in {"cycle", "stopped", "exited"}
                         \/ pc \in {"sleep", "dozing"} /\ ~rested

OnceInv == ProbeType /\ TasksOfCycle /\ NotAgain

\* The clock: a new minute starts with no probes, and a sleep may only be over
\* after the first second.
LEMMA TickKeepsOnce ==
    ASSUME OnceInv, Tick
    PROVE  OnceInv'
<1> USE DEF OnceInv
<1>1. UNCHANGED <<pc, task>>
  BY DEF Tick
<1>2. CASE second' = 1 /\ UNCHANGED probes
  BY <1>1, <1>2 DEF ProbeType, TasksOfCycle, NoTasks, NotAgain
<1>3. CASE second' = 0 /\ probes' = [m \in Monitors |-> 0]
  BY <1>1, <1>3 DEF ProbeType, TasksOfCycle, NoTasks, NotAgain
<1> QED
  BY <1>2, <1>3 DEF Tick

\* The main loop: a cycle starts where no monitor was probed in this minute, and
\* one that ends in the first second of a minute sleeps through it.
LEMMA MainLoopKeepsOnce ==
    ASSUME OnceInv, MainLoop
    PROVE  OnceInv'
<1> USE DEF OnceInv
<1>1. UNCHANGED <<second, probes>>
  BY DEF MainLoop, registerToUpstream, RetryRegistration, LeaveLoop, SleepNoMonitors,
         SleepUntilMinute, StartCycle, EndCycle, WakeUp, clock, history
<1>2. CASE StartCycle
  <2>1. task' = [m \in Monitors |-> IF m \in monitors THEN "waiting" ELSE "none"] /\ pc' = "cycle"
        /\ pc = "loop" /\ second = 0
    BY <1>2 DEF StartCycle
  <2>2. \A m \in Monitors : ~(probes[m] > 0)
    BY <2>1 DEF NotAgain
  <2> QED
    BY <1>1, <2>1, <2>2 DEF ProbeType, TasksOfCycle, NotAgain
<1>3. CASE EndCycle
  <2>1. task' = task /\ pc' = "sleep" /\ rested' = (second # 0) /\ pc = "cycle"
        /\ \A m \in Monitors : task[m] = "none"
    BY <1>3 DEF EndCycle
  <2>2. task = NoTasks
    BY <2>1 DEF ProbeType, NoTasks
  <2> QED
    BY <1>1, <2>1, <2>2 DEF ProbeType, TasksOfCycle, NoTasks, NotAgain
<1>4. CASE registerToUpstream \/ RetryRegistration \/ LeaveLoop \/ SleepUntilMinute
  <2>1. UNCHANGED task /\ pc # "cycle" /\ pc' # "cycle"
    BY <1>4 DEF registerToUpstream, RetryRegistration, LeaveLoop, SleepUntilMinute
  <2>2. \/ pc' = "stopped" \/ second # 0
        \/ pc \in {"register", "retry"}
    BY <1>4 DEF registerToUpstream, RetryRegistration, LeaveLoop, SleepUntilMinute
  <2> QED
    BY <1>1, <2>1, <2>2 DEF ProbeType, TasksOfCycle, NoTasks, NotAgain
<1>5. CASE SleepNoMonitors
  BY <1>1, <1>5 DEF SleepNoMonitors, ProbeType, TasksOfCycle, NoTasks, NotAgain
<1>6. CASE WakeUp
  <2>1. UNCHANGED task /\ pc' = "loop"
        /\ (pc = "asleep" \/ (pc \in {"sleep", "dozing"} /\ rested))
    BY <1>6 DEF WakeUp
  <2> QED
    BY <1>1, <2>1 DEF ProbeType, TasksOfCycle, NoTasks, NotAgain
<1> QED
  BY <1>2, <1>3, <1>4, <1>5, <1>6 DEF MainLoop

\* The goroutines of the cycle: who waited has not been probed in this minute.
LEMMA ChecksKeepOnce ==
    ASSUME OnceInv, NEW m \in Monitors,
           performMonitorCheck(m) \/ ProbeDone(m) \/ AcquireFails(m)
    PROVE  OnceInv'
<1> USE DEF OnceInv
<1>1. /\ UNCHANGED <<second, pc, rested>>
      /\ task[m] # "none"
  BY DEF performMonitorCheck, ProbeDone, AcquireFails, clock, mainLoop
<1>2. pc = "cycle"
  BY <1>1 DEF TasksOfCycle, NoTasks
<1>3. CASE UNCHANGED probes /\ task' = [task EXCEPT ![m] = "none"]
  BY <1>1, <1>2, <1>3 DEF ProbeType, TasksOfCycle, NotAgain
<1>4. CASE /\ task' = [task EXCEPT ![m] = "probing"]
           /\ probes' = [probes EXCEPT ![m] = @ + 1] /\ task[m] = "waiting"
  <2>1. probes[m] = 0
    BY <1>4 DEF NotAgain, ProbeType
  <2>2. probes'[m] = 1 /\ \A n \in Monitors : n # m => probes'[n] = probes[n]
    BY <1>4, <2>1 DEF ProbeType
  <2> QED
    BY <1>1, <1>2, <1>4, <2>2 DEF ProbeType, TasksOfCycle, NotAgain
<1> QED
  BY <1>3, <1>4 DEF performMonitorCheck, ProbeDone, AcquireFails, history

\* A monitor is probed at most once a minute: a cycle that was held up by slow
\* probes does not let the next one begin in the minute it ends in, unless it
\* ends before anything was probed there.
THEOREM ProbedOncePerMinute == Spec => []OncePerMinute
<1>1. Init => OnceInv
  BY DEF Init, OnceInv, ProbeType, TasksOfCycle, NoTasks, NotAgain
<1>2. OnceInv /\ [Next]_vars => OnceInv'
  <2> SUFFICES ASSUME OnceInv, [Next]_vars PROVE OnceInv'
    OBVIOUS
  <2>1. ASSUME UNCHANGED <<second, pc, rested, task, probes>> PROVE OnceInv'
    BY <2>1 DEF OnceInv, ProbeType, TasksOfCycle, NoTasks, NotAgain
  <2>2. CASE Submissions \/ Fetching \/ ExitSignal \/ (\E config \in Configs : Reconfigure(config))
             \/ CloseSubmissions \/ StopReturns \/ (\E f \in Fetchers : FetchFails(f)) \/ UNCHANGED vars
    BY <2>1, <2>2 DEF Submissions, Attempt, Fetching, FetchAnswered, FetchApplied, FetchScheduled,
       CloseSubmissions, StopReturns, FetchFails, ExitSignal, Reconfigure, vars, clock, mainLoop,
       history
  <2>3. CASE Exit \/ RegistrationFails
    BY <2>3 DEF Exit, RegistrationFails, OnceInv, ProbeType, TasksOfCycle, NoTasks, NotAgain,
       clock, history
  <2> QED
    BY <2>2, <2>3, TickKeepsOnce, MainLoopKeepsOnce, ChecksKeepOnce
       DEF Next, Checks, Stopping, Failures
<1>3. OnceInv => OncePerMinute
  BY DEF OnceInv, ProbeType, NotAgain, OncePerMinute
<1> QED
  BY <1>1, <1>2, <1>3, PTL DEF Spec
=============================================================================
