-------------------------- MODULE IncidentTimeline --------------------------
(***************************************************************************)
(* What the incident tables promise, without queues, failures or rows:     *)
(* each monitor is either clear or has one open incident, and its timeline *)
(* is a repetition of created, updated*, resolved.                         *)
(***************************************************************************)
EXTENDS Sequences

CONSTANT Monitors

VARIABLES
    phase,      \* [Monitors -> {"clear", "open"}]
    timeline    \* the event log, a sequence of [monitor, type]

vars == <<phase, timeline>>

Log(m, type) == timeline' = Append(timeline, [monitor |-> m, type |-> type])

Init ==
    /\ phase = [m \in Monitors |-> "clear"]
    /\ timeline = <<>>

Open(m) ==
    /\ phase[m] = "clear"
    /\ phase' = [phase EXCEPT ![m] = "open"]
    /\ Log(m, "created")

Update(m) ==
    /\ phase[m] = "open"
    /\ UNCHANGED phase
    /\ Log(m, "updated")

Resolve(m) ==
    /\ phase[m] = "open"
    /\ phase' = [phase EXCEPT ![m] = "clear"]
    /\ Log(m, "resolved")

Next == \E m \in Monitors : Open(m) \/ Update(m) \/ Resolve(m)

Spec == Init /\ [][Next]_vars
=============================================================================
