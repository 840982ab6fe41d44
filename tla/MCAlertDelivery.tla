-------------------------- MODULE MCAlertDelivery ---------------------------
(***************************************************************************)
(* Small instances of AlertDelivery for TLC: the buffered ntfy target      *)
(* alone or with a direct one and a disabled one, listed in the order of   *)
(* the file; one monitor with all kinds of alert_names, or two monitors.   *)
(***************************************************************************)
EXTENDS AlertDelivery

Configured(name, kind, enabled) ==
    [name |-> name, kind |-> kind, enabled |-> enabled, url |-> TRUE]

NtfyAlone == <<Configured("ntfy", "ntfy", TRUE)>>
MCTargets ==
    NtfyAlone \o <<Configured("off", "slack", FALSE), Configured("hook", "webhook", TRUE)>>

One(names) == [m \in {"web"} |-> names]
Unnamed    == {One({})}

\* All targets (a blank list), one, or a disabled one; two monitors share ntfy.
SomeNames ==
    {One({""}), One({"hook", ""}), One({"ntfy"}), One({"off"}),
     [m \in {"web", "db"} |-> {"ntfy"}]}

\* ntfy alone can have a problem, a recovery and another one to tell of.
TwoAlerts  == [names \in Unnamed |-> 2]
SomeAlerts == [names \in SomeNames |-> IF names = One({"ntfy"}) THEN 3 ELSE 2]
=============================================================================
