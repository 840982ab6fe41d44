----------------------------- MODULE MCPipeline -----------------------------
(***************************************************************************)
(* Two checkers in two regions and a third key that nobody registered; the *)
(* workloads are two regions in one minute, and a monitor that is no       *)
(* longer configured.                                                      *)
(***************************************************************************)
EXTENDS Pipeline

Passed == [success |-> TRUE, code |-> 200, category |-> "none"]
Failed == [success |-> FALSE, code |-> 0, category |-> "timeout"]

Checkers ==
    <<[name |-> "one", region |-> "r1", apiKey |-> "k1"],
      [name |-> "two", region |-> "r2", apiKey |-> "k2"]>>

Request(apiKey, monitor, at, outcome) ==
    [apiKey |-> apiKey, monitor |-> monitor, at |-> at, outcome |-> outcome]

Requests ==
    [a |-> Request("k1", "web", 0, Failed),
     b |-> Request("k2", "web", 0, Passed),
     c |-> Request("k1", "gone", 0, Failed),
     d |-> Request("k3", "web", 0, Failed)]

SomeSettings ==
    {[workload |-> {"a", "b"}, durable |-> TRUE, nackable |-> FALSE],
     [workload |-> {"a"}, durable |-> TRUE, nackable |-> TRUE],
     [workload |-> {"b", "d"}, durable |-> FALSE, nackable |-> TRUE],
     [workload |-> {"c"}, durable |-> TRUE, nackable |-> TRUE]}
=============================================================================
