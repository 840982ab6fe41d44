---------------------------- MODULE MCUptimeRead ----------------------------
(***************************************************************************)
(* A small instance of UptimeRead for TLC: two requests for a monitor with *)
(* one region, in the last day but one and across midnight, each backend   *)
(* with one of the endpoints, and one permit for the two of them.          *)
(***************************************************************************)
EXTENDS UptimeRead

MCSettings ==
    {[backend |-> "memory", configured |-> 0, kind |-> "daily"],
     [backend |-> "memory", configured |-> 1, kind |-> "daily"],
     [backend |-> "redis", configured |-> 0, kind |-> "region"]}
=============================================================================
