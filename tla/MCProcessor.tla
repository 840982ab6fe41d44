---------------------------- MODULE MCProcessor -----------------------------
(***************************************************************************)
(* Small instances of Processor for TLC.                                   *)
(***************************************************************************)
EXTENDS Processor

\* A pass, and a failure with an unexpected redirect, which the migration that
\* runs at every restart turns into a success.
MCOutcomes ==
    {[success |-> TRUE, code |-> 200, category |-> "none"],
     [success |-> FALSE, code |-> 301, category |-> "http_error"]}
=============================================================================
