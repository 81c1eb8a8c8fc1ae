---------------------------- MODULE MCSimulator ----------------------------
(***************************************************************************)
(* Instances of Simulator for TLC: two objects, three test runs and all    *)
(* the timeouts.                                                           *)
(***************************************************************************)
EXTENDS Simulator

MCSignals == {"SIGTERM"}
=============================================================================
