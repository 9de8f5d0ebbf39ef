---------------------------- MODULE MCScheduler ----------------------------
(***************************************************************************)
(* The instance of Scheduler that TLC checks: the constants get their      *)
(* values in the configurations.                                           *)
(***************************************************************************)
EXTENDS Scheduler

=============================================================================
