---------------------------- MODULE MCDashboard ----------------------------
(***************************************************************************)
(* Instances of Dashboard: constants are given in the configuration.       *)
(***************************************************************************)
EXTENDS Dashboard
=============================================================================
