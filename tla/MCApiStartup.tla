---------------------------- MODULE MCApiStartup ----------------------------
(***************************************************************************)
(* Instances of ApiStartup: constants are given in the configurations.     *)
(***************************************************************************)
EXTENDS ApiStartup
=============================================================================
