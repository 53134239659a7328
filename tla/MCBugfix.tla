------------------------------- MODULE MCBugfix -------------------------------
(* Instances of Bugfix for TLC. *)
EXTENDS Bugfix

CONSTANT a
===============================================================================
