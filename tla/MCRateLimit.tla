------------------------------ MODULE MCRateLimit ------------------------------
(* Instances of RateLimit for TLC; the bounds are numbers, given in the cfg. *)
EXTENDS RateLimit
===============================================================================
