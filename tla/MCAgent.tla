------------------------------- MODULE MCAgent --------------------------------
(* Instances of Agent for TLC. *)
EXTENDS Agent, TLC

CONSTANTS c1, c2, c3, thread, channel

\* Two calls in one thread and one in another.
TwoAndOne == c1 :> thread @@ c2 :> thread @@ c3 :> channel
===============================================================================
