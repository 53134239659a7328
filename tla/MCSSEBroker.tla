------------------------------ MODULE MCSSEBroker ------------------------------
(* Instances of SSEBroker for TLC. *)
EXTENDS SSEBroker, TLC

CONSTANTS darryl, kevin, page, board

\* Kevin publishes under no run; the page of run 1 and the dashboard listen.
RunOfAgents == darryl :> 1 @@ kevin :> 0
FollowsOf == page :> 1 @@ board :> 0
===============================================================================
