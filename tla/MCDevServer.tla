------------------------------ MODULE MCDevServer ------------------------------
(* Instances of DevServer for TLC. *)
EXTENDS DevServer, TLC

CONSTANTS s1, s2, s3, stop, contracts, suppliers

\* Two starts of one app and one of another.
TwoApps == s1 :> contracts @@ s2 :> contracts @@ s3 :> suppliers
===============================================================================
