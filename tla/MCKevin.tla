-------------------------------- MODULE MCKevin -------------------------------
(* An instance of Kevin for TLC. *)
EXTENDS Kevin, TLC

CONSTANTS hi, digest, reminder, r1

\* Jobs differ in nothing.
AnyJob == Permutations(Jobs)
===============================================================================
