------------------------------- MODULE MCMemory -------------------------------
(* Instances of Memory for TLC. *)
EXTENDS Memory, TLC

CONSTANTS a, b

\* Entries differ in nothing.
AnyEntry == Permutations(Entries)
===============================================================================
