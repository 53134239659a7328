--------------------------------- MODULE Gate ---------------------------------
(***************************************************************************)
(* What the agent promises about admission, whatever happens behind it: at *)
(* most MaxConcurrent calls are inside, a call is turned away only when    *)
(* every slot is taken, and turning one away is final (nothing is queued). *)
(* Agent.tla is shown to implement this specification.                     *)
(***************************************************************************)
EXTENDS Naturals, FiniteSets

CONSTANTS Calls,         \* the calls of HandleMessage
          MaxConcurrent  \* the number of concurrency slots

VARIABLES inside,   \* the calls that hold a slot
          refused   \* the calls that were answered ErrBusy

vars == <<inside, refused>>

Init == inside = {} /\ refused = {}

Enter(c) ==
    /\ c \notin inside \cup refused
    /\ Cardinality(inside) < MaxConcurrent
    /\ inside' = inside \cup {c}
    /\ UNCHANGED refused

Refuse(c) ==
    /\ c \notin inside \cup refused
    /\ Cardinality(inside) = MaxConcurrent
    /\ refused' = refused \cup {c}
    /\ UNCHANGED inside

Leave(c) ==
    /\ c \in inside
    /\ inside' = inside \ {c}
    /\ UNCHANGED refused

\* The process dies: whoever was inside is gone.
Vacate ==
    /\ inside' = {}
    /\ UNCHANGED refused

Next == Vacate \/ \E c \in Calls : Enter(c) \/ Refuse(c) \/ Leave(c)

Spec == Init /\ [][Next]_vars
===============================================================================
