------------------------------- MODULE MCRunner -------------------------------
(* Instances of Runner for TLC. *)
EXTENDS Runner

Short == [kind |-> "event", size |-> 1]
Long  == [kind |-> "event", size |-> 2]
Noise == [kind |-> "noise", size |-> 1]
Blank == [kind |-> "blank", size |-> 1]
Over  == [kind |-> "event", size |-> 3]
Huge  == [kind |-> "event", size |-> 4]

AllLines == {Short, Long, Noise, Blank, Over, Huge}
===============================================================================
