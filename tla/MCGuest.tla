------------------------------ MODULE MCGuest ------------------------------
(* Instances of Guest for TLC. *)
EXTENDS Guest, TLC

\* Both trials are with one assistant: their turns and retellings meet.
MCAgentOf == [t \in Trials |-> CHOOSE a \in Assistants : TRUE]
Symmetry == Permutations(Trials) \cup Permutations(Users) \cup Permutations(Flows)
=============================================================================
