------------------------------ MODULE MC_Batcher ------------------------------
(* Model-checking instance of Batcher: one owning actor, three items pushed *)
(* by producer threads, a positive latency and a capacity of 2, so that a   *)
(* push can fill the batch while a delayed pop is already pending and a     *)
(* third push can land before the immediate pop runs.                       *)
EXTENDS Batcher

CONSTANTS b, i1, i2, i3

MCActors == {b}
MCItems == {i1, i2, i3}
MCParent == [a \in MCActors |-> NoActor]

=============================================================================
