------------------------ MODULE MC_ChannelManifest ------------------------
(* Two actors on independent mailbox trees, so their blocks run on two    *)
(* threads at once; two manifests; one method, enqueued with or without   *)
(* a delay; a limit of 2 entries (100 in the code) and up to 4 calls, so   *)
(* chains pass the limit while other chains are being recorded.           *)
EXTENDS ChannelManifest

CONSTANTS a1, a2, m1, m2, x

MCActors == {a1, a2}
MCParent == [a \in MCActors |-> NoActor]
MCManifests == {m1, m2}
MCMethods == {x}

=============================================================================
