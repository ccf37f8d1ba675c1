----------------------------- MODULE MC_Loopback -----------------------------
(* Model-checking instance of Loopback: socket s1's delegate sends three    *)
(* messages to s2, and the send buffer holds one, so the sender blocks and  *)
(* is unblocked by acks while s2 may still be waiting for its delegate.     *)
(* In the close scenario both ends send one message and may close early.    *)
EXTENDS Loopback

CONSTANTS s1, s2

MCActors == {s1, s2}
MCParent == [s \in MCActors |-> NoActor]
MCSendCount == [s \in MCActors |-> IF s = s1 THEN 3 ELSE 0]

\* The close scenario: each end sends one message.
MCSendOne == [s \in MCActors |-> 1]

=============================================================================
