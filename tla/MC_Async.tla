------------------------------- MODULE MC_Async -------------------------------
(* Model-checking instance of Async.  f1, called on a1, awaits q1 (resolved  *)
(* by a2) and then q2 (resolved by a1 itself); f2, called on a2, awaits the *)
(* async function g, which its asyncCall calls and which awaits q3          *)
(* (resolved by a1).  The actors' mailboxes either all target one root queue   *)
(* (SharedRoot) or each target the global concurrent queue (Independent).  *)
EXTENDS Async, TLC

CONSTANTS a1, a2, f1, f2, g, q1, q2, q3

MCActors == {a1, a2}
MCFuncs == {f1, f2, g}
MCPlain == {q1, q2, q3}
MCBody == (f1 :> <<q1, q2>>) @@ (f2 :> <<g>>) @@ (g :> <<q3>>)
MCHome == (f1 :> a1) @@ (f2 :> a2) @@ (g :> a2)
MCResolver == [q \in MCPlain |-> IF q = q1 THEN a2 ELSE a1]

\* a2's mailbox targets a1's queue, as a child actor created with its parent's
\* mailbox does.
SharedRoot == [a \in MCActors |-> IF a = a2 THEN a1 ELSE NoActor]

\* Both mailboxes target the global concurrent queue.
Independent == [a \in MCActors |-> NoActor]

=============================================================================
