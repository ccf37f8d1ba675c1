----------------------------- MODULE AsyncAwait -----------------------------
(***************************************************************************)
(* What an async function promises, in the terms of spec.md 4.3 and of    *)
(* the THREADING comment of src/src/util/Async.hh, with each step atomic. *)
(* A provider becomes ready once.  An async function takes the results of *)
(* the providers it awaits one at a time, in the order of its body, each  *)
(* only once that provider is ready.  After the last one it returns its   *)
(* own result.  An awaited provider may be another async function, whose *)
(* result is ready once it has returned (spec 4.3: chained waiting).      *)
(* The runtime promises that a function whose awaited        *)
(* provider is ready does resume: Take and Return are weakly fair.        *)
(* Nothing promises that a provider ever gets its result, so Resolve is   *)
(* not fair.                                                              *)
(***************************************************************************)
EXTENDS Naturals, Sequences

CONSTANTS
    Funcs,       \* the async functions
    Plain,       \* the providers whose results they await
    Body         \* Body[f]: the providers and functions f awaits, in order

VARIABLES
    resolved,    \* the provider has its result
    taken,       \* how many of its awaited results f has taken
    finished     \* f has returned its result

vars == <<resolved, taken, finished>>

Init ==
    /\ resolved = [q \in Plain |-> FALSE]
    /\ taken = [f \in Funcs |-> 0]
    /\ finished = [f \in Funcs |-> FALSE]

Resolve(q) ==
    /\ ~resolved[q]
    /\ resolved' = [resolved EXCEPT ![q] = TRUE]
    /\ UNCHANGED <<taken, finished>>

\* The result of p is available: a plain provider resolved, a function returned.
Available(p) == IF p \in Plain THEN resolved[p] ELSE finished[p]

\* f takes the result of the next provider it awaits, which must be ready.
Take(f) ==
    /\ taken[f] < Len(Body[f])
    /\ Available(Body[f][taken[f] + 1])
    /\ taken' = [taken EXCEPT ![f] = @ + 1]
    /\ UNCHANGED <<resolved, finished>>

\* f has all its results and returns.
Return(f) ==
    /\ taken[f] = Len(Body[f])
    /\ ~finished[f]
    /\ finished' = [finished EXCEPT ![f] = TRUE]
    /\ UNCHANGED <<resolved, taken>>

Next ==
    \/ \E q \in Plain : Resolve(q)
    \/ \E f \in Funcs : Take(f) \/ Return(f)

Safety == Init /\ [][Next]_vars

Spec == Safety /\ \A f \in Funcs : WF_vars(Take(f)) /\ WF_vars(Return(f))

=============================================================================
