------------------------------- MODULE Async -------------------------------
(***************************************************************************)
(* Async functions and providers (src/src/util/Async.hh) running in actor *)
(* mailboxes (Mailbox.tla).                                                *)
(*                                                                         *)
(* An async function f is started by a mailbox event of its home actor.  *)
(* Its body is the sequence Body[f] of providers it awaits with           *)
(* asyncCall, in order.  An awaited provider is plain, or the result of   *)
(* another async function g that f's asyncCall calls: g's constructor     *)
(* runs g's body at once, on f's thread, before f tests whether it is     *)
(* ready, and g's return wakes f.  Each plain provider q is resolved by a *)
(* mailbox event of Resolver[q], which calls setResult.  When f must wait,*)
(* it registers as q's observer.  When q gets its result, it wakes f,     *)
(* which means enqueueing f.next() on the actor f captured.               *)
(*                                                                         *)
(* Async.hh has no lock and no atomic.  So every read or write of a field *)
(* that another thread also uses is an atomic step of its own: the ready  *)
(* test of mustWaitFor, the setObserver of _wait, and each of the         *)
(* statements of _gotResult.  Statements that only touch f's own state    *)
(* stay merged with the shared access next to them.  Memory is taken to   *)
(* be sequentially consistent.                                            *)
(***************************************************************************)
EXTENDS Mailbox
LOCAL INSTANCE SequencesExt

CONSTANTS
    Funcs,       \* async functions (each an AsyncProvider running a body)
    Plain,       \* providers created with Async<T>::provider()
    Body,        \* Body[f]: the providers f awaits, in order
    Home,        \* Home[f]: the actor whose method calls f
    Resolver,    \* Resolver[q]: the actor whose method calls q.setResult
    None         \* model value: a null provider pointer

Providers == Funcs \cup Plain

\* The functions that some function's asyncCall calls, and the others,
\* which actor methods start.
Called == Funcs \cap UNION {ToSet(Body[f]) : f \in Funcs}
TopLevel == Funcs \ Called

\* Each function awaits each provider once, no function calls itself, at
\* most one function calls a given one, and a called function's home is its
\* caller's.
ASSUME /\ Body \in [Funcs -> Seq(Providers)]
       /\ \A f \in Funcs : IsInjective(Body[f])
       /\ \A f, g \in Funcs : f # g => ToSet(Body[f]) \cap ToSet(Body[g]) = {}
       /\ \A f \in Funcs : f \notin ToSet(Body[f])
       /\ TopLevel # {}
       /\ Home \in [Funcs -> Actors]
       /\ \A f \in Funcs, g \in Called : g \in ToSet(Body[f]) => Home[g] = Home[f]
       /\ Resolver \in [Plain -> Actors]
       /\ None \notin Funcs \cup Plain

VARIABLES
    ready,       \* AsyncProviderBase::_ready
    observer,    \* AsyncProviderBase::_observer
    waitingOn,   \* AsyncState::_waitingOn of each function
    step,        \* the asyncCalls of f whose result it has taken (_continueAt)
    actorOf,     \* AsyncProviderBase::_actor, captured in _wait
    pc,          \* where the block running on each actor's thread is
    cur,         \* the provider that block works on
    obs,         \* the local `observer` of _gotResult
    stack,       \* callers whose asyncCall runs a callee's constructor
    constructed, \* the called functions whose AsyncProvider exists
    failed       \* the asserts that have failed

asyncVars == <<ready, observer, waitingOn, step, actorOf, constructed>>
threadVars == <<pc, cur, obs, stack>>
vars == <<mailboxVars, asyncVars, threadVars, failed>>

\* The mailbox events: an actor method starting f, the wake-up scheduled by
\* Actor::wakeAsyncProvider, and an actor method calling q.setResult.
Start(f) == [kind |-> "start", id |-> f]
Wake(f) == [kind |-> "wake", id |-> f]
Resolve(q) == [kind |-> "resolve", id |-> q]

\* Mutant: the observer is cleared before it is read.
GotResultStepsClearingFirst == <<"setReady", "clearObs", "readObs", "wakeUp">>

\* Mutant: the observer is woken before _ready is set.
GotResultStepsReadyLast == <<"readObs", "clearObs", "wakeUp", "setReady">>

\* The statements of _gotResult, in the order the code runs them.
GotResultSteps == <<"setReady", "readObs", "clearObs", "wakeUp">>

\* The statement of _gotResult that follows s ("end" after the last one).
AfterStep(s) ==
    LET i == CHOOSE j \in 1..Len(GotResultSteps) : GotResultSteps[j] = s
    IN IF i = Len(GotResultSteps) THEN "end" ELSE GotResultSteps[i + 1]

\* The scenario, not code: each actor's mailbox starts holding, in some
\* order, the starts of its top-level functions and its resolutions.
InitialEvents(a) ==
    {Start(f) : f \in {g \in TopLevel : Home[g] = a}}
      \cup {Resolve(q) : q \in {p \in Plain : Resolver[p] = a}}

Init ==
    /\ \E init \in [Actors -> UNION {SetToSeqs(InitialEvents(a)) : a \in Actors}] :
          /\ \A a \in Actors : init[a] \in SetToSeqs(InitialEvents(a))
          /\ MailboxInit(init)
    /\ ready = [p \in Providers |-> FALSE]
    /\ observer = [p \in Providers |-> None]
    /\ waitingOn = [f \in Funcs |-> None]
    /\ step = [f \in Funcs |-> 0]
    /\ actorOf = [f \in Funcs |-> NoActor]
    /\ pc = [a \in Actors |-> "idle"]
    /\ cur = [a \in Actors |-> None]
    /\ obs = [a \in Actors |-> None]
    /\ stack = [a \in Actors |-> <<>>]
    /\ constructed = {}
    /\ failed = {}

(***************************************************************************)
(* A mailbox of a starts its next block, which safelyCall calls.  A start *)
(* runs f's body from case *)
(* 0, a wake-up runs next() from _continueAt, and a resolve calls         *)
(* setResult, which stores the result and then runs _gotResult.           *)
(***************************************************************************)
Begin(a) ==
    /\ Dispatch(a)
    /\ LET ev == Head(mqueue[a])
       IN /\ cur' = [cur EXCEPT ![a] = ev.id]
          /\ pc' = [pc EXCEPT ![a] = CASE ev.kind = "start" -> "call"
                                       [] ev.kind = "wake"  -> "resume"
                                       [] OTHER             -> GotResultSteps[1]]
    /\ obs' = [obs EXCEPT ![a] = None]
    /\ UNCHANGED <<asyncVars, stack, failed>>

\* Mutant: asyncCall goes on to asyncResult without the ready() test.
MustWaitForNothing(q) == FALSE

\* What AsyncState::mustWaitFor returns: the awaited provider is not ready.
MustWaitFor(q) == ~ready[q]

\* The provider f's next asyncCall awaits, if its body has one left.
NextAwaited(f) == IF step[f] < Len(Body[f]) THEN Body[f][step[f] + 1] ELSE None

(***************************************************************************)
(* The CALL of f's next asyncCall is an async function g: _asyncBody       *)
(* constructs g's AsyncProvider, whose constructor calls next(), and g's   *)
(* body runs from case 0 on this thread while f's is suspended.           *)
(***************************************************************************)
CallAsync(a) ==
    /\ pc[a] = "call"
    /\ LET f == cur[a]
           g == NextAwaited(f)
       IN /\ g \in Funcs \ constructed
          /\ constructed' = constructed \cup {g}
          /\ stack' = [stack EXCEPT ![a] = Append(@, f)]
          /\ cur' = [cur EXCEPT ![a] = g]
    /\ UNCHANGED <<mailboxVars, ready, observer, waitingOn, step, actorOf, pc, obs, failed>>

(***************************************************************************)
(* f's body reaches its next asyncCall, whose provider exists:            *)
(* mustWaitFor records the provider and the label, then tests ready().    *)
(* If the provider is ready, the body goes on and takes the result with  *)
(* asyncResult.  If not, the lambda returns and next() calls _wait.  When *)
(* the body runs out of calls, it returns its value: _waitingOn is null,  *)
(* so next() calls _gotResult.                                            *)
(***************************************************************************)
Call(a) ==
    /\ pc[a] = "call"
    /\ LET f == cur[a]
           q == NextAwaited(f)
       IN /\ q \notin Funcs \ constructed
          /\ IF q # None
             THEN LET wait == MustWaitFor(q)
                  IN /\ waitingOn' = [waitingOn EXCEPT ![f] = IF wait THEN q ELSE None]
                     /\ step' = [step EXCEPT ![f] = IF wait THEN @ ELSE @ + 1]
                     /\ pc' = [pc EXCEPT ![a] = IF wait THEN "wait" ELSE "call"]
             ELSE /\ pc' = [pc EXCEPT ![a] = GotResultSteps[1]]
                  /\ UNCHANGED <<waitingOn, step>>
    /\ UNCHANGED <<mailboxVars, ready, observer, actorOf, constructed, cur, obs, stack, failed>>

(***************************************************************************)
(* AsyncProviderBase::_wait: capture Actor::currentActor(), then          *)
(* setObserver on the awaited provider.  setObserver asserts that the     *)
(* provider has no observer yet.                                          *)
(***************************************************************************)
Wait(a) ==
    /\ pc[a] = "wait"
    /\ LET f == cur[a]
           q == waitingOn[f]
       IN /\ actorOf' = [actorOf EXCEPT ![f] = a]
          /\ failed' = IF observer[q] # None THEN failed \cup {"setObserver"} ELSE failed
          /\ observer' = [observer EXCEPT ![q] = f]
    /\ pc' = [pc EXCEPT ![a] = "end"]
    /\ UNCHANGED <<mailboxVars, ready, waitingOn, step, cur, obs, constructed, stack>>

(***************************************************************************)
(* The wake-up block runs f.next(), and the body resumes at _continueAt.  *)
(* asyncResult takes the result, and result() asserts _ready.  It then    *)
(* clears _waitingOn, and the body goes on to its next call.              *)
(***************************************************************************)
Resume(a) ==
    /\ pc[a] = "resume"
    /\ LET f == cur[a]
           q == waitingOn[f]
       IN /\ failed' = IF q # None /\ ready[q] THEN failed ELSE failed \cup {"result"}
          /\ waitingOn' = [waitingOn EXCEPT ![f] = None]
          /\ step' = [step EXCEPT ![f] = @ + 1]
    /\ pc' = [pc EXCEPT ![a] = "call"]
    /\ UNCHANGED <<mailboxVars, ready, observer, actorOf, cur, obs, constructed, stack>>

(***************************************************************************)
(* _gotResult of a plain provider, one statement per step:                *)
(*   _ready = true; auto observer = _observer; _observer = nullptr;       *)
(*   if (observer) observer->wakeUp(this);                                *)
(* wakeUp asserts that the observer waits on this provider, and asks the  *)
(* observer's actor to run next() (Actor::wakeAsyncProvider).             *)
(***************************************************************************)
\* Mutant: the wake-up goes to the actor that resolved the provider.
WakeTargetResolver(a, f) == a

\* The mailbox wakeUp hands f's next() to: Actor::wakeAsyncProvider on the
\* actor f captured in _wait.
WakeTarget(a, f) == actorOf[f]

SetReady(a) ==
    /\ pc[a] = "setReady"
    /\ ready' = [ready EXCEPT ![cur[a]] = TRUE]
    /\ pc' = [pc EXCEPT ![a] = AfterStep("setReady")]
    /\ UNCHANGED <<mailboxVars, observer, waitingOn, step, actorOf, cur, obs, constructed, stack, failed>>

ReadObs(a) ==
    /\ pc[a] = "readObs"
    /\ obs' = [obs EXCEPT ![a] = observer[cur[a]]]
    /\ pc' = [pc EXCEPT ![a] = AfterStep("readObs")]
    /\ UNCHANGED <<mailboxVars, asyncVars, cur, stack, failed>>

ClearObs(a) ==
    /\ pc[a] = "clearObs"
    /\ observer' = [observer EXCEPT ![cur[a]] = None]
    /\ pc' = [pc EXCEPT ![a] = AfterStep("clearObs")]
    /\ UNCHANGED <<mailboxVars, ready, waitingOn, step, actorOf, cur, obs, constructed, stack, failed>>

WakeUp(a) ==
    /\ pc[a] = "wakeUp"
    /\ LET f == obs[a]
       IN IF f = None
          THEN UNCHANGED <<mailboxVars, failed>>
          ELSE /\ failed' = IF waitingOn[f] = cur[a] THEN failed
                            ELSE failed \cup {"wakeUp"}
               /\ Enqueue(WakeTarget(a, f), Wake(f))
               /\ UNCHANGED running
    /\ pc' = [pc EXCEPT ![a] = AfterStep("wakeUp")]
    /\ UNCHANGED <<asyncVars, cur, obs, stack>>

(***************************************************************************)
(* A called function's next() returns, having waited or returned its      *)
(* value: its constructor returns, _asyncBody hands the caller the Async, *)
(* and the caller's asyncCall goes on to mustWaitFor.                     *)
(***************************************************************************)
ReturnToCaller(a) ==
    /\ pc[a] = "end"
    /\ stack[a] # <<>>
    /\ cur' = [cur EXCEPT ![a] = Last(stack[a])]
    /\ stack' = [stack EXCEPT ![a] = Front(@)]
    /\ pc' = [pc EXCEPT ![a] = "call"]
    /\ UNCHANGED <<mailboxVars, asyncVars, obs, failed>>

\* The block returns and the wrapped block calls afterEvent.
End(a) ==
    /\ pc[a] = "end"
    /\ stack[a] = <<>>
    /\ AfterEvent(a)
    /\ pc' = [pc EXCEPT ![a] = "idle"]
    /\ cur' = [cur EXCEPT ![a] = None]
    /\ UNCHANGED <<asyncVars, obs, stack, failed>>

Next ==
    \E a \in Actors :
        \/ Begin(a)
        \/ CallAsync(a) \/ Call(a) \/ Wait(a) \/ Resume(a) \/ ReturnToCaller(a)
        \/ SetReady(a) \/ ReadObs(a) \/ ClearObs(a) \/ WakeUp(a)
        \/ End(a)

(***************************************************************************)
(* A thread that runs a block keeps running it, so each statement is      *)
(* weakly fair.  GCD keeps draining a mailbox whose queue holds blocks.   *)
(* But a mailbox of a shared tree is only intermittently free to start a  *)
(* block, so Begin is strongly fair.                                      *)
(***************************************************************************)
Fairness ==
    \A a \in Actors :
        /\ SF_vars(Begin(a))
        /\ WF_vars(CallAsync(a) \/ Call(a) \/ Wait(a) \/ Resume(a) \/ ReturnToCaller(a)
                   \/ SetReady(a) \/ ReadObs(a) \/ ClearObs(a) \/ WakeUp(a) \/ End(a))

Spec == Init /\ [][Next]_vars /\ Fairness

(***************************************************************************)
(* Properties                                                              *)
(***************************************************************************)

TypeOK ==
    /\ ready \in [Providers -> BOOLEAN]
    /\ observer \in [Providers -> Funcs \cup {None}]
    /\ waitingOn \in [Funcs -> Providers \cup {None}]
    /\ constructed \subseteq Called
    /\ \A a \in Actors : stack[a] \in Seq(Funcs)
    /\ \A f \in Funcs : step[f] \in 0..Len(Body[f])
    /\ actorOf \in [Funcs -> Actors \cup {NoActor}]
    /\ eventCount \in [Actors -> Nat]
    /\ failed \subseteq {"setObserver", "result", "wakeUp"}

\* The asserts of Async.hh hold.  setObserver is never called on a provider
\* that already has an observer.  wakeUp is only called for the provider the
\* function waits on.  A resumed function only takes the result of a provider
\* that is ready.  In other words, the wake-up that _gotResult sends always
\* comes after _ready is set and after the observer registered.
AssertionsHold == failed = {}

\* Each async function runs only on its home actor's thread: a called
\* function on its caller's, whichever actor resolves what it awaits.  The
\* THREADING comment of Async.hh: an async Actor method that waits is
\* resumed on that Actor's execution context, so the Actor's code runs
\* single-threaded, through chains of async calls too.
RunsOnHome == \A a \in Actors : cur[a] \in Funcs => Home[cur[a]] = a

\* Every async function eventually returns its result.  A provider that gets
\* its result always wakes the function that waits on it: no wake-up is
\* lost between mustWaitFor's ready() test and _wait's setObserver.
AllFinish == \A f \in Funcs : <>ready[f]

\* The abstract async functions of AsyncAwait, seen through the providers'
\* _ready flags and the functions' _continueAt.
Await == INSTANCE AsyncAwait
             WITH resolved <- [q \in Plain |-> ready[q]],
                  taken <- step,
                  finished <- [f \in Funcs |-> ready[f]]

\* Every step of the threads running the Async.hh code is a step of the
\* atomic await of AsyncAwait or leaves it unchanged: a function takes a
\* result only from a ready provider, in the order of its body, and returns
\* only after its last one, however the unsynchronised statements of
\* mustWaitFor, _wait and _gotResult interleave across threads.
AwaitSafety == Await!Safety

=============================================================================
