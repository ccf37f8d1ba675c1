------------------------------ MODULE Mailbox ------------------------------
(***************************************************************************)
(* The actor mailbox of src/src/util/GCDMailbox.cc: one serial dispatch   *)
(* queue per actor, targeting either its parent mailbox's queue or the    *)
(* global concurrent queue.  A mailbox runs one block at a time, and a    *)
(* queue that targets a serial queue runs its blocks one at a time with   *)
(* that queue's own: every mailbox of one tree of the Parent relation is  *)
(* serial with all the others.  Mailboxes of different trees run at the   *)
(* same time on different threads.                                        *)
(*                                                                         *)
(* The module gives the mailbox's state and its steps; a client module    *)
(* says what a block does between Dispatch and AfterEvent, in as many     *)
(* steps as it needs, and calls Enqueue from inside those steps.          *)
(***************************************************************************)
EXTENDS Integers, Sequences

CONSTANTS
    Actors,      \* the actors, one mailbox each
    Parent,      \* the parent mailbox of each actor, or NoActor
    NoActor,     \* model value: no actor / the global queue
    NoEvent      \* model value: no block running

ASSUME /\ NoActor \notin Actors
       /\ Parent \in [Actors -> Actors \cup {NoActor}]

VARIABLES
    mqueue,      \* the blocks dispatch_async has queued on each mailbox
    running,     \* the block each mailbox is executing, or NoEvent
    eventCount,  \* GCDMailbox::_eventCount (and the actor's retain count)
    timers       \* blocks dispatch_after will add to each queue later

mailboxVars == <<mqueue, running, eventCount, timers>>

\* The mailbox whose queue ends the chain of target queues.
RECURSIVE Root(_)
Root(a) == IF Parent[a] = NoActor THEN a ELSE Root(Parent[a])

\* GCD starts a block of a only when no mailbox of its tree is in a block.
Idle(a) == \A b \in Actors : Root(b) = Root(a) => running[b] = NoEvent

MailboxInit(initial) ==
    /\ mqueue = initial
    /\ running = [a \in Actors |-> NoEvent]
    /\ eventCount = [a \in Actors |-> Len(initial[a])]
    /\ timers = [a \in Actors |-> <<>>]

\* Mutant: the event is queued without ++_eventCount.
EnqueueNotCounting(a, ev) ==
    /\ mqueue' = [mqueue EXCEPT ![a] = Append(@, ev)]
    /\ UNCHANGED <<eventCount, timers>>

(***************************************************************************)
(* GCDMailbox::enqueue: count the event, retain the actor and             *)
(* dispatch_async the wrapped block.  For use inside a client's step.     *)
(***************************************************************************)
Enqueue(a, ev) ==
    /\ mqueue' = [mqueue EXCEPT ![a] = Append(@, ev)]
    /\ eventCount' = [eventCount EXCEPT ![a] = @ + 1]
    /\ UNCHANGED timers

(***************************************************************************)
(* GCDMailbox::enqueueAfter: counted and retained at once like enqueue;   *)
(* with a positive delay the block goes to dispatch_after, otherwise to   *)
(* dispatch_async.  For use inside a client's step.                       *)
(***************************************************************************)
EnqueueAfter(a, delayed, ev) ==
    IF delayed
    THEN /\ timers' = [timers EXCEPT ![a] = Append(@, ev)]
         /\ eventCount' = [eventCount EXCEPT ![a] = @ + 1]
         /\ UNCHANGED mqueue
    ELSE Enqueue(a, ev)

(***************************************************************************)
(* A dispatch_after timer fires and its block joins the tail of the       *)
(* queue, at any point relative to the other steps (there is no clock).   *)
(* Every client gives all delayed blocks of one mailbox the same delay,   *)
(* so their deadlines follow the order of the calls and they fire in that *)
(* order.                                                                 *)
(***************************************************************************)
TimerFire(a) ==
    /\ timers[a] # <<>>
    /\ mqueue' = [mqueue EXCEPT ![a] = Append(@, Head(timers[a]))]
    /\ timers' = [timers EXCEPT ![a] = Tail(@)]
    /\ UNCHANGED <<running, eventCount>>

(***************************************************************************)
(* The wrapped block starts: GCD hands the head of the queue to a thread  *)
(* once the tree is idle (addExecution and the thread-local manifest are  *)
(* diagnostics and are not modelled).                                     *)
(***************************************************************************)
Dispatch(a) ==
    /\ Idle(a)
    /\ mqueue[a] # <<>>
    /\ running' = [running EXCEPT ![a] = Head(mqueue[a])]
    /\ mqueue' = [mqueue EXCEPT ![a] = Tail(@)]
    /\ UNCHANGED <<eventCount, timers>>

(***************************************************************************)
(* GCDMailbox::afterEvent, at the end of the wrapped block (after         *)
(* safelyCall has caught whatever the block threw): the event is no       *)
(* longer counted and the actor is released.                              *)
(***************************************************************************)
AfterEvent(a) ==
    /\ running' = [running EXCEPT ![a] = NoEvent]
    /\ eventCount' = [eventCount EXCEPT ![a] = @ - 1]
    /\ UNCHANGED <<mqueue, timers>>

=============================================================================
