------------------------------ MODULE Batcher ------------------------------
(***************************************************************************)
(* Batcher<ACTOR, ITEM> (src/src/util/Batcher.hh).  Producer threads push *)
(* items.  The owning actor's processor method pops them all, in batches, *)
(* on the actor's mailbox (Mailbox.tla).  push and pop each run under     *)
(* _mutex, so each is one atomic step.                                    *)
(*                                                                         *)
(* The processor is the Actor method the Batcher was built with.  Its     *)
(* block pops when it starts and then handles the batch, and that work is *)
(* local to the actor.  timeSincePop() > _latency compares against a      *)
(* clock the model does not have, so it is a free choice at each push.    *)
(***************************************************************************)
EXTENDS Mailbox

CONSTANTS
    Owner,       \* the actor that owns the Batcher
    Items,       \* the items producers push, each once
    Delayed,     \* _latency > Timer::duration(0)
    Capacity     \* _capacity (0: no capacity)

ASSUME /\ Owner \in Actors
       /\ Delayed \in BOOLEAN
       /\ Capacity \in Nat

VARIABLES
    items,       \* *_items, in push order (<<>> when null or empty)
    scheduled,   \* _scheduled
    pushed,      \* history: every item pushed, in push order
    processed    \* history: every item the processor has handled, in order

batcherVars == <<items, scheduled, pushed, processed>>
vars == <<mailboxVars, batcherVars>>

\* The mailbox event that calls the processor.
ProcessEvent == "processor"

Init ==
    /\ MailboxInit([a \in Actors |-> <<>>])
    /\ items = <<>>
    /\ scheduled = FALSE
    /\ pushed = <<>>
    /\ processed = <<>>

\* Mutant: the immediate pop waits for the batch to pass _capacity.
PopNowPastCapacity(n, quiet) ==
    Delayed /\ Capacity > 0 /\ (n > Capacity \/ (~scheduled /\ quiet))

\* push's test for an immediate pop, n being the size after push_back.
PopNow(n, quiet) ==
    Delayed /\ Capacity > 0 /\ (n = Capacity \/ (~scheduled /\ quiet))

(***************************************************************************)
(* Batcher::push from any thread.  The immediate pop is scheduled when    *)
(* the batch has just become full, or on the first push after a quiet     *)
(* period; otherwise the first push since the last pop schedules a        *)
(* delayed pop.                                                           *)
(***************************************************************************)
Push(i) ==
    /\ i \notin {pushed[k] : k \in DOMAIN pushed}
    /\ \E quiet \in BOOLEAN :           \* timeSincePop() > _latency
          IF PopNow(Len(items) + 1, quiet)
          THEN /\ scheduled' = TRUE
               /\ Enqueue(Owner, ProcessEvent)
          ELSE IF ~scheduled
          THEN /\ scheduled' = TRUE
               /\ EnqueueAfter(Owner, Delayed, ProcessEvent)
          ELSE UNCHANGED <<scheduled, mqueue, eventCount, timers>>
    /\ items' = Append(items, i)
    /\ pushed' = Append(pushed, i)
    /\ UNCHANGED <<running, processed>>

\* Mutant: pop leaves _scheduled set.
PopKeepingScheduled ==
    /\ processed' = processed \o items
    /\ items' = <<>>
    /\ UNCHANGED scheduled

\* Batcher::pop, and the processor handling the batch it returned (an empty
\* or null batch is handled as nothing).
Pop ==
    /\ processed' = processed \o items
    /\ items' = <<>>
    /\ scheduled' = FALSE

\* The owner's mailbox starts a processor block, which pops at once.
Process ==
    /\ Dispatch(Owner)
    /\ Pop
    /\ UNCHANGED pushed

\* The processor block returns.
Finish ==
    /\ running[Owner] # NoEvent
    /\ AfterEvent(Owner)
    /\ UNCHANGED batcherVars

Fire ==
    /\ TimerFire(Owner)
    /\ UNCHANGED batcherVars

Next ==
    \/ \E i \in Items : Push(i)
    \/ Process
    \/ Finish
    \/ Fire

(***************************************************************************)
(* The mailbox drains its queue and pending timers fire: Process, Finish  *)
(* and Fire are weakly fair.  Producers push when they like.              *)
(***************************************************************************)
Spec == Init /\ [][Next]_vars /\ WF_vars(Process) /\ WF_vars(Finish) /\ WF_vars(Fire)

(***************************************************************************)
(* Properties                                                              *)
(***************************************************************************)

PushedSet == {pushed[k] : k \in DOMAIN pushed}
ProcessedSet == {processed[k] : k \in DOMAIN processed}

TypeOK ==
    /\ items \in Seq(Items)
    /\ scheduled \in BOOLEAN
    /\ eventCount \in [Actors -> Nat]

FullBatchNotDelayed ==
    Delayed /\ Capacity > 0 /\ Len(items) >= Capacity => mqueue[Owner] # <<>>

\* Every pushed item is eventually handled by the processor: no push leaves
\* an item behind with no processor call pending.
AllProcessed == \A i \in Items : i \in PushedSet ~> i \in ProcessedSet

=============================================================================
