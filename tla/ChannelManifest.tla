-------------------------- MODULE ChannelManifest --------------------------
(***************************************************************************)
(* The diagnostic trail of src/src/util/ChannelManifest.hh, as GCDMailbox  *)
(* (src/src/util/GCDMailbox.cc) keeps it.  enqueue and enqueueAfter       *)
(* record the call in the thread's current manifest, or in a new one when *)
(* the calling thread is not running a mailbox block.  The wrapped block  *)
(* records its execution in the manifest it captured, makes it the        *)
(* thread's current manifest while it runs, and clears it afterwards.     *)
(* So every chain of calls started from outside the actors has one        *)
(* manifest, and blocks of one chain on different mailbox trees add to it *)
(* from different threads, one add at a time under the manifest's mutex.  *)
(*                                                                         *)
(* An entry is the method name, marked when it was enqueued with a delay  *)
(* (the " [after x secs]" suffix); the elapsed time is left out.  dump    *)
(* only formats the trail.  setLimit has no caller, so the limit is the   *)
(* initial _limit.                                                        *)
(***************************************************************************)
EXTENDS Mailbox

CONSTANTS
    Manifests,   \* the ChannelManifest objects make_shared may create
    Methods,     \* the method names of the enqueued calls
    Limit,       \* _limit (100 in the code)
    MaxCalls,    \* bound on the enqueue calls of a behaviour
    NoManifest   \* model value: sCurrentManifest is null

ASSUME /\ Limit \in Nat
       /\ MaxCalls \in Nat
       /\ NoManifest \notin Manifests

VARIABLES
    trail,       \* trail[m]: the lists and counters of manifest m
    current,     \* sCurrentManifest of the thread running each actor's block
    hist,        \* history: every entry ever added to each list of m
    calls        \* the enqueue calls made so far

manifestVars == <<trail, current, hist, calls>>
vars == <<mailboxVars, manifestVars>>

Entries == [method : Methods, after : BOOLEAN]

\* The members of a ChannelManifest that make_shared constructs.
NewTrail ==
    [enqueueCalls |-> <<>>, truncatedEnqueue |-> 0,
     executions |-> <<>>, truncatedExecution |-> 0]

\* Mutant: the loop drops the newest entry (pop_back) instead of the oldest.
RECURSIVE TrimNewest(_, _)
TrimNewest(list, truncated) ==
    IF Len(list) > Limit
    THEN TrimNewest(SubSeq(list, 1, Len(list) - 1), truncated + 1)
    ELSE [list |-> list, truncated |-> truncated]

\* while (size() > _limit) { pop_front(); ++truncated; }
RECURSIVE Trim(_, _)
Trim(list, truncated) ==
    IF Len(list) > Limit
    THEN Trim(Tail(list), truncated + 1)
    ELSE [list |-> list, truncated |-> truncated]

\* ChannelManifest::addEnqueueCall, under _mutex.
AddEnqueueCall(t, entry) ==
    LET r == Trim(Append(t.enqueueCalls, entry), t.truncatedEnqueue)
    IN [t EXCEPT !.enqueueCalls = r.list, !.truncatedEnqueue = r.truncated]

\* ChannelManifest::addExecution, under _mutex.
AddExecution(t, entry) ==
    LET r == Trim(Append(t.executions, entry), t.truncatedExecution)
    IN [t EXCEPT !.executions = r.list, !.truncatedExecution = r.truncated]

Created == {m \in Manifests : trail[m] # NoManifest}

Init ==
    /\ MailboxInit([a \in Actors |-> <<>>])
    /\ trail = [m \in Manifests |-> NoManifest]
    /\ current = [a \in Actors |-> NoManifest]
    /\ hist = [m \in Manifests |-> [enqueueCalls |-> <<>>, executions |-> <<>>]]
    /\ calls = 0

(***************************************************************************)
(* GCDMailbox::enqueue / enqueueAfter onto a, with the calling thread's   *)
(* current manifest cm: a new manifest when cm is null, the call recorded *)
(* in it, and the wrapped block capturing it queued (or put on a timer).  *)
(***************************************************************************)
RecordEnqueue(cm, a, entry) ==
    /\ calls < MaxCalls
    /\ \E m \in IF cm = NoManifest THEN Manifests \ Created ELSE {cm} :
          /\ trail' = [trail EXCEPT ![m] =
                         AddEnqueueCall(IF cm = NoManifest THEN NewTrail ELSE @, entry)]
          /\ hist' = [hist EXCEPT ![m].enqueueCalls = Append(@, entry)]
          /\ EnqueueAfter(a, entry.after, [entry |-> entry, manifest |-> m])
    /\ calls' = calls + 1

\* A thread that is running no mailbox block enqueues a call.
EnqueueFromOutside(a, entry) ==
    /\ RecordEnqueue(NoManifest, a, entry)
    /\ UNCHANGED <<running, current>>

\* The block running on b enqueues a call onto a.
EnqueueFromBlock(b, a, entry) ==
    /\ running[b] # NoEvent
    /\ RecordEnqueue(current[b], a, entry)
    /\ UNCHANGED <<running, current>>

\* The wrapped block starts: addExecution, then sCurrentManifest = captured.
Execute(a) ==
    /\ Dispatch(a)
    /\ LET ev == Head(mqueue[a])
       IN /\ trail' = [trail EXCEPT ![ev.manifest] = AddExecution(@, ev.entry)]
          /\ hist' = [hist EXCEPT ![ev.manifest].executions = Append(@, ev.entry)]
          /\ current' = [current EXCEPT ![a] = ev.manifest]
    /\ UNCHANGED calls

\* The block returns: afterEvent, then sCurrentManifest.reset().
Finish(a) ==
    /\ running[a] # NoEvent
    /\ AfterEvent(a)
    /\ current' = [current EXCEPT ![a] = NoManifest]
    /\ UNCHANGED <<trail, hist, calls>>

Fire(a) ==
    /\ TimerFire(a)
    /\ UNCHANGED manifestVars

Next ==
    \/ \E a \in Actors, e \in Entries : EnqueueFromOutside(a, e)
    \/ \E a, b \in Actors, e \in Entries : EnqueueFromBlock(b, a, e)
    \/ \E a \in Actors : Execute(a) \/ Finish(a) \/ Fire(a)

Spec == Init /\ [][Next]_vars

(***************************************************************************)
(* Properties                                                              *)
(***************************************************************************)

\* The list is the newest entries ever added to it, oldest first, at most
\* Limit of them, and the counter says how many older ones were dropped.
IsNewestWindow(list, truncated, all) ==
    /\ Len(list) <= Limit
    /\ truncated = Len(all) - Len(list)
    /\ list = SubSeq(all, truncated + 1, Len(all))

\* Each manifest's two lists are the newest window of everything recorded in
\* it, however the blocks of its chain on different mailbox trees
\* interleave their adds: a dump shows the latest calls of the chain, and
\* the trail of a chain that never ends stays bounded.
TrailsAreNewest ==
    \A m \in Created :
        /\ IsNewestWindow(trail[m].enqueueCalls, trail[m].truncatedEnqueue,
                          hist[m].enqueueCalls)
        /\ IsNewestWindow(trail[m].executions, trail[m].truncatedExecution,
                          hist[m].executions)

=============================================================================
