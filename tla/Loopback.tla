------------------------------ MODULE Loopback ------------------------------
(***************************************************************************)
(* Two LoopbackWebSockets relaying messages to each other                 *)
(* (src/include/blip_cpp/LoopbackProvider.hh).  Each socket is an actor   *)
(* with its own mailbox (Mailbox.tla), and every underscore method is a   *)
(* mailbox event of it.  The MockWebSocket base class is not among the    *)
(* sources.  Its part is modelled from the transport contract of spec.md  *)
(* 4.9: send() enqueues _send, simulateReceived() enqueues                *)
(* _simulateReceived on the receiving socket (the provider's latency is   *)
(* zero by default), and _simulateConnected marks the socket connected    *)
(* and tells the delegate.                                                *)
(*                                                                         *)
(* The delegate of each socket (a BLIP connection) sends its messages     *)
(* once connected.  It stops when send() returns false and resumes on     *)
(* onWebSocketWriteable.  Every message is one unit of bytes.  The        *)
(* delegates of the sockets in Closers also call close() at some point:   *)
(* MockWebSocket enqueues _close, its _close is assumed to end in the     *)
(* socket's own _closed (spec.md does not say), and simulateClosed         *)
(* enqueues on the peer the close event that                              *)
(* the comment of LoopbackProvider::connect promises, which runs the      *)
(* peer's _closed.                                                        *)
(***************************************************************************)
EXTENDS Mailbox

CONSTANTS
    SendCount,       \* SendCount[s]: the messages s's delegate sends
    SendBufferSize,  \* kSendBufferSize, in message units
    Closers,         \* the sockets whose delegate closes them
    GracefulClose    \* a delegate closes only once all it sent is acked

ASSUME /\ SendCount \in [Actors -> Nat]
       /\ SendBufferSize \in Nat
       /\ Closers \subseteq Actors
       /\ GracefulClose \in BOOLEAN

VARIABLES
    peer,            \* LoopbackWebSocket::_peer, or NoActor
    readyToUse,      \* LoopbackWebSocket::_readyToUse
    connected,       \* MockWebSocket's connected() state
    hasDelegate,     \* a delegate has been set on the socket
    bufferedBytes,   \* LoopbackWebSocket::_bufferedBytes (atomic)
    sentCount,       \* messages the delegate has sent so far
    blocked,         \* the delegate got false from send() and waits
    delivered,       \* messages handed to the delegate's onWebSocketMessage
    closing,         \* the delegate has called close()
    failed           \* the asserts and null dereferences that have happened

socketVars == <<peer, readyToUse, connected, hasDelegate>>
appVars == <<bufferedBytes, sentCount, blocked, delivered, closing>>
vars == <<mailboxVars, socketVars, appVars, failed>>

\* The other socket of the pair.
Other(s) == CHOOSE t \in Actors : t # s

\* Mailbox events; a message is named by its sender and sequence number.
ConnectToPeer == [kind |-> "connectToPeer"]
SendEv(m) == [kind |-> "send", msg |-> m]
ReceivedEv(m) == [kind |-> "received", msg |-> m]
AckEv == [kind |-> "ack"]
CloseEv == [kind |-> "close"]
ClosedEv == [kind |-> "closed"]

Messages == UNION {[from : {s}, seq : 1..SendCount[s]] : s \in Actors}

\* LoopbackProvider::connect has called connectToPeer on both sockets.
Init ==
    /\ MailboxInit([s \in Actors |-> <<ConnectToPeer>>])
    /\ peer = [s \in Actors |-> NoActor]
    /\ readyToUse = [s \in Actors |-> FALSE]
    /\ connected = [s \in Actors |-> FALSE]
    /\ hasDelegate \in [Actors -> BOOLEAN]
    /\ bufferedBytes = [s \in Actors |-> 0]
    /\ sentCount = [s \in Actors |-> 0]
    /\ blocked = [s \in Actors |-> FALSE]
    /\ delivered = [s \in Actors |-> <<>>]
    /\ closing = [s \in Actors |-> FALSE]
    /\ failed = {}

\* The connection sets itself as the socket's delegate.
SetDelegate(s) ==
    /\ ~hasDelegate[s]
    /\ hasDelegate' = [hasDelegate EXCEPT ![s] = TRUE]
    /\ UNCHANGED <<mailboxVars, peer, readyToUse, connected, appVars, failed>>

(***************************************************************************)
(* LoopbackWebSocket::send, called by the connected delegate: add to      *)
(* _bufferedBytes, have MockWebSocket enqueue _send, and report whether   *)
(* the buffer is still under kSendBufferSize.                             *)
(***************************************************************************)
Send(s) ==
    /\ connected[s]
    /\ ~blocked[s]
    /\ sentCount[s] < SendCount[s]
    /\ LET newValue == bufferedBytes[s] + 1
       IN /\ bufferedBytes' = [bufferedBytes EXCEPT ![s] = newValue]
          /\ blocked' = [blocked EXCEPT ![s] = ~(newValue <= SendBufferSize)]
    /\ sentCount' = [sentCount EXCEPT ![s] = @ + 1]
    /\ Enqueue(s, SendEv([from |-> s, seq |-> sentCount[s] + 1]))
    /\ UNCHANGED <<running, socketVars, delivered, closing, failed>>

\* The delegate calls close(), and MockWebSocket enqueues _close.  A
\* graceful delegate first sends all it has and waits for the acks.
Close(s) ==
    /\ s \in Closers
    /\ ~closing[s]
    /\ GracefulClose => sentCount[s] = SendCount[s] /\ bufferedBytes[s] = 0
    /\ closing' = [closing EXCEPT ![s] = TRUE]
    /\ Enqueue(s, CloseEv)
    /\ UNCHANGED <<running, socketVars, bufferedBytes, sentCount, blocked, delivered, failed>>

\* The socket's mailbox starts its next event.
Begin(s) ==
    /\ Dispatch(s)
    /\ UNCHANGED <<socketVars, appVars, failed>>

\* The event is put back with enqueueAfter(_rescheduleLatency, ...).
Reschedule(s) == EnqueueAfter(s, TRUE, running[s])

(***************************************************************************)
(* _connectToPeer: without a delegate, reschedule.  Otherwise take the    *)
(* peer unless it is the one already held, simulate the HTTP response and *)
(* the connection, and become ready.                                      *)
(***************************************************************************)
HandleConnectToPeer(s) ==
    /\ running[s].kind = "connectToPeer"
    /\ IF ~hasDelegate[s]
       THEN /\ Reschedule(s)
            /\ UNCHANGED <<peer, connected, readyToUse>>
       ELSE /\ IF peer[s] # Other(s)
                  THEN /\ peer' = [peer EXCEPT ![s] = Other(s)]
                       /\ connected' = [connected EXCEPT ![s] = TRUE]
                  ELSE UNCHANGED <<peer, connected>>
            /\ readyToUse' = [readyToUse EXCEPT ![s] = TRUE]
            /\ UNCHANGED <<mqueue, eventCount, timers>>
    /\ UNCHANGED <<hasDelegate, appVars, failed>>

\* _send: reschedule until ready, then relay to the peer (or drop the
\* message when the socket has no peer).
HandleSend(s) ==
    /\ running[s].kind = "send"
    /\ IF ~readyToUse[s] THEN Reschedule(s)
       ELSE IF peer[s] # NoActor THEN Enqueue(peer[s], ReceivedEv(running[s].msg))
       ELSE UNCHANGED <<mqueue, eventCount, timers>>
    /\ UNCHANGED <<socketVars, appVars, failed>>

\* Mutant: a message received before the socket is ready is dropped.
HandleReceivedDropping(s) ==
    /\ running[s].kind = "received"
    /\ IF ~readyToUse[s]
       THEN UNCHANGED <<delivered, mqueue, eventCount, timers>>
       ELSE /\ delivered' = [delivered EXCEPT ![s] = Append(@, running[s].msg)]
            /\ Enqueue(peer[s], AckEv)
    /\ UNCHANGED <<socketVars, bufferedBytes, sentCount, blocked, closing, failed>>

\* _simulateReceived: reschedule until ready, then hand the message to the
\* delegate and ack it through _peer, which is dereferenced unchecked.
HandleReceived(s) ==
    /\ running[s].kind = "received"
    /\ IF ~readyToUse[s]
       THEN /\ Reschedule(s)
            /\ UNCHANGED <<delivered, failed>>
       ELSE /\ delivered' = [delivered EXCEPT ![s] = Append(@, running[s].msg)]
            /\ IF peer[s] = NoActor
               THEN /\ failed' = failed \cup {"receivedNullPeer"}
                    /\ UNCHANGED <<mqueue, eventCount, timers>>
               ELSE /\ Enqueue(peer[s], AckEv)
                    /\ UNCHANGED failed
    /\ UNCHANGED <<socketVars, bufferedBytes, sentCount, blocked, closing>>

\* Mutant: writeable is signalled only strictly below the buffer size.
CrossesBelowStrict(newValue) ==
    newValue < SendBufferSize /\ newValue + 1 > SendBufferSize

\* _ack's test that this ack took _bufferedBytes back under the limit.
CrossesBelow(newValue) ==
    newValue <= SendBufferSize /\ newValue + 1 > SendBufferSize

\* _ack: if still connected, subtract the acked bytes.  On the crossing,
\* call the delegate's onWebSocketWriteable, which unblocks the sender.
HandleAck(s) ==
    /\ running[s].kind = "ack"
    /\ IF ~connected[s]
       THEN UNCHANGED <<bufferedBytes, blocked>>
       ELSE LET newValue == bufferedBytes[s] - 1
            IN /\ bufferedBytes' = [bufferedBytes EXCEPT ![s] = newValue]
               /\ blocked' = IF CrossesBelow(newValue)
                               THEN [blocked EXCEPT ![s] = FALSE] ELSE blocked
    /\ UNCHANGED <<mqueue, eventCount, timers, socketVars, sentCount, delivered,
                   closing, failed>>

\* Mutant: _close closes this socket without simulateClosed on the peer.
HandleCloseSilent(s) ==
    /\ running[s].kind = "close"
    /\ IF ~readyToUse[s]
       THEN /\ Reschedule(s)
            /\ UNCHANGED <<peer, connected, failed>>
       ELSE IF peer[s] = NoActor
       THEN /\ failed' = failed \cup {"closeNullPeer"}
            /\ UNCHANGED <<mqueue, eventCount, timers, peer, connected>>
       ELSE /\ peer' = [peer EXCEPT ![s] = NoActor]
            /\ connected' = [connected EXCEPT ![s] = FALSE]
            /\ UNCHANGED <<mqueue, eventCount, timers, failed>>
    /\ UNCHANGED <<readyToUse, hasDelegate, appVars>>

(***************************************************************************)
(* _close: reschedule until ready.  Then assert(_peer), have the peer      *)
(* simulate the close, and close this socket (MockWebSocket::_close, which *)
(* ends in _closed).                                                      *)
(***************************************************************************)
HandleClose(s) ==
    /\ running[s].kind = "close"
    /\ IF ~readyToUse[s]
       THEN /\ Reschedule(s)
            /\ UNCHANGED <<peer, connected, failed>>
       ELSE IF peer[s] = NoActor
       THEN /\ failed' = failed \cup {"closeNullPeer"}
            /\ UNCHANGED <<mqueue, eventCount, timers, peer, connected>>
       ELSE /\ Enqueue(peer[s], ClosedEv)
            /\ peer' = [peer EXCEPT ![s] = NoActor]
            /\ connected' = [connected EXCEPT ![s] = FALSE]
            /\ UNCHANGED failed
    /\ UNCHANGED <<readyToUse, hasDelegate, appVars>>

\* _closed, run by the close event the peer's _close sent: drop the peer
\* and report the close (MockWebSocket::_closed).
HandleClosed(s) ==
    /\ running[s].kind = "closed"
    /\ peer' = [peer EXCEPT ![s] = NoActor]
    /\ connected' = [connected EXCEPT ![s] = FALSE]
    /\ UNCHANGED <<mqueue, eventCount, timers, readyToUse, hasDelegate, appVars, failed>>

\* The event's handler runs, between Begin and End.
Handle(s) ==
    /\ running[s] \notin {NoEvent, [kind |-> "done"]}
    /\ \/ HandleConnectToPeer(s)
       \/ HandleSend(s)
       \/ HandleReceived(s)
       \/ HandleAck(s)
       \/ HandleClose(s)
       \/ HandleClosed(s)
    /\ running' = [running EXCEPT ![s] = [kind |-> "done"]]

\* The wrapped block calls afterEvent.
End(s) ==
    /\ running[s] = [kind |-> "done"]
    /\ AfterEvent(s)
    /\ UNCHANGED <<socketVars, appVars, failed>>

Fire(s) ==
    /\ TimerFire(s)
    /\ UNCHANGED <<socketVars, appVars, failed>>

Next ==
    \E s \in Actors :
        \/ SetDelegate(s)
        \/ Send(s)
        \/ Close(s)
        \/ Begin(s)
        \/ Handle(s)
        \/ End(s)
        \/ Fire(s)

(***************************************************************************)
(* Each mailbox drains, and timers fire: those steps are weakly fair.     *)
(* The connection does set its delegate and does keep sending while it is *)
(* allowed to, so SetDelegate and Send are weakly fair too.  It closes    *)
(* when it likes: Close is not fair.                                      *)
(***************************************************************************)
Fairness ==
    \A s \in Actors :
        /\ WF_vars(SetDelegate(s)) /\ WF_vars(Send(s))
        /\ WF_vars(Begin(s)) /\ WF_vars(Handle(s)) /\ WF_vars(End(s))
        /\ WF_vars(Fire(s))

Spec == Init /\ [][Next]_vars /\ Fairness

(***************************************************************************)
(* Properties                                                              *)
(***************************************************************************)

TypeOK ==
    /\ peer \in [Actors -> Actors \cup {NoActor}]
    /\ bufferedBytes \in [Actors -> Nat]
    /\ sentCount \in [Actors -> Nat]
    /\ \A s \in Actors : delivered[s] \in Seq(Messages)
    /\ eventCount \in [Actors -> Nat]
    /\ closing \in [Actors -> BOOLEAN]
    /\ failed \subseteq {"closeNullPeer", "receivedNullPeer"}

\* The messages a socket's delegate receives are the ones its peer's
\* delegate sent, in the order it sent them (a WebSocket is an ordered
\* stream).
InOrder ==
    \A s \in Actors :
        \A i \in 1..Len(delivered[s]) :
            delivered[s][i] = [from |-> Other(s), seq |-> i]

\* Every message sent is eventually delivered to the peer's delegate.
AllDelivered ==
    \A s \in Actors : sentCount[s] = SendCount[s] ~> Len(delivered[Other(s)]) = SendCount[s]

\* A delegate that got false from send() is eventually told the socket is
\* writeable again: the ack that brings _bufferedBytes back under the limit
\* always sees the crossing.
NoStall == \A s \in Actors : blocked[s] ~> ~blocked[s]

\* _peer is never used null: the assert(_peer) of _close holds, so a
\* closing socket still has its peer whatever the peer did before, and
\* _simulateReceived never acks a message through a _peer that a close
\* cleared after the message was sent.
PeerNeverNull == failed = {}

\* Once a socket's delegate has closed it, its peer ends up disconnected
\* for good: the close event simulateClosed sends is the last word, and
\* no later step of the peer connects it again.
CloseReachesPeer == \A s \in Closers : closing[s] ~> [](~connected[Other(s)])

=============================================================================
