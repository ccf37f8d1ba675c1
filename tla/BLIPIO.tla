------------------------------- MODULE BLIPIO -------------------------------
(***************************************************************************)
(* The send path of a BLIP connection: the multiplexer BLIPIO of peer A   *)
(* sending requests to peer B over one WebSocket, and B's receive path    *)
(* (MessageIn) acknowledging them.  The MessageOut methods are those of   *)
(* MessageOut.tla; BLIPIO and MessageIn are not among the sources and are *)
(* modelled from spec.md sections 4.6 and 4.7.                            *)
(*                                                                         *)
(* Every action is one mailbox event of one peer: the scheduler tick that *)
(* sends one frame, the receipt of one frame, B sending its next queued  *)
(* ack, and A handling one ack.  The WebSocket is reliable and ordered.   *)
(***************************************************************************)
EXTENDS MessageOut, FiniteSets

CONSTANTS
    Msgs,            \* the message numbers A will use, 1..n
    Configs,         \* possible messages: [payload, script, noReply, urgent]
    MaxUnacked,      \* kMaxUnackedBytes: a message with this much unacked is frozen
    AckThreshold     \* B acks once a message's unacked bytes exceed this

ASSUME /\ Msgs = 1..Cardinality(Msgs)
       /\ MaxUnacked \in Nat \ {0}
       /\ AckThreshold \in Nat

VARIABLES
    out,             \* A's MessageOut of each number
    outgoingNumber,  \* number of the last request A queued
    outbox,          \* A's two tiers: [urgent |-> Seq(Msgs), normal |-> Seq(Msgs)]
    icebox,          \* requests fully sent and awaiting a reply
    wire,            \* frames A -> B, in order
    rcv,             \* B's MessageIn of each number
    peerOutbox,      \* B's urgent tier: acks, newest at the head
    ackWire,         \* ack frames B -> A, in order
    acked            \* history: the largest ack count A has handled per message

vars == <<out, outgoingNumber, outbox, icebox, wire, rcv, peerOutbox, ackWire, acked>>

(***************************************************************************)
(* Helpers                                                                 *)
(***************************************************************************)

Tier(m) == IF out[m].urgent THEN "urgent" ELSE "normal"

InOutbox(m) == \E t \in {"urgent", "normal"} : \E i \in 1..Len(outbox[t]) : outbox[t][i] = m

\* A message the scheduler may not send a frame of until it is acked.
Frozen(m) == out[m].unacked >= MaxUnacked

Eligible(q) == {i \in 1..Len(q) : ~Frozen(q[i])}

\* The tier the scheduler serves: urgent first, if it has an eligible message.
ServedTier ==
    IF Eligible(outbox.urgent) # {} THEN "urgent" ELSE "normal"

\* Bytes a message's data source will produce before signalling the end of
\* its data, under the contract of spec 4.5 (zero is end of data, negative
\* is an error).
RECURSIVE SourceTotal(_)
SourceTotal(script) ==
    IF script = <<>> \/ Head(script) <= 0 THEN 0
    ELSE Head(script) + SourceTotal(Tail(script))

\* The bytes of a message the application hands to sendRequest.
ContentLength(cfg) == cfg.payload + SourceTotal(cfg.script)

NewRequest(m, cfg) ==
    NewMessage(m, "Request", cfg.noReply, cfg.urgent,
               NewContents(cfg.payload, cfg.script # <<>>, cfg.script))

(***************************************************************************)
(* Initial state: the messages the application will send are built.       *)
(***************************************************************************)
Init ==
    /\ \E cfg \in [Msgs -> Configs] :
          /\ out = [m \in Msgs |-> NewRequest(m, cfg[m])]
          /\ rcv = [m \in Msgs |-> [raw |-> 0, unacked |-> 0, data |-> 0,
                                    complete |-> FALSE, content |-> ContentLength(cfg[m])]]
    /\ outgoingNumber = 0
    /\ outbox = [urgent |-> <<>>, normal |-> <<>>]
    /\ icebox = {}
    /\ wire = <<>>
    /\ peerOutbox = <<>>
    /\ ackWire = <<>>
    /\ acked = [m \in Msgs |-> 0]

(***************************************************************************)
(* Connection::sendRequest: the next number, queued at the tail of its    *)
(* tier.                                                                  *)
(***************************************************************************)
SendRequest ==
    /\ outgoingNumber + 1 \in Msgs
    /\ LET m == outgoingNumber + 1
       IN outbox' = [outbox EXCEPT ![Tier(m)] = Append(@, m)]
    /\ outgoingNumber' = outgoingNumber + 1
    /\ UNCHANGED <<out, icebox, wire, rcv, peerOutbox, ackWire, acked>>

(***************************************************************************)
(* The scheduler tick of spec 4.7: take the first message of the served   *)
(* tier that is not frozen (frozen ones before it go to the tail), build  *)
(* one frame with nextFrameToSend and send it; requeue the message if the *)
(* frame had kMoreComing, else ice a request that expects a reply.        *)
(***************************************************************************)
SendFrame ==
    \E t \in {ServedTier} :
    \E i \in Eligible(outbox[t]) :
    \E r \in {NextFrameToSend(out[outbox[t][i]])} :
       LET q       == outbox[t]
           m       == q[i]
           skipped == SubSeq(q, i + 1, Len(q)) \o SubSeq(q, 1, i - 1)
       IN /\ \A j \in Eligible(q) : i <= j
          /\ out' = [out EXCEPT ![m] = r.msg]
          /\ wire' = Append(wire, [num |-> m, size |-> r.frame.size,
                                   data |-> r.frame.data, more |-> r.frame.more])
          /\ outbox' = [outbox EXCEPT ![t] =
                          IF r.frame.more THEN Append(skipped, m) ELSE skipped]
          /\ icebox' = IF ~r.frame.more /\ ExpectsResponse(r.msg)
                         THEN icebox \cup {m} ELSE icebox
          /\ UNCHANGED <<outgoingNumber, rcv, peerOutbox, ackWire, acked>>

(***************************************************************************)
(* B receives one frame (MessageIn::receivedFrame, spec 4.6): count it,   *)
(* queue an ack at the head of the urgent tier once the unacked bytes     *)
(* exceed the threshold, and complete the message on a final frame.     *)
(***************************************************************************)
PeerReceiveFrame ==
    /\ wire # <<>>
    /\ LET f    == Head(wire)
           in   == rcv[f.num]
           raw  == in.raw + f.size
           ack  == in.unacked + f.size > AckThreshold
       IN /\ rcv' = [rcv EXCEPT ![f.num] =
                       [in EXCEPT !.raw      = raw,
                                  !.unacked  = IF ack THEN 0 ELSE in.unacked + f.size,
                                  !.data     = @ + f.data,
                                  !.complete = ~f.more]]
          /\ peerOutbox' = IF ack THEN <<[num |-> f.num, count |-> raw]>> \o peerOutbox
                                  ELSE peerOutbox
    /\ wire' = Tail(wire)
    /\ UNCHANGED <<out, outgoingNumber, outbox, icebox, ackWire, acked>>

\* B's scheduler sends the ack at the head of its urgent tier.
PeerSendAck ==
    /\ peerOutbox # <<>>
    /\ ackWire' = Append(ackWire, Head(peerOutbox))
    /\ peerOutbox' = Tail(peerOutbox)
    /\ UNCHANGED <<out, outgoingNumber, outbox, icebox, wire, rcv, acked>>

(***************************************************************************)
(* A handles an ack: the message is looked up in the outbox or icebox and *)
(* told with receivedAck; an ack of a message no longer held is dropped.  *)
(***************************************************************************)
ReceiveAck ==
    /\ ackWire # <<>>
    /\ LET a    == Head(ackWire)
           held == InOutbox(a.num) \/ a.num \in icebox
       IN /\ out' = IF held THEN [out EXCEPT ![a.num] = ReceivedAck(@, a.count)] ELSE out
          /\ acked' = IF held /\ a.count > acked[a.num]
                        THEN [acked EXCEPT ![a.num] = a.count] ELSE acked
    /\ ackWire' = Tail(ackWire)
    /\ UNCHANGED <<outgoingNumber, outbox, icebox, wire, rcv, peerOutbox>>

Next ==
    \/ SendRequest
    \/ SendFrame
    \/ PeerReceiveFrame
    \/ PeerSendAck
    \/ ReceiveAck

\* Every step is a mailbox event of a peer whose mailbox keeps draining, and
\* the WebSocket delivers what it was given: all but the application's
\* sendRequest are weakly fair.
\* SendFrame is enabled exactly when the served tier holds a message that is
\* not frozen; its weak fairness is stated with that condition, which TLC
\* evaluates far faster than ENABLED of the frame builder.
SchedulerReady == Eligible(outbox[ServedTier]) # {}

Fairness ==
    /\ []<>(~SchedulerReady) \/ []<><<SendFrame>>_vars
    /\ WF_vars(PeerReceiveFrame)
    /\ WF_vars(PeerSendAck)
    /\ WF_vars(ReceiveAck)

Spec == Init /\ [][Next]_vars /\ Fairness

(***************************************************************************)
(* Properties                                                              *)
(***************************************************************************)

Sent == 1..outgoingNumber

TypeOK ==
    /\ outgoingNumber \in 0..Cardinality(Msgs)
    /\ \A t \in {"urgent", "normal"} : outbox[t] \in Seq(Msgs)
    /\ icebox \subseteq Msgs
    /\ \A m \in Msgs :
          /\ out[m].progress \in ProgressStates
          /\ out[m].type \in MessageTypes
          /\ out[m].unacked \in Nat /\ out[m].bytesSent \in Nat
          /\ out[m].contents.payload \in Nat /\ out[m].contents.buf \in Nat
          /\ rcv[m].raw \in Nat /\ rcv[m].complete \in BOOLEAN
    /\ acked \in [Msgs -> Nat]

\* Integrity (spec 8 invariant 2, 5): once B has the final frame of a message,
\* it has received exactly the bytes the application gave sendRequest: the
\* payload and everything the data source produced up to its end of data.
DeliveredIntact ==
    \A m \in Msgs : rcv[m].complete => rcv[m].data = rcv[m].content

\* Flow control: the bytes of a message A has sent beyond the last ack it has
\* handled never exceed the window by more than one frame, whatever order
\* B's acks arrive in.  This bounds what B may have to buffer.
WindowBound ==
    \A m \in Msgs : out[m].bytesSent - acked[m] < MaxUnacked + FrameSize

\* Every request the application queued is eventually received completely:
\* the ack loop never leaves a message frozen with nothing left to ack it.
AllDelivered ==
    \A m \in Msgs : (m \in Sent) ~> rcv[m].complete

\* Every request the application queued eventually reaches B whole: B gets
\* its final frame, and with it exactly the payload and the bytes the data
\* source produced, whatever the source returns along the way.
DeliveredWhole ==
    \A m \in Msgs : (m \in Sent) ~> (rcv[m].complete /\ rcv[m].data = rcv[m].content)

=============================================================================
