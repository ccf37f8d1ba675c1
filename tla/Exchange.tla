------------------------------ MODULE Exchange ------------------------------
(***************************************************************************)
(* The request/response exchange of a BLIP connection and its disconnect. *)
(* Peer A sends requests (MessageOut, src/src/blip/MessageOut.cc) through *)
(* its BLIPIO outbox; a request fully sent that expects a reply waits in  *)
(* the icebox.  Peer B's MessageIn assembles each request, and B's        *)
(* delegate responds to every request not sent noreply.  B sends the     *)
(* response, a MessageOut of type Response, through its own outbox.  The  *)
(* first frame of a response takes the request out of A's icebox and     *)
(* createResponse gives the MessageIn that assembles it in                *)
(* pendingResponses; the request's progress callback is told each step.  *)
(* The transport may close at any time: BLIPIO then empties its outbox    *)
(* and icebox, calling disconnected on each message, and drops the        *)
(* response-side MessageIns (spec.md section 5).                          *)
(*                                                                         *)
(* BLIPIO, MessageIn and the Connection are not among the sources and are *)
(* modelled from spec.md 4.6-4.8.  Each side has one outbox tier, and     *)
(* acks are left to BLIPIO.tla: flow control plays no part here.          *)
(***************************************************************************)
EXTENDS MessageOut, FiniteSets, Functions

CONSTANTS
    Msgs,            \* the request numbers A will use, 1..n
    Configs,         \* possible requests: [payload, script, noReply]
    ResponseSize     \* the payload of each response B builds

ASSUME /\ Msgs = 1..Cardinality(Msgs)
       /\ ResponseSize \in Nat

VARIABLES
    out,             \* A's request MessageOut of each number
    outgoingNumber,  \* number of the last request A queued
    outbox,          \* A's outbox: request numbers with data left to send
    icebox,          \* A's requests fully sent and awaiting a reply
    wire,            \* request frames A -> B, in order
    received,        \* the requests B's MessageIns have completely received
    resp,            \* B's response MessageOut for each request number
    respOutbox,      \* B's outbox: responses with data left to send
    back,            \* response frames B -> A, in order
    pendingResp,     \* A's pendingResponses: responses being assembled
    told,            \* history: the progress states A's callback was given
    connected        \* the WebSocket is open

vars == <<out, outgoingNumber, outbox, icebox, wire, received, resp,
          respOutbox, back, pendingResp, told, connected>>

NewRequest(m, cfg) ==
    NewMessage(m, "Request", cfg.noReply, FALSE,
               NewContents(cfg.payload, cfg.script # <<>>, cfg.script))

\* MessageIn::respond builds a response with the request's number.
NewResponse(m) ==
    NewMessage(m, "Response", FALSE, FALSE, NewContents(ResponseSize, FALSE, <<>>))

Init ==
    /\ \E cfg \in [Msgs -> Configs] : out = [m \in Msgs |-> NewRequest(m, cfg[m])]
    /\ resp = [m \in Msgs |-> NewResponse(m)]
    /\ outgoingNumber = 0
    /\ outbox = <<>>
    /\ icebox = {}
    /\ wire = <<>>
    /\ received = {}
    /\ respOutbox = <<>>
    /\ back = <<>>
    /\ pendingResp = {}
    /\ told = [m \in Msgs |-> <<>>]
    /\ connected = TRUE

\* Connection::sendRequest: the next number, queued and reported kQueued.
SendRequest ==
    /\ connected
    /\ outgoingNumber + 1 \in Msgs
    /\ LET m == outgoingNumber + 1
       IN /\ outbox' = Append(outbox, m)
          /\ told' = [told EXCEPT ![m] = <<"Queued">>]
    /\ outgoingNumber' = outgoingNumber + 1
    /\ UNCHANGED <<out, icebox, wire, received, resp, respOutbox, back,
                   pendingResp, connected>>

(***************************************************************************)
(* A's scheduler tick: nextFrameToSend on the head of the outbox, whose   *)
(* sendProgress reaches the callback; requeue the request if more is to  *)
(* come, else ice it if it expects a response.                           *)
(***************************************************************************)
SendFrame ==
    /\ connected
    /\ outbox # <<>>
    /\ LET m == Head(outbox)
           r == NextFrameToSend(out[m])
       IN /\ out' = [out EXCEPT ![m] = r.msg]
          /\ told' = [told EXCEPT ![m] = Append(@, r.msg.progress)]
          /\ wire' = Append(wire, [num |-> m, more |-> r.frame.more,
                                   noReply |-> out[m].noReply])
          /\ outbox' = IF r.frame.more THEN Append(Tail(outbox), m) ELSE Tail(outbox)
          /\ icebox' = IF ~r.frame.more /\ ExpectsResponse(r.msg)
                         THEN icebox \cup {m} ELSE icebox
    /\ UNCHANGED <<outgoingNumber, received, resp, respOutbox, back,
                   pendingResp, connected>>

\* B receives a request frame; on the last one the delegate gets the
\* request and, unless it was sent noreply, responds.
ReceiveRequest ==
    /\ connected
    /\ wire # <<>>
    /\ LET f == Head(wire)
       IN /\ received' = IF f.more THEN received ELSE received \cup {f.num}
          /\ respOutbox' = IF ~f.more /\ ~f.noReply
                             THEN Append(respOutbox, f.num) ELSE respOutbox
    /\ wire' = Tail(wire)
    /\ UNCHANGED <<out, outgoingNumber, outbox, icebox, resp, back,
                   pendingResp, told, connected>>

\* B's scheduler tick sends the next frame of a response.
SendResponseFrame ==
    /\ connected
    /\ respOutbox # <<>>
    /\ LET m == Head(respOutbox)
           r == NextFrameToSend(resp[m])
       IN /\ resp' = [resp EXCEPT ![m] = r.msg]
          /\ back' = Append(back, [num |-> m, more |-> r.frame.more])
          /\ respOutbox' = IF r.frame.more THEN Append(Tail(respOutbox), m)
                           ELSE Tail(respOutbox)
    /\ UNCHANGED <<out, outgoingNumber, outbox, icebox, wire, received,
                   pendingResp, told, connected>>

(***************************************************************************)
(* A receives a response frame: the MessageIn of pendingResponses, or on  *)
(* the first frame the one createResponse makes for the iced request,     *)
(* which leaves the icebox.  The callback is told kReceivingReply, and    *)
(* kComplete on the last frame, which ends the MessageIn.  A frame no     *)
(* MessageIn takes is dropped.                                            *)
(***************************************************************************)
ReceiveResponse ==
    /\ connected
    /\ back # <<>>
    /\ LET f     == Head(back)
           taken == f.num \in pendingResp
                    \/ (f.num \in icebox /\ ExpectsResponse(out[f.num]))
       IN /\ icebox' = icebox \ {f.num}
          /\ pendingResp' = IF taken /\ f.more THEN pendingResp \cup {f.num}
                            ELSE pendingResp \ {f.num}
          /\ told' = IF taken
                       THEN [told EXCEPT ![f.num] = Append(@, IF f.more THEN "ReceivingReply"
                                                                ELSE "Complete")]
                       ELSE told
    /\ back' = Tail(back)
    /\ UNCHANGED <<out, outgoingNumber, outbox, wire, received, resp,
                   respOutbox, connected>>

(***************************************************************************)
(* The WebSocket closes: every message in the outbox or the icebox gets   *)
(* disconnected (MessageOut::disconnected reports kDisconnected to a      *)
(* request awaiting a reply), the response MessageIns are dropped, and    *)
(* frames in flight are lost.                                            *)
(***************************************************************************)
Disconnect ==
    /\ connected
    /\ LET held == Range(outbox) \cup icebox
       IN /\ out' = [m \in Msgs |-> IF m \in held THEN Disconnected(out[m]) ELSE out[m]]
          /\ told' = [m \in Msgs |->
                        IF m \in held /\ ExpectsResponse(out[m])
                        THEN Append(told[m], "Disconnected") ELSE told[m]]
    /\ connected' = FALSE
    /\ outbox' = <<>>
    /\ icebox' = {}
    /\ pendingResp' = {}
    /\ wire' = <<>>
    /\ respOutbox' = <<>>
    /\ back' = <<>>
    /\ UNCHANGED <<outgoingNumber, received, resp>>

Next ==
    \/ SendRequest
    \/ SendFrame
    \/ ReceiveRequest
    \/ SendResponseFrame
    \/ ReceiveResponse
    \/ Disconnect

(***************************************************************************)
(* The mailboxes of both peers keep draining and the WebSocket delivers   *)
(* what it was given, so the steps of the exchange are weakly fair.  The  *)
(* application queues requests when it likes, and nothing promises that  *)
(* the transport closes, or that it does not.                            *)
(***************************************************************************)
Fairness ==
    /\ WF_vars(SendFrame)
    /\ WF_vars(ReceiveRequest)
    /\ WF_vars(SendResponseFrame)
    /\ WF_vars(ReceiveResponse)

Spec == Init /\ [][Next]_vars /\ Fairness

(***************************************************************************)
(* Properties                                                              *)
(***************************************************************************)

Sent == 1..outgoingNumber

Terminal == {"Complete", "Disconnected"}

\* The request's last reported state is final.
Settled(m) == told[m] # <<>> /\ told[m][Len(told[m])] \in Terminal

\* The MessageProgress changes a requester may see: kSending repeats per
\* frame, kReceivingReply per response frame, and kDisconnected may end
\* any state that is not final.
Follows ==
    {<<"Queued", "Sending">>, <<"Queued", "AwaitingReply">>, <<"Queued", "Complete">>,
     <<"Sending", "Sending">>, <<"Sending", "AwaitingReply">>, <<"Sending", "Complete">>,
     <<"AwaitingReply", "ReceivingReply">>, <<"AwaitingReply", "Complete">>,
     <<"ReceivingReply", "ReceivingReply">>, <<"ReceivingReply", "Complete">>}
    \cup {<<s, "Disconnected">> : s \in ProgressStates \ Terminal}

\* Each request's callback sees a legal lifecycle and nothing after a final
\* state: A's sending, B's response and a disconnect at any moment never
\* tell a request both kComplete and kDisconnected, nor a reply twice.
ProgressLifecycle ==
    \A m \in Msgs :
        /\ told[m] # <<>> => Head(told[m]) = "Queued"
        /\ \A i \in 1..Len(told[m]) - 1 : <<told[m][i], told[m][i + 1]>> \in Follows

\* Every request sent is eventually settled (kComplete or kDisconnected)
\* or the connection has closed.
SettledUnlessClosed == \A m \in Msgs : m \in Sent ~> (Settled(m) \/ ~connected)

\* Every request sent is eventually told a final state, kComplete or
\* kDisconnected, even when the connection closes (the kDisconnected of
\* Message.hh: "Socket disconnected before delivery or receipt completed").
EveryRequestSettles == \A m \in Msgs : m \in Sent ~> Settled(m)

=============================================================================
