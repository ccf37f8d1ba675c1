----------------------------- MODULE MessageOut -----------------------------
(***************************************************************************)
(* An outgoing BLIP message (src/src/blip/MessageOut.cc): its Contents     *)
(* (the unsent payload, the data-source buffer and the pull-style data    *)
(* source), the frame builder nextFrameToSend, and the ack bookkeeping.   *)
(*                                                                         *)
(* The module has no variables: a message is a record and every method    *)
(* is an operator from the record (and its inputs) to the new record, so  *)
(* that BLIPIO can call it inside one of its own atomic steps, as the     *)
(* C++ does from inside one mailbox event.                                *)
(*                                                                         *)
(* Data is counted in abstract units (one unit stands for a block of      *)
(* bytes); only sizes matter to the properties, never the bytes.  The     *)
(* data source is represented by the sequence of values it will return   *)
(* ("script"), which makes nextFrameToSend a deterministic operator.      *)
(* Frames are written in Codec::Mode::Raw: the compressed mode is not     *)
(* modelled (the Codec is not part of the sources).                       *)
(***************************************************************************)
EXTENDS Integers, Sequences

CONSTANTS
    FrameSize,       \* room BLIPIO hands nextFrameToSend (kDefaultFrameSize)
    ChecksumSize,    \* Codec::kChecksumSize, reserved at the end of a frame
    MinFrameRoom,    \* the loop keeps filling while dst.size >= 1024
    DataBufferSize,  \* kDataBufferSize, the size of the data-source buffer
    SizeTModulus,    \* 2^(bits of size_t): a signed count seen as size_t
    U32Modulus       \* 2^32: the message's byte counters are uint32_t

ASSUME /\ ChecksumSize \in Nat
       /\ MinFrameRoom \in Nat \ {0}
       /\ FrameSize - ChecksumSize >= MinFrameRoom
       /\ DataBufferSize \in Nat \ {0}
       /\ SizeTModulus > DataBufferSize + FrameSize
       /\ U32Modulus > FrameSize

\* MessageProgress::State
ProgressStates == {"Queued", "Sending", "AwaitingReply", "ReceivingReply",
                   "Complete", "Disconnected"}

\* MessageType values of the low 3 flag bits
MessageTypes == {"Request", "Response", "Error", "AckRequest", "AckResponse"}

Minimum(a, b) == IF a < b THEN a ELSE b

\* The usual arithmetic conversion of a signed count compared with, or used
\* as, a size_t: -1 becomes SizeTModulus - 1.
AsSizeT(n) == n % SizeTModulus

\* A count stored in, or passed as, a uint32_t.
U32(n) == n % U32Modulus

(***************************************************************************)
(* Contents: _unsentPayload.size (payload), _unsentDataBuffer.size (buf), *)
(* _dataSource != nullptr (hasSource), and what the source will still     *)
(* return (script).  "produced" is a history field: the bytes the source  *)
(* has really written into the buffer so far.                             *)
(***************************************************************************)
NewContents(payloadSize, hasSource, script) ==
    [payload |-> payloadSize, buf |-> 0, hasSource |-> hasSource,
     script |-> script, produced |-> 0]

\* What the data source callback returns next; it is never called again after
\* its script, which always ends with an end-of-data value in the models.
SourceReturn(c) == IF c.script = <<>> THEN 0 ELSE Head(c.script)

\* Contents::readFromDataSource: call the source, point _unsentDataBuffer at
\* the first bytesWritten bytes, and drop the source when bytesWritten is
\* smaller than the buffer.  Both the upTo() and the comparison see the
\* signed bytesWritten as a size_t.
ReadFromDataSource(c) ==
    LET bytesWritten == SourceReturn(c)
    IN [c EXCEPT !.script    = IF @ = <<>> THEN @ ELSE Tail(@),
                 !.buf       = AsSizeT(bytesWritten),
                 !.hasSource = ~(AsSizeT(bytesWritten) < DataBufferSize),
                 !.produced  = @ + (IF bytesWritten > 0 THEN bytesWritten ELSE 0)]

\* Contents::dataToSend: the payload first, then the data-source buffer,
\* refilled from the source when it is empty.  The slice it returns is the
\* one of DataSize/Consume below.
DataToSend(c) ==
    IF c.payload > 0 \/ c.buf > 0 \/ ~c.hasSource THEN c
    ELSE ReadFromDataSource(c)

DataSize(c) == IF c.payload > 0 THEN c.payload ELSE c.buf

\* Mutant: the write always advances _unsentDataBuffer.
ConsumeFromBuffer(c, k) == [c EXCEPT !.buf = @ - k]

\* codec.write(data, dst, Raw) advances the slice returned by dataToSend.
Consume(c, k) ==
    IF c.payload > 0 THEN [c EXCEPT !.payload = @ - k]
                     ELSE [c EXCEPT !.buf = @ - k]

\* Mutant: a data source that has not yet reported its end is forgotten.
HasMoreDataToSendIgnoringSource(c) == c.payload > 0 \/ c.buf > 0

\* Contents::hasMoreDataToSend
HasMoreDataToSend(c) == c.payload > 0 \/ c.buf > 0 \/ c.hasSource

(***************************************************************************)
(* The do { ... } while (dst.size >= 1024) loop of nextFrameToSend, with  *)
(* a Raw codec that copies min(data.size, dst.size) bytes.  Returns the   *)
(* new contents, the room left in dst and the bytes written.             *)
(***************************************************************************)
RECURSIVE FillFrame(_, _, _)
FillFrame(c, room, written) ==
    LET d == DataToSend(c)
        k == Minimum(DataSize(d), room)
    IN IF DataSize(d) = 0
         THEN [contents |-> d, room |-> room, written |-> written]
       ELSE IF room - k >= MinFrameRoom
         THEN FillFrame(Consume(d, k), room - k, written + k)
       ELSE [contents |-> Consume(d, k), room |-> room - k, written |-> written + k]

(***************************************************************************)
(* A message: flags (type, noReply, urgent), number, contents, the        *)
(* counters _bytesSent, _unackedBytes, _uncompressedBytesSent, and the    *)
(* last MessageProgress state handed to the progress callback.           *)
(***************************************************************************)
NewMessage(number, type, noReply, urgent, contents) ==
    [number |-> number, type |-> type, noReply |-> noReply, urgent |-> urgent,
     contents |-> contents, bytesSent |-> 0, unacked |-> 0,
     uncompressedSent |-> 0, progress |-> "Queued"]

IsAck(msg) == msg.type \in {"AckRequest", "AckResponse"}

\* Mutant: the frame is not added to _unackedBytes.
NextFrameToSendNotCountingUnacked(msg) ==
    LET f        == FillFrame(msg.contents, FrameSize - ChecksumSize, 0)
        frameLen == f.written + ChecksumSize
        more     == HasMoreDataToSend(f.contents)
    IN [msg   |-> [msg EXCEPT !.contents = f.contents,
                              !.uncompressedSent = U32(@ + f.written),
                              !.bytesSent = U32(@ + frameLen),
                              !.progress = IF more THEN "Sending" ELSE "AwaitingReply"],
        frame |-> [size |-> frameLen, data |-> f.written, more |-> more]]

\* Mutant: the last frame of a noreply request also reports kAwaitingReply.
FrameProgressIgnoringNoReply(more, noReply) ==
    IF more THEN "Sending" ELSE "AwaitingReply"

\* The state nextFrameToSend hands sendProgress after a frame.
FrameProgress(more, noReply) ==
    IF more THEN "Sending" ELSE IF noReply THEN "Complete" ELSE "AwaitingReply"

\* MessageOut::nextFrameToSend.  Returns the updated message and the frame:
\* its size (payload + checksum), the payload bytes in it and whether the
\* kMoreComing flag was set.
NextFrameToSend(msg) ==
    IF IsAck(msg)
    THEN \* acks bypass the codec; writeFrom copies the payload without consuming it
         [msg   |-> [msg EXCEPT !.bytesSent = U32(@ + msg.contents.payload)],
          frame |-> [size |-> msg.contents.payload, data |-> msg.contents.payload,
                     more |-> FALSE]]
    ELSE LET f        == FillFrame(msg.contents, FrameSize - ChecksumSize, 0)
             frameLen == f.written + ChecksumSize
             more     == HasMoreDataToSend(f.contents)
         IN [msg   |-> [msg EXCEPT
                           !.contents         = f.contents,
                           !.uncompressedSent = U32(@ + f.written),
                           !.bytesSent        = U32(@ + frameLen),
                           !.unacked          = U32(@ + frameLen),
                           !.progress         = FrameProgress(more, msg.noReply)],
             frame |-> [size |-> frameLen, data |-> f.written, more |-> more]]

\* Mutant: the ack overwrites _unackedBytes instead of only lowering it.
ReceivedAckWithoutMin(msg, byteCount) ==
    IF U32(byteCount) <= msg.bytesSent
    THEN [msg EXCEPT !.unacked = U32(msg.bytesSent - U32(byteCount))]
    ELSE msg

\* MessageOut::receivedAck.  The ack's cumulative count arrives as the
\* uint32_t byteCount parameter.
ReceivedAck(msg, byteCount) ==
    IF U32(byteCount) <= msg.bytesSent
    THEN [msg EXCEPT !.unacked = Minimum(@, U32(msg.bytesSent - U32(byteCount)))]
    ELSE msg

\* Mutant: a noreply request is taken to expect a response.
ExpectsResponseIgnoringNoReply(msg) == msg.type = "Request"

\* MessageOut::createResponse: whether a reply MessageIn is created.
ExpectsResponse(msg) == msg.type = "Request" /\ ~msg.noReply

\* MessageOut::disconnected: only a request awaiting a reply is told.
Disconnected(msg) ==
    IF ExpectsResponse(msg) THEN [msg EXCEPT !.progress = "Disconnected"]
    ELSE msg

=============================================================================
