------------------------------ MODULE MC_BLIPIO ------------------------------
(* Model-checking instance of BLIPIO: two requests, frames of 3 payload     *)
(* units + 1 checksum unit, a 2-unit data-source buffer, and a window of 5  *)
(* units.  The long source gives a message of 10 units: 4 frames, and it is *)
(* frozen after the first 2 until an ack comes back.                        *)
EXTENDS BLIPIO

\* Data sources honouring spec 4.5: full buffers, then a short read or a 0.
MCConfigs ==
    [payload : {1}, script : {<<2, 2, 2, 2, 1>>, <<2, 0>>},
     noReply : BOOLEAN, urgent : BOOLEAN]

\* A source that returns a short count before its end of data.
MCShortReadConfigs ==
    [payload : {1}, script : {<<1, 2, 0>>}, noReply : {FALSE}, urgent : {FALSE}]

\* A source that reports an error.
MCErrorConfigs ==
    [payload : {1}, script : {<<2, -1>>}, noReply : {FALSE}, urgent : {FALSE}]

\* One long message whose byte count passes the uint32_t range of
\* _bytesSent while its window (below MaxUnacked + FrameSize) does not.
MCLongConfigs ==
    [payload : {1}, script : {<<2, 2, 2, 2, 2, 2, 1>>}, noReply : {FALSE}, urgent : {FALSE}]

\* The three faulty cases together; restricting Configs to one of them
\* reproduces each alone.
MCFaultConfigs == MCShortReadConfigs \cup MCErrorConfigs \cup MCLongConfigs

=============================================================================
