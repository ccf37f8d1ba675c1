----------------------------- MODULE MC_Exchange -----------------------------
(* Model-checking instance of Exchange: two requests, frames of 2 payload   *)
(* units + 1 checksum unit, so a 3-unit body takes two frames and a 1-unit  *)
(* body one.  Every request may be sent noreply or not.                     *)
EXTENDS Exchange

MCConfigs == [payload : {1, 3}, script : {<<>>}, noReply : BOOLEAN]

=============================================================================
