------------------------------ MODULE MCResume ------------------------------
(* One WebSocket client over connections that the network may cut.         *)
EXTENDS Resume
=============================================================================
