------------------------------ MODULE MCPubSub ------------------------------
(* A few bursts of a few events through a queue that overflows.            *)
EXTENDS PubSub
=============================================================================
