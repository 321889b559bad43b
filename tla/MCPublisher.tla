---------------------------- MODULE MCPublisher ----------------------------
(* One publisher of each type, with bursts of a few events and as many     *)
(* SIGHUPs as it takes for one to come at every step of a burst.           *)
EXTENDS Publisher
=============================================================================
