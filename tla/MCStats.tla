------------------------------ MODULE MCStats ------------------------------
(* stats_c fed with every stream of at most MaxEvents events; the word     *)
(* widths are small enough for sequence numbers, counters and times to     *)
(* wrap around.                                                            *)
EXTENDS StatsStream
=============================================================================
