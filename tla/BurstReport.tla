---------------------------- MODULE BurstReport ----------------------------
(***************************************************************************)
(* What a subscription promises of the bursts of its category, whatever    *)
(* the transport loses: if the first event of a burst is received, then    *)
(* the report printed at its last event says exactly how many of its Num   *)
(* events were received and how many were not.  A burst whose first event  *)
(* is not received may be reported with any figures; one whose last event  *)
(* is not received is not reported.                                        *)
(***************************************************************************)
EXTENDS Integers, FiniteSets

CONSTANTS
    Num,        \* events of a burst, a natural number above 0
    Count       \* the numbers a report is made of

VARIABLES
    seen,       \* the numbers received of the burst being measured; none if
                \* its first event was not received
    report      \* the report printed last, if the subscriber prints any

vars == <<seen, report>>

NoReport == [kind |-> "none", received |-> 0, missed |-> 0]
Loose(r, m) == [kind |-> "loose", received |-> r, missed |-> m]
Exact(s) ==
    [kind |-> "exact", received |-> Cardinality(s), missed |-> Num - Cardinality(s)]

(* Every variable has its type.                                            *)
TypeOK ==
    /\ seen \subseteq 1 .. Num
    /\ report \in [kind : {"none", "loose", "exact"}, received : Count, missed : Count]

Init == seen = {} /\ report = NoReport

(* The first event of a burst: the burst before it is over.                *)
First ==
    /\ seen' = {1}
    /\ report' = IF Num = 1 THEN Exact(seen') ELSE report

(* A later event of the same burst.                                        *)
Later(n) ==
    /\ seen # {} /\ \A k \in seen : k < n
    /\ seen' = seen \cup {n}
    /\ report' = IF n = Num THEN Exact(seen') ELSE report

(* An event of a burst whose first event was lost.                         *)
Stray ==
    /\ seen' = {}
    /\ \/ report' = report
       \/ \E r, m \in Count : report' = Loose(r, m)

(* The subscriber is restarted.                                            *)
Restart == seen' = {} /\ report' = NoReport

Next == First \/ (\E n \in 2 .. Num : Later(n)) \/ Stray \/ Restart

Spec == Init /\ [][Next]_vars
=============================================================================
