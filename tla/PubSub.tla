------------------------------- MODULE PubSub -------------------------------
(***************************************************************************)
(* Publishers and subscribers together: the publisher of each category     *)
(* sends bursts of Num events, the transport carries them to the           *)
(* subscribers that are connected, and each subscription of a subscriber   *)
(* measures what arrives and reports at the last event of a burst.         *)
(*                                                                         *)
(* A transport is, for each publisher and subscriber, a queue that keeps   *)
(* the order and has room for HWM events.  A publish socket never blocks:  *)
(* what finds the queue full, or comes before the subscriber is connected  *)
(* and its filter known, is lost to that subscriber.  The sockets and the  *)
(* queues are external.                                                    *)
(*                                                                         *)
(* The steps of a publisher's thread are in module Publisher and those of  *)
(* a subscriber's in module Subscriber; here sending one event and         *)
(* processing one event are single actions.  Time is not modelled.         *)
(***************************************************************************)
EXTENDS Stats, Sequences, FiniteSets, SequencesExt

CONSTANTS
    Cats,       \* categories, each with its publisher
    Subs,       \* subscribers, each of all the categories
    Num,        \* events of a burst
    HWM,        \* room in a queue
    MaxBursts,  \* bound: bursts of a publisher
    MaxRestarts \* bound: restarts of a subscriber

ASSUME PubSubAssumption ==
    /\ Num \in Nat /\ Num > 0 /\ Num + 1 < M32
    /\ HWM \in Nat /\ MaxBursts \in Nat /\ MaxRestarts \in Nat

VARIABLES
    next,       \* number of the event a publisher sends next, or Idle
    burst,      \* history: the burst it is sending or has sent last
    joined,     \* is the subscriber connected to the publisher
    queue,      \* events on their way to a subscriber
    stats,      \* the stats_c of each subscription
    reports,    \* what each subscription has printed
    measured,   \* history: the burst of the event processed last
    seen,       \* history: the numbers received of the burst being measured,
                \* none if its first event was not received
    restarts    \* restarts of each subscriber

vars == <<next, burst, joined, queue, stats, reports, measured, seen, restarts>>

publishers  == <<next, burst>>
subscribers == <<stats, reports, measured, seen>>

Idle == 0

(* An event as it travels; its burst is history.                           *)
Event(b, n) == [seq_no |-> n, last_seq_no |-> Num, timestamp |-> 0, burst |-> b]
EventSet == { Event(b, n) : b \in 1 .. MaxBursts, n \in 1 .. Num }

Report == [burst : 1 .. MaxBursts, received : U32, missed : U32, exact : BOOLEAN]

(* Every variable has its type in every state.                             *)
TypeOK ==
    /\ next \in [Cats -> Idle .. Num]
    /\ burst \in [Cats -> 0 .. MaxBursts]
    /\ joined \in [Subs -> [Cats -> BOOLEAN]]
    /\ queue \in [Subs -> [Cats -> Seq(EventSet)]]
    /\ stats \in [Subs -> [Cats -> StatsState]]
    /\ reports \in [Subs -> [Cats -> Seq(Report)]]
    /\ measured \in [Subs -> [Cats -> 0 .. MaxBursts]]
    /\ seen \in [Subs -> [Cats -> SUBSET (1 .. Num)]]
    /\ restarts \in [Subs -> 0 .. MaxRestarts]

OfAll(value) == [s \in Subs |-> [c \in Cats |-> value]]

Init ==
    /\ next = [c \in Cats |-> Idle]
    /\ burst = [c \in Cats |-> 0]
    /\ joined = OfAll(FALSE)
    /\ queue = OfAll(<<>>)
    /\ stats = OfAll(NewStats)
    /\ reports = OfAll(<<>>)
    /\ measured = OfAll(0)
    /\ seen = OfAll({})
    /\ restarts = [s \in Subs |-> 0]

-----------------------------------------------------------------------------
(* A publisher.                                                            *)

(* SIGHUP: send_events() begins.                                           *)
BeginBurst(c) ==
    /\ next[c] = Idle /\ burst[c] < MaxBursts
    /\ next' = [next EXCEPT ![c] = 1]
    /\ burst' = [burst EXCEPT ![c] = @ + 1]
    /\ UNCHANGED <<joined, queue, restarts>> /\ UNCHANGED subscribers

(* One turn of the for loop; each queue takes the event or loses it.       *)
Offer(q, e) == IF Len(q) < HWM THEN Append(q, e) ELSE q

Carry(c, e) ==
    queue' = [s \in Subs |-> [queue[s] EXCEPT ![c] =
                 IF joined[s][c] THEN Offer(@, e) ELSE @]]

SendEvent(c) ==
    /\ next[c] # Idle
    /\ \/ Carry(c, Event(burst[c], next[c]))
       \/ UNCHANGED queue                   \* send_one_event() failed
    /\ next' = [next EXCEPT ![c] = IF @ = Num THEN Idle ELSE @ + 1]
    /\ UNCHANGED <<burst, joined, restarts>> /\ UNCHANGED subscribers

(* SIGTERM, which cuts the burst if there is one; systemd starts the       *)
(* publisher again and the subscribers connect again.                      *)
RestartPublisher(c) ==
    /\ next' = [next EXCEPT ![c] = Idle]
    /\ joined' = [s \in Subs |-> [joined[s] EXCEPT ![c] = FALSE]]
    /\ UNCHANGED <<burst, queue, restarts>> /\ UNCHANGED subscribers

-----------------------------------------------------------------------------
(* A subscriber.                                                           *)

Join(s, c) ==
    /\ ~joined[s][c]
    /\ joined' = [joined EXCEPT ![s][c] = TRUE]
    /\ UNCHANGED <<queue, restarts>>
    /\ UNCHANGED publishers /\ UNCHANGED subscribers

(* History: the event belongs to the burst being measured, begins one, or  *)
(* is of a burst whose first event was lost.                               *)
SeenAfter(s, c, e) ==
    IF e.seq_no = 1 THEN {1}
    ELSE IF e.burst = measured[s][c] /\ seen[s][c] # {}
         THEN seen[s][c] \cup {e.seq_no} ELSE {}

ReportOf(st, e, set) ==
    [ burst |-> e.burst, received |-> st.num_rx_msg,
      missed |-> st.missed_events_count, exact |-> set # {} ]

(* process_event() on the message at the head of the queue.                *)
ProcessEvent(s, c) ==
    /\ queue[s][c] # <<>>
    /\ LET e == Head(queue[s][c])
       IN  /\ queue' = [queue EXCEPT ![s][c] = Tail(@)]
           /\ stats' = [stats EXCEPT ![s][c] = Processor(@, e, 0)]
           /\ measured' = [measured EXCEPT ![s][c] = e.burst]
           /\ seen' = [seen EXCEPT ![s][c] = SeenAfter(s, c, e)]
           /\ reports' = [reports EXCEPT ![s][c] =
                 IF Closes(e)
                 THEN Append(@, ReportOf(stats'[s][c], e, seen'[s][c]))
                 ELSE @]
    /\ UNCHANGED <<joined, restarts>> /\ UNCHANGED publishers

(* The subscriber stops, with its queues and its statistics, and a new one *)
(* starts.                                                                 *)
RestartSubscriber(s) ==
    /\ restarts[s] < MaxRestarts
    /\ restarts' = [restarts EXCEPT ![s] = @ + 1]
    /\ joined'   = [joined EXCEPT ![s] = [c \in Cats |-> FALSE]]
    /\ queue'    = [queue EXCEPT ![s] = [c \in Cats |-> <<>>]]
    /\ stats'    = [stats EXCEPT ![s] = [c \in Cats |-> NewStats]]
    /\ reports'  = [reports EXCEPT ![s] = [c \in Cats |-> <<>>]]
    /\ measured' = [measured EXCEPT ![s] = [c \in Cats |-> 0]]
    /\ seen'     = [seen EXCEPT ![s] = [c \in Cats |-> {}]]
    /\ UNCHANGED publishers

Next ==
    \/ \E c \in Cats : \/ BeginBurst(c) \/ SendEvent(c) \/ RestartPublisher(c)
                       \/ \E s \in Subs : Join(s, c) \/ ProcessEvent(s, c)
    \/ \E s \in Subs : RestartSubscriber(s)

Spec == Init /\ [][Next]_vars

(* A subscriber that has something to process does, the library taking     *)
(* turns at the publishers; a publisher carries on with its burst.         *)
FairSpec ==
    /\ Spec
    /\ \A s \in Subs, c \in Cats : WF_vars(ProcessEvent(s, c))
    /\ \A c \in Cats : WF_vars(SendEvent(c))

-----------------------------------------------------------------------------
(* A burst is reported once at most, and the reports of a subscription     *)
(* come in the order of the bursts.                                        *)
OneReportPerBurst ==
    \A s \in Subs, c \in Cats : \A i, j \in DOMAIN reports[s][c] :
        i < j => reports[s][c][i].burst < reports[s][c][j].burst

(* Once a subscription has measured the beginning of some burst, its       *)
(* reports add up to Num in 32-bit arithmetic, even where a burst is taken *)
(* for the continuation of the one before.                                 *)
Began(s, c) == \E i \in DOMAIN reports[s][c] : reports[s][c][i].exact

ReportsAddUp ==
    \A s \in Subs, c \in Cats : \A i, j \in DOMAIN reports[s][c] :
        reports[s][c][i].exact /\ i <= j =>
            Add32(reports[s][c][j].received, reports[s][c][j].missed) = Num

(* If the first event of the burst was received, the report is exact:      *)
(* each subscription implements BurstReport.  (KeepsPromise is the         *)
(* conjunction of Promised(s, c)!Spec, in the form that TLC takes.)        *)
LastReport(s, c) ==
    IF reports[s][c] = <<>>
    THEN [kind |-> "none", received |-> 0, missed |-> 0]
    ELSE LET r == Last(reports[s][c])
         IN  [ kind |-> IF r.exact THEN "exact" ELSE "loose",
               received |-> r.received, missed |-> r.missed ]

Promised(s, c) ==
    INSTANCE BurstReport WITH
        Count <- U32, seen <- seen[s][c], report <- LastReport(s, c)

KeepsPromise ==
    /\ \A s \in Subs, c \in Cats : Promised(s, c)!Init
    /\ [][\A s \in Subs, c \in Cats :
              Promised(s, c)!Next \/ UNCHANGED <<seen[s][c], LastReport(s, c)>>]_vars

(* A burst whose last event reaches the queue of a subscriber is reported, *)
(* unless the subscriber is restarted.                                     *)
Queued(s, c, b) == \E i \in DOMAIN queue[s][c] :
    queue[s][c][i].burst = b /\ queue[s][c][i].seq_no = Num

Reported(s, c, b) == \E i \in DOMAIN reports[s][c] : reports[s][c][i].burst = b

LastEventReported ==
    \A s \in Subs, c \in Cats, b \in 1 .. MaxBursts, r \in 0 .. MaxRestarts :
        (Queued(s, c, b) /\ restarts[s] = r)
            ~> (Reported(s, c, b) \/ restarts[s] # r)

-----------------------------------------------------------------------------
(* stats.cpp:7, "A count of missed messages": the last event of the burst  *)
(* has been received, so that fewer than Num are reported as missed.       *)
MissedIsACount ==
    \A s \in Subs, c \in Cats : \A i \in DOMAIN reports[s][c] :
        reports[s][c][i].missed < Num
=============================================================================
