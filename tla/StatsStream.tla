---------------------------- MODULE StatsStream ----------------------------
(***************************************************************************)
(* One stats_c fed with an arbitrary stream: events in any order,          *)
(* repeated, with any gap, from senders whose clock is not ours.  What     *)
(* holds here holds of every transport.                                    *)
(***************************************************************************)
EXTENDS Stats

CONSTANTS
    MaxEvents,  \* bound: events fed to the object
    MaxNow      \* bound: readings of the subscriber's clock

ASSUME StatsBounds == MaxEvents \in Nat /\ MaxNow \in U64

VARIABLES
    stats,      \* the stats_c
    now,        \* CLOCK_MONOTONIC of the subscriber's host
    started,    \* history: has an event number 1 been received
    count,      \* history: events received, and since the last restart
    ahead       \* history: was a time stamp since then later than the clock

vars == <<stats, now, started, count, ahead>>

(* Every variable has its type in every state.                             *)
TypeOK ==
    /\ stats \in StatsState
    /\ now \in U64
    /\ started \in BOOLEAN
    /\ count \in [all : Nat, burst : Nat]
    /\ ahead \in BOOLEAN

Init ==
    /\ stats = NewStats
    /\ now = 0
    /\ started = FALSE
    /\ count = [all |-> 0, burst |-> 0]
    /\ ahead = FALSE

Receive(e) ==
    /\ count.all < MaxEvents
    /\ stats' = Processor(stats, e, now)
    /\ started' = (started \/ e.seq_no = 1)
    /\ count' = [ all   |-> count.all + 1,
                  burst |-> IF e.seq_no = 1 THEN 1 ELSE count.burst + 1 ]
    /\ ahead' = ((e.seq_no # 1 /\ ahead) \/ e.timestamp > now)
    /\ UNCHANGED now

Tick ==
    /\ now < MaxNow
    /\ now' = now + 1
    /\ UNCHANGED <<stats, started, count, ahead>>

Next == Tick \/ \E e \in Events : Receive(e)

Spec == Init /\ [][Next]_vars

-----------------------------------------------------------------------------
(* Whatever arrives, the received and the missed events add up, in 32-bit  *)
(* arithmetic, to the number before the one expected next; until an event  *)
(* number 1 has been received the sum is one more, so that what is counted *)
(* as missed by a subscriber that joins late includes the event 0 that     *)
(* nobody sends.  The gap, the restart and the two counters of processor() *)
(* must agree for this.                                                    *)
Behind == IF started THEN 1 ELSE 0

Balanced(st, behind) ==
    Add32(Add32(st.missed_events_count, st.num_rx_msg), behind) = st.exp_seq_no

CountsBalance == Balanced(stats, Behind)

(* The report prints "Min < Avg < Max": the average that is printed, the   *)
(* total over num_rx_msg, lies between the two extremes, which takes that  *)
(* the four figures are of the same messages (one is not restarted without *)
(* the others), as long as a burst has fewer messages than a uint32_t has  *)
(* values.                                                                 *)
MeanBetween(st) ==
    /\ st.min_time * st.num_rx_msg <= st.total_time
    /\ st.total_time <= st.max_time * st.num_rx_msg

MinAvgMax == count.burst < M32 => MeanBetween(stats)

(* A time stamp later than the clock makes the difference wrap to a time   *)
(* longer than the machine has been up.  Such a time spoils the report of  *)
(* its own burst only, and no other event does: publishers and subscribers *)
(* on one host, whose stamps are never ahead, always report plausible      *)
(* times: neither an extreme nor what an event adds to the total, from     *)
(* which the average is taken, exceeds the clock.                          *)
PlausibleTimes ==
    ~ahead => /\ stats.max_time <= now
              /\ count.burst # 0 => stats.min_time <= now
              /\ stats.total_time <= now * count.burst
=============================================================================
