------------------------------- MODULE Stats -------------------------------
(***************************************************************************)
(* stats_c (stats.cpp): what a subscription measures of the events it      *)
(* receives, as the state of the object and processor() as an operator on  *)
(* it.  Module StatsStream feeds it with every stream of events, module    *)
(* PubSub with the streams of the transports.                              *)
(*                                                                         *)
(* Times are whole nanoseconds where the code keeps a double of            *)
(* milliseconds: rounding is not modelled.                                 *)
(***************************************************************************)
EXTENDS Words

(* Below and above every elapsed time.                                     *)
DBL_MIN == 0
DBL_MAX == M64

Events == [seq_no : U32, last_seq_no : U32, timestamp : U64]

StatsState ==
    [ exp_seq_no          : U32,
      missed_events_count : U32,
      num_rx_msg          : U32,
      max_time            : U64,
      min_time            : 0 .. DBL_MAX,
      total_time          : Nat ]

(* The constructor; and what processor() restarts from, but for exp_seq_no,*)
(* which it sets in any case.                                              *)
NewStats ==
    [ exp_seq_no |-> 0, missed_events_count |-> 0, num_rx_msg |-> 0,
      max_time |-> DBL_MIN, min_time |-> DBL_MAX, total_time |-> 0 ]

(* time_elapsed_nsec(): an unsigned difference of two clock readings.      *)
Elapsed(now, timestamp) == Sub64(now, timestamp)

(* Wrong: a gap counts as one missed event.                                *)
GapOfOne(st, seq_no) == IF seq_no = st.exp_seq_no THEN 0 ELSE 1

(* The number of events between the expected one and the received one.     *)
Gap(st, seq_no) == Sub32(seq_no, st.exp_seq_no)

(* Wrong: the first event of a burst does not restart the missed events,   *)
(* or not the total or the longest time.                                   *)
CountedOnMissed(st, seq_no) ==
    IF seq_no = 1 THEN [NewStats EXCEPT !.missed_events_count = st.missed_events_count]
    ELSE [ st EXCEPT !.missed_events_count = Add32(@, Gap(st, seq_no)) ]

CountedOnTotal(st, seq_no) ==
    IF seq_no = 1 THEN [NewStats EXCEPT !.total_time = st.total_time]
    ELSE [ st EXCEPT !.missed_events_count = Add32(@, Gap(st, seq_no)) ]

CountedOnMax(st, seq_no) ==
    IF seq_no = 1 THEN [NewStats EXCEPT !.max_time = st.max_time]
    ELSE [ st EXCEPT !.missed_events_count = Add32(@, Gap(st, seq_no)) ]

(* The counters an event is added to: the first event of a burst restarts  *)
(* them, any other event has the gap before it counted as missed.          *)
Counted(st, seq_no) ==
    IF seq_no = 1 THEN NewStats
    ELSE [ st EXCEPT !.missed_events_count = Add32(@, Gap(st, seq_no)) ]

(* processor().                                                            *)
Processor(st, e, now) ==
    LET base == Counted(st, e.seq_no)
        t    == Elapsed(now, e.timestamp)
    IN  [ exp_seq_no          |-> Add32(e.seq_no, 1),
          missed_events_count |-> base.missed_events_count,
          num_rx_msg          |-> Add32(base.num_rx_msg, 1),
          max_time   |-> IF t > base.max_time THEN t ELSE base.max_time,
          min_time   |-> IF t < base.min_time THEN t ELSE base.min_time,
          total_time |-> base.total_time + t ]

(* Wrong: the report is printed an event early too, or never.              *)
ClosesEarly(e) == e.seq_no + 1 >= e.last_seq_no
ClosesPast(e)  == e.seq_no > e.last_seq_no

(* The event after which processor() prints its report.                    *)
Closes(e) == e.seq_no = e.last_seq_no
=============================================================================
