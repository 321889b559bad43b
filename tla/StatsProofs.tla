---------------------------- MODULE StatsProofs ----------------------------
(***************************************************************************)
(* What stats_c guarantees of every stream of events, for every width of   *)
(* the words and any number of events.                                     *)
(***************************************************************************)
EXTENDS StatsStream, TLAPS

-----------------------------------------------------------------------------
(* The operators of stats_c.                                               *)

(* Counting the gap up to the event received, and the event itself, moves  *)
(* the sum of the counters to that event's number.                         *)
LEMMA GapMovesBalance ==
    ASSUME NEW missed \in U32, NEW num \in U32, NEW b \in U32,
           NEW exp \in U32, NEW seq \in U32,
           Add32(Add32(missed, num), b) = exp
    PROVE  Add32(Add32(Add32(missed, Sub32(seq, exp)), Add32(num, 1)), b)
             = Add32(seq, 1)
  BY WidthAssumption, SMTT(30) DEF U32, Add32, Sub32, Wrap32

(* The constructor builds a stats_c, and processor() keeps it one.         *)
LEMMA NewStatsType == NewStats \in StatsState
  BY WidthAssumption DEF NewStats, StatsState, U32, U64, DBL_MIN, DBL_MAX

LEMMA ProcessorType ==
    ASSUME NEW st \in StatsState, NEW e, NEW t \in U64,
           e.seq_no \in U32, e.timestamp \in U64
    PROVE  Processor(st, e, t) \in StatsState
  BY WidthAssumption, SMTT(30)
     DEF Processor, StatsState, Counted, Gap, NewStats, Elapsed, Sub64, Wrap64,
         U32, U64, Add32, Sub32, Wrap32, DBL_MIN, DBL_MAX

(* The difference of two readings of the clock is one.                     *)
LEMMA WordDifference64 ==
    ASSUME NEW a \in U64, NEW b \in U64
    PROVE  Sub64(a, b) \in U64
  BY WidthAssumption DEF U64, Sub64, Wrap64

-----------------------------------------------------------------------------
(* Times.                                                                  *)

(* A measurement added to the total and to the extremes keeps the mean     *)
(* between them.                                                           *)
LEMMA MeanStep ==
    ASSUME NEW n \in Nat, NEW lo \in Nat, NEW hi \in Nat, NEW total \in Nat,
           NEW t \in Nat, lo * n <= total, total <= hi * n
    PROVE  /\ (IF t < lo THEN t ELSE lo) * (n + 1) <= total + t
           /\ total + t <= (IF t > hi THEN t ELSE hi) * (n + 1)
  <1>1. ASSUME NEW a \in Nat, NEW b \in Nat, a <= b  PROVE a * n <= b * n
    <2>1. PICK d \in Nat : b = a + d
      BY <1>1
    <2>2. b * n = a * n + d * n /\ d * n \in Nat /\ a * n \in Nat
      BY <2>1
    <2> QED  BY <2>2
  <1>2. ASSUME NEW a \in Nat  PROVE a * (n + 1) = a * n + a /\ a * n \in Nat
    OBVIOUS
  <1>3. (IF t < lo THEN t ELSE lo) * (n + 1) <= total + t
    <2>1. CASE t < lo
      BY <1>2, <2>1, <1>1, lo * n \in Nat, t * n <= lo * n
    <2>2. CASE ~(t < lo)
      BY <1>2, <2>2
    <2> QED  BY <2>1, <2>2
  <1>4. total + t <= (IF t > hi THEN t ELSE hi) * (n + 1)
    <2>1. CASE t > hi
      BY <1>2, <2>1, <1>1, hi * n \in Nat, hi * n <= t * n
    <2>2. CASE ~(t > hi)
      BY <1>2, <2>2
    <2> QED  BY <2>1, <2>2
  <1> QED  BY <1>3, <1>4

(* A product grows by one of its factors.                                  *)
LEMMA WholeProduct ==
    ASSUME NEW a \in Nat, NEW b \in Nat
    PROVE  a * b \in Nat /\ (a + 1) * b = a * b + b /\ a * (b + 1) = a * b + a
  OBVIOUS

(* The difference of a stamp that is not ahead of the clock does not wrap. *)
LEMMA NoWrap ==
    ASSUME NEW t \in U64, NEW s \in U64, s <= t
    PROVE  Elapsed(t, s) \in Nat /\ Elapsed(t, s) <= t
  BY WidthAssumption DEF Elapsed, Sub64, Wrap64, U64

-----------------------------------------------------------------------------
(* Every reachable state is well typed.                                    *)
THEOREM StatsTypeCorrect == Spec => []TypeOK
  <1>1. Init => TypeOK
    <2> SUFFICES ASSUME Init  PROVE TypeOK
      OBVIOUS
    <2>1. stats \in StatsState
      BY NewStatsType DEF Init
    <2>2. now \in U64
      BY WidthAssumption DEF Init, U64
    <2>3. count \in [all : Nat, burst : Nat]
      BY DEF Init
    <2>4. started \in BOOLEAN /\ ahead \in BOOLEAN
      BY DEF Init
    <2> QED  BY <2>1, <2>2, <2>3, <2>4 DEF TypeOK
  <1>2. TypeOK /\ [Next]_vars => TypeOK'
    <2> SUFFICES ASSUME TypeOK, [Next]_vars  PROVE TypeOK'
      OBVIOUS
    <2>1. CASE Tick
      BY <2>1, StatsBounds, WidthAssumption DEF TypeOK, Tick, U64
    <2>2. ASSUME NEW e \in Events, Receive(e)  PROVE TypeOK'
      BY <2>2, ProcessorType DEF TypeOK, Receive, Events
    <2>3. CASE UNCHANGED vars
      BY <2>3 DEF TypeOK, vars
    <2> QED  BY <2>1, <2>2, <2>3 DEF Next
  <1> QED  BY <1>1, <1>2, PTL DEF Spec

-----------------------------------------------------------------------------
(* The counters.                                                           *)

(* Received and missed events add up to the last number seen, whatever the *)
(* order, the gaps and the repetitions of the stream.                      *)
THEOREM CountsAlwaysBalance == Spec => []CountsBalance
  <1>1. Init => CountsBalance
    BY WidthAssumption
       DEF Init, CountsBalance, Balanced, Behind, NewStats, Add32, Wrap32
  <1>2. TypeOK /\ CountsBalance /\ [Next]_vars => CountsBalance'
    <2> SUFFICES ASSUME TypeOK, CountsBalance, [Next]_vars
                 PROVE  CountsBalance'
      OBVIOUS
    <2>1. CASE Tick
      BY <2>1 DEF CountsBalance, Behind, Tick
    <2>2. ASSUME NEW e \in Events, Receive(e)  PROVE CountsBalance'
      <3>1. /\ e.seq_no \in U32  /\ stats \in StatsState
            /\ stats'.exp_seq_no = Add32(e.seq_no, 1)
        BY <2>2 DEF TypeOK, Events, Receive, Processor
      <3>2. CASE e.seq_no = 1
        <4>1. /\ stats'.missed_events_count = 0
              /\ stats'.num_rx_msg = Add32(0, 1)
              /\ Behind' = 1
          BY <2>2, <3>2 DEF Receive, Processor, Counted, NewStats, Behind
        <4> QED  BY <3>1, <3>2, <4>1, WidthAssumption
                 DEF CountsBalance, Balanced, Add32, Wrap32
      <3>3. CASE e.seq_no # 1
        <4>1. /\ stats'.missed_events_count =
                     Add32(stats.missed_events_count,
                           Sub32(e.seq_no, stats.exp_seq_no))
              /\ stats'.num_rx_msg = Add32(stats.num_rx_msg, 1)
              /\ Behind' = Behind
          BY <2>2, <3>1, <3>3
             DEF Receive, Processor, Counted, Gap, StatsState, Behind
        <4>2. Behind \in U32
          BY WidthAssumption DEF Behind, U32
        <4> QED  BY <3>1, <4>1, <4>2, GapMovesBalance
                 DEF CountsBalance, Balanced, StatsState
      <3> QED  BY <3>2, <3>3
    <2>3. CASE UNCHANGED vars
      BY <2>3 DEF CountsBalance, Behind, vars
    <2> QED  BY <2>1, <2>2, <2>3 DEF Next
  <1> QED  BY <1>1, <1>2, StatsTypeCorrect, PTL DEF Spec

-----------------------------------------------------------------------------
(* The times.                                                              *)

(* While a burst has fewer messages than a uint32_t has values, num_rx_msg *)
(* is the number of messages the other figures are about.                  *)
RxCounted == count.burst < M32 => stats.num_rx_msg = count.burst

(* The average reported lies between the reported extremes.                *)
THEOREM MeanIsBetween == Spec => []MinAvgMax
  <1> DEFINE IInv == RxCounted /\ MinAvgMax
  <1>1. Init => IInv
    BY WidthAssumption
       DEF Init, RxCounted, MinAvgMax, MeanBetween, NewStats, DBL_MIN, DBL_MAX
  <1>2. TypeOK /\ IInv /\ [Next]_vars => IInv'
    <2> SUFFICES ASSUME TypeOK, IInv, [Next]_vars  PROVE IInv'
      OBVIOUS
    <2>1. CASE Tick
      BY <2>1 DEF RxCounted, MinAvgMax, Tick
    <2>2. ASSUME NEW e \in Events, Receive(e), count'.burst < M32
          PROVE  stats'.num_rx_msg = count'.burst /\ MeanBetween(stats')
      <3> DEFINE t    == Elapsed(now, e.timestamp)
                 base == Counted(stats, e.seq_no)
                 n    == IF e.seq_no = 1 THEN 0 ELSE count.burst
      <3>1. t \in Nat
        BY WordDifference64 DEF TypeOK, Events, Elapsed, U64
      <3>2. /\ n \in Nat /\ n + 1 = count'.burst
            /\ n + 1 < M32 /\ base.num_rx_msg = n
            /\ base.min_time \in Nat /\ base.max_time \in Nat
            /\ base.total_time \in Nat
            /\ base.min_time * n <= base.total_time
            /\ base.total_time <= base.max_time * n
        <4>1. CASE e.seq_no = 1
          BY <2>2, <4>1, WidthAssumption
             DEF Receive, Counted, NewStats, DBL_MIN, DBL_MAX
        <4>2. CASE e.seq_no # 1
          <5>1. count.burst \in Nat /\ count'.burst = count.burst + 1
            BY <2>2, <4>2 DEF Receive, TypeOK
          <5>2. count.burst < M32
            BY <2>2, <5>1, WidthAssumption
          <5>3. stats.num_rx_msg = count.burst /\ MeanBetween(stats)
            BY <5>2 DEF RxCounted, MinAvgMax
          <5>4. /\ base.num_rx_msg = stats.num_rx_msg
                /\ base.min_time = stats.min_time
                /\ base.max_time = stats.max_time
                /\ base.total_time = stats.total_time
            BY <4>2 DEF TypeOK, Counted, StatsState
          <5>5. /\ stats.min_time \in Nat /\ stats.max_time \in Nat
                /\ stats.total_time \in Nat
            BY WidthAssumption DEF TypeOK, StatsState, U64, DBL_MAX
          <5> HIDE DEF base
          <5> QED  BY <2>2, <4>2, <5>1, <5>3, <5>4, <5>5 DEF MeanBetween
        <4> QED  BY <4>1, <4>2
      <3>3. /\ stats'.num_rx_msg = Add32(base.num_rx_msg, 1)
            /\ stats'.min_time = IF t < base.min_time THEN t ELSE base.min_time
            /\ stats'.max_time = IF t > base.max_time THEN t ELSE base.max_time
            /\ stats'.total_time = base.total_time + t
        BY <2>2 DEF Receive, Processor
      <3> HIDE DEF t, base, n
      <3>4. stats'.num_rx_msg = n + 1
        BY <3>2, <3>3, WidthAssumption DEF Add32, Wrap32
      <3>5. /\ stats'.min_time * (n + 1) <= stats'.total_time
            /\ stats'.total_time <= stats'.max_time * (n + 1)
        <4>1. /\ (IF t < base.min_time THEN t ELSE base.min_time) * (n + 1)
                    <= base.total_time + t
              /\ base.total_time + t
                    <= (IF t > base.max_time THEN t ELSE base.max_time) * (n + 1)
          BY <3>1, <3>2, MeanStep
        <4> QED  BY <3>3, <4>1
      <3> QED  BY <3>2, <3>4, <3>5 DEF MeanBetween
    <2>3. CASE UNCHANGED vars
      BY <2>3 DEF RxCounted, MinAvgMax, vars
    <2> QED  BY <2>1, <2>2, <2>3 DEF Next, RxCounted, MinAvgMax
  <1> QED  BY <1>1, <1>2, StatsTypeCorrect, PTL DEF Spec

(* As long as no stamp of the burst was ahead of the clock, no time that   *)
(* is reported exceeds the clock's reading, nor does the average.          *)
THEOREM TimesStayPlausible == Spec => []PlausibleTimes
  <1>1. Init => PlausibleTimes
    <2>1. 0 * 0 = 0
      OBVIOUS
    <2> QED  BY <2>1 DEF Init, PlausibleTimes, NewStats, DBL_MIN
  <1>2. TypeOK /\ PlausibleTimes /\ [Next]_vars => PlausibleTimes'
    <2> SUFFICES ASSUME TypeOK, PlausibleTimes, [Next]_vars
                 PROVE  PlausibleTimes'
      OBVIOUS
    <2>1. CASE Tick
      <3>1. /\ now \in Nat /\ now' = now + 1
            /\ stats.max_time \in Nat /\ stats.min_time \in Nat
            /\ stats.total_time \in Nat /\ count.burst \in Nat
            /\ UNCHANGED <<stats, count, ahead>>
        BY <2>1, WidthAssumption DEF TypeOK, Tick, U64, StatsState, DBL_MAX
      <3>2. now' * count.burst = now * count.burst + count.burst /\ now * count.burst \in Nat
        BY <3>1, WholeProduct
      <3>3. ASSUME ~ahead
            PROVE  /\ stats.max_time <= now' /\ stats.total_time <= now' * count.burst
                   /\ count.burst # 0 => stats.min_time <= now'
        <4>1. /\ stats.max_time <= now /\ stats.total_time <= now * count.burst
              /\ count.burst # 0 => stats.min_time <= now
          BY <3>3 DEF PlausibleTimes
        <4>2. stats.total_time <= now' * count.burst
          <5> DEFINE a == now * count.burst
                     b == now' * count.burst
          <5>1. stats.total_time <= a /\ b = a + count.burst /\ a \in Nat
            BY <3>2, <4>1
          <5> HIDE DEF a, b
          <5>2. stats.total_time <= b
            BY <3>1, <5>1
          <5> QED  BY <5>2 DEF b
        <4> QED  BY <3>1, <4>1, <4>2
      <3> QED  BY <3>1, <3>3 DEF PlausibleTimes
    <2>2. ASSUME NEW e \in Events, Receive(e), ~ahead'  PROVE PlausibleTimes'
      <3> DEFINE t    == Elapsed(now, e.timestamp)
                 base == Counted(stats, e.seq_no)
                 n    == IF e.seq_no = 1 THEN 0 ELSE count.burst
      <3>1. t \in Nat /\ t <= now /\ now \in Nat /\ now' = now
        <4>1. e.timestamp \in U64 /\ now \in U64 /\ now' = now
          BY <2>2 DEF TypeOK, Events, Receive
        <4>2. ~(e.timestamp > now)
          BY <2>2, Zenon DEF Receive
        <4>3. e.timestamp <= now
          BY <4>1, <4>2, WidthAssumption DEF U64
        <4> QED  BY <4>1, <4>3, NoWrap, WidthAssumption DEF U64
      <3>2. /\ base.max_time \in Nat /\ base.max_time <= now /\ base.min_time \in Nat
            /\ base.total_time \in Nat /\ base.total_time <= now * n
            /\ n \in Nat /\ count'.burst = n + 1
        <4>1. CASE e.seq_no = 1
          <5>1. /\ base.max_time = 0 /\ base.min_time \in Nat /\ base.total_time = 0
                /\ n = 0 /\ count'.burst = 1
            BY <2>2, <4>1, WidthAssumption DEF Receive, Counted, NewStats, DBL_MIN, DBL_MAX
          <5>2. now * 0 = 0
            BY <3>1
          <5> HIDE DEF base, n
          <5> QED  BY <3>1, <5>1, <5>2
        <4>2. CASE e.seq_no # 1
          <5>1. ~ahead
            BY <2>2, <4>2, Zenon DEF Receive
          <5>2. /\ base.max_time = stats.max_time /\ base.min_time = stats.min_time
                /\ base.total_time = stats.total_time
            BY <4>2 DEF TypeOK, Counted, StatsState
          <5>3. stats.max_time \in Nat /\ stats.min_time \in Nat /\ stats.total_time \in Nat
            BY WidthAssumption DEF TypeOK, StatsState, U64, DBL_MAX
          <5>4. n = count.burst /\ n \in Nat /\ count'.burst = n + 1
            BY <2>2, <4>2 DEF TypeOK, Receive
          <5> HIDE DEF base, n
          <5> QED  BY <5>1, <5>2, <5>3, <5>4 DEF PlausibleTimes
        <4> QED  BY <4>1, <4>2
      <3>3. /\ stats'.min_time = IF t < base.min_time THEN t ELSE base.min_time
            /\ stats'.max_time = IF t > base.max_time THEN t ELSE base.max_time
            /\ stats'.total_time = base.total_time + t
        BY <2>2 DEF Receive, Processor
      <3> HIDE DEF t, base, n
      <3>4. now * (n + 1) = now * n + now /\ now * n \in Nat
        BY <3>1, <3>2, WholeProduct
      <3>5. stats'.total_time <= now' * count'.burst
        BY <3>1, <3>2, <3>3, <3>4
      <3> QED  BY <3>1, <3>2, <3>3, <3>5 DEF PlausibleTimes
    <2>3. CASE UNCHANGED vars
      BY <2>3 DEF PlausibleTimes, vars
    <2> QED  BY <2>1, <2>2, <2>3 DEF Next, PlausibleTimes
  <1> QED  BY <1>1, <1>2, StatsTypeCorrect, PTL DEF Spec
=============================================================================
