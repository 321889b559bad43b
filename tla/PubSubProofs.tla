---------------------------- MODULE PubSubProofs ----------------------------
(***************************************************************************)
(* What the subscriptions report, whatever the transport loses and whoever *)
(* is restarted, for any number of publishers, subscribers, bursts and     *)
(* events, and queues of any size.                                         *)
(***************************************************************************)
EXTENDS PubSub, SequenceTheorems, FiniteSetTheorems, TLAPS

(* The inductive invariant, as facts about one subscription: its           *)
(* statistics st, the numbers set received of the burst m being measured,  *)
(* its queue q and its reports r; and about the publisher, which is at     *)
(* event nx of burst b.                                                    *)

(* Events travel in the order in which they were sent: they come after     *)
(* what is measured, and before what the publisher sends next.             *)
Before(e, f) == e.burst < f.burst \/ (e.burst = f.burst /\ e.seq_no < f.seq_no)
Ahead(e, m, exp) == e.burst > m \/ (e.burst = m /\ e.seq_no >= exp)
Sent(e, b, nx) == e.burst < b \/ (e.burst = b /\ (nx = Idle \/ e.seq_no < nx))
Follows(m, exp, b, nx) == m < b \/ (m = b /\ (nx = Idle \/ exp <= nx))

Travelling(q, m, exp, b, nx) ==
    /\ \A i, j \in 1 .. Len(q) : i < j => Before(q[i], q[j])
    /\ \A i \in 1 .. Len(q) : Ahead(q[i], m, exp) /\ Sent(q[i], b, nx)
    /\ Follows(m, exp, b, nx)

(* The counters are about the numbers received, if the burst was met at    *)
(* its beginning.                                                          *)
Tallied(st, set) ==
    /\ st.exp_seq_no <= Num + 1
    /\ set # {} =>
          /\ set \subseteq 1 .. st.exp_seq_no - 1
          /\ st.num_rx_msg = Cardinality(set)
          /\ st.missed_events_count = st.exp_seq_no - 1 - Cardinality(set)

(* The reports are in the order of the bursts; a burst that was reported   *)
(* is over.                                                                *)
InOrder(r, m, exp) ==
    /\ \A i, j \in 1 .. Len(r) : i < j => r[i].burst < r[j].burst
    /\ \A i \in 1 .. Len(r) : r[i].burst <= m /\ (r[i].burst = m => exp = Num + 1)

(* Once the subscription has met the beginning of a burst, the counters    *)
(* add up to the number of the last event received.                        *)
Exactly(r) == \E i \in 1 .. Len(r) : r[i].exact

AddsUp(st, set, r) ==
    /\ set # {} \/ Exactly(r) =>
          Add32(Add32(st.missed_events_count, st.num_rx_msg), 1) = st.exp_seq_no
    /\ \A i, j \in 1 .. Len(r) :
          r[i].exact /\ i <= j => Add32(r[j].received, r[j].missed) = Num

Pair(st, set, m, q, r, b, nx) ==
    /\ Travelling(q, m, st.exp_seq_no, b, nx)
    /\ Tallied(st, set)
    /\ InOrder(r, m, st.exp_seq_no)
    /\ AddsUp(st, set, r)

PairOf(s, c) == Pair(stats[s][c], seen[s][c], measured[s][c], queue[s][c],
                     reports[s][c], burst[c], next[c])

(* A publisher that sends has begun a burst.                               *)
Numbered == \A c \in Cats : next[c] # Idle => burst[c] > 0

IInv ==
    /\ TypeOK
    /\ Numbered
    /\ \A s \in Subs, c \in Cats : PairOf(s, c)

-----------------------------------------------------------------------------
(* Types.                                                                  *)

(* An event in its place in a burst.                                       *)
LEMMA EventType ==
    ASSUME NEW e \in EventSet
    PROVE  /\ e.burst \in 1 .. MaxBursts /\ e.seq_no \in 1 .. Num
           /\ e.last_seq_no = Num /\ e.timestamp = 0
           /\ e.seq_no \in U32 /\ e.timestamp \in U64
           /\ Add32(e.seq_no, 1) = e.seq_no + 1
  BY PubSubAssumption, WidthAssumption DEF EventSet, Event, U32, U64, Add32, Wrap32

(* The head of a queue is an event, the tail a queue.                      *)
LEMMA HeadOfQueue ==
    ASSUME NEW q \in Seq(EventSet), q # <<>>
    PROVE  /\ Head(q) \in EventSet /\ Tail(q) \in Seq(EventSet)
           /\ Len(q) > 0 /\ Head(q) = q[1] /\ Len(Tail(q)) = Len(q) - 1
           /\ \A i \in 1 .. Len(q) - 1 : Tail(q)[i] = q[i + 1]
  BY HeadTailProperties

(* The constructor builds a stats_c, and processor() keeps it one.         *)
LEMMA NewStatsType == NewStats \in StatsState
  BY WidthAssumption DEF NewStats, StatsState, U32, U64, DBL_MIN, DBL_MAX

LEMMA ProcessorType ==
    ASSUME NEW st \in StatsState, NEW e, NEW t \in U64,
           e.seq_no \in U32, e.timestamp \in U64
    PROVE  Processor(st, e, t) \in StatsState
  BY WidthAssumption, SMTT(30)
     DEF Processor, StatsState, Counted, Gap, NewStats, Elapsed, Sub64, Wrap64,
         U32, U64, Add32, Sub32, Wrap32, DBL_MIN, DBL_MAX

(* What is measured of an event of the queue has its type.                 *)
LEMMA MeasuredType ==
    ASSUME NEW st \in StatsState, NEW e \in EventSet, NEW set \in SUBSET (1 .. Num)
    PROVE  /\ Processor(st, e, 0) \in StatsState
           /\ ReportOf(Processor(st, e, 0), e, set) \in Report
  <1>1. Processor(st, e, 0) \in StatsState
    BY EventType, ProcessorType, WidthAssumption DEF U64
  <1> QED  BY <1>1, EventType DEF ReportOf, Report, StatsState

LEMMA InitType == Init => TypeOK
  <1> SUFFICES ASSUME Init  PROVE TypeOK
    OBVIOUS
  <1> USE PubSubAssumption DEF Init, OfAll, Idle
  <1>1. next \in [Cats -> Idle .. Num] /\ burst \in [Cats -> 0 .. MaxBursts]
    OBVIOUS
  <1>2. joined \in [Subs -> [Cats -> BOOLEAN]]
    OBVIOUS
  <1>3. queue \in [Subs -> [Cats -> Seq(EventSet)]]
    OBVIOUS
  <1>4. stats \in [Subs -> [Cats -> StatsState]]
    BY NewStatsType
  <1>5. reports \in [Subs -> [Cats -> Seq(Report)]]
    OBVIOUS
  <1>6. measured \in [Subs -> [Cats -> 0 .. MaxBursts]]
    OBVIOUS
  <1>7. seen \in [Subs -> [Cats -> SUBSET (1 .. Num)]]
    OBVIOUS
  <1>8. restarts \in [Subs -> 0 .. MaxRestarts]
    OBVIOUS
  <1> QED  BY <1>1, <1>2, <1>3, <1>4, <1>5, <1>6, <1>7, <1>8 DEF TypeOK

(* Each step keeps the types.                                              *)
LEMMA TypeStep == TypeOK /\ Numbered /\ [Next]_vars => TypeOK'
  <1> SUFFICES ASSUME TypeOK, Numbered, [Next]_vars  PROVE TypeOK'
    OBVIOUS
  <1> USE DEF TypeOK, publishers, subscribers
  <1>1. ASSUME NEW c \in Cats, BeginBurst(c)  PROVE TypeOK'
    BY <1>1, PubSubAssumption DEF BeginBurst, Idle
  <1>2. ASSUME NEW c \in Cats, SendEvent(c)  PROVE TypeOK'
    <2>1. next' \in [Cats -> Idle .. Num]
      BY <1>2, PubSubAssumption DEF SendEvent, Idle
    <2>2. queue' \in [Subs -> [Cats -> Seq(EventSet)]]
      <3>1. Event(burst[c], next[c]) \in EventSet
        <4>1. next[c] \in 1 .. Num /\ burst[c] \in 1 .. MaxBursts
          BY <1>2, PubSubAssumption DEF SendEvent, Numbered, Idle
        <4> QED  BY <4>1 DEF EventSet
      <3>2. CASE Carry(c, Event(burst[c], next[c]))
        <4> DEFINE e == Event(burst[c], next[c])
        <4>1. \A q \in Seq(EventSet) : Offer(q, e) \in Seq(EventSet)
          BY <3>1 DEF Offer
        <4> HIDE DEF e
        <4> QED  BY <3>2, <4>1 DEF Carry, e
      <3>3. CASE UNCHANGED queue
        BY <3>3
      <3> QED  BY <1>2, <3>2, <3>3 DEF SendEvent
    <2> QED  BY <1>2, <2>1, <2>2 DEF SendEvent
  <1>3. ASSUME NEW c \in Cats, RestartPublisher(c)  PROVE TypeOK'
    BY <1>3, PubSubAssumption DEF RestartPublisher, Idle
  <1>4. ASSUME NEW s \in Subs, NEW c \in Cats, Join(s, c)  PROVE TypeOK'
    BY <1>4 DEF Join
  <1>5. ASSUME NEW s \in Subs, NEW c \in Cats, ProcessEvent(s, c)  PROVE TypeOK'
    <2> DEFINE e == Head(queue[s][c])
    <2>1. e \in EventSet /\ Tail(queue[s][c]) \in Seq(EventSet)
      BY <1>5, HeadOfQueue DEF ProcessEvent
    <2>2. /\ e.burst \in 1 .. MaxBursts /\ e.seq_no \in 1 .. Num
          /\ SeenAfter(s, c, e) \subseteq 1 .. Num
      BY <2>1, EventType, PubSubAssumption DEF SeenAfter
    <2>3. /\ Processor(stats[s][c], e, 0) \in StatsState
          /\ ReportOf(Processor(stats[s][c], e, 0), e, SeenAfter(s, c, e)) \in Report
      BY <2>1, <2>2, MeasuredType
    <2> HIDE DEF e
    <2>4. queue' \in [Subs -> [Cats -> Seq(EventSet)]]
      BY <1>5, <2>1 DEF ProcessEvent
    <2>5. /\ stats' = [stats EXCEPT ![s][c] = Processor(@, e, 0)]
          /\ stats' \in [Subs -> [Cats -> StatsState]]
      BY <1>5, <2>3 DEF ProcessEvent, e
    <2>6. measured' \in [Subs -> [Cats -> 0 .. MaxBursts]]
      BY <1>5, <2>2, PubSubAssumption DEF ProcessEvent, e
    <2>7. /\ seen' = [seen EXCEPT ![s][c] = SeenAfter(s, c, e)]
          /\ seen' \in [Subs -> [Cats -> SUBSET (1 .. Num)]]
      BY <1>5, <2>2 DEF ProcessEvent, e
    <2>8. reports' \in [Subs -> [Cats -> Seq(Report)]]
      <3>1. /\ stats'[s][c] = Processor(stats[s][c], e, 0)
            /\ seen'[s][c] = SeenAfter(s, c, e)
        BY <2>5, <2>7
      <3> QED  BY <1>5, <2>3, <3>1 DEF ProcessEvent, e
    <2> QED  BY <1>5, <2>4, <2>5, <2>6, <2>7, <2>8 DEF ProcessEvent
  <1>6. ASSUME NEW s \in Subs, RestartSubscriber(s)  PROVE TypeOK'
    <2>1. joined' \in [Subs -> [Cats -> BOOLEAN]]
      BY <1>6 DEF RestartSubscriber
    <2>2. queue' \in [Subs -> [Cats -> Seq(EventSet)]]
      BY <1>6 DEF RestartSubscriber
    <2>3. stats' \in [Subs -> [Cats -> StatsState]]
      BY <1>6, NewStatsType DEF RestartSubscriber
    <2>4. reports' \in [Subs -> [Cats -> Seq(Report)]]
      BY <1>6 DEF RestartSubscriber
    <2>5. measured' \in [Subs -> [Cats -> 0 .. MaxBursts]]
      BY <1>6, PubSubAssumption DEF RestartSubscriber
    <2>6. seen' \in [Subs -> [Cats -> SUBSET (1 .. Num)]]
      BY <1>6 DEF RestartSubscriber
    <2>7. restarts' \in [Subs -> 0 .. MaxRestarts]
      BY <1>6, PubSubAssumption DEF RestartSubscriber
    <2> QED  BY <1>6, <2>1, <2>2, <2>3, <2>4, <2>5, <2>6, <2>7 DEF RestartSubscriber
  <1>7. CASE UNCHANGED vars
    BY <1>7 DEF vars
  <1> QED  BY <1>1, <1>2, <1>3, <1>4, <1>5, <1>6, <1>7 DEF Next

-----------------------------------------------------------------------------
(* The conjuncts of the invariant under each thing that happens to a       *)
(* subscription and its publisher.                                         *)

(* The next event of the publisher is offered to the queue.                *)
LEMMA OfferKeepsOrder ==
    ASSUME NEW q \in Seq(EventSet), NEW m \in Nat, NEW exp \in Nat,
           NEW b \in 1 .. MaxBursts, NEW nx \in 1 .. Num,
           Travelling(q, m, exp, b, nx)
    PROVE  LET e == Event(b, nx)
               n == IF nx = Num THEN Idle ELSE nx + 1
           IN  Travelling(q, m, exp, b, n) /\ Travelling(Append(q, e), m, exp, b, n)
  <1> DEFINE e == Event(b, nx)
             n == IF nx = Num THEN Idle ELSE nx + 1
  <1>1. e \in EventSet /\ e.burst = b /\ e.seq_no = nx
    BY DEF EventSet, Event
  <1>2. /\ Len(Append(q, e)) = Len(q) + 1 /\ Append(q, e)[Len(q) + 1] = e
        /\ \A i \in 1 .. Len(q) : Append(q, e)[i] = q[i]
        /\ \A i \in 1 .. Len(q) : q[i] \in EventSet
        /\ Len(q) \in Nat
    BY <1>1, AppendProperties
  <1>3. nx \in Nat /\ b \in Nat /\ (n = Idle \/ (n \in Nat /\ nx < n)) /\ nx # Idle
    BY PubSubAssumption DEF Idle
  <1> HIDE DEF e, n
  <1>4. /\ \A i \in 1 .. Len(q) : Sent(q[i], b, n) /\ Before(q[i], e)
        /\ Follows(m, exp, b, n) /\ Sent(e, b, n) /\ Ahead(e, m, exp)
    BY <1>1, <1>2, <1>3, EventType DEF Travelling, Sent, Before, Follows, Ahead
  <1>5. Travelling(q, m, exp, b, n)
    BY <1>4 DEF Travelling
  <1>6. Travelling(Append(q, e), m, exp, b, n)
    BY <1>2, <1>4 DEF Travelling
  <1> QED  BY <1>5, <1>6 DEF e, n

(* The head of the queue is measured.                                      *)
LEMMA TailKeepsOrder ==
    ASSUME NEW q \in Seq(EventSet), q # <<>>, NEW m \in Nat, NEW exp \in Nat,
           NEW b \in Nat, NEW nx \in Nat,
           Travelling(q, m, exp, b, nx)
    PROVE  Travelling(Tail(q), Head(q).burst, Head(q).seq_no + 1, b, nx)
  <1>1. \A i \in 1 .. Len(q) : q[i] \in EventSet
    OBVIOUS
  <1>2. Len(q) \in Nat
    OBVIOUS
  <1>3. Follows(Head(q).burst, Head(q).seq_no + 1, b, nx)
    BY <1>1, HeadOfQueue, EventType DEF Travelling, Sent, Follows
  <1>4. \A i \in 1 .. Len(q) - 1 :
           /\ i + 1 \in 1 .. Len(q) /\ Tail(q)[i] = q[i + 1]
           /\ q[i + 1] \in EventSet /\ Before(Head(q), q[i + 1])
    BY <1>1, <1>2, HeadOfQueue DEF Travelling
  <1>5. \A i \in 1 .. Len(q) - 1 :
           Ahead(Tail(q)[i], Head(q).burst, Head(q).seq_no + 1) /\ Sent(Tail(q)[i], b, nx)
    BY <1>4, HeadOfQueue, EventType DEF Travelling, Before, Ahead
  <1>6. \A i, j \in 1 .. Len(q) - 1 : i < j => Before(Tail(q)[i], Tail(q)[j])
    BY <1>4, <1>2 DEF Travelling
  <1> QED  BY <1>3, <1>5, <1>6, HeadOfQueue DEF Travelling

(* A set of the numbers up to n has at most n elements, and one more with  *)
(* a new one.                                                              *)
LEMMA NumbersOfBurst ==
    ASSUME NEW n \in Nat, NEW set \in SUBSET (1 .. n)
    PROVE  /\ IsFiniteSet(set) /\ Cardinality(set) \in Nat /\ Cardinality(set) <= n
           /\ \A k \in Nat : k > n => Cardinality(set \cup {k}) = Cardinality(set) + 1
  <1>1. IsFiniteSet(1 .. n) /\ Cardinality(1 .. n) = n
    BY FS_Interval
  <1>2. IsFiniteSet(set) /\ Cardinality(set) <= n
    BY <1>1, FS_Subset
  <1>3. Cardinality(set) \in Nat
    BY <1>2, FS_CardinalityType
  <1> QED  BY <1>2, <1>3, FS_AddElement

(* The tally.                                                              *)
LEMMA TallyStep ==
    ASSUME NEW s \in Subs, NEW c \in Cats, NEW e \in EventSet,
           stats[s][c] \in StatsState, seen[s][c] \subseteq 1 .. Num,
           Tallied(stats[s][c], seen[s][c]),
           Ahead(e, measured[s][c], stats[s][c].exp_seq_no)
    PROVE  Tallied(Processor(stats[s][c], e, 0), SeenAfter(s, c, e))
  <1> DEFINE st == stats[s][c]
             n  == e.seq_no
             after == Processor(st, e, 0)
             set == seen[s][c]
  <1>1. /\ n \in 1 .. Num /\ n \in U32 /\ Add32(n, 1) = n + 1
        /\ after.exp_seq_no = n + 1
        /\ after.missed_events_count = Counted(st, n).missed_events_count
        /\ after.num_rx_msg = Add32(Counted(st, n).num_rx_msg, 1)
    BY EventType DEF Processor
  <1>2. after.exp_seq_no <= Num + 1 /\ n \in Nat
    BY <1>1, PubSubAssumption
  <1>3. CASE n = 1
    <2>1. Cardinality({1}) = 1
      BY FS_Singleton
    <2>2. after.missed_events_count = 0 /\ after.num_rx_msg = 1
      BY <1>1, <1>3, WidthAssumption DEF Counted, NewStats, Add32, Wrap32
    <2> QED  BY <1>1, <1>2, <1>3, <2>1, <2>2 DEF SeenAfter, Tallied
  <1>4. CASE n # 1 /\ e.burst = measured[s][c] /\ set # {}
    <2> DEFINE k == Cardinality(set)
               x == st.exp_seq_no
    <2>1. /\ x \in U32 /\ x \in Nat /\ x <= n /\ set \subseteq 1 .. x - 1
          /\ st.num_rx_msg = k /\ st.missed_events_count = x - 1 - k
          /\ st.missed_events_count \in U32 /\ st.num_rx_msg \in U32
      BY <1>1, <1>4, EventType, WidthAssumption DEF Ahead, Tallied, StatsState, U32
    <2>2. x # 0 /\ x - 1 \in Nat
      BY <1>4, <2>1
    <2>3. /\ k \in Nat /\ k <= x - 1
          /\ Cardinality(set \cup {n}) = k + 1
      BY <1>2, <2>1, <2>2, NumbersOfBurst
    <2>4. /\ after.missed_events_count = Add32(x - 1 - k, Sub32(n, x))
          /\ after.num_rx_msg = Add32(k, 1)
      BY <1>1, <1>4, <2>1 DEF Counted, Gap, StatsState
    <2> HIDE DEF st, n, after, set, k, x
    <2>5. Sub32(n, x) = n - x
      BY <1>1, <1>2, <2>1, WidthAssumption DEF Sub32, Wrap32, U32
    <2>6. after.missed_events_count = n - 1 - k /\ after.num_rx_msg = k + 1
      BY <1>1, <1>2, <2>1, <2>2, <2>3, <2>4, <2>5, PubSubAssumption, WidthAssumption
         DEF Add32, Wrap32, U32
    <2>7. SeenAfter(s, c, e) = set \cup {n}
      BY <1>4 DEF SeenAfter, set, n
    <2>8. set \cup {n} \subseteq 1 .. n
      <3>1. \A i \in 1 .. x - 1 : i \in 1 .. n
        BY <1>2, <2>1
      <3>2. n \in 1 .. n
        BY <1>1
      <3> QED  BY <2>1, <3>1, <3>2
    <2>9. after.exp_seq_no - 1 = n
      BY <1>1, <1>2
    <2> QED  BY <1>2, <2>3, <2>6, <2>7, <2>8, <2>9 DEF Tallied, after, st
  <1>5. CASE n # 1 /\ ~(e.burst = measured[s][c] /\ set # {})
    BY <1>2, <1>5 DEF SeenAfter, Tallied
  <1> QED  BY <1>3, <1>4, <1>5

(* The order of the reports.                                               *)
LEMMA ReportKeepsOrder ==
    ASSUME NEW r \in Seq(Report), NEW x \in Report, NEW e \in EventSet,
           NEW m \in Nat, NEW exp \in Nat, exp <= Num + 1,
           x.burst = e.burst, InOrder(r, m, exp), Ahead(e, m, exp)
    PROVE  InOrder(IF Closes(e) THEN Append(r, x) ELSE r, e.burst, e.seq_no + 1)
  <1>1. /\ e.burst \in Nat /\ e.seq_no \in Nat /\ e.seq_no <= Num /\ Num \in Nat
        /\ Len(r) \in Nat /\ \A i \in 1 .. Len(r) : r[i] \in Report
        /\ Closes(e) <=> e.seq_no = Num
    BY EventType, PubSubAssumption DEF Closes
  <1>2. \A i \in 1 .. Len(r) : r[i].burst \in Nat /\ r[i].burst < e.burst
    <2> SUFFICES ASSUME NEW i \in 1 .. Len(r)
                 PROVE  r[i].burst \in Nat /\ r[i].burst < e.burst
      OBVIOUS
    <2>1. r[i].burst \in Nat
      BY <1>1 DEF Report
    <2> QED  BY <1>1, <2>1 DEF InOrder, Ahead
  <1>3. CASE ~Closes(e)
    BY <1>1, <1>2, <1>3 DEF InOrder
  <1>4. CASE Closes(e)
    <2>1. /\ Len(Append(r, x)) = Len(r) + 1 /\ Append(r, x)[Len(r) + 1] = x
          /\ \A i \in 1 .. Len(r) : Append(r, x)[i] = r[i]
      BY AppendProperties
    <2> QED  BY <1>1, <1>2, <1>4, <2>1 DEF InOrder
  <1> QED  BY <1>3, <1>4

(* The sum.                                                                *)
LEMMA LastOfSum ==
    ASSUME NEW a \in U32, NEW b \in U32, NEW n \in Nat, n + 1 < M32,
           Add32(Add32(a, b), 1) = n + 1
    PROVE  Add32(b, a) = n
  BY WidthAssumption DEF Add32, Wrap32, U32

LEMMA SumStep ==
    ASSUME NEW s \in Subs, NEW c \in Cats, NEW e \in EventSet,
           NEW r \in Seq(Report), stats[s][c] \in StatsState,
           seen[s][c] \subseteq 1 .. Num,
           AddsUp(stats[s][c], seen[s][c], r)
    PROVE  LET st  == Processor(stats[s][c], e, 0)
               set == SeenAfter(s, c, e)
           IN  AddsUp(st, set,
                      IF Closes(e) THEN Append(r, ReportOf(st, e, set)) ELSE r)
  <1> DEFINE old == stats[s][c]
             n   == e.seq_no
             st  == Processor(old, e, 0)
             set == SeenAfter(s, c, e)
             x   == ReportOf(st, e, set)
  <1>1. /\ n \in 1 .. Num /\ n \in U32 /\ Add32(n, 1) = n + 1
        /\ st.exp_seq_no = Add32(n, 1)
        /\ st.missed_events_count = Counted(old, n).missed_events_count
        /\ st.num_rx_msg = Add32(Counted(old, n).num_rx_msg, 1)
        /\ Closes(e) <=> n = Num
    BY EventType DEF Processor, Closes
  <1>2. set # {} \/ Exactly(r) =>
          Add32(Add32(st.missed_events_count, st.num_rx_msg), 1) = st.exp_seq_no
    <2>1. CASE n = 1
      BY <1>1, <2>1, PubSubAssumption, WidthAssumption DEF Counted, NewStats, Add32, Wrap32
    <2>2. CASE n # 1 /\ (set # {} \/ Exactly(r))
      <3>1. seen[s][c] # {} \/ Exactly(r)
        BY <2>2 DEF SeenAfter
      <3>2. /\ Add32(Add32(old.missed_events_count, old.num_rx_msg), 1) = old.exp_seq_no
            /\ old.missed_events_count \in U32 /\ old.num_rx_msg \in U32
            /\ old.exp_seq_no \in U32
        BY <3>1 DEF AddsUp, StatsState
      <3>3. /\ st.missed_events_count =
                  Add32(old.missed_events_count, Sub32(n, old.exp_seq_no))
            /\ st.num_rx_msg = Add32(old.num_rx_msg, 1)
        BY <1>1, <2>2 DEF Counted, Gap, StatsState
      <3> HIDE DEF old, st, n, set
      <3>4. Add32(Add32(Add32(old.missed_events_count, Sub32(n, old.exp_seq_no)),
                        Add32(old.num_rx_msg, 1)), 1)
              = Add32(n, 1)
        <4>1. \A a, b, exp \in U32 :
                 Add32(Add32(a, b), 1) = exp =>
                    Add32(Add32(Add32(a, Sub32(n, exp)), Add32(b, 1)), 1) = Add32(n, 1)
          <5>1. 1 \in U32
            BY WidthAssumption DEF U32
          <5> QED  BY <1>1, <5>1, WidthAssumption, SMTT(30) DEF U32, Add32, Sub32, Wrap32
        <4> QED  BY <3>2, <4>1, Zenon
      <3> QED  BY <1>1, <3>3, <3>4
    <2> QED  BY <2>1, <2>2
  <1>3. CASE ~Closes(e)
    BY <1>2, <1>3 DEF AddsUp
  <1>4. CASE Closes(e)
    <2>1. /\ Len(Append(r, x)) = Len(r) + 1 /\ Append(r, x)[Len(r) + 1] = x
          /\ \A i \in 1 .. Len(r) : Append(r, x)[i] = r[i]
          /\ Len(r) \in Nat
      BY AppendProperties
    <2>2. /\ x.received = st.num_rx_msg /\ x.missed = st.missed_events_count
          /\ x.exact <=> set # {}
      BY DEF ReportOf
    <2>3. st \in StatsState
      BY EventType, ProcessorType, WidthAssumption DEF U64
    <2>4. set # {} \/ Exactly(r) => Add32(x.received, x.missed) = Num
      <3> HIDE DEF st, set, x
      <3>1. /\ st.missed_events_count \in U32 /\ st.num_rx_msg \in U32
        BY <2>3 DEF StatsState
      <3>2. SUFFICES ASSUME set # {} \/ Exactly(r)
                     PROVE  Add32(st.num_rx_msg, st.missed_events_count) = Num
        BY <2>2
      <3>3. Add32(Add32(st.missed_events_count, st.num_rx_msg), 1) = Num + 1
        BY <1>1, <1>2, <1>4, <3>2
      <3> QED  BY <3>1, <3>3, LastOfSum, PubSubAssumption
    <2> HIDE DEF st, set, x
    <2>5. set # {} \/ Exactly(Append(r, x)) => set # {} \/ Exactly(r)
      <3>1. ASSUME NEW i \in 1 .. Len(r) + 1, Append(r, x)[i].exact
            PROVE  set # {} \/ Exactly(r)
        <4>1. CASE i \in 1 .. Len(r)
          BY <2>1, <3>1, <4>1, Zenon DEF Exactly
        <4>2. CASE i = Len(r) + 1
          BY <2>1, <2>2, <3>1, <4>2, Zenon
        <4> QED  BY <2>1, <4>1, <4>2
      <3> QED  BY <2>1, <3>1, Zenon DEF Exactly
    <2>6. ASSUME NEW i \in 1 .. Len(r) + 1, NEW j \in 1 .. Len(r) + 1,
                 Append(r, x)[i].exact, i <= j
          PROVE  Add32(Append(r, x)[j].received, Append(r, x)[j].missed) = Num
      <3>1. CASE j \in 1 .. Len(r)
        BY <2>1, <2>6, <3>1 DEF AddsUp
      <3>2. CASE j = Len(r) + 1
        <4>1. set # {} \/ Exactly(r)
          <5>1. Exactly(Append(r, x))
            BY <2>1, <2>6, Zenon DEF Exactly
          <5> QED  BY <2>5, <5>1, Zenon
        <4> QED  BY <2>1, <2>4, <3>2, <4>1, Zenon
      <3> QED  BY <2>1, <3>1, <3>2
    <2> QED  BY <1>2, <1>4, <2>1, <2>5, <2>6 DEF AddsUp, st, set, x
  <1> QED  BY <1>3, <1>4

-----------------------------------------------------------------------------
(* The invariant.                                                          *)

(* What ProcessEvent leaves, subscription by subscription.                 *)
LEMMA Processed ==
    ASSUME TypeOK, NEW s \in Subs, NEW c \in Cats, ProcessEvent(s, c)
    PROVE  LET e   == Head(queue[s][c])
               st  == Processor(stats[s][c], e, 0)
               set == SeenAfter(s, c, e)
           IN  /\ stats'[s][c] = st /\ seen'[s][c] = set
               /\ measured'[s][c] = e.burst /\ queue'[s][c] = Tail(queue[s][c])
               /\ reports'[s][c] = IF Closes(e)
                                   THEN Append(reports[s][c], ReportOf(st, e, set))
                                   ELSE reports[s][c]
               /\ next' = next /\ burst' = burst
               /\ \A t \in Subs, d \in Cats : t # s \/ d # c =>
                     /\ stats'[t][d] = stats[t][d] /\ seen'[t][d] = seen[t][d]
                     /\ measured'[t][d] = measured[t][d]
                     /\ queue'[t][d] = queue[t][d] /\ reports'[t][d] = reports[t][d]
  <1> DEFINE e   == Head(queue[s][c])
             st  == Processor(stats[s][c], e, 0)
             set == SeenAfter(s, c, e)
  <1> USE DEF TypeOK, publishers
  <1>1. /\ stats' = [stats EXCEPT ![s][c] = st] /\ seen' = [seen EXCEPT ![s][c] = set]
        /\ measured' = [measured EXCEPT ![s][c] = e.burst]
        /\ queue' = [queue EXCEPT ![s][c] = Tail(queue[s][c])]
        /\ next' = next /\ burst' = burst
    BY DEF ProcessEvent
  <1> HIDE DEF st, set
  <1>2. stats'[s][c] = st /\ seen'[s][c] = set
    BY <1>1
  <1>3. reports' = [reports EXCEPT ![s][c] =
                      IF Closes(e) THEN Append(reports[s][c], ReportOf(st, e, set))
                      ELSE reports[s][c]]
    BY <1>2 DEF ProcessEvent
  <1> QED  BY <1>1, <1>2, <1>3 DEF st, set

(* The subscription that processes an event.                               *)
LEMMA ProcessKeepsPair ==
    ASSUME TypeOK, NEW s \in Subs, NEW c \in Cats, ProcessEvent(s, c), PairOf(s, c)
    PROVE  PairOf(s, c)'
  <1> DEFINE e   == Head(queue[s][c])
             st  == Processor(stats[s][c], e, 0)
             set == SeenAfter(s, c, e)
             x   == ReportOf(st, e, set)
             m   == measured[s][c]
             exp == stats[s][c].exp_seq_no
  <1>1. /\ queue[s][c] \in Seq(EventSet) /\ queue[s][c] # <<>>
        /\ stats[s][c] \in StatsState /\ seen[s][c] \in SUBSET (1 .. Num)
        /\ reports[s][c] \in Seq(Report)
        /\ m \in Nat /\ burst[c] \in Nat /\ next[c] \in Nat
    BY DEF TypeOK, ProcessEvent, Idle
  <1>2. exp \in Nat
    BY <1>1, WidthAssumption DEF StatsState, U32
  <1>3. e \in EventSet /\ Ahead(e, m, exp)
    <2>1. 1 \in 1 .. Len(queue[s][c])
      BY <1>1, HeadOfQueue
    <2> QED  BY <1>1, <2>1, HeadOfQueue DEF PairOf, Pair, Travelling
  <1>4. set \in SUBSET (1 .. Num) /\ x.burst = e.burst /\ st.exp_seq_no = e.seq_no + 1
    BY <1>1, <1>3, EventType, PubSubAssumption DEF SeenAfter, ReportOf, Processor
  <1>5. st \in StatsState /\ x \in Report
    BY <1>1, <1>3, <1>4, MeasuredType
  <1>6. Travelling(Tail(queue[s][c]), e.burst, st.exp_seq_no, burst[c], next[c])
    BY <1>1, <1>2, <1>4, TailKeepsOrder DEF PairOf, Pair
  <1>7. Tallied(st, set)
    BY <1>1, <1>3, TallyStep DEF PairOf, Pair
  <1>8. InOrder(IF Closes(e) THEN Append(reports[s][c], x) ELSE reports[s][c],
                e.burst, st.exp_seq_no)
    BY <1>1, <1>2, <1>3, <1>4, <1>5, ReportKeepsOrder DEF PairOf, Pair, Tallied
  <1>9. AddsUp(st, set, IF Closes(e) THEN Append(reports[s][c], x) ELSE reports[s][c])
    BY <1>1, <1>3, SumStep DEF PairOf, Pair
  <1> HIDE DEF st, set
  <1> QED  BY <1>6, <1>7, <1>8, <1>9, Processed DEF PairOf, Pair, st, set

(* Nothing has been sent yet.                                              *)
LEMMA EmptyPair ==
    ASSUME NEW b \in Nat, NEW nx \in Nat, nx = Idle \/ b > 0
    PROVE  Pair(NewStats, {}, 0, <<>>, <<>>, b, nx)
  BY PubSubAssumption
     DEF Pair, Travelling, Follows, Tallied, InOrder, AddsUp, Exactly, NewStats, Idle

LEMMA InitIInv == Init => IInv
  <1> SUFFICES ASSUME Init  PROVE IInv
    OBVIOUS
  <1>1. TypeOK
    BY InitType
  <1>2. Numbered
    BY DEF Init, Numbered
  <1>3. ASSUME NEW s \in Subs, NEW c \in Cats  PROVE PairOf(s, c)
    <2>1. /\ burst[c] = 0 /\ next[c] = Idle /\ stats[s][c] = NewStats
          /\ seen[s][c] = {} /\ measured[s][c] = 0 /\ queue[s][c] = <<>>
          /\ reports[s][c] = <<>>
      BY DEF Init, OfAll
    <2> QED  BY <2>1, EmptyPair DEF PairOf, Idle
  <1> QED  BY <1>1, <1>2, <1>3 DEF IInv

LEMMA StepIInv == IInv /\ [Next]_vars => IInv'
  <1> SUFFICES ASSUME IInv, [Next]_vars  PROVE IInv'
    OBVIOUS
  <1>1. TypeOK /\ TypeOK' /\ Numbered
    BY TypeStep DEF IInv
  <1> USE DEF publishers, subscribers
  <1>2. Numbered'
    <2> USE <1>1, PubSubAssumption DEF Numbered, TypeOK, Idle
    <2>1. ASSUME NEW d \in Cats, BeginBurst(d)  PROVE Numbered'
      BY <2>1 DEF BeginBurst
    <2>2. ASSUME NEW d \in Cats, SendEvent(d)  PROVE Numbered'
      BY <2>2 DEF SendEvent
    <2>3. ASSUME NEW d \in Cats, RestartPublisher(d)  PROVE Numbered'
      BY <2>3 DEF RestartPublisher
    <2>4. ASSUME UNCHANGED publishers  PROVE Numbered'
      BY <2>4
    <2> QED  BY <2>1, <2>2, <2>3, <2>4
             DEF Next, vars, Join, ProcessEvent, RestartSubscriber
  <1>3. ASSUME NEW s \in Subs, NEW c \in Cats  PROVE PairOf(s, c)'
    <2>1. PairOf(s, c)
      BY DEF IInv
    <2>2. /\ stats[s][c].exp_seq_no \in Nat /\ queue[s][c] \in Seq(EventSet)
          /\ measured[s][c] \in Nat /\ burst[c] \in 0 .. MaxBursts
          /\ next[c] \in 0 .. Num /\ burst[c] \in Nat /\ next[c] \in Nat
          /\ burst'[c] \in Nat /\ next'[c] \in Nat
      BY <1>1, PubSubAssumption, WidthAssumption DEF TypeOK, StatsState, U32, Idle
    <2>3. ASSUME UNCHANGED subscribers,
                 Travelling(queue[s][c], measured[s][c], stats[s][c].exp_seq_no,
                            burst[c], next[c])'
          PROVE  PairOf(s, c)'
      BY <2>1, <2>3 DEF PairOf, Pair
    <2>4. ASSUME NEW d \in Cats, BeginBurst(d)  PROVE PairOf(s, c)'
      <3>1. \/ burst'[c] = burst[c] /\ next'[c] = next[c]
            \/ burst'[c] = burst[c] + 1 /\ next'[c] = 1
        BY <1>1, <2>4 DEF BeginBurst, TypeOK
      <3>2. \A e \in EventSet : Sent(e, burst[c], next[c]) =>
                                Sent(e, burst'[c], next'[c])
        BY <2>2, <3>1, EventType DEF Sent
      <3>3. Follows(measured[s][c], stats[s][c].exp_seq_no, burst'[c], next'[c])
        BY <2>1, <2>2, <3>1 DEF PairOf, Pair, Travelling, Follows
      <3>4. \A i \in 1 .. Len(queue[s][c]) : queue[s][c][i] \in EventSet
        BY <2>2
      <3>5. UNCHANGED subscribers /\ queue' = queue
        BY <2>4 DEF BeginBurst
      <3>6. Travelling(queue[s][c], measured[s][c], stats[s][c].exp_seq_no,
                       burst'[c], next'[c])
        BY <2>1, <3>2, <3>3, <3>4 DEF PairOf, Pair, Travelling
      <3> QED  BY <2>3, <3>5, <3>6
    <2>5. ASSUME NEW d \in Cats, SendEvent(d)  PROVE PairOf(s, c)'
      <3>1. UNCHANGED subscribers
        BY <2>5 DEF SendEvent
      <3>2. CASE d # c
        <4>1. burst'[c] = burst[c] /\ next'[c] = next[c] /\ queue'[s][c] = queue[s][c]
          BY <1>1, <2>5, <3>2 DEF SendEvent, Carry, TypeOK
        <4> QED  BY <2>1, <2>3, <3>1, <4>1 DEF PairOf, Pair
      <3>3. CASE d = c
        <4>1. /\ burst[c] \in 1 .. MaxBursts /\ next[c] \in 1 .. Num
              /\ burst'[c] = burst[c]
              /\ next'[c] = IF next[c] = Num THEN Idle ELSE next[c] + 1
          <5>1. next[c] # Idle /\ next[c] # 0 /\ burst' = burst
            BY <2>5, <3>3 DEF SendEvent, Idle
          <5>2. next'[c] = IF next[c] = Num THEN Idle ELSE next[c] + 1
            BY <1>1, <2>5, <3>3 DEF SendEvent, TypeOK
          <5>3. burst[c] > 0
            BY <1>1, <5>1 DEF Numbered
          <5> QED  BY <2>2, <5>1, <5>2, <5>3
        <4>2. \/ queue'[s][c] = queue[s][c]
              \/ queue'[s][c] = Append(queue[s][c], Event(burst[c], next[c]))
          BY <1>1, <2>5, <3>3 DEF SendEvent, Carry, Offer, TypeOK
        <4>3. Travelling(queue'[s][c], measured[s][c], stats[s][c].exp_seq_no,
                         burst[c], next'[c])
          <5> DEFINE T(q, nx) == Travelling(q, measured[s][c],
                                            stats[s][c].exp_seq_no, burst[c], nx)
                     e == Event(burst[c], next[c])
          <5>1. T(queue[s][c], next[c])
            BY <2>1 DEF PairOf, Pair
          <5>2. /\ T(queue[s][c], next'[c])
                /\ T(Append(queue[s][c], e), next'[c])
            BY <2>2, <4>1, <5>1, OfferKeepsOrder
          <5> HIDE DEF T, e
          <5>3. T(queue'[s][c], next'[c])
            BY <4>2, <5>2 DEF e
          <5> QED  BY <5>3 DEF T
        <4> QED  BY <2>3, <3>1, <4>1, <4>3
      <3> QED  BY <3>2, <3>3
    <2>6. ASSUME NEW d \in Cats, RestartPublisher(d)  PROVE PairOf(s, c)'
      <3>1. UNCHANGED <<burst, queue>> /\ UNCHANGED subscribers
        BY <2>6 DEF RestartPublisher
      <3>2. next'[c] = next[c] \/ next'[c] = Idle
        BY <1>1, <2>6 DEF RestartPublisher, TypeOK
      <3>3. Travelling(queue[s][c], measured[s][c], stats[s][c].exp_seq_no,
                       burst[c], next'[c])
        BY <2>1, <3>2 DEF PairOf, Pair, Travelling, Sent, Follows
      <3> QED  BY <2>3, <3>1, <3>3
    <2>7. ASSUME NEW t \in Subs, NEW d \in Cats, ProcessEvent(t, d)
          PROVE  PairOf(s, c)'
      <3>1. CASE t = s /\ d = c
        BY <1>1, <2>1, <2>7, <3>1, ProcessKeepsPair
      <3>2. CASE t # s \/ d # c
        <4>1. /\ stats'[s][c] = stats[s][c] /\ seen'[s][c] = seen[s][c]
              /\ measured'[s][c] = measured[s][c]
              /\ queue'[s][c] = queue[s][c] /\ reports'[s][c] = reports[s][c]
              /\ next' = next /\ burst' = burst
          BY <1>1, <2>7, <3>2, Processed
        <4> QED  BY <2>1, <4>1 DEF PairOf
      <3> QED  BY <3>1, <3>2
    <2>8. ASSUME NEW t \in Subs, RestartSubscriber(t)  PROVE PairOf(s, c)'
      <3>1. next' = next /\ burst' = burst
        BY <2>8 DEF RestartSubscriber
      <3>2. CASE t # s
        <4>1. /\ stats'[s][c] = stats[s][c] /\ seen'[s][c] = seen[s][c]
              /\ measured'[s][c] = measured[s][c]
              /\ queue'[s][c] = queue[s][c] /\ reports'[s][c] = reports[s][c]
          BY <1>1, <2>8, <3>2 DEF RestartSubscriber, TypeOK
        <4> QED  BY <2>1, <3>1, <4>1 DEF PairOf
      <3>3. CASE t = s
        <4>1. /\ stats'[s][c] = NewStats /\ seen'[s][c] = {}
              /\ measured'[s][c] = 0
              /\ queue'[s][c] = <<>> /\ reports'[s][c] = <<>>
          BY <1>1, <2>8, <3>3 DEF RestartSubscriber, TypeOK
        <4>2. next[c] = Idle \/ burst[c] > 0
          BY <1>1 DEF Numbered
        <4> QED  BY <2>2, <3>1, <4>1, <4>2, EmptyPair DEF PairOf
      <3> QED  BY <3>2, <3>3
    <2>9. ASSUME UNCHANGED <<publishers, subscribers, queue>>  PROVE PairOf(s, c)'
      BY <2>1, <2>9 DEF PairOf
    <2> QED  BY <2>4, <2>5, <2>6, <2>7, <2>8, <2>9 DEF Next, vars, Join
  <1> QED  BY <1>1, <1>2, <1>3 DEF IInv

LEMMA AlwaysIInv == Spec => []IInv
  BY InitIInv, StepIInv, PTL DEF Spec

-----------------------------------------------------------------------------
(* The properties.                                                         *)

(* Every reachable state is well typed: the queues carry nothing but       *)
(* events of bursts, and no counter leaves its width.                      *)
THEOREM TypeCorrect == Spec => []TypeOK
  BY AlwaysIInv, PTL DEF IInv

(* No burst is reported twice, and no report comes out of order.           *)
THEOREM ReportedOnce == Spec => []OneReportPerBurst
  <1>1. IInv => OneReportPerBurst
    <2> SUFFICES ASSUME IInv, NEW s \in Subs, NEW c \in Cats,
                        NEW i \in DOMAIN reports[s][c],
                        NEW j \in DOMAIN reports[s][c], i < j
                 PROVE  reports[s][c][i].burst < reports[s][c][j].burst
      BY DEF OneReportPerBurst
    <2>1. DOMAIN reports[s][c] = 1 .. Len(reports[s][c])
      BY DEF IInv, TypeOK
    <2> QED  BY <2>1 DEF IInv, PairOf, Pair, InOrder
  <1> QED  BY <1>1, AlwaysIInv, PTL

(* From the first burst that a subscription meets at its beginning, what   *)
(* it reports as received and missed adds up to the length of a burst.     *)
THEOREM ReportsAlwaysAddUp == Spec => []ReportsAddUp
  <1>1. IInv => ReportsAddUp
    <2> SUFFICES ASSUME IInv, NEW s \in Subs, NEW c \in Cats,
                        NEW i \in DOMAIN reports[s][c],
                        NEW j \in DOMAIN reports[s][c],
                        reports[s][c][i].exact, i <= j
                 PROVE  Add32(reports[s][c][j].received, reports[s][c][j].missed) = Num
      BY DEF ReportsAddUp
    <2>1. DOMAIN reports[s][c] = 1 .. Len(reports[s][c])
      BY DEF IInv, TypeOK
    <2> QED  BY <2>1 DEF IInv, PairOf, Pair, AddsUp
  <1> QED  BY <1>1, AlwaysIInv, PTL

(* What a subscription does is what BurstReport allows: the reports of the *)
(* bursts it meets at their beginning are exact.                           *)
LEMMA LastOfReports ==
    ASSUME NEW r \in Seq(Report), NEW x \in Report
    PROVE  Append(r, x) # <<>> /\ Last(Append(r, x)) = x
  BY AppendProperties DEF Last

LEMMA ProcessImplements ==
    ASSUME IInv, NEW s \in Subs, NEW c \in Cats, ProcessEvent(s, c)
    PROVE  Promised(s, c)!Next
  <1> DEFINE e   == Head(queue[s][c])
             st  == Processor(stats[s][c], e, 0)
             set == SeenAfter(s, c, e)
             x   == ReportOf(st, e, set)
             old == seen[s][c]
             exp == stats[s][c].exp_seq_no
  <1>0. TypeOK /\ PairOf(s, c)
    BY DEF IInv
  <1>1. /\ TypeOK /\ PairOf(s, c) /\ PairOf(s, c)'
        /\ queue[s][c] \in Seq(EventSet) /\ queue[s][c] # <<>>
        /\ stats[s][c] \in StatsState /\ old \in SUBSET (1 .. Num)
        /\ reports[s][c] \in Seq(Report)
    <2>1. PairOf(s, c)'
      BY <1>0, ProcessKeepsPair
    <2> QED  BY <1>0, <2>1 DEF TypeOK, ProcessEvent
  <1>2. e \in EventSet /\ Ahead(e, measured[s][c], exp)
    <2>1. 1 \in 1 .. Len(queue[s][c])
      BY <1>1, HeadOfQueue
    <2> QED  BY <1>1, <2>1, HeadOfQueue DEF PairOf, Pair, Travelling
  <1>3. /\ e.seq_no \in 1 .. Num /\ st.exp_seq_no = e.seq_no + 1
        /\ Closes(e) <=> e.seq_no = Num
        /\ set \in SUBSET (1 .. Num)
    BY <1>1, <1>2, EventType, PubSubAssumption DEF SeenAfter, Processor, Closes
  <1>4. st \in StatsState /\ x \in Report
    BY <1>1, <1>2, <1>3, MeasuredType
  <1>5. /\ seen'[s][c] = set /\ stats'[s][c] = st
        /\ reports'[s][c] = IF Closes(e) THEN Append(reports[s][c], x)
                            ELSE reports[s][c]
    BY <1>1, Processed
  <1>6. Tallied(st, set)
    BY <1>1, <1>5 DEF PairOf, Pair
  <1>7. /\ ~Closes(e) => LastReport(s, c)' = LastReport(s, c)
        /\ Closes(e) => LastReport(s, c)' =
              [ kind |-> IF x.exact THEN "exact" ELSE "loose",
                received |-> x.received, missed |-> x.missed ]
    BY <1>1, <1>4, <1>5, LastOfReports DEF LastReport
  <1>8. /\ x.received = st.num_rx_msg /\ x.missed = st.missed_events_count
        /\ x.exact <=> set # {}
    BY DEF ReportOf
  <1>9. ASSUME set # {}, Closes(e)
        PROVE  LastReport(s, c)' = Promised(s, c)!Exact(set)
    <2>1. st.num_rx_msg = Cardinality(set) /\ st.missed_events_count = Num - Cardinality(set)
      <3>1. st.exp_seq_no - 1 = Num
        BY <1>3, <1>9, PubSubAssumption
      <3> QED  BY <1>6, <1>9, <3>1 DEF Tallied
    <2> HIDE DEF st, set, x
    <2>2. x.exact
      BY <1>8, <1>9, Zenon
    <2>3. Promised(s, c)!Cardinality(set) = Cardinality(set)
      BY DEF Promised!Cardinality, Cardinality
    <2> QED  BY <1>7, <1>8, <1>9, <2>1, <2>2, <2>3 DEF Promised!Exact
  <1>10. CASE e.seq_no = 1
    <2>1. set = {1}
      BY <1>10 DEF SeenAfter
    <2>2. Promised(s, c)!First
      BY <1>3, <1>5, <1>7, <1>9, <1>10, <2>1 DEF Promised!First
    <2> QED  BY <2>2 DEF Promised!Next
  <1>11. CASE e.seq_no # 1 /\ e.burst = measured[s][c] /\ old # {}
    <2>1. set = old \cup {e.seq_no}
      BY <1>11 DEF SeenAfter
    <2>2. \A k \in old : k < e.seq_no
      <3>1. old \subseteq 1 .. exp - 1
        BY <1>1, <1>11 DEF PairOf, Pair, Tallied
      <3>2. /\ e.burst \in Nat /\ e.seq_no \in Nat
            /\ measured[s][c] \in Nat /\ exp \in Nat
        BY <1>1, <1>2, EventType, WidthAssumption DEF TypeOK, StatsState, U32
      <3>3. exp <= e.seq_no
        BY <1>2, <1>11, <3>2 DEF Ahead
      <3> HIDE DEF old, e, exp
      <3> QED  BY <3>1, <3>2, <3>3
    <2>3. e.seq_no \in 2 .. Num
      BY <1>3, <1>11, PubSubAssumption
    <2>4. Promised(s, c)!Later(e.seq_no)
      BY <1>3, <1>5, <1>7, <1>9, <1>11, <2>1, <2>2 DEF Promised!Later
    <2> QED  BY <2>3, <2>4 DEF Promised!Next
  <1>12. CASE e.seq_no # 1 /\ ~(e.burst = measured[s][c] /\ old # {})
    <2>1. set = {}
      BY <1>12 DEF SeenAfter
    <2>2. x.received \in U32 /\ x.missed \in U32
      BY <1>4, <1>8 DEF StatsState
    <2>3. Closes(e) => LastReport(s, c)' = Promised(s, c)!Loose(x.received, x.missed)
      <3> HIDE DEF x, set
      <3>1. ~x.exact
        BY <1>8, <2>1, Zenon
      <3> QED  BY <1>7, <3>1 DEF Promised!Loose
    <2>4. Promised(s, c)!Stray
      <3> HIDE DEF x, set
      <3> QED  BY <1>5, <1>7, <2>1, <2>2, <2>3 DEF Promised!Stray
    <2> QED  BY <2>4 DEF Promised!Next
  <1> QED  BY <1>10, <1>11, <1>12

(* Every subscription keeps the promise, whatever happens to the others.   *)
THEOREM PromiseKept == Spec => KeepsPromise
  <1> DEFINE Step(s, c) ==
               Promised(s, c)!Next \/ UNCHANGED <<seen[s][c], LastReport(s, c)>>
  <1>1. Init => \A s \in Subs, c \in Cats : Promised(s, c)!Init
    BY DEF Init, OfAll, Promised!Init, Promised!NoReport, LastReport
  <1>2. IInv /\ [Next]_vars => [\A s \in Subs, c \in Cats : Step(s, c)]_vars
    <2> SUFFICES ASSUME IInv, Next, NEW s \in Subs, NEW c \in Cats
                 PROVE  Step(s, c)
      OBVIOUS
    <2>1. CASE UNCHANGED <<seen, reports>>
      BY <2>1 DEF LastReport
    <2>2. ASSUME NEW t \in Subs, NEW d \in Cats, ProcessEvent(t, d)
          PROVE  Step(s, c)
      <3>1. CASE t = s /\ d = c
        BY <2>2, <3>1, ProcessImplements
      <3>2. CASE t # s \/ d # c
        <4>1. seen'[s][c] = seen[s][c] /\ reports'[s][c] = reports[s][c]
          BY <2>2, <3>2, Processed DEF IInv
        <4> QED  BY <4>1 DEF LastReport
      <3> QED  BY <3>1, <3>2
    <2>3. ASSUME NEW t \in Subs, RestartSubscriber(t)  PROVE Step(s, c)
      <3>1. CASE t = s
        <4>1. seen'[s][c] = {} /\ reports'[s][c] = <<>>
          BY <2>3, <3>1 DEF RestartSubscriber, IInv, TypeOK
        <4>2. Promised(s, c)!Restart
          BY <4>1 DEF LastReport, Promised!Restart, Promised!NoReport
        <4> QED  BY <4>2 DEF Promised!Next
      <3>2. CASE t # s
        <4>1. seen'[s][c] = seen[s][c] /\ reports'[s][c] = reports[s][c]
          BY <2>3, <3>2 DEF RestartSubscriber, IInv, TypeOK
        <4> QED  BY <4>1 DEF LastReport
      <3> QED  BY <3>1, <3>2
    <2> QED  BY <2>1, <2>2, <2>3
             DEF Next, BeginBurst, SendEvent, RestartPublisher, Join, subscribers
  <1> QED  BY <1>1, <1>2, AlwaysIInv, PTL DEF Spec, KeepsPromise
=============================================================================
