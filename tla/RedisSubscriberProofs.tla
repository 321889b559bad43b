----------------------- MODULE RedisSubscriberProofs -----------------------
(***************************************************************************)
(* What holds in every state of the redis subscriber, for any categories   *)
(* and any number of events.                                               *)
(***************************************************************************)
EXTENDS RedisSubscriber, SequenceTheorems, TLAPS

(* What the event thread may look for is what was registered, ...          *)
Delivered ==
    /\ \A i \in 1 .. Len(queue) : queue[i][1] \in registered
    /\ event # None => event[1] \in registered

(* ... which the map holds from before the registration to the deletion.   *)
Complete == alive => registered \subseteq subscriptions

(* The main thread stops, and deletes the object, only on SIGTERM; from    *)
(* then on it does nothing but exit.                                       *)
Leaving ==
    /\ pc \in {"stopping", "delete"} => sigterm = 1
    /\ ~alive => sigterm = 1 /\ pc \in {"exit", "exited", "aborted"}

(* The event thread has an event while it works on one, and only then.     *)
Holding == evpc \in {"dispatch", "at", "processor"} <=> event # None

(* Nothing is handled before the registration.                             *)
Untouched == \A c \in Cats : c \notin registered => handled[c] = <<>>

IInv ==
    /\ TypeOK /\ Holding /\ Delivered /\ Complete /\ Leaving /\ Untouched
    /\ NoGapAfterRegistration

-----------------------------------------------------------------------------

LEMMA Initially == Init => IInv
BY RedisSubscriberAssumption
   DEF Init, IInv, Holding, TypeOK, Working, Ended, Delivered, Complete, Leaving, None,
       Untouched, NoGapAfterRegistration

(* The types, action by action.                                            *)
LEMMA TypeStep == TypeOK /\ Holding /\ [Next]_vars => TypeOK'
<1> SUFFICES ASSUME TypeOK, Holding, [Next]_vars  PROVE TypeOK'
  OBVIOUS
<1> USE RedisSubscriberAssumption DEF TypeOK, Working, Ended, mainVars, eventVars
<1>1. CASE Main
  BY <1>1 DEF Main, AddSubscription, Register, InitService, NotifyReady, Pause,
              TestTerm, NotifyStopping, Delete, Exit, Pass, Goto, others
<1>2. CASE HandleTerm
  BY <1>2 DEF HandleTerm
<1>3. ASSUME NEW c \in Cats, Publish(c)  PROVE TypeOK'
  <2>1. published' \in [Cats -> 0 .. MaxEvents] /\ published'[c] \in 1 .. MaxEvents
    BY <1>3 DEF Publish
  <2>2. queue' \in Seq(Events)
    BY <1>3, <2>1 DEF Publish, Events
  <2> QED  BY <1>3, <2>1, <2>2 DEF Publish
<1>4. CASE Receive
  <2>1. event' \in Events /\ queue' \in Seq(Events)
    BY <1>4 DEF Receive
  <2> QED  BY <1>4, <2>1 DEF Receive, EventGoto
<1>5. CASE Callback \/ Found \/ NotFound
  BY <1>5 DEF Callback, Found, NotFound, EventGoto, others
<1>6. CASE Process
  <2>1. handled' \in [Cats -> Seq(1 .. MaxEvents)]
    <3>1. event \in Events
      BY <1>6 DEF Process, EventGoto, Holding
    <3> QED  BY <1>6, <3>1 DEF Process, Events
  <2> QED  BY <1>6, <2>1 DEF Process, EventGoto
<1>7. CASE UNCHANGED vars
  BY <1>7 DEF vars
<1> QED
  BY <1>1, <1>2, <1>3, <1>4, <1>5, <1>6, <1>7 DEF Next, EventThread

(* The event thread takes an event when it has none.                       *)
LEMMA HoldingStep == TypeOK /\ Holding /\ [Next]_vars => Holding'
<1> SUFFICES ASSUME TypeOK, Holding, [Next]_vars  PROVE Holding'
  OBVIOUS
<1> USE DEF Holding, mainVars, eventVars
<1>1. CASE Main
  BY <1>1 DEF Main, AddSubscription, Register, InitService, NotifyReady, Pause,
              TestTerm, NotifyStopping, Delete, Exit, Pass, Goto, others
<1>2. CASE HandleTerm \/ \E c \in Cats : Publish(c)
  BY <1>2 DEF HandleTerm, Publish
<1>3. CASE Receive
  <2>1. event' \in Events
    BY <1>3 DEF Receive, TypeOK
  <2>2. event' # None
    BY <2>1 DEF Events, None
  <2> QED  BY <1>3, <2>2 DEF Receive, EventGoto
<1>4. CASE Callback \/ Found \/ NotFound \/ Process
  BY <1>4 DEF Callback, Found, NotFound, Process, EventGoto, others
<1>5. CASE UNCHANGED vars
  BY <1>5 DEF vars
<1> QED  BY <1>1, <1>2, <1>3, <1>4, <1>5 DEF Next, EventThread

(* A registration is for good; an event is queued when its category is     *)
(* registered, and taken from the front of the queue.                      *)
LEMMA DeliveredStep == TypeOK /\ Delivered /\ [Next]_vars => Delivered'
<1> SUFFICES ASSUME TypeOK, Delivered, [Next]_vars  PROVE Delivered'
  OBVIOUS
<1> USE DEF TypeOK, Delivered, mainVars, eventVars
<1>1. CASE Main
  <2>1. UNCHANGED <<queue, event>> /\ registered \subseteq registered'
    BY <1>1 DEF Main, AddSubscription, Register, InitService, NotifyReady, Pause,
                TestTerm, NotifyStopping, Delete, Exit, Pass, Goto, others
  <2> QED  BY <2>1
<1>2. CASE HandleTerm
  BY <1>2 DEF HandleTerm
<1>3. ASSUME NEW c \in Cats, Publish(c)  PROVE Delivered'
  <2>1. UNCHANGED <<event, registered>>
    BY <1>3 DEF Publish
  <2>2. CASE c \in registered
    <3>1. queue' = Append(queue, <<c, published'[c]>>)
      BY <1>3, <2>2 DEF Publish
    <3> QED  BY <2>1, <2>2, <3>1
  <2>3. CASE c \notin registered
    BY <1>3, <2>1, <2>3 DEF Publish
  <2> QED  BY <2>2, <2>3
<1>4. CASE Receive
  <2>1. queue \in Seq(Events) /\ Len(queue) > 0 /\ UNCHANGED registered
    BY <1>4 DEF Receive
  <2>2. event' = queue[1] /\ queue' = Tail(queue)
    BY <1>4, <2>1 DEF Receive
  <2>3. Len(queue') = Len(queue) - 1
    BY <2>1, <2>2
  <2>4. ASSUME NEW i \in 1 .. Len(queue')  PROVE queue'[i] = queue[i + 1] /\ i + 1 \in 1 .. Len(queue)
    BY <2>1, <2>2, <2>3, <2>4
  <2>5. 1 \in 1 .. Len(queue)
    BY <2>1
  <2> QED  BY <2>1, <2>2, <2>4, <2>5
<1>5. CASE Callback \/ Found \/ NotFound
  BY <1>5 DEF Callback, Found, NotFound, others
<1>6. CASE Process
  BY <1>6 DEF Process
<1>7. CASE UNCHANGED vars
  BY <1>7 DEF vars
<1> QED
  BY <1>1, <1>2, <1>3, <1>4, <1>5, <1>6, <1>7 DEF Next, EventThread

(* Only what the map holds is registered, and only Delete empties the map. *)
LEMMA CompleteStep == TypeOK /\ Complete /\ [Next]_vars => Complete'
<1> SUFFICES ASSUME TypeOK, Complete, [Next]_vars  PROVE Complete'
  OBVIOUS
<1> USE DEF Complete, mainVars, eventVars
<1>1. CASE Main
  <2>1. ASSUME NEW c \in Cats, AddSubscription(c) \/ Register(c)  PROVE Complete'
    BY <2>1 DEF AddSubscription, Register, others
  <2>2. CASE Delete
    BY <2>2 DEF Delete
  <2>3. CASE InitService \/ NotifyReady \/ Pause \/ TestTerm \/ NotifyStopping \/ Exit
    BY <2>3 DEF InitService, NotifyReady, Pause, TestTerm, NotifyStopping, Exit, Pass
  <2> QED  BY <1>1, <2>1, <2>2, <2>3 DEF Main
<1>2. CASE HandleTerm \/ \E c \in Cats : Publish(c)
  BY <1>2 DEF HandleTerm, Publish
<1>3. CASE EventThread
  BY <1>3 DEF EventThread, Receive, Callback, Found, NotFound, Process, others
<1>4. CASE UNCHANGED vars
  BY <1>4 DEF vars
<1> QED  BY <1>1, <1>2, <1>3, <1>4 DEF Next

(* The flag is never reset.                                                *)
LEMMA LeavingStep == TypeOK /\ Leaving /\ [Next]_vars => Leaving'
<1> SUFFICES ASSUME TypeOK, Leaving, [Next]_vars  PROVE Leaving'
  OBVIOUS
<1> USE DEF TypeOK, Leaving, Working, Ended, mainVars, eventVars
<1>1. CASE Main
  BY <1>1 DEF Main, AddSubscription, Register, InitService, NotifyReady, Pause,
              TestTerm, NotifyStopping, Delete, Exit, Pass, Goto, others
<1>2. CASE HandleTerm \/ \E c \in Cats : Publish(c)
  BY <1>2 DEF HandleTerm, Publish
<1>3. CASE EventThread
  BY <1>3 DEF EventThread, Receive, Callback, Found, NotFound, Process, others
<1>4. CASE UNCHANGED vars
  BY <1>4 DEF vars
<1> QED  BY <1>1, <1>2, <1>3, <1>4 DEF Next

(* Only what was registered when it was published is handled.              *)
LEMMA UntouchedStep ==
    TypeOK /\ Holding /\ Delivered /\ Untouched /\ [Next]_vars => Untouched'
<1> SUFFICES ASSUME TypeOK, Holding, Delivered, Untouched, [Next]_vars  PROVE Untouched'
  OBVIOUS
<1> USE DEF TypeOK, Untouched, mainVars, eventVars
<1>1. CASE Main
  <2>1. UNCHANGED handled /\ registered \subseteq registered'
    BY <1>1 DEF Main, AddSubscription, Register, InitService, NotifyReady, Pause,
                TestTerm, NotifyStopping, Delete, Exit, Pass, Goto, others
  <2> QED  BY <2>1
<1>2. CASE Process
  <2>1. event[1] \in registered
    BY <1>2 DEF Process, EventGoto, Holding, Delivered
  <2> QED  BY <1>2, <2>1 DEF Process
<1>3. CASE Receive \/ Callback \/ Found \/ NotFound \/ HandleTerm \/ \E c \in Cats : Publish(c)
  BY <1>3 DEF Receive, Callback, Found, NotFound, HandleTerm, Publish, others
<1>4. CASE UNCHANGED vars
  BY <1>4 DEF vars
<1> QED  BY <1>1, <1>2, <1>3, <1>4 DEF Next, EventThread

(* What a category has got, by whether the event in hand is one of its own. *)
LEMMA GotValue ==
    ASSUME TypeOK, NEW c \in Cats
    PROVE  /\ Got(c) \in Seq(1 .. MaxEvents)
           /\ event # None /\ event[1] = c =>
                 event[2] \in 1 .. MaxEvents /\ Got(c) = Append(handled[c], event[2])
           /\ ~(event # None /\ event[1] = c) => Got(c) = handled[c]
<1>1. handled[c] \in Seq(1 .. MaxEvents)
  BY DEF TypeOK
<1>2. CASE event # None /\ event[1] = c
  <2>1. event[2] \in 1 .. MaxEvents
    BY <1>2 DEF TypeOK, Events
  <2>2. Got(c) = Append(handled[c], event[2])
    BY <1>1, <1>2, <2>1 DEF Got
  <2> QED  BY <1>1, <1>2, <2>1, <2>2
<1>3. CASE ~(event # None /\ event[1] = c)
  BY <1>1, <1>3, ConcatEmptySeq DEF Got
<1> QED  BY <1>2, <1>3

(* What no event touches.                                                  *)
LEMMA NoGapUnchanged ==
    ASSUME NEW c \in Cats, NEW lost, NoGap(c, lost),
           UNCHANGED <<queue, published, event, handled>>
    PROVE  NoGap(c, lost)'
BY DEF NoGap, Got, InQueue

(* A category that is registered now has lost all that was published.      *)
LEMMA NoGapRegister ==
    ASSUME TypeOK, Delivered, Untouched, NEW c \in Cats \ registered,
           UNCHANGED <<queue, published, event, handled>>
    PROVE  NoGap(c, published[c])'
<1>1. Got(c) = <<>>
  BY GotValue DEF Delivered, Untouched
<1>2. InQueue(c) = {}
  BY DEF InQueue, Delivered
<1>3. published[c] \in Nat /\ published[c] + 0 + 1 .. published[c] = {}
  BY RedisSubscriberAssumption DEF TypeOK
<1>4. NoGap(c, published[c])
  BY <1>1, <1>2, <1>3 DEF NoGap
<1> QED  BY <1>4, NoGapUnchanged

LEMMA RangeGrows ==
    ASSUME NEW k \in Nat, NEW n \in Nat, k <= n
    PROVE  k + 1 .. n + 1 = (k + 1 .. n) \cup {n + 1}
OBVIOUS

(* An event is appended to the queue.                                      *)
LEMMA NoGapPublish ==
    ASSUME TypeOK, NEW c \in registered, NEW lost \in Nat, NoGap(c, lost),
           NEW d \in Cats, Publish(d)
    PROVE  NoGap(c, lost)'
<1> DEFINE last == published[d] + 1
           m    == Len(queue)
<1>1. /\ published' = [published EXCEPT ![d] = last]
      /\ published \in [Cats -> 0 .. MaxEvents]
      /\ UNCHANGED <<event, handled, registered>>
  BY DEF Publish, TypeOK, mainVars, eventVars
<1>2. c \in Cats /\ queue \in Seq(Events) /\ m \in Nat /\ Len(Got(c)) \in Nat
  BY GotValue DEF TypeOK
<1>3. Got(c)' = Got(c)
  BY <1>1 DEF Got
<1>4. CASE d \notin registered
  <2>1. c # d /\ UNCHANGED queue
    BY <1>1, <1>4 DEF Publish
  <2> QED  BY <1>1, <1>2, <1>3, <2>1 DEF NoGap, InQueue
<1>5. CASE d \in registered
  <2>1. queue' = Append(queue, <<d, last>>)
    BY <1>1, <1>2, <1>5 DEF Publish
  <2>2. /\ Len(queue') = m + 1
        /\ queue'[m + 1] = <<d, last>> /\ queue'[m + 1][2] = last
        /\ \A i \in 1 .. m : queue'[i] = queue[i]
    BY <1>2, <2>1
  <2>3. \A i \in InQueue(c) : i \in 1 .. m /\ queue'[i] = queue[i]
    BY <2>2 DEF InQueue
  <2>4. CASE c # d
    <3>1. InQueue(c)' = InQueue(c)
      BY <1>2, <2>2, <2>4 DEF InQueue
    <3>2. published'[c] = published[c]
      BY <1>1, <1>2, <2>4
    <3>3. { queue'[i][2] : i \in InQueue(c) } = { queue[i][2] : i \in InQueue(c) }
      BY <2>3
    <3> QED
      BY <1>3, <2>3, <3>1, <3>2, <3>3 DEF NoGap
  <2>5. CASE c = d
    <3>1. InQueue(c)' = InQueue(c) \cup {m + 1}
      BY <1>2, <2>2, <2>5 DEF InQueue
    <3>2. published'[c] = last /\ published[c] \in Nat /\ last = published[c] + 1
      BY <1>1, <1>2, <2>5
    <3>3. { queue'[i][2] : i \in InQueue(c)' } = { queue[i][2] : i \in InQueue(c) } \cup {last}
      BY <2>2, <2>3, <3>1
    <3>4. lost + Len(Got(c)) + 1 .. last = (lost + Len(Got(c)) + 1 .. published[c]) \cup {last}
      BY <1>2, <3>2, RangeGrows DEF NoGap
    <3>5. \A i \in InQueue(c) : queue[i][2] \in lost + Len(Got(c)) + 1 .. published[c]
      BY DEF NoGap
    <3>6. \A i \in InQueue(c) : i < m + 1 /\ queue'[i][2] < last /\ ~(m + 1 < i)
      BY <1>2, <2>3, <3>2, <3>5
    <3>7. \A i, j \in InQueue(c)' : i < j => queue'[i][2] < queue'[j][2]
      <4> SUFFICES ASSUME NEW i \in InQueue(c), NEW j \in InQueue(c) \cup {m + 1}, i < j
                   PROVE  queue'[i][2] < queue'[j][2]
        <5>1. \A i \in InQueue(c)' : i \in InQueue(c) \/ i = m + 1
          BY <3>1
        <5>2. \A j \in InQueue(c)' : ~(m + 1 < j)
          BY <1>2, <3>6, <5>1
        <5> QED  BY <3>1, <5>1, <5>2
      <4>1. CASE j = m + 1
        <5>1. queue'[i][2] < last /\ queue'[j][2] = last
          BY <2>2, <3>6, <4>1
        <5> QED  BY <5>1
      <4>2. CASE j # m + 1
        BY <2>3, <4>2 DEF NoGap
      <4> QED  BY <4>1, <4>2
    <3>8. lost + Len(Got(c)) <= published'[c]
      BY <1>2, <3>2 DEF NoGap
    <3>9. { queue'[i][2] : i \in InQueue(c)' } = lost + Len(Got(c)) + 1 .. published'[c]
      BY <3>2, <3>3, <3>4 DEF NoGap
    <3> QED
      BY <1>3, <3>7, <3>8, <3>9 DEF NoGap
  <2> QED  BY <2>4, <2>5
<1> QED  BY <1>4, <1>5

(* The first event of the queue is received: if it is of the category, it  *)
(* is the next one.                                                        *)
LEMMA NoGapReceive ==
    ASSUME TypeOK, Holding, NEW c \in Cats, NEW lost \in Nat, NoGap(c, lost), Receive
    PROVE  NoGap(c, lost)'
<1> DEFINE m == Len(queue)
           k == lost + Len(Got(c))
<1>1. /\ event = None /\ event' = queue[1] /\ queue' = Tail(queue)
      /\ UNCHANGED <<published, handled>>
      /\ queue \in Seq(Events) /\ m \in Nat \ {0}
  BY DEF Receive, EventGoto, Holding, TypeOK
<1>2. Len(queue') = m - 1 /\ \A i \in 1 .. m - 1 : queue'[i] = queue[i + 1]
  BY <1>1
<1>3. Got(c) = handled[c] /\ Got(c) \in Seq(1 .. MaxEvents) /\ k \in Nat
  BY <1>1, GotValue
<1>4. /\ queue[1] # None /\ queue[1][2] \in 1 .. MaxEvents
      /\ \A i \in 1 .. m : queue[i][2] \in Nat
  BY <1>1 DEF Events, None
<1>5. \A i : i \in InQueue(c)' <=> i \in 1 .. m - 1 /\ i + 1 \in InQueue(c)
  BY <1>1, <1>2 DEF InQueue
<1>6. \A i, j \in InQueue(c)' : i < j => queue'[i][2] < queue'[j][2]
  BY <1>1, <1>2, <1>5 DEF NoGap
<1>7. published[c] \in Nat /\ published'[c] = published[c] /\ k <= published[c]
  BY <1>1, RedisSubscriberAssumption DEF TypeOK, NoGap
<1>8. CASE queue[1][1] # c
  <2>1. Got(c)' = Got(c)
    BY <1>1, <1>3, <1>8, ConcatEmptySeq DEF Got, TypeOK
  <2>2. \A i \in InQueue(c) : i \in 2 .. m /\ i - 1 \in InQueue(c)' /\ queue'[i - 1] = queue[i]
    <3> SUFFICES ASSUME NEW i \in InQueue(c)
                 PROVE  i \in 2 .. m /\ i - 1 \in InQueue(c)' /\ queue'[i - 1] = queue[i]
      OBVIOUS
    <3>1. i \in 2 .. m
      BY <1>1, <1>8 DEF InQueue
    <3>2. i - 1 \in 1 .. m - 1 /\ (i - 1) + 1 = i
      BY <1>1, <3>1
    <3> QED  BY <1>2, <1>5, <3>1, <3>2
  <2>3. \A i \in InQueue(c)' : i + 1 \in InQueue(c) /\ queue'[i] = queue[i + 1]
    BY <1>2, <1>5
  <2>4. { queue'[i][2] : i \in InQueue(c)' } = { queue[i][2] : i \in InQueue(c) }
    BY <2>2, <2>3
  <2> QED
    BY <1>6, <1>7, <2>1, <2>4 DEF NoGap
<1>9. CASE queue[1][1] = c
  <2> DEFINE v == queue[1][2]
  <2>1. Got(c)' = Append(handled[c], v)
    BY <1>1, <1>3, <1>4, <1>9 DEF Got
  <2>2. 1 \in InQueue(c)
    BY <1>1, <1>9 DEF InQueue
  <2>3. \A i \in InQueue(c) : i \in 1 .. m /\ queue[i][2] \in k + 1 .. published[c]
    BY DEF NoGap, InQueue
  <2>4. \A i \in InQueue(c) : i # 1 => v < queue[i][2]
    BY <1>1, <2>2, <2>3 DEF NoGap
  <2>5. v = k + 1
    <3>1. v \in k + 1 .. published[c]
      BY <2>2, <2>3
    <3>2. k + 1 \in k + 1 .. published[c]
      BY <1>3, <1>7, <3>1
    <3>3. PICK i \in InQueue(c) : queue[i][2] = k + 1
      BY <3>2 DEF NoGap
    <3> QED  BY <1>3, <1>7, <2>4, <3>1, <3>3
  <2>6. /\ Len(Got(c)') = Len(Got(c)) + 1
        /\ \A i \in 1 .. Len(Got(c)) : Got(c)'[i] = Got(c)[i]
        /\ Got(c)'[Len(Got(c)) + 1] = v
    BY <1>3, <1>4, <2>1
  <2>7. \A i \in 1 .. Len(Got(c)') : Got(c)'[i] = lost + i
    <3>1. Len(Got(c)) \in Nat /\ v = lost + (Len(Got(c)) + 1)
      BY <1>3, <2>5
    <3>2. \A i \in 1 .. Len(Got(c)) : Got(c)'[i] = lost + i
      BY <2>6 DEF NoGap
    <3>3. \A i \in 1 .. Len(Got(c)') : i \in 1 .. Len(Got(c)) \/ i = Len(Got(c)) + 1
      BY <2>6, <3>1
    <3> QED  BY <2>6, <3>1, <3>2, <3>3
  <2>8. lost + Len(Got(c)') = k + 1 /\ k + 1 <= published[c]
    BY <1>3, <1>7, <2>2, <2>3, <2>5, <2>6
  <2>9. { queue'[i][2] : i \in InQueue(c)' } = k + 1 + 1 .. published[c]
    <3>1. ASSUME NEW i \in InQueue(c)'  PROVE queue'[i][2] \in k + 1 + 1 .. published[c]
      <4>1. i + 1 \in InQueue(c) /\ i + 1 # 1 /\ queue'[i] = queue[i + 1]
        BY <1>1, <1>2, <1>5
      <4> QED  BY <1>3, <1>7, <2>3, <2>4, <2>5, <4>1
    <3>2. ASSUME NEW w \in k + 1 + 1 .. published[c]
          PROVE  \E i \in InQueue(c)' : queue'[i][2] = w
      <4>1. w \in k + 1 .. published[c] /\ w # v
        BY <1>3, <1>7, <2>5
      <4>2. PICK j \in InQueue(c) : queue[j][2] = w
        BY <4>1 DEF NoGap
      <4>3. j \in 2 .. m /\ j - 1 \in 1 .. m - 1 /\ (j - 1) + 1 = j
        <5>1. j \in 1 .. m /\ j # 1
          BY <2>3, <4>1, <4>2
        <5> QED  BY <1>1, <5>1
      <4>4. j - 1 \in InQueue(c)' /\ queue'[j - 1] = queue[j]
        BY <1>2, <1>5, <4>2, <4>3
      <4> QED  BY <4>2, <4>4
    <3> QED  BY <3>1, <3>2
  <2> QED
    BY <1>6, <1>7, <2>7, <2>8, <2>9 DEF NoGap
<1> QED  BY <1>8, <1>9

(* An event of the category in hand moves into its statistics.             *)
LEMMA NoGapProcess ==
    ASSUME TypeOK, TypeOK', Holding, alive, NEW c \in Cats, NEW lost \in Nat, NoGap(c, lost), Process
    PROVE  NoGap(c, lost)'
<1>1. /\ UNCHANGED <<queue, published>> /\ event' = None
      /\ handled' = [handled EXCEPT ![event[1]] = Append(@, event[2])]
      /\ event # None
  BY DEF Process, EventGoto, Holding
<1>2. Got(c)' = handled'[c]
  BY <1>1 DEF Got, TypeOK
<1>3. handled'[c] = IF event[1] = c THEN Append(handled[c], event[2]) ELSE handled[c]
  BY <1>1 DEF TypeOK
<1>4. Got(c)' = Got(c)
  BY <1>1, <1>2, <1>3, GotValue
<1> QED  BY <1>1, <1>4 DEF NoGap, InQueue

(* The events of a category, action by action.                             *)
LEMMA NoGapStep == IInv /\ [Next]_vars => NoGapAfterRegistration'
<1> SUFFICES ASSUME IInv, [Next]_vars, alive', NEW c \in registered'
             PROVE  \E lost \in 0 .. published'[c] : NoGap(c, lost)'
  BY DEF NoGapAfterRegistration
<1> USE DEF IInv, mainVars, eventVars
<1>1. alive /\ c \in Cats /\ TypeOK'
  <2>1. alive
    BY DEF Next, Main, AddSubscription, Register, InitService, NotifyReady, Pause,
           TestTerm, NotifyStopping, Delete, Exit, Pass, Goto, others, EventThread, Receive,
           Callback, Found, NotFound, Process, HandleTerm, Publish, vars
  <2>2. TypeOK'
    BY TypeStep
  <2> QED  BY <2>1, <2>2 DEF TypeOK
<1>2. published[c] \in Nat /\ published'[c] \in Nat
  BY <1>1, RedisSubscriberAssumption DEF TypeOK
<1>3. SUFFICES \E lost \in Nat : NoGap(c, lost)'
  <2>1. Len(Got(c))' \in Nat
    <3>1. handled'[c] \in Seq(1 .. MaxEvents)
      BY <1>1 DEF TypeOK
    <3>2. event' # None => event'[2] \in 1 .. MaxEvents
      BY <1>1 DEF TypeOK, Events
    <3>3. CASE event' # None /\ event'[1] = c
      <4>1. Got(c)' = Append(handled'[c], event'[2])
        BY <3>1, <3>2, <3>3 DEF Got
      <4> QED  BY <3>1, <3>2, <3>3, <4>1
    <3>4. CASE ~(event' # None /\ event'[1] = c)
      <4>1. Got(c)' = handled'[c] \o <<>>
        BY <3>4 DEF Got
      <4> QED  BY <3>1, <4>1, ConcatEmptySeq
    <3> QED  BY <3>3, <3>4
  <2>2. ASSUME NEW lost \in Nat, NoGap(c, lost)'  PROVE lost \in 0 .. published'[c]
    <3>1. lost + Len(Got(c))' <= published'[c]
      BY <2>2 DEF NoGap
    <3> QED  BY <1>2, <2>1, <3>1
  <2> QED  BY <2>2, Zenon
<1>4. CASE c \notin registered
  <2>1. UNCHANGED <<queue, published, event, handled>>
    BY <1>4 DEF Next, Main, AddSubscription, Register, InitService, NotifyReady, Pause,
           TestTerm, NotifyStopping, Delete, Exit, Pass, Goto, others, EventThread, Receive,
           Callback, Found, NotFound, Process, HandleTerm, Publish, vars
  <2> QED  BY <1>1, <1>2, <1>4, <2>1, NoGapRegister
<1>5. CASE c \in registered
  <2>1. PICK lost \in Nat : NoGap(c, lost)
    BY <1>1, <1>2, <1>5 DEF NoGapAfterRegistration
  <2>2. SUFFICES NoGap(c, lost)'
    OBVIOUS
  <2>3. CASE Main
    <3>1. UNCHANGED <<queue, published, event, handled>>
      BY <2>3 DEF Main, AddSubscription, Register, InitService, NotifyReady, Pause,
                  TestTerm, NotifyStopping, Delete, Exit, Pass, Goto, others
    <3> QED  BY <1>1, <2>1, <3>1, NoGapUnchanged
  <2>4. CASE HandleTerm \/ Callback \/ Found \/ NotFound
    <3>1. UNCHANGED <<queue, published, event, handled>>
      BY <2>4 DEF HandleTerm, Callback, Found, NotFound, others
    <3> QED  BY <1>1, <2>1, <3>1, NoGapUnchanged
  <2>5. ASSUME NEW d \in Cats, Publish(d)  PROVE NoGap(c, lost)'
    BY <1>5, <2>1, <2>5, NoGapPublish
  <2>6. CASE Receive
    BY <1>1, <2>1, <2>6, NoGapReceive
  <2>7. CASE Process
    BY <1>1, <2>1, <2>7, NoGapProcess
  <2>8. CASE UNCHANGED vars
    BY <1>1, <2>1, <2>8, NoGapUnchanged DEF vars
  <2> QED
    BY <2>3, <2>4, <2>5, <2>6, <2>7, <2>8 DEF Next, EventThread
<1> QED  BY <1>4, <1>5

LEMMA Inductive == IInv /\ [Next]_vars => IInv'
BY TypeStep, HoldingStep, DeliveredStep, CompleteStep, LeavingStep, UntouchedStep, NoGapStep
   DEF IInv

(* The parts are an invariant of the two threads.                     *)
THEOREM Invariant == Spec => []IInv
BY Initially, Inductive, PTL DEF Spec

-----------------------------------------------------------------------------

(* Every variable keeps its type.                                          *)
THEOREM TypeCorrect == Spec => []TypeOK
<1>1. IInv => TypeOK
  BY DEF IInv
<1> QED  BY <1>1, Invariant, PTL

(* subscriber.cpp:116: in a callback on an object that has not been        *)
(* deleted, at() finds the subscription.                                   *)
THEOREM AlwaysFindsSubscription == Spec => []CallbackFindsSubscription
<1>1. IInv => CallbackFindsSubscription
  BY DEF IInv, Delivered, Complete, CallbackFindsSubscription
<1> QED  BY <1>1, Invariant, PTL

(* subscriber_redis.cpp:43: from the registration of a category on, its    *)
(* events are received in order and without a gap, each once; only those   *)
(* published before are lost.                                              *)
THEOREM NoEventIsSkipped == Spec => []NoGapAfterRegistration
<1>1. IInv => NoGapAfterRegistration
  BY DEF IInv
<1> QED  BY <1>1, Invariant, PTL

(* subscriber.cpp:165: a callback works on a deleted object only after     *)
(* SIGTERM, on the way out.                                                *)
THEOREM OnlyStaleAtExit == Spec => []StaleOnlyAtExit
<1>1. IInv => StaleOnlyAtExit
  BY DEF IInv, Leaving, StaleOnlyAtExit
<1> QED  BY <1>1, Invariant, PTL
=============================================================================
