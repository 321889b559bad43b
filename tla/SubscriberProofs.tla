-------------------------- MODULE SubscriberProofs --------------------------
(***************************************************************************)
(* What holds in every state of the zeromq and nano subscribers, for any   *)
(* categories, any urls and any number of messages.                        *)
(***************************************************************************)
EXTENDS Subscriber, TLAPS

(* What recv left is known when its result is tested: a message, or none;  *)
(* and none without an error means that the handler has run.               *)
Returned ==
    pc = "check" =>
        /\ size \in {"message", "EINTR", "error"}
        /\ size = "message" <=> message # None
        /\ size = "EINTR" => sigterm = 1

(* There is a message from its decoding to its freeing, and only then.     *)
Held ==
    /\ pc \in {"decode", "process", "free"} => message # None
    /\ pc \in Starting \cup {"call", "recv", "while"} => message = None

(* The message in progress is the last one recv returned for its category, *)
(* and what is processed is that message, if it could be decoded.          *)
Latest ==
    /\ pc \in {"check", "decode", "process"} /\ message # None =>
          message.cat \in Published /\ message.n = received[message.cat]
    /\ clean /\ pc = "process" => obj = message

(* EachMessageOnce, counting from the start.                               *)
Handled(c) ==
    /\ \A i \in 1 .. Len(handled[c]) : handled[c][i] = i
    /\ pc \in Starting \cup Looping =>
          Len(handled[c]) = received[c] - (IF InProgress(c) THEN 1 ELSE 0)

AllHandled == clean => \A c \in Subscribed \cap Published : Handled(c)

(* What the object holds, whatever decoding failed since, is a message     *)
(* that was received, and its category was given nothing later.            *)
Stale ==
    obj.n # 0 =>
        /\ obj.cat \in Published /\ obj.n <= received[obj.cat]
        /\ obj.cat \in Subscribed =>
              \A i \in 1 .. Len(handled[obj.cat]) : handled[obj.cat][i] <= obj.n

InOrder(c) ==
    \A i \in 1 .. Len(handled[c]) :
        /\ handled[c][i] \in 1 .. received[c]
        /\ i > 1 => handled[c][i - 1] <= handled[c][i]

AllInOrder == \A c \in Subscribed \cap Published : InOrder(c)

IInv == /\ TypeOK /\ Returned /\ Held /\ Latest /\ AllHandled
        /\ Stale /\ AllInOrder

-----------------------------------------------------------------------------

LEMMA Initially == Init => IInv
<1> SUFFICES ASSUME Init  PROVE IInv
  OBVIOUS
<1> USE SubscriberAssumption DEF Init
<1>1. TypeOK
  BY DEF TypeOK, Starting
<1>2. Returned /\ Held /\ Latest
  BY DEF Returned, Held, Latest, Starting
<1>3. AllHandled
  BY DEF AllHandled, Handled, InProgress, Starting, Looping
<1>4. Stale /\ AllInOrder
  BY DEF Stale, AllInOrder, InOrder, None
<1> QED  BY <1>1, <1>2, <1>3, <1>4 DEF IInv

(* The steps that change nothing but pc.                                   *)
Plain ==
    \/ Construct \/ OpenZeromq \/ OpenNano \/ ConnectDone \/ SubscribeDone
    \/ NotifyReady \/ Call \/ CheckRecv \/ ProcessUnknown \/ TestTerm \/ NotifyStopping

(* The steps of the thread, and what each kind of them leaves alone.       *)
LEMMA ThreadCases ==
    Thread =>
        \/ Plain
        \/ \E ok \in BOOLEAN : Connect(ok)
        \/ \E c \in Subscribed : Subscribe(c)
        \/ Decode \/ ProcessEvent \/ FreeMessage
        \/ \E left \in {{}, filters} : Close(left)
BY DEF Thread, Plain, SubscribeZeromq, SubscribeNano, CloseZeromq, CloseNano

LEMMA PlainUnchanged ==
    Plain => UNCHANGED <<sigterm, setup, buffers, traffic>>
BY DEF Plain, Construct, OpenZeromq, OpenNano, ConnectDone, SubscribeDone,
       NotifyReady, Call, CheckRecv, ProcessUnknown, TestTerm, NotifyStopping,
       Attempt, Pass, Goto

(* Where they lead.                                                        *)
LEMMA PlainMoves ==
    ASSUME Returned, Plain
    PROVE  \/ pc \in Starting /\ pc' \in Starting \cup {"call", "failed"}
           \/ pc = "call" /\ pc' = "recv"
           \/ pc = "check" /\ pc' \in {"stopping", "failed"}
           \/ pc = "check" /\ pc' = "decode" /\ size = "message"
           \/ pc = "process" /\ pc' = "aborted"
           \/ pc = "while" /\ pc' \in {"call", "stopping"}
           \/ pc = "stopping" /\ pc' = "close"
<1>1. CASE CheckRecv
  <2>1. pc = "check" /\ pc' = IF sigterm # 0 THEN "stopping" ELSE AfterRecv[size]
    BY <1>1 DEF CheckRecv, Pass, Goto
  <2>2. size \in {"message", "EINTR", "error"} /\ (size = "EINTR" => sigterm = 1)
    BY <2>1 DEF Returned
  <2> QED  BY <2>1, <2>2 DEF AfterRecv
<1>2. CASE Plain /\ ~CheckRecv
  BY <1>2 DEF Plain, Construct, OpenZeromq, OpenNano, ConnectDone, SubscribeDone,
              NotifyReady, Call, ProcessUnknown, TestTerm, NotifyStopping,
              Attempt, Pass, Goto, Starting
<1> QED  BY <1>1, <1>2

-----------------------------------------------------------------------------

LEMMA TypeStep == TypeOK /\ Returned /\ [Next]_vars => TypeOK'
<1> SUFFICES ASSUME TypeOK, Returned, [Next]_vars  PROVE TypeOK'
  OBVIOUS
<1> USE SubscriberAssumption DEF TypeOK, setup, buffers, traffic
<1>1. CASE Plain
  <2>1. pc' \in Starting \cup Looping \cup Stopping \cup Ended
    BY <1>1, PlainMoves DEF Starting, Looping, Stopping, Ended
  <2> QED  BY <1>1, <2>1, PlainUnchanged
<1>2. ASSUME NEW ok \in BOOLEAN, Connect(ok)  PROVE TypeOK'
  <2>1. eids' \in Seq(BOOLEAN) /\ Len(eids') <= NumUrls
    BY <1>2 DEF Connect
  <2> QED  BY <1>2, <2>1 DEF Connect, Ended
<1>3. ASSUME NEW c \in Subscribed, Subscribe(c)  PROVE TypeOK'
  BY <1>3 DEF Subscribe, Ended
<1>4. CASE Decode
  <2>1. obj' \in Msg \cup Bare \cup {None}
    BY <1>4 DEF Decode, Msg, Bare, None
  <2> QED  BY <1>4, <2>1 DEF Decode, Goto, Looping
<1>5. CASE ProcessEvent
  <2>1. obj.cat \in Subscribed /\ obj.n \in 0 .. MaxMsgs
    BY <1>5 DEF ProcessEvent, Known, Msg, Bare, None
  <2>2. Append(handled[obj.cat], obj.n) \in Seq(0 .. MaxMsgs)
    <3>1. handled[obj.cat] \in Seq(0 .. MaxMsgs)
      BY <2>1
    <3> QED  BY <2>1, <3>1
  <2>3. handled' \in [Subscribed -> Seq(0 .. MaxMsgs)]
    BY <1>5, <2>1, <2>2 DEF ProcessEvent
  <2> QED  BY <1>5, <2>3 DEF ProcessEvent, Looping
<1>6. CASE FreeMessage
  BY <1>6 DEF FreeMessage, Looping, Ended
<1>7. ASSUME NEW left \in {{}, filters}, Close(left)  PROVE TypeOK'
  <2>1. eids' = <<>> /\ filters' = left /\ pc' = "exited"
    BY <1>7 DEF Close, Goto
  <2>2. eids' \in Seq(BOOLEAN) /\ Len(eids') <= NumUrls
    BY <2>1
  <2>3. filters' \subseteq Subscribed
    BY <2>1
  <2> QED  BY <1>7, <2>1, <2>2, <2>3 DEF Close, Goto, Ended
<1>8. ASSUME NEW c \in Published, RecvMessage(c)  PROVE TypeOK'
  <2>1. received' \in [Published -> 0 .. MaxMsgs] /\ received'[c] \in 1 .. MaxMsgs
    BY <1>8 DEF RecvMessage, Waiting
  <2>2. message' \in Msg
    BY <1>8, <2>1 DEF RecvMessage, Msg
  <2> QED  BY <1>8, <2>1, <2>2 DEF RecvMessage, Goto, Looping
<1>9. CASE RecvError \/ HandleTerm
  BY <1>9 DEF RecvError, HandleTerm, Goto, Looping
<1>10. ASSUME NEW c \in Published, Arrive(c)  PROVE TypeOK'
  BY <1>10 DEF Arrive
<1>11. CASE UNCHANGED vars
  BY <1>11 DEF vars
<1> QED
  BY <1>1, <1>2, <1>3, <1>4, <1>5, <1>6, <1>7, <1>8, <1>9, <1>10, <1>11,
     ThreadCases DEF Next, Recv

(* The result of recv, and whether there is a message.                     *)
LEMMA MessageStep ==
    TypeOK /\ Returned /\ Held /\ [Next]_vars => Returned' /\ Held'
<1> SUFFICES ASSUME TypeOK, Returned, Held, [Next]_vars  PROVE Returned' /\ Held'
  OBVIOUS
<1> USE DEF setup, buffers, traffic, Starting
<1>1. CASE Plain
  BY <1>1, PlainMoves, PlainUnchanged DEF Returned, Held
<1>2. CASE \/ \E ok \in BOOLEAN : Connect(ok)
           \/ \E c \in Subscribed : Subscribe(c)
           \/ \E left \in {{}, filters} : Close(left)
  BY <1>2 DEF Connect, Subscribe, Close, Goto, Returned, Held
<1>3. CASE Decode \/ ProcessEvent
  BY <1>3 DEF Decode, ProcessEvent, Goto, Returned, Held
<1>4. CASE FreeMessage
  BY <1>4 DEF FreeMessage, Returned, Held
<1>5. ASSUME NEW c \in Published, RecvMessage(c)  PROVE Returned' /\ Held'
  <2>1. message' # None
    BY <1>5, SubscriberAssumption DEF RecvMessage, None
  <2> QED  BY <1>5, <2>1 DEF RecvMessage, Goto, Returned, Held
<1>6. CASE RecvError \/ \E c \in Published : Arrive(c)
  BY <1>6 DEF RecvError, Arrive, Goto, Returned, Held
<1>7. CASE HandleTerm
  BY <1>7 DEF HandleTerm, Returned, Held
<1>8. CASE UNCHANGED vars
  BY <1>8 DEF vars, Returned, Held
<1> QED
  BY <1>1, <1>2, <1>3, <1>4, <1>5, <1>6, <1>7, <1>8, ThreadCases DEF Next, Recv

(* What is processed is what was received last.                            *)
LEMMA LatestStep ==
    TypeOK /\ Returned /\ Held /\ Latest /\ [Next]_vars => Latest'
<1> SUFFICES ASSUME TypeOK, Returned, Held, Latest, [Next]_vars  PROVE Latest'
  OBVIOUS
<1> USE DEF Latest, setup, buffers, traffic, Starting
<1>1. CASE Plain
  BY <1>1, PlainMoves, PlainUnchanged
<1>2. CASE \/ \E ok \in BOOLEAN : Connect(ok)
           \/ \E c \in Subscribed : Subscribe(c)
           \/ \E left \in {{}, filters} : Close(left)
  BY <1>2 DEF Connect, Subscribe, Close, Goto
<1>3. CASE Decode
  BY <1>3 DEF Decode, Goto
<1>4. CASE ProcessEvent \/ FreeMessage
  BY <1>4 DEF ProcessEvent, FreeMessage
<1>5. ASSUME NEW c \in Published, RecvMessage(c)  PROVE Latest'
  BY <1>5 DEF RecvMessage, Goto, TypeOK
<1>6. CASE RecvError
  BY <1>6 DEF RecvError, Goto, Held
<1>7. CASE HandleTerm
  BY <1>7 DEF HandleTerm, Held
<1>8. CASE \E c \in Published : Arrive(c)
  BY <1>8 DEF Arrive
<1>9. CASE UNCHANGED vars
  BY <1>9 DEF vars
<1> QED
  BY <1>1, <1>2, <1>3, <1>4, <1>5, <1>6, <1>7, <1>8, <1>9, ThreadCases DEF Next, Recv

(* What a subscription has handled: ProcessEvent moves the message from    *)
(* "in progress" to "handled", RecvMessage puts it there.                  *)
LEMMA HandledStep ==
    TypeOK /\ Returned /\ Held /\ Latest /\ AllHandled /\ [Next]_vars => AllHandled'
<1> SUFFICES ASSUME TypeOK, Returned, Held, Latest, AllHandled, [Next]_vars, clean',
                    NEW c \in Subscribed \cap Published
             PROVE  Handled(c)'
  BY DEF AllHandled
<1> USE DEF setup, buffers, traffic, Handled, InProgress
<1>0. clean /\ Handled(c)
  <2>1. clean' = clean
    <3>1. CASE Plain
      BY <3>1, PlainUnchanged
    <3>2. CASE ~Plain
      BY <3>2, ThreadCases DEF Next, Recv, vars, Connect, Subscribe, Decode,
         ProcessEvent, FreeMessage, Close, RecvMessage, RecvError, HandleTerm, Arrive
    <3> QED  BY <3>1, <3>2
  <2> QED  BY <2>1 DEF AllHandled
<1> USE <1>0
<1>1. CASE Plain
  BY <1>1, PlainMoves, PlainUnchanged DEF Starting, Looping, Held
<1>2. CASE \/ \E ok \in BOOLEAN : Connect(ok)
           \/ \E s \in Subscribed : Subscribe(s)
           \/ \E left \in {{}, filters} : Close(left)
  BY <1>2 DEF Connect, Subscribe, Close, Goto, Starting, Looping
<1>3. CASE Decode
  BY <1>3 DEF Decode, Goto, Starting, Looping
<1>4. CASE ProcessEvent
  <2>1. obj = message /\ message # None /\ pc = "process" /\ pc' = "free"
    BY <1>4 DEF ProcessEvent, Latest, Held
  <2>2. UNCHANGED <<message, received>>
    BY <1>4 DEF ProcessEvent
  <2>3. CASE obj.cat = c
    <3>1. handled'[c] = Append(handled[c], received[c])
      BY <1>4, <2>1, <2>3 DEF ProcessEvent, Latest, TypeOK
    <3>2. Len(handled[c]) = received[c] - 1
      BY <2>1, <2>3 DEF Looping
    <3>3. handled[c] \in Seq(0 .. MaxMsgs) /\ received[c] \in Nat
      BY DEF TypeOK
    <3> QED  BY <2>1, <2>2, <3>1, <3>2, <3>3
  <2>4. CASE obj.cat # c
    <3>1. handled'[c] = handled[c]
      BY <1>4, <2>4 DEF ProcessEvent, TypeOK
    <3> QED  BY <2>1, <2>2, <2>4, <3>1 DEF Looping
  <2> QED  BY <2>3, <2>4
<1>5. CASE FreeMessage
  BY <1>5 DEF FreeMessage, Looping, Starting
<1>6. ASSUME NEW d \in Published, RecvMessage(d)  PROVE Handled(c)'
  <2>1. pc = "recv" /\ pc' = "check" /\ UNCHANGED handled
    BY <1>6 DEF RecvMessage, Goto
  <2>2. message'.cat = d /\ message = None
    BY <1>6, <2>1 DEF RecvMessage, Held
  <2>3. received'[c] = IF c = d THEN received[c] + 1 ELSE received[c]
    BY <1>6 DEF RecvMessage, TypeOK
  <2>4. received[c] \in Nat
    BY SubscriberAssumption DEF TypeOK
  <2>5. Len(handled[c]) = received[c]
    BY <2>1, <2>4 DEF Looping
  <2> QED  BY <2>1, <2>2, <2>3, <2>4, <2>5
<1>7. CASE RecvError \/ HandleTerm
  <2>1. message = None => message.cat # c
    BY SubscriberAssumption DEF None
  <2>2. UNCHANGED <<message, received, handled>>
    BY <1>7 DEF RecvError, HandleTerm
  <2>3. pc' = pc \/ (pc = "recv" /\ pc' = "check" /\ message = None)
    BY <1>7 DEF RecvError, HandleTerm, Goto, Held
  <2> QED  BY <2>1, <2>2, <2>3 DEF Starting, Looping
<1>8. CASE \E d \in Published : Arrive(d)
  BY <1>8 DEF Arrive
<1>9. CASE UNCHANGED vars
  BY <1>9 DEF vars
<1> QED
  BY <1>1, <1>2, <1>3, <1>4, <1>5, <1>6, <1>7, <1>8, <1>9, ThreadCases DEF Next, Recv

(* The numbers a subscription is given: ProcessEvent adds that of the      *)
(* object, Decode puts the last message there or takes its attributes.     *)
LEMMA OrderStep ==
    TypeOK /\ Held /\ Latest /\ Stale /\ AllInOrder /\ [Next]_vars
        => Stale' /\ AllInOrder'
<1> SUFFICES ASSUME TypeOK, Held, Latest, Stale, AllInOrder, [Next]_vars
             PROVE  Stale' /\ AllInOrder'
  OBVIOUS
<1> USE DEF setup, buffers, traffic
<1>0. ASSUME UNCHANGED <<obj, received, handled>>  PROVE Stale' /\ AllInOrder'
  BY <1>0 DEF Stale, AllInOrder, InOrder
<1>1. CASE Plain
  BY <1>0, <1>1, PlainUnchanged
<1>2. CASE \/ \E ok \in BOOLEAN : Connect(ok)
           \/ \E c \in Subscribed : Subscribe(c)
           \/ \E left \in {{}, filters} : Close(left)
           \/ FreeMessage \/ RecvError \/ HandleTerm
           \/ \E c \in Published : Arrive(c)
  BY <1>0, <1>2 DEF Connect, Subscribe, Close, FreeMessage, RecvError, HandleTerm, Arrive
<1>3. CASE UNCHANGED vars
  BY <1>0, <1>3 DEF vars
<1>4. CASE Decode
  <2>1. UNCHANGED <<received, handled>>
    BY <1>4 DEF Decode
  <2>2. AllInOrder'
    BY <2>1 DEF AllInOrder, InOrder
  <2>3. CASE obj' = message
    <3>1. message.cat \in Published /\ message.n = received[message.cat]
      BY <1>4 DEF Decode, Goto, Held, Latest
    <3>2. received[message.cat] \in Nat
      BY <3>1, SubscriberAssumption DEF TypeOK
    <3>3. ASSUME message.cat \in Subscribed,
                 NEW i \in 1 .. Len(handled[message.cat])
          PROVE  handled[message.cat][i] <= message.n
      BY <3>1, <3>2, <3>3 DEF AllInOrder, InOrder
    <3> QED  BY <2>1, <2>2, <2>3, <3>1, <3>2, <3>3 DEF Stale
  <2>4. CASE obj' = obj
    BY <2>1, <2>2, <2>4 DEF Stale
  <2>5. CASE obj' = [cat |-> message.cat, n |-> 0]
    BY <2>2, <2>5 DEF Stale
  <2> QED  BY <1>4, <2>3, <2>4, <2>5 DEF Decode
<1>5. CASE ProcessEvent
  <2> DEFINE c == obj.cat
             s == handled[c]
  <2>1. c \in Subscribed /\ obj.n # 0
    BY <1>5 DEF ProcessEvent, Known
  <2>2. c \in Published /\ obj.n <= received[c]
    BY <2>1 DEF Stale
  <2>3. \A i \in 1 .. Len(s) : s[i] <= obj.n
    BY <2>1 DEF Stale
  <2>4. s \in Seq(0 .. MaxMsgs) /\ received[c] \in Nat /\ obj.n \in Nat
    <3>1. obj.n \in Nat
      BY SubscriberAssumption DEF TypeOK, Msg, Bare, None
    <3> QED  BY <2>1, <2>2, <3>1, SubscriberAssumption DEF TypeOK
  <2>5. UNCHANGED <<obj, received>>
    BY <1>5 DEF ProcessEvent
  <2>6. handled' = [handled EXCEPT ![c] = Append(s, obj.n)]
    BY <1>5 DEF ProcessEvent
  <2>7. handled'[c] = Append(s, obj.n)
    BY <2>1, <2>6 DEF TypeOK
  <2>8. \A i \in 1 .. Len(handled'[c]) :
            handled'[c][i] = IF i \in 1 .. Len(s) THEN s[i] ELSE obj.n
    BY <2>4, <2>7
  <2>9. \A i \in 1 .. Len(handled'[c]) : handled'[c][i] <= obj.n
    BY <2>3, <2>4, <2>8
  <2>10. Stale'
    BY <2>1, <2>2, <2>5, <2>9 DEF Stale
  <2>11. ASSUME NEW d \in Subscribed \cap Published, d # c  PROVE InOrder(d)'
    <3>1. handled'[d] = handled[d]
      BY <2>6, <2>11 DEF TypeOK
    <3>2. InOrder(d)
      BY DEF AllInOrder
    <3> QED  BY <2>5, <3>1, <3>2 DEF InOrder
  <2>12. InOrder(c)'
    <3>1. InOrder(c)
      BY <2>1, <2>2 DEF AllInOrder
    <3>2. SUFFICES ASSUME NEW i \in 1 .. Len(handled'[c])
                   PROVE  /\ handled'[c][i] \in 1 .. received[c]
                          /\ i > 1 => handled'[c][i - 1] <= handled'[c][i]
      BY <2>5 DEF InOrder
    <3>3. Len(handled'[c]) = Len(s) + 1 /\ Len(s) \in Nat
      BY <2>4, <2>7
    <3>4. CASE i \in 1 .. Len(s)
      <4>1. handled'[c][i] = s[i] /\ (i > 1 => handled'[c][i - 1] = s[i - 1])
        BY <2>8, <3>3, <3>4
      <4> QED  BY <3>1, <3>4, <4>1 DEF InOrder
    <3>5. CASE i = Len(s) + 1
      <4>1. handled'[c][i] = obj.n
        BY <2>8, <3>3, <3>5
      <4>2. i > 1 => handled'[c][i - 1] = s[Len(s)] /\ Len(s) \in 1 .. Len(s)
        BY <2>8, <3>3, <3>5
      <4>3. i > 1 => s[Len(s)] <= obj.n
        BY <2>3, <4>2
      <4>4. obj.n \in 1 .. received[c]
        BY <2>1, <2>2, <2>4
      <4> QED  BY <4>1, <4>2, <4>3, <4>4
    <3> QED  BY <3>3, <3>4, <3>5
  <2> QED  BY <2>5, <2>10, <2>11, <2>12 DEF AllInOrder
<1>6. ASSUME NEW c \in Published, RecvMessage(c)  PROVE Stale' /\ AllInOrder'
  <2>1. UNCHANGED <<obj, handled>>
    BY <1>6 DEF RecvMessage
  <2>2. \A d \in Published : /\ received[d] \in Nat /\ received'[d] \in Nat
                            /\ received[d] <= received'[d]
    BY <1>6, SubscriberAssumption DEF RecvMessage, TypeOK
  <2>3. obj.n \in Nat
    BY SubscriberAssumption DEF TypeOK, Msg, Bare, None
  <2>4. Stale'
    BY <2>1, <2>2, <2>3 DEF Stale
  <2>5. ASSUME NEW d \in Subscribed \cap Published  PROVE InOrder(d)'
    <3>1. InOrder(d)
      BY DEF AllInOrder
    <3> QED  BY <2>1, <2>2, <3>1 DEF InOrder
  <2> QED  BY <2>4, <2>5 DEF AllInOrder
<1> QED
  BY <1>1, <1>2, <1>3, <1>4, <1>5, <1>6, ThreadCases DEF Next, Recv

LEMMA Inductive == IInv /\ [Next]_vars => IInv'
BY TypeStep, MessageStep, LatestStep, HandledStep, OrderStep DEF IInv

(* The parts are an invariant of the daemon.                               *)
THEOREM Invariant == Spec => []IInv
BY Initially, Inductive, PTL DEF Spec

-----------------------------------------------------------------------------

(* Every variable keeps its type.                                          *)
THEOREM TypeCorrect == Spec => []TypeOK
<1>1. IInv => TypeOK
  BY DEF IInv
<1> QED  BY <1>1, Invariant, PTL

(* subscriber_nano.cpp:105: nn_freemsg() is never given NULL.              *)
THEOREM AlwaysFreesAMessage == Spec => []FreesAMessage
<1>1. IInv => FreesAMessage
  BY DEF IInv, Held, FreesAMessage
<1> QED  BY <1>1, Invariant, PTL

(* subscriber.cpp:125: with messages that can all be decoded, the          *)
(* statistics of a category get each of its messages once and in order.    *)
THEOREM MessagesHandledOnce == Spec => []EachMessageOnce
<1>1. IInv => EachMessageOnce
  <2> SUFFICES ASSUME IInv, clean, NEW c \in Subscribed \cap Published
               PROVE  /\ \A i \in DOMAIN handled[c] : handled[c][i] = i
                      /\ pc \in Looping =>
                           Len(handled[c]) = received[c] - (IF InProgress(c) THEN 1 ELSE 0)
    BY DEF EachMessageOnce
  <2>1. Handled(c) /\ handled[c] \in Seq(0 .. MaxMsgs)
    BY DEF IInv, AllHandled, TypeOK
  <2> QED  BY <2>1 DEF Handled
<1> QED  BY <1>1, Invariant, PTL

(* subscriber_nano.cpp:97-103: whatever cannot be decoded, the statistics  *)
(* of a category are given numbers received in that category, in order.    *)
THEOREM ReceivedAlwaysInOrder == Spec => []OnlyReceivedInOrder
<1>1. IInv => OnlyReceivedInOrder
  <2> SUFFICES ASSUME IInv, NEW c \in Subscribed \cap Published,
                      NEW i \in DOMAIN handled[c]
               PROVE  /\ handled[c][i] \in 1 .. received[c]
                      /\ i > 1 => handled[c][i - 1] <= handled[c][i]
    BY DEF OnlyReceivedInOrder
  <2>1. InOrder(c) /\ handled[c] \in Seq(0 .. MaxMsgs)
    BY DEF IInv, AllInOrder, TypeOK
  <2> QED  BY <2>1 DEF InOrder
<1> QED  BY <1>1, Invariant, PTL
=============================================================================
