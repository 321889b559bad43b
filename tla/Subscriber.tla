----------------------------- MODULE Subscriber -----------------------------
(***************************************************************************)
(* The subscriber daemon over a socket transport (subscriber.cpp with      *)
(* subscriber_zeromq.cpp or subscriber_nano.cpp): it connects to the       *)
(* publishers, sets its filters, and then receives, decodes and processes  *)
(* one message after the other until SIGTERM.                              *)
(*                                                                         *)
(* A category is its class id.  The publishers of the categories in        *)
(* Published number their messages 1, 2, 3 ...; the library hands them to  *)
(* the subscriber in the order of each publisher.  Where a burst starts    *)
(* and what the numbers say of losses is the business of module PubSub.    *)
(*                                                                         *)
(* SIGTERM is the only signal that is not blocked, and its handler is      *)
(* installed before anything else.                                         *)
(***************************************************************************)
EXTENDS CpsKey

CONSTANTS
    Types,          \* the transports considered
    Subscribed,     \* category-list of the configuration
    Published,      \* the categories of the publishers of url-list
    NumUrls,        \* length of url-list
    MaxMsgs         \* bound: messages of a publisher

ASSUME SubscriberAssumption ==
    /\ Types \subseteq {"zeromq", "nano"}
    /\ Subscribed \subseteq Nat /\ Published \subseteq Nat
    /\ NumUrls \in Nat /\ MaxMsgs \in Nat

VARIABLES
    type,       \* the transport, an argument of the program
    clean,      \* history: is every message one of ours that can be decoded
    pc,         \* the next step of the thread
    sigterm,    \* flag set by SIGTERM
    rc,         \* rc of the nano constructor: uninitialized at first
    eids,       \* for each url handled: did its connect succeed
    filters,    \* the categories the socket is subscribed to
    size,       \* how recv returned
    message,    \* the message buffer
    obj,        \* the object messages are decoded into
    arrived,    \* messages of each category handed to the socket so far
    received,   \* messages of each category that recv has returned
    handled     \* what each subscription's statistics were given

vars == <<type, clean, pc, sigterm, rc, eids, filters, size, message, obj,
          arrived, received, handled>>

setup   == <<type, clean, rc, eids, filters>>
buffers == <<size, message, obj>>
traffic == <<arrived, received, handled>>

None  == [cat |-> -1, n |-> 0]      \* no message; an object just created
Msg   == [cat : Published, n : 1 .. MaxMsgs]
Bare  == [cat : Published, n : {0}] \* an object that lost its attributes

Starting == {"construct", "open", "connect", "subscribe", "ready"}
Looping  == {"call", "recv", "check", "decode", "process", "free", "while"}
Stopping == {"stopping", "close"}
Ended    == {"exited", "failed", "aborted"}

(* The key of a category, and which messages the filter of one lets pass.  *)
Key(c) == KeyFromAttrWithQual(Unset, <<1, c>>, cps_api_qualifier_TARGET)
Admits == [ s \in Subscribed |-> { c \in Published : Passes(Filter(Key(s)), Wire(Key(c))) } ]

Accepted(c) == \E s \in filters : c \in Admits[s]
Waiting(c)  == received[c] < arrived[c]

(* Every variable has its type in every state.                             *)
TypeOK ==
    /\ type \in Types /\ clean \in BOOLEAN
    /\ pc \in Starting \cup Looping \cup Stopping \cup Ended
    /\ sigterm \in {0, 1}
    /\ rc \in {0, 1}
    /\ eids \in Seq(BOOLEAN) /\ Len(eids) <= NumUrls
    /\ filters \subseteq Subscribed
    /\ size \in {"none", "message", "EINTR", "error"}
    /\ message \in Msg \cup {None}
    /\ obj \in Msg \cup Bare \cup {None}
    /\ arrived \in [Published -> 0 .. MaxMsgs]
    /\ received \in [Published -> 0 .. MaxMsgs]
    /\ handled \in [Subscribed -> Seq(0 .. MaxMsgs)]

Init ==
    /\ type \in Types /\ clean \in BOOLEAN
    /\ pc = "construct"
    /\ sigterm = 0
    /\ rc \in {0, 1}
    /\ eids = <<>> /\ filters = {}
    /\ size = "none" /\ message = None /\ obj = None
    /\ arrived = [c \in Published |-> 0]
    /\ received = [c \in Published |-> 0]
    /\ handled = [c \in Subscribed |-> <<>>]

-----------------------------------------------------------------------------
(* The environment.                                                        *)

(* A publisher's message passes the filter into the receive queue.         *)
Arrive(c) ==
    /\ pc \in {"subscribe", "ready"} \cup Looping
    /\ Accepted(c) /\ (clean => c \in Subscribed)
    /\ arrived[c] < MaxMsgs
    /\ arrived' = [arrived EXCEPT ![c] = @ + 1]
    /\ UNCHANGED <<pc, sigterm, received, handled>>
    /\ UNCHANGED setup /\ UNCHANGED buffers

(* The handler; a recv that is blocked returns with EINTR.                 *)
HandleTerm ==
    /\ pc \notin Ended
    /\ sigterm' = 1
    /\ IF pc = "recv" THEN pc' = "check" /\ size' = "EINTR"
                      ELSE UNCHANGED <<pc, size>>
    /\ UNCHANGED <<message, obj>> /\ UNCHANGED setup /\ UNCHANGED traffic

-----------------------------------------------------------------------------
(* The constructor.                                                        *)

Goto(from, to) == pc = from /\ pc' = to /\ UNCHANGED sigterm

(* A step that only moves on, and one that may end the program instead.    *)
Pass(from, to) ==
    /\ Goto(from, to)
    /\ UNCHANGED setup /\ UNCHANGED buffers /\ UNCHANGED traffic

Attempt(from, to) == Pass(from, to) \/ Pass(from, "failed")

(* The base class: the class map and the key of each category.             *)
Construct  == Attempt("construct", "open")

(* The context and the socket.                                             *)
OpenZeromq == type = "zeromq" /\ Attempt("open", "connect")
OpenNano   == type = "nano"   /\ Attempt("open", "connect")

(* One url.  The nano constructor stores what nn_connect() returns in eid  *)
(* and then tests rc, which nothing has assigned.                          *)
Connected(ok) == IF type = "nano" THEN rc = 0 ELSE ok

Connect(ok) ==
    /\ pc = "connect" /\ Len(eids) < NumUrls
    /\ IF Connected(ok)
       THEN eids' = Append(eids, ok) /\ UNCHANGED pc
       ELSE pc' = "failed" /\ UNCHANGED eids
    /\ UNCHANGED <<type, clean, sigterm, rc, filters>>
    /\ UNCHANGED buffers /\ UNCHANGED traffic

ConnectDone ==
    /\ Len(eids) = NumUrls
    /\ Pass("connect", "subscribe")

(* One filter is set, or the program ends; the messages it lets pass may   *)
(* arrive while the others are not set yet.                                *)
Subscribe(c) ==
    /\ pc = "subscribe" /\ c \notin filters
    /\ \/ filters' = filters \cup {c} /\ rc' = 0 /\ UNCHANGED pc
       \/ pc' = "failed" /\ rc' = 1 /\ UNCHANGED filters
    /\ UNCHANGED <<type, clean, sigterm, eids>>
    /\ UNCHANGED buffers /\ UNCHANGED traffic

SubscribeZeromq(c) == type = "zeromq" /\ Subscribe(c)
SubscribeNano(c)   == type = "nano"   /\ Subscribe(c)

SubscribeDone ==
    /\ filters = Subscribed
    /\ Pass("subscribe", "ready")

-----------------------------------------------------------------------------
(* main_loop().                                                            *)

NotifyReady == Pass("ready", "call")
Call        == Pass("call", "recv")

RecvMessage(c) ==
    /\ Goto("recv", "check")
    /\ Waiting(c)
    /\ received' = [received EXCEPT ![c] = @ + 1]
    /\ message' = [cat |-> c, n |-> received'[c]]
    /\ size' = "message"
    /\ UNCHANGED <<obj, arrived, handled>> /\ UNCHANGED setup

RecvError ==
    /\ Goto("recv", "check")
    /\ size' = "error"
    /\ UNCHANGED <<message, obj>> /\ UNCHANGED setup /\ UNCHANGED traffic

AfterRecv == [error |-> "failed", EINTR |-> "free", message |-> "decode"]

(* Wrong: SIGTERM is left to the loop's condition.                         *)
CheckRecvOnly == Pass("check", AfterRecv[size])

(* SIGTERM first, whatever recv returned; then its result.                 *)
CheckRecv == Pass("check", IF sigterm # 0 THEN "stopping" ELSE AfterRecv[size])

(* Wrong: a message that cannot be decoded leaves its key in the object,   *)
(* over the attributes of an earlier one.                                  *)
DecodeMixed ==
    /\ Goto("decode", "process")
    /\ \/ obj' = message
       \/ ~clean /\ obj' \in {obj, [cat |-> message.cat, n |-> obj.n]}
    /\ UNCHANGED <<size, message>> /\ UNCHANGED setup /\ UNCHANGED traffic

(* A failure leaves the object as it was, or without its attributes; the   *)
(* loop logs it and goes on.                                               *)
Decode ==
    /\ Goto("decode", "process")
    /\ \/ obj' = message
       \/ ~clean /\ obj' \in {obj, [cat |-> message.cat, n |-> 0]}
    /\ UNCHANGED <<size, message>> /\ UNCHANGED setup /\ UNCHANGED traffic

(* process_event(): looks up the subscription, reads the attributes and    *)
(* feeds the statistics.  An unknown category throws, an absent attribute  *)
(* is a NULL dereference.                                                  *)
Known(o) == o.cat \in Subscribed /\ o.n # 0

(* Wrong: every subscription is fed.                                       *)
ProcessByAll ==
    /\ pc = "process" /\ Known(obj)
    /\ handled' = [c \in Subscribed |-> Append(handled[c], obj.n)]
    /\ pc' = "free"
    /\ UNCHANGED <<sigterm, arrived, received>>
    /\ UNCHANGED setup /\ UNCHANGED buffers

ProcessEvent ==
    /\ pc = "process" /\ Known(obj)
    /\ handled' = [handled EXCEPT ![obj.cat] = Append(@, obj.n)]
    /\ pc' = "free"
    /\ UNCHANGED <<sigterm, arrived, received>>
    /\ UNCHANGED setup /\ UNCHANGED buffers

ProcessUnknown ==
    /\ ~Known(obj)
    /\ Pass("process", "aborted")

(* nn_freemsg() of a NULL message dereferences it; an empty zmq_msg_t may  *)
(* be closed.                                                              *)
FreeMessage ==
    /\ pc = "free"
    /\ pc' = IF type = "nano" /\ message = None THEN "aborted" ELSE "while"
    /\ message' = None
    /\ UNCHANGED <<sigterm, size, obj>> /\ UNCHANGED setup /\ UNCHANGED traffic

(* Wrong: the condition inverted, and no condition.                        *)
TestTermInverted == Pass("while", IF sigterm # 0 THEN "call" ELSE "stopping")
TestNothing      == Pass("while", "call")

TestTerm == Pass("while", IF sigterm = 0 THEN "call" ELSE "stopping")

NotifyStopping == Pass("stopping", "close")

(* The destructors close the socket.  That of zeromq takes the filters     *)
(* back; that of nano sets them again, and shuts the endpoints down.       *)
Close(left) ==
    /\ Goto("close", "exited")
    /\ filters' = left /\ eids' = <<>>
    /\ UNCHANGED <<type, clean, rc>> /\ UNCHANGED buffers /\ UNCHANGED traffic

CloseZeromq == type = "zeromq" /\ Close({})
CloseNano   == type = "nano"   /\ Close(filters)

Thread ==
    \/ Construct \/ OpenZeromq \/ OpenNano
    \/ \E ok \in BOOLEAN : Connect(ok)
    \/ ConnectDone
    \/ \E c \in Subscribed : SubscribeZeromq(c) \/ SubscribeNano(c)
    \/ SubscribeDone \/ NotifyReady
    \/ Call \/ CheckRecv \/ Decode \/ ProcessEvent \/ ProcessUnknown
    \/ FreeMessage \/ TestTerm \/ NotifyStopping \/ CloseZeromq \/ CloseNano

Recv == \E c \in Published : RecvMessage(c)

Next ==
    \/ Thread \/ Recv \/ RecvError
    \/ HandleTerm
    \/ \E c \in Published : Arrive(c)

Spec == Init /\ [][Next]_vars

(* The thread is scheduled, and the library takes turns at the publishers  *)
(* whose messages wait.  Nobody is obliged to publish or to stop.          *)
FairSpec ==
    /\ Spec
    /\ WF_vars(Thread)
    /\ \A c \in Published : SF_vars(RecvMessage(c))

-----------------------------------------------------------------------------
(* Each message is processed once and in order: what a subscription has    *)
(* handled are the messages recv returned, up to the one in progress; only *)
(* a message that was received together with SIGTERM is left out.          *)
InProgress(c) ==
    message.cat = c /\ pc \in {"check", "decode", "process"}

EachMessageOnce ==
    clean => \A c \in Subscribed \cap Published :
        /\ \A i \in DOMAIN handled[c] : handled[c][i] = i
        /\ pc \in Looping =>
              Len(handled[c]) = received[c] - (IF InProgress(c) THEN 1 ELSE 0)

(* process_event() runs even when decoding failed, on what the object was  *)
(* left with (subscriber_nano.cpp:97-103).  The statistics of a category   *)
(* are then still given numbers of messages of that category only, and     *)
(* they never go back: a number may repeat, which stats_c takes for a gap  *)
(* of -1, but neither another category's number nor an older one is fed.   *)
OnlyReceivedInOrder ==
    \A c \in Subscribed \cap Published : \A i \in DOMAIN handled[c] :
        /\ handled[c][i] \in 1 .. received[c]
        /\ i > 1 => handled[c][i - 1] <= handled[c][i]

(* nn_freemsg() is never given NULL: recv returns without a message only   *)
(* when the handler has run, and then the loop leaves before freeing.      *)
FreesAMessage == pc = "free" => message # None

(* Every message handed to the socket is processed in the end, unless      *)
(* SIGTERM or a failure ends the subscriber: it does not leave its loop by *)
(* itself.                                                                 *)
Served ==
    \A c \in Subscribed \cap Published :
        (clean /\ Waiting(c)) ~>
            \/ Len(handled[c]) = arrived[c]
            \/ sigterm = 1 \/ pc \in {"failed", "aborted"}

(* A SIGTERM that finds the thread at work, or blocked, or a message on    *)
(* its way, ends the program.                                              *)
BusyTermStops ==
    ( /\ sigterm = 1
      /\ \/ pc \in Looping \ {"call", "recv"}
         \/ pc \in Looping /\ \E c \in Published : Waiting(c) )
        ~> pc \in Ended

-----------------------------------------------------------------------------
(* What the comments say.                                                  *)

(* subscriber_nano.cpp:49, "nn_connect(url=...) failed": a subscriber that *)
(* could not connect does not go on to its main loop.                      *)
RunsConnected == pc \in Looping => \A i \in 1 .. NumUrls : eids[i]

(* subscriber.cpp:80, the categories "this subscriber is subscribing for"  *)
(* are the ones it gets.                                                   *)
OnlySubscribed == message # None => message.cat \in Subscribed
=============================================================================
