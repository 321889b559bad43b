----------------------------- MODULE CpsObject -----------------------------
(***************************************************************************)
(* The object that a publisher builds once and sends again and again with  *)
(* other sequence numbers (benchmark.hpp, cps.h): its attributes are TLVs  *)
(* in a buffer of the CPS library, and each setter deletes its attribute   *)
(* and adds it again at the end.  The setters are called in any order.     *)
(*                                                                         *)
(* The library, which is external, deletes an attribute by closing the gap *)
(* and returns false when it has no room to add one.                       *)
(***************************************************************************)
EXTENDS AttrIterator, CpsKey

CONSTANTS
    Classes,    \* the classes of benchmark.hpp considered
    Capacities, \* how many units a buffer may have
    Base,       \* how many values a unit of data takes
    MaxUnits    \* how many units of data a string takes at most

VARIABLES
    class,      \* the category of the object
    capacity,   \* room of its buffer
    buf,        \* the attributes, encoded
    want,       \* history: each attribute as it was set last, if that succeeded
    given       \* history: the length of what the last setter tried to add

vars == <<class, capacity, buf, want, given>>

(* The attribute ids of the YANG model are numbered class by class.        *)
ClassNo == [ alarm |-> 1, connection |-> 2, telemetry |-> 3, vlan |-> 4, weather |-> 5 ]

ASSUME CpsObjectAssumption ==
    /\ Classes \subseteq DOMAIN ClassNo
    /\ Capacities \subseteq Nat
    /\ Base \in Nat \ {0}
    /\ MaxUnits \in Nat \ {0, 1}

PUBSUB(c, n) == 10 * ClassNo[c] + n

OBJ(c)          == PUBSUB(c, 0)
SEQ_NO(c)       == PUBSUB(c, 1)
LAST_SEQ_NO(c)  == PUBSUB(c, 2)
TIMESTAMP_NS(c) == PUBSUB(c, 3)
NAME(c)         == PUBSUB(c, 4)
TEMPERATURE     == PUBSUB("telemetry", 4)
VOLTAGE         == PUBSUB("telemetry", 5)

(* What a setter takes: a number of 32 or of 64 bits, or a string of some  *)
(* units.  Numbers are tuples of one, so that they compare with None,      *)
(* which stands for the NULL that is found for an absent attribute, and    *)
(* that the getters give to the accessors all the same.                    *)
Units  == 0 .. Base - 1
UInt32 == { <<n>> : n \in 0 .. Base - 1 }
UInt64 == { <<n>> : n \in 0 .. Base * Base - 1 }
String == UNION { [1 .. n -> Units] : n \in 0 .. MaxUnits }
None   == <<-1>>

ValueOf(c, a) ==
    CASE a \in {SEQ_NO(c), LAST_SEQ_NO(c)} -> UInt32
      [] a = TIMESTAMP_NS(c)               -> UInt64
      [] OTHER                             -> String

(* The classes: the strings an object has and what its constructor sets    *)
(* them to.                                                                *)
Alarm      == [ a \in {NAME("alarm")} |-> <<0, 0>> ]            \* "Intruder alert"
Connection == [ a \in {NAME("connection")} |-> <<>> ]
Telemetry  == [ a \in {TEMPERATURE, VOLTAGE} |-> <<0>> ]        \* "Normal"
Vlan       == [ a \in {NAME("vlan")} |-> <<>> ]
Weather    == [ a \in {NAME("weather")} |-> <<0, 0>> ]          \* "Cloudy with ..."

StringsOf == [ alarm |-> Alarm, connection |-> Connection, telemetry |-> Telemetry,
               vlan |-> Vlan, weather |-> Weather ]

Attrs(c) == {SEQ_NO(c), LAST_SEQ_NO(c), TIMESTAMP_NS(c)} \cup DOMAIN StringsOf[c]

-----------------------------------------------------------------------------
(* cps_api_object_attr_get() and _delete(): the first TLV with the tag.    *)
Find(b, a) == ItFind(b, ItBegin(b), a)

(* The content of a value on the wire, and the value that is read of it.   *)
Content(c, a, v) ==
    CASE a \in {SEQ_NO(c), LAST_SEQ_NO(c)} -> Le32(v[1])
      [] a = TIMESTAMP_NS(c)               -> Le64(v[1], Base)
      [] OTHER                             -> v

GetU32(b, a) == LET p == Find(b, a) IN IF p = NULL THEN None ELSE <<DataU32(b, p)>>
GetU64(b, a) == LET p == Find(b, a) IN IF p = NULL THEN None ELSE <<DataU64(b, p, Base)>>
GetBin(b, a) == LET p == Find(b, a) IN IF p = NULL THEN None ELSE DataOf(b, p)

Get(c, b, a) ==
    CASE a \in {SEQ_NO(c), LAST_SEQ_NO(c)} -> GetU32(b, a)
      [] a = TIMESTAMP_NS(c)               -> GetU64(b, a)
      [] OTHER                             -> GetBin(b, a)

(* Wrong: two columns of the table of ids are exchanged.                   *)
IdsSwapped(c) ==
    [ key_id |-> OBJ(c), seq_no |-> LAST_SEQ_NO(c), last_seq_no |-> SEQ_NO(c),
      timestamp |-> TIMESTAMP_NS(c) ]

(* The subscriber's table of ids, and what process_event() reads with it.  *)
Ids(c) ==
    [ key_id |-> OBJ(c), seq_no |-> SEQ_NO(c), last_seq_no |-> LAST_SEQ_NO(c),
      timestamp |-> TIMESTAMP_NS(c) ]

(* The key that the publisher gives its object, and the key that the       *)
(* subscriber makes of its table for a subscription.                       *)
ClassKey(id) == KeyFromAttrWithQual(Unset, <<1, id>>, cps_api_qualifier_TARGET)

KeyOf           == [ c \in Classes |-> ClassKey(OBJ(c)) ]
SubscriptionKey == [ c \in Classes |-> ClassKey(Ids(c).key_id) ]

(* The message: array(), of array_len() units, and what the subscriber     *)
(* makes of it.                                                            *)
Array(c, b)        == Wire(KeyOf[c]) \o b
FromArray(message) == FromWire(message)

(* process_event(): the subscription of the same path, and its ids.  It    *)
(* throws if there is none; an attribute that is absent is a NULL, which   *)
(* it gives to the accessor.                                               *)
Subscriptions(key) == { c \in Classes : ClassPath(SubscriptionKey[c]) = ClassPath(key) }

Crash == [aborted |-> TRUE]

EventRead(message) ==
    LET obj == FromArray(message)
        ids == Ids(CHOOSE c \in Subscriptions(obj.key) : TRUE)
    IN  IF \/ Subscriptions(obj.key) = {}
           \/ \E a \in {ids.seq_no, ids.last_seq_no, ids.timestamp} : Find(obj.rest, a) = NULL
        THEN Crash
        ELSE [ seq_no      |-> GetU32(obj.rest, ids.seq_no),
               last_seq_no |-> GetU32(obj.rest, ids.last_seq_no),
               timestamp   |-> GetU64(obj.rest, ids.timestamp) ]

Delete(b, a) ==
    LET p == Find(b, a)
    IN  IF p = NULL THEN b
        ELSE SubSeq(b, 1, p - 1) \o SubSeq(b, p + TotalLen(b, p), Len(b))

Add(b, a, v, room) == IF Fits(room - Len(b), v) THEN b \o Encode(a, v) ELSE b
Added(b, v, room)  == Fits(room - Len(b), v)

(* Wrong: nothing is deleted; the new value is put in front of the old     *)
(* one; the old value is deleted after the new one was added.              *)
AttrAdd(b, a, v, room)   == [buf |-> Add(b, a, v, room), ok |-> Added(b, v, room)]
AttrShade(b, a, v, room) ==
    [buf |-> IF Added(b, v, room) THEN Encode(a, v) \o b ELSE b, ok |-> Added(b, v, room)]
AttrLate(b, a, v, room)  ==
    LET all == Add(b, a, v, room)
    IN  [buf |-> IF Find(b, a) = NULL THEN all ELSE Delete(all, a), ok |-> Added(b, v, room)]

(* attr_set(): the buffer after it, and what it returns.                   *)
AttrSet(b, a, v, room) ==
    LET rest == Delete(b, a)
    IN  [buf |-> Add(rest, a, v, room), ok |-> Added(rest, v, room)]

(* The constructors ignore what attr_set() returns; the sequence number    *)
(* first, then the strings.                                                *)
Built(c, room) ==
    LET first == AttrSet(<<>>, SEQ_NO(c), Le32(0), room).buf
        Name(b, a) == AttrSet(b, a, StringsOf[c][a], room).buf
    IN  IF c = "telemetry" THEN Name(Name(first, TEMPERATURE), VOLTAGE)
                           ELSE Name(first, NAME(c))

(* The buffer never exceeds its capacity, and every value has the type of  *)
(* its attribute.                                                          *)
TypeOK ==
    /\ class \in Classes /\ capacity \in Capacities
    /\ buf \in Seq(Nat) /\ Len(buf) <= capacity
    /\ \A a \in Attrs(class) : want[a] \in ValueOf(class, a) \cup {None}
    /\ given \in 0 .. MaxUnits

Init ==
    /\ class \in Classes /\ capacity \in Capacities
    /\ buf = Built(class, capacity)
    /\ want = [a \in Attrs(class) |-> Get(class, buf, a)]
    /\ given = 0

(* Any setter of the class.                                                *)
Setter(a, v) ==
    /\ LET set == AttrSet(buf, a, Content(class, a, v), capacity)
       IN  /\ buf' = set.buf
           /\ want' = [want EXCEPT ![a] = IF set.ok THEN v ELSE None]
    /\ given' = Len(Content(class, a, v))
    /\ UNCHANGED <<class, capacity>>

SetSeqNo     == \E n \in UInt32 : Setter(SEQ_NO(class), n)
SetLastSeqNo == \E n \in UInt32 : Setter(LAST_SEQ_NO(class), n)
SetTimestamp == \E t \in UInt64 : Setter(TIMESTAMP_NS(class), t)
SetString    == \E a \in DOMAIN StringsOf[class], s \in String : Setter(a, s)

Next == SetSeqNo \/ SetLastSeqNo \/ SetTimestamp \/ SetString

Spec == Init /\ [][Next]_vars

-----------------------------------------------------------------------------
(* What a subscriber gets out of the object is what the publisher put in   *)
(* last: whatever was set, in whatever order and however much room it      *)
(* took, every attribute reads back as it was set last, and one whose      *)
(* setter failed is absent.                                                *)
ReadsBack == \A a \in Attrs(class) : Get(class, buf, a) = want[a]

Present == { a \in Attrs(class) : want[a] # None }

(* The daemons agree on the keys and the ids: the key of an object leads   *)
(* to the subscription made for its class, and what process_event() reads  *)
(* out of the message as the two sequence numbers and the time stamp is    *)
(* what send_events() set as those.                                        *)
SubscriberReads ==
    {SEQ_NO(class), LAST_SEQ_NO(class), TIMESTAMP_NS(class)} \subseteq Present =>
        EventRead(Array(class, buf)) =
            [ seq_no      |-> want[SEQ_NO(class)],
              last_seq_no |-> want[LAST_SEQ_NO(class)],
              timestamp   |-> want[TIMESTAMP_NS(class)] ]

(* The buffer holds each attribute once and nothing else, so that the      *)
(* message of the last event of a burst is as long as that of the first:   *)
(* the units that the values of the attributes take are all there are, and *)
(* no two attributes share one.                                            *)
UnitsOf ==
    [ a \in Present |->
        LET p == Find(buf, a)
        IN  p .. p + STD_TLV_HDR_LEN + Len(Content(class, a, want[a])) - 1 ]

NoLeak ==
    LET units == UnitsOf
    IN  /\ UNION { units[a] : a \in Present } = 1 .. Len(buf)
        /\ \A a, b \in Present : a # b => units[a] \cap units[b] = {}

(* A setter that gives its attribute a value no longer than the one before *)
(* does not fail, even on a full buffer: the room is freed before it is    *)
(* needed.  send_events(), which ignores what the setters return, can rely *)
(* on it from the second event on.                                         *)
ReplaceNeverFails ==
    [][\A a \in Attrs(class) :
          want[a] # None /\ want'[a] = None => given' > Len(Content(class, a, want[a]))]_vars

(* Walking the object with the iterator visits every attribute that it     *)
(* has, once, and then stops, whatever was set before; advancing until     *)
(* it_next() returns false visits the same.                                *)
EveryAttributeVisited ==
    LET seen == Walk(buf, ItBegin(buf))
    IN  /\ { seen[i] : i \in 1 .. Len(seen) } = Present
        /\ \A i, j \in 1 .. Len(seen) : i # j => seen[i] # seen[j]
        /\ Present # {} => WalkUntilLast(buf, ItBegin(buf)) = seen

(* When the object is embedded as an attribute of another, which has an    *)
(* attribute of the same tag behind it, a search in the embedded object    *)
(* finds what it would find in the object alone, and a walk visits what it *)
(* would visit: neither leaves it.                                         *)
CONTAINER == 1

EmbeddedStaysInside ==
    LET walked == Walk(buf, ItBegin(buf))
    IN  \A a \in Attrs(class) :
            LET outer  == Encode(CONTAINER, buf) \o Encode(a, <<0>>)
                inside == ItInside(outer, ItBegin(outer))
                alone  == Find(buf, a)
                place  == IF alone = NULL THEN NULL ELSE DataAt(alone)
            IN  /\ EFind(outer, ItBegin(outer), <<CONTAINER, a>>).attr = place
                /\ ItFind(outer, inside, a) = place
                /\ Walk(outer, inside) = walked
=============================================================================
