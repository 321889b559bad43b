# A formal model of cps-zmq

cps-zmq compares three ways of carrying CPS objects from publishers to
subscribers (redis, ZeroMQ and nanomsg).  This directory holds TLA+ modules of
its daemons, configurations that model-check them with TLC, and proofs that the
TLA+ proof system (TLAPS) checks.  Line numbers refer to the files in `src/`.

## 1. The system

### Parts, state, operations

| Part | State | Operations |
|---|---|---|
| `stats_c` (stats.cpp) | expected number, missed and received counts, min/max/total time | `processor()` for each event; prints a report on the event that says it is the last one |
| publisher daemon (publisher.cpp, publisher_{zeromq,nano,redis}.cpp) | flags `sighup` and `sigterm`, loop variable, one reused object, a socket | start-up, `main_loop()`, `send_events()`, signal handler |
| socket subscriber daemon (subscriber.cpp, subscriber_{zeromq,nano}.cpp) | flag `sigterm`, sockets, subscriptions by class path, the message and the object being decoded | constructor, `main_loop()`, `process_event()` |
| redis subscriber daemon (subscriber.cpp, subscriber_redis.cpp) | the same subscriptions, shared by two threads | constructor (registers callbacks), `main_loop()` (sleeps), `callback()` on the CPS event thread |
| CPS key (cps_key_internals.h, cps_api_key.h, accessors in cps_api_operation.h) | an array of 32-bit words | lengths, elements, fields, copy, init; also used as filter |
| CPS object (benchmark.hpp, cps.h, std_tlv.h, cps_api_object_attr.h) | attributes as TLVs in a buffer | getters and setters of five classes, search, iterator, conversion to and from a message |
| guards, `cps::Object` (cps_api_object.h, cps_api_operation.h, cps.h) | the handle each holds | construct, release, free, set, destruct |
| arguments (args.cpp, *.ini) | type, category list, url list, number of events | parse, read the file, check |
| libraries (CPS, redis, ZeroMQ, nanomsg) | queues, registrations | external: modelled from how they are used |
| systemd units and scripts | - | start, `ExecReload=/bin/kill -HUP`, stop, restart: the daemons' environment |

### How they interact

systemd starts the daemons and is told READY, RELOADING and STOPPING through
`sd_notify`.  SIGHUP asks a publisher for a burst of `num-events` events;
SIGTERM ends a daemon.  `send_events()` numbers the events of a burst from 1,
puts the number, the last number and a time stamp into the one object it has,
and gives it to the transport.  A socket subscriber receives the messages of all
its publishers in one thread; the redis subscriber gets them in a callback on a
thread of the CPS library.  `process_event()` finds the subscription by the
class of the object and feeds its `stats_c`, which restarts at number 1, counts
the gaps, and prints its report when number and last number are equal.

### What is hard

* **Signals** are handled between any two steps, and every loop tests a flag in
  one step and blocks in another.
* **Losses**: publish sockets never block.  What a queue has no room for, and
  what is sent before a subscriber is connected, is gone; the report should say
  how much it was.
* **Restarts** of either side in the middle of a burst.
* **Two threads** on the subscriptions of the redis subscriber, from inside its
  constructor to after its deletion.
* **Words**: sequence numbers are cut from 64 to 32 bits, differences wrap.
* **Errors that are logged and then ignored**: send, decode, `attr_set()`.
* **Memory by hand**: handles, guards that may be released or reset, a key that is
  never initialized, lengths in bytes and in elements.

`PROJECT.json` lists these hazards at the lines where they bite, each with the
properties that watch it.

### What makes each part correct

| Part | Correct means |
|---|---|
| statistics | counters and expected number agree on any stream; the average printed lies between minimum and maximum |
| publisher | READY only when signals are safe; no burst without a SIGHUP, no SIGHUP forgotten; a burst complete unless cut by SIGTERM, and then cut at once; only the last event of a burst of less than 2^32 looks like the last one; SIGTERM ends the program |
| subscribers | every message is handed to the statistics of its category once and in order; SIGTERM ends the program; a callback finds a complete map |
| together | if the first event of a burst is received, its report is exact |
| key | a setter changes one element; the key of a class says the class; a copy is whole |
| object | every attribute reads back as it was set last, by the subscriber too; an iterator visits each attribute once and does not leave an embedded object |
| guards | every handle has one owner until it is deleted, and is deleted once |
| arguments | the last line for a parameter wins; a daemon runs with what was checked |

## 2. The modules

| Module | What it models | Code |
|---|---|---|
| `Words` | unsigned integers of width `M32` and `M64` (the number of values), wrapping addition and subtraction | the types of stats.cpp |
| `Stats` | `stats_c` as a record and `Processor` as a function of it, the event and the clock | stats.cpp |
| `StatsStream` | one `stats_c` fed with any stream of events | stats.cpp |
| `Publisher` | the thread and the handlers of a publisher, for the three transports | publisher*.cpp |
| `CpsKey` | a key as its words and bytes, the operations on it, the filter a subscriber makes of it | cps_key_internals.h, cps_api_key.h, cps_api_operation.h |
| `Subscriber` | zeromq and nano subscribers (extends `CpsKey`) | subscriber.cpp, subscriber_{zeromq,nano}.cpp |
| `RedisSubscriber` | main thread and event thread | subscriber.cpp, subscriber_redis.cpp |
| `BurstReport` | abstract: what a subscription promises of its reports | - |
| `PubSub` | publishers, queues and subscribers composed (extends `Stats`); implements `BurstReport` | publisher.cpp, subscriber.cpp, stats.cpp |
| `Tlv`, `AttrIterator` | the encoding of attributes, the search for them, the walk over them | std_tlv.h, cps_api_object_attr.h |
| `CpsObject` | an object whose setters are called in any order, the message made of it, and what a subscriber reads out of that (extends `CpsKey` and `AttrIterator`, which extends `Tlv`) | cps.h, benchmark.hpp, subscriber.cpp |
| `Ownership` | guards and `cps::Object` over handles that are created, passed on and deleted | cps_api_object.h, cps_api_operation.h, cps.h |
| `Arguments` | a configuration file, line by line, and the checks | args.cpp |
| `StatsProofs`, `PublisherProofs`, `SubscriberProofs`, `RedisSubscriberProofs`, `PubSubProofs`, `CpsObjectProofs` (keys, TLVs, iterators and objects), `OwnershipProofs`, `ArgumentsProofs` | lemmas and theorems | - |
| `MC*` | instances for TLC | - |

**State and actions.**  `pc` is the next step of a thread, and an action is what
the thread does up to the next point where a signal, a message or the other
thread can make a difference.  In `Publisher`, for instance, `pause()` is two
steps, `"pause"` (about to call it) and `"paused"` (suspended), since a signal
between the test of a flag and the call is handled *before* the suspension;
`CheckHup`, `NotifyReloading` and `ClearHup` are separate because a SIGHUP can
be handled between them.  The `nano` and `zeromq` loops do not test `sigterm`
after `pause()` and the `redis` loop does (`AfterPause`).  Variables marked
*history* in the modules record what happened and are read by properties only.

**Mutated operators.**  An operator with a comment beginning "Wrong:" is not
part of the model.  It is what the operator after it would be with a plausible
bug; the property listed with it in `PROJECT.json` is violated if it is used
instead.

**Data.**  A message is its category and number; a publisher's event its two
numbers; the bytes of an object appear in `CpsObject` only.  `Subscriber` computes
what its filters let through from the bytes of the keys (`Admits`).  Times are small
integers; the doubles of `stats_c` are modelled exactly, so rounding is not.

## 3. What is checked

| Run | Instance | States | What it shows |
|---|---|---|---|
| `stats` | words of 4 and 3 values, 5 events | 1 965 | `CountsBalance`: received + missed + 1 = expected, in wrapping arithmetic, once an event 1 has come; `MinAvgMax`; `PlausibleTimes`: without a time stamp ahead of the clock no wrapped time gets into the minimum, the maximum or the total |
| `publisher` | 5 events a burst in words of 4 values, 3 SIGHUPs, any number of SIGTERMs, three transports | 3 478 | `ReadyIsSafe`, `OneBurstPerRequest`, `RequestRemembered`, `StopsPromptly`, `BurstIsWhole`, `LastEventCloses`; `BusyTermStops` (liveness) |
| `publisher_sigterm` | the same, 2 SIGHUPs | - | violated: `SigtermTerminates` |
| `subscriber` | 2 categories subscribed, 3 published, 2 messages each, 1 url | 108 448 | `EachMessageOnce`, `OnlyReceivedInOrder`: even with messages that cannot be decoded, the statistics of a category get numbers received of that category only, never an older one after a newer; `FreesAMessage`; `Served` and `BusyTermStops` (liveness) |
| `subscriber_nano_rc` | as `subscriber` | - | violated: `RunsConnected` |
| `subscriber_filter` | as `subscriber` | - | violated: `OnlySubscribed` |
| `redis_subscriber` | 2 categories, 3 events each | 29 910 | `CallbackFindsSubscription`, `NoGapAfterRegistration`, `StaleOnlyAtExit`; `Served`, `AsleepTermStops` (liveness) |
| `pubsub` | 1 publisher, 1 subscriber, queue of 2, 3 bursts of 3 events, restarts | 8 150 | `OneReportPerBurst`, `ReportsAddUp`, `KeepsPromise` (refinement of `BurstReport`), `LastEventReported` (liveness) |
| `pubsub_missed` | as `pubsub`, 2 bursts, no restart | - | violated: `MissedIsACount` |
| `cps_object` | 3 classes, 3 capacities, digits and strings of up to 2 units, base 2 | 56 846 | `TypeOK`, `ReadsBack`, `NoLeak`, `ReplaceNeverFails`; `SubscriberReads`: the subscription found by the key is that of the class, and the ids read are those set, if all three attributes are there; `EveryAttributeVisited`, `EmbeddedStaysInside` |
| `ownership` | 3 objects, a list, a request and a transaction; 5 guards and a `cps::Object`, symmetric | 15 395 | `NothingLost`, `OneOwner`, `NothingDangles`, `DeletedOnce` |
| `arguments` | 15 kinds of lines, files of up to 3 lines | 173 592 | `TypeOK`, `LastLineWins`, `RunsAsChecked`, `ExitIsExplained`, `IgnoresTheUnused` |

Two runs also check `TypeOK`; for the other modules it is a part of the
inductive invariant that is proved.  `CHECK_DEADLOCK FALSE` stands
where the system really stops: the daemons end, and bounded streams and files are
exhausted.

### Bounds, and why they are enough

* `M32`, `M64` are small so that wrap-around happens within a few events.  The
  code's widths are values of these parameters like any other (`WidthAssumption`), so
  the theorems cover them.
* `Num = 5` in `publisher`: the loop rests after the fourth event, and one follows.
  With `M32 = 4` the numbers of that burst wrap, and its first event looks like the
  last; `LastEventCloses` says exactly which events do.
* `Num = 3` in `pubsub` gives a burst a first, a middle and a last event; a lost
  event can be each of them.  With `HWM = 2` the queue overflows, with 3 bursts a lost end
  and a lost beginning can meet ("a burst taken for the continuation of the one
  before") and be followed by an intact burst.  One publisher and one subscriber suffice, since
  what a subscription reports does not depend on the others: `PromiseKept` proves
  it for any number of both.
* `MaxHups = 3`: one before, one during and one after a burst is answered.
* One url and two categories of subscription suffice to tell the categories
  apart; the third, published but not subscribed, is the one a filter should
  keep out.  `clean = FALSE` lets it through and lets decoding fail.
* `MaxUnits = 2` gives strings of different lengths, `Base = 2` values of more than
  one digit.  Capacities 8, 12 and 14 hold some, all but one, or all attributes of the
  classes, so that setters fail on the smaller ones.
* Three objects let one be in a guard, one in a container and one in the program's
  hands; two object guards can be confused with one another, and there is one of
  each other kind.
* Three lines make a good value replaced by a bad one, and the reverse, with an
  unrelated line in between.

### Fairness, and why the code justifies it

`FairSpec` assumes weak fairness of a thread's own steps: the operating system
schedules a thread that can run.  `Publisher` and `RedisSubscriber` assume no
more than that for each thread; a thread in `pause()` has no step of its own.
`Subscriber` adds strong fairness of receiving from each publisher: ZeroMQ and
nanomsg take turns at the connections that have messages waiting.  `PubSub`
assumes that a publisher goes on with its burst and a subscriber with its queue.
Nobody is obliged to send a signal, to publish, or to connect.

### Disagreements found

* **Lost wake-up** (`publisher_sigterm`).  `publisher.cpp:22` says of `sigterm`
  "is used to terminate the program".  A SIGTERM handled after the loop has
  tested the flag and before `pause()` suspends (publisher_zeromq.cpp:54, nano
  :48, redis :44) leaves the daemon asleep.  The window also exists for SIGHUP
  (the burst is then sent after the next signal), and in the subscribers
  (subscriber_redis.cpp:58, and the receive calls of the other two until the
  next message).  `BusyTermStops` and `AsleepTermStops` say what does hold: from
  which states SIGTERM does end the program.  In the publishers that is every state but
  three: between the test and the suspension (`pause`), and the two steps of start-up
  before the first `pause()` (`install_hup`, `ready`), which no test follows.
* **Uninitialized `rc`** (`subscriber_nano_rc`): subscriber_nano.cpp:45-47
  stores the result of `nn_connect()` in `eid` and tests `rc`.
* **Filters let everything through** (`subscriber_filter`): the filter's length
  is `cps_api_key_get_len()` (subscriber_zeromq.cpp:58, subscriber_nano.cpp:59),
  a number of elements used as a number of bytes.  A message of a category that
  is not subscribed then makes `at()` throw (subscriber.cpp:116).  The theorem
  `ShortFilterSeesLength` shows it for all keys: a filter of no more than four
  bytes is a part of the length word, and lets every key of that length through,
  whatever the uninitialized rest of `key_m` is.
* **Count of missed messages** (`pubsub_missed`): stats.cpp:7 says "A count of
  missed messages"; without the first event of a burst the difference is taken
  from 0, or from a number of an earlier burst.  `KeepsPromise` says what does
  hold.

Seen while modelling, not the subject of a run: a number of events above 2^32 is
cut (publisher.cpp:78, 93), and every 2^32nd event counted from the last then looks
like the last (`LastEventCloses`);
the test for an empty list of URLs (args.cpp:151) is made on the list of categories:
a zeromq or nano daemon whose file has no URL passes it, though the message of that test
(args.cpp:153, "Invalid config parameter: url=") is meant for it, and `main()`
evaluates `url_lst[0]` (publisher.cpp:202).  `Arguments` reaches `pc = "run"` with an
empty `url_lst`; `RunsAsChecked` and `LastLineWins` say when: no line of the file is
about it, or a blank has cut the last such line to nothing;
an unknown line prints the pointer that was just found to be NULL (args.cpp:141),
after which the error stream is bad and the checks are mute (`ExitIsExplained`);
`category = alarm`, with blanks, is read as an empty list (args.cpp:112);
subscriber_nano.cpp:14 subscribes once more in the destructor;
subscriber.cpp:165 deletes the object the event thread may be using, though only on
the way out (`StaleOnlyAtExit`); a message
that cannot be decoded is processed with the object as the message before it left it
(the result of the decoding is not tested), so that the earlier number is counted
again: the gap at the repetition is -1 and the next one +1, the two cancel, and
the message that was lost is reported as received.  `OnlyReceivedInOrder` bounds the
damage: nothing but repetitions gets in, and nothing out of order.

## 4. What is proved

The theorems hold for every value of the constants that satisfies the
assumptions named in the modules: `M32` a natural number above 2 and `M64` one
above 1 (`WidthAssumption`), `Num` a natural number above 0, any sets of categories,
subscribers, handles and guards, any bound on signals, messages, bursts and clock.

**Statistics** (`StatsProofs`).  `StatsTypeCorrect`;
`CountsAlwaysBalance`, inductive by itself: each event moves the expected number
to its successor and the counters by the gap and by one, all modulo `M32`, and
the proof reduces the wrapping arithmetic to that; `MeanIsBetween`, for which the
invariant is strengthened by `RxCounted` (the received count is the number of
events since the last restart as long as the word does not wrap) and which
rests on the lemma `MeanStep` about products; `TimesStayPlausible`, whose bound on the total (every time
summed is at most the clock) is the lemma `WholeProduct`.

**Publisher** (`PublisherProofs`).  The inductive invariant is

    IInv == TypeOK /\ Announced /\ Requests /\ Lateness /\ Counting /\ Offered

None of the properties is inductive as it stands.  `OneBurstPerRequest`
(`bursts <= hups`) needs that a request waiting in the flag, or taken out of it
and about to be answered, has not been counted as a burst yet (`Requests`);
`BurstIsWhole` needs that the loop variable is one more than the events sent
(`Counting`); `StopsPromptly` needs to know in which step an event may still
follow the signal (`Lateness`); `LastEventCloses` needs which events have been
offered (`Offered`) and that two numbers have the same `uint32_t` just if their difference is
a multiple of `M32` (`SameU32`).  There is a lemma per conjunct that it is preserved, with
one step per action that can disturb it; `InductiveInvariant` combines them and
the theorems follow.  `OnlyLastEventCloses` holds for any `Num`; its corollary
`NoOtherEventCloses` says that below `M32` no event but the last looks like it.

**Socket subscribers** (`SubscriberProofs`).

    IInv == TypeOK /\ Returned /\ Held /\ Latest /\ AllHandled /\ Stale /\ AllInOrder

`FreesAMessage` needs that recv returns without a message, and without an error,
only if the handler has run (`Returned`), and where in the loop there is a message
(`Held`).  `EachMessageOnce` needs that the message in progress is the last one
received of its category and the one that is processed (`Latest`), and the count
from the start-up on (`AllHandled`).  `OnlyReceivedInOrder` needs that the number in the
object, however often decoding has failed, is one that was received, with nothing later
handed over for its category (`Stale`); `OrderStep` then extends the order by one.

**Redis subscriber** (`RedisSubscriberProofs`).

    IInv == /\ TypeOK /\ Holding /\ Delivered /\ Complete /\ Leaving /\ Untouched
            /\ NoGapAfterRegistration

What the event thread looks for was registered (`Delivered`), what is registered is
in the map until the object is deleted (`Complete`), and that happens after SIGTERM
with nothing left but to exit (`Leaving`): hence `CallbackFindsSubscription` and
`StaleOnlyAtExit`.  `NoEventIsSkipped` (`NoGapAfterRegistration`) is inductive once
nothing of a category that is not registered has been handled (`Untouched`): what is received of a category, what its queue holds in order, and
what was published before the registration make up the numbers published, and
publishing appends to the one what receiving takes off the other.

**Composition** (`PubSubProofs`).  The invariant is about one subscription at a
time: the events travel in the order they were sent, after what is measured and
before what comes next (`Travelling`); the counters are those of the numbers
received, if the burst was met at its beginning (`Tallied`); the reports are in the
order of the bursts (`InOrder`); from the first exact report on they add up
(`AddsUp`).  `TypeCorrect`, `ReportedOnce` and `ReportsAlwaysAddUp` follow from it,
and `PromiseKept`, the refinement: initial states map to initial states of
`BurstReport`, and every step of publisher, transport, subscriber or restart to a
step of it or a stutter, for each subscription.

**Keys** (`CpsObjectProofs`).  Theorems about operators, for every key and whatever
stood in its memory: `SetChangesOneElement`, `InitFromArrayElements`, `KeyFields`,
`CopyIsWhole`, `ShortFilterSeesLength`, and `KeySurvivesWire`: what
`cps_api_array_to_object()` makes of a message begins with a copy of the sender's key
and goes on with the attributes, unit by unit.  They assume what the code asserts of
its arguments (`Assertion`), and rest on `WordRoundTrip` and `StoredOnce`: a word is read
as it was stored, and stored in one way only.

**Objects** (`CpsObjectProofs`).  The theorems hold for any set of the five classes, any
capacities, digits of any `Base` above 0 and any `MaxUnits` above 1
(`CpsObjectAssumption`).  The inductive invariant says what the buffer is:

    IInv == TypeOK /\ want is a function on Attrs(class)
                   /\ Encodes(buf, Contents(class, want))

`Encodes(b, f)`: the buffer `b` is the TLVs of `f`, one for each attribute in its domain,
laid end to end in some order.  All six properties say less than that, and none
of them is inductive.  The argument goes in layers:

1. *Walks.*  `std_tlv_find_next()` and the iterator are loops, modelled as recursive
   functions on positions (`Turns`).  `TurnsLaid` and `FindLaid` say where such a loop
   stops in a buffer of which the boundaries are known: induction over the number of
   TLVs left, by the well-foundedness of `<`, since no induction scheme with an
   operator can be instantiated.
2. *Edits.*  Deleting a TLV leaves the encoding of the others (`CutPlaces`), adding
   one appends it (`AddEncoded`), or fails and changes nothing.  So `attr_set()` leads from
   the encoding of one function to that of another.
3. *Properties.*  `WhatWasSetIsRead` and `NothingIsLeftBehind` read the encoding;
   `ReplacingNeverFails` compares the lengths before and after; `IteratorVisitsAll` and
   `EmbeddedIsSeparate` are the walk lemmas once more, on the object alone and as the
   value of an attribute of another; `SubscriberReadsWhatWasSet` joins `KeySurvivesWire`,
   `KeyFields` and the tables of the two daemons: the key in the message is the one that
   the subscription was made with, and the three attributes, where present, are read
   under the ids they were set under.

**Ownership** (`OwnershipProofs`).  `NothingLost`, `OneOwner`, `NothingDangles` and
`DeletedOnce` are inductive only together: a deletion spares what others have
because there is one owner, and finds its handle allocated because nothing
dangles.

**Arguments** (`ArgumentsProofs`), for files of any length over any set of lines.

    IInv == /\ TypeOK /\ Begun /\ Passed /\ Failed /\ Silenced /\ Default /\ Decided
            /\ LastLineWins /\ UrlsRead

`rc` is one bit for five checks.  `Passed` says that it is 0 only if each check made so
far holds of what has been read, `Failed` that it is not 0 only if one of them does not,
or there was no file; `AlwaysRunsAsChecked` follows from the one and
`UnusedAlwaysIgnored` from the other, together with `Default` (the number of events is
1000 until a line says another) and `LastLineWins`.  `ExitAlwaysExplained` needs
`Silenced`: an error that was not told came after an unknown line, hence after the type
was found right.  `LastLineWins` rests on `KeywordIs` (the order in which the keywords
are tried tells those apart that begin with one another) and `SaidNext` (one more
line replaces what was said, or leaves it), `AlwaysRunsAsChecked` for the URLs on
`UrlsRead`: in any file, also one with words longer than their keywords, the list is
empty only if the last line about urls says nothing.  `ArgumentsAssumption` says what a line is: a
word, the tokens of its value, and how many of them stand before a blank; a single
URL or a number is one token.

**Only model-checked**: the liveness properties (`BusyTermStops`, `AsleepTermStops`,
`Served`, `LastEventReported`), which are out of the prover's reach, and the disagreements,
which are violated.  Every invariant and action property that a run checks is also proved.

## 5. What is not modelled, and why

* The libraries and brokers.  They are environment: queues that keep the order
  and lose what does not fit, a receive that returns EINTR, a service that calls
  back one event at a time.  Duplicates and reordering within a publisher do not
  occur in the transports used; `StatsStream` allows both nevertheless.
* What the headers of those libraries only declare: comparing, inserting and
  printing of keys; cloning and lists of objects; the get, set and commit
  operations, filters, events and error codes.  There is no code to translate.
* Copying a guard or a `cps::Object`, which the compiler generates and nothing in
  the repository does; the second destructor would delete what is gone.
* Messages that end in the middle of a TLV: `std_tlv_valid()` would read behind
  them.  The buffers of the model are those the setters produce.
* The systemd units and the scripts, beyond the signals and restarts they cause.
* Clocks of different machines: everything runs on one host, and its monotonic
  clock; `Stats` models what a wrapped difference would do.
* `argp`, help, wording of messages, the layout of the report.
* Class map and error code tables, the generated YANG code, the build.

## 6. Plan

Done, in the order of importance: statistics; publisher; both kinds of
subscribers; their composition and its abstraction; objects and keys; arguments;
ownership; and proofs of every safety property of all of them.

Left:

1. A daemon's life with systemd (READY, RELOADING, STOPPING against start, reload,
   stop and restart) over `Publisher`, and `PubSub` with the steps of
   `Publisher` inside a burst.
2. Theorems that go further than the runs: that a report in `PubSub` is plausible in its
   times too, and that a subscription's statistics are those of a `StatsStream`.
3. Safety facts on which the liveness properties rest, as far as they can be said
   without ENABLED (which steps a thread can be in when SIGTERM has been handled).
