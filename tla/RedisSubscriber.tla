-------------------------- MODULE RedisSubscriber --------------------------
(***************************************************************************)
(* The subscriber daemon over redis (subscriber.cpp with                   *)
(* subscriber_redis.cpp): the main thread registers a callback for each    *)
(* category and sleeps until SIGTERM; the CPS event thread, which the      *)
(* first registration starts, receives the events in the order they come   *)
(* and runs the callback, which works on the subscriptions of the object   *)
(* the main thread deletes when it stops.                                  *)
(*                                                                         *)
(* SIGTERM, sent to the process, is handled by the main thread, which      *)
(* Linux prefers when it does not block the signal.  The CPS event service *)
(* is external: it delivers the events of the registered keys, one at a    *)
(* time, and loses those published before the registration.                *)
(***************************************************************************)
EXTENDS Integers, Sequences, FiniteSets

CONSTANTS
    Cats,       \* category-list of the configuration, one key per category
    MaxEvents   \* bound: events published in each category

ASSUME RedisSubscriberAssumption == IsFiniteSet(Cats) /\ MaxEvents \in Nat

VARIABLES
    pc,             \* the next step of the main thread
    sigterm,        \* flag set by SIGTERM
    subscriptions,  \* subscriptions_m: the categories it holds
    alive,          \* has the object not been deleted
    registered,     \* the categories whose callback is registered
    published,      \* events of each category published so far
    queue,          \* events the event thread has not received yet
    evpc,           \* the next step of the event thread
    event,          \* the event it is working on
    handled         \* what each subscription's statistics were given

vars == <<pc, sigterm, subscriptions, alive, registered, published, queue, evpc,
          event, handled>>

mainVars  == <<pc, sigterm, subscriptions, alive, registered>>
eventVars == <<evpc, event, handled>>

None   == <<>>
Events == Cats \X (1 .. MaxEvents)

Working == {"build", "service", "register", "ready", "pause", "paused", "while",
            "stopping", "delete", "exit"}
Ended   == {"exited", "failed", "aborted"}

(* Every variable has its type in every state.                             *)
TypeOK ==
    /\ pc \in Working \cup Ended
    /\ sigterm \in {0, 1}
    /\ subscriptions \subseteq Cats /\ registered \subseteq Cats
    /\ alive \in BOOLEAN
    /\ published \in [Cats -> 0 .. MaxEvents]
    /\ queue \in Seq(Events)
    /\ evpc \in {"none", "wait", "dispatch", "at", "processor"}
    /\ event \in Events \cup {None}
    /\ handled \in [Cats -> Seq(1 .. MaxEvents)]

Init ==
    /\ pc = "build"
    /\ sigterm = 0
    /\ subscriptions = {} /\ registered = {}
    /\ alive = TRUE
    /\ published = [c \in Cats |-> 0]
    /\ queue = <<>>
    /\ evpc = "none" /\ event = None
    /\ handled = [c \in Cats |-> <<>>]

-----------------------------------------------------------------------------
(* The environment.                                                        *)

(* A publisher's event, delivered if the key is registered.                *)
Publish(c) ==
    /\ pc \notin Ended
    /\ published[c] < MaxEvents
    /\ published' = [published EXCEPT ![c] = @ + 1]
    /\ queue' = IF c \in registered THEN Append(queue, <<c, published'[c]>>)
                                    ELSE queue
    /\ UNCHANGED mainVars /\ UNCHANGED eventVars

(* The handler: only a pause() that has begun returns for it.              *)
HandleTerm ==
    /\ pc \notin Ended
    /\ sigterm' = 1
    /\ pc' = IF pc = "paused" THEN "while" ELSE pc
    /\ UNCHANGED <<subscriptions, alive, registered, published, queue>>
    /\ UNCHANGED eventVars

-----------------------------------------------------------------------------
(* The main thread.                                                        *)

others == <<sigterm, published, queue, event, handled>>

Goto(from, to) == pc = from /\ pc' = to
Pass(from, to) ==
    /\ Goto(from, to)
    /\ UNCHANGED <<subscriptions, alive, registered, evpc>> /\ UNCHANGED others

(* Wrong: the class above the categories is registered before the map is   *)
(* complete.                                                               *)
AddRegistered(c) ==
    /\ pc = "build" /\ c \notin subscriptions
    /\ subscriptions' = subscriptions \cup {c}
    /\ registered' = Cats /\ evpc' = IF evpc = "none" THEN "wait" ELSE evpc
    /\ pc' = IF subscriptions' = Cats THEN "ready" ELSE pc
    /\ UNCHANGED alive /\ UNCHANGED others

(* The constructor of the base class fills subscriptions_m, or the program *)
(* ends: the class map cannot be loaded, or a key not be made.             *)
AddSubscription(c) ==
    /\ pc = "build" /\ c \notin subscriptions
    /\ \/ /\ subscriptions' = subscriptions \cup {c}
          /\ pc' = IF subscriptions' = Cats THEN "service" ELSE pc
       \/ pc' = "failed" /\ UNCHANGED subscriptions
    /\ UNCHANGED <<alive, registered, evpc>> /\ UNCHANGED others

(* Wrong: on a failure the object is deleted, and the program goes on.     *)
InitOrDelete ==
    \/ Pass("service", "register")
    \/ /\ Goto("service", "register")
       /\ alive' = FALSE
       /\ UNCHANGED <<subscriptions, registered, evpc>> /\ UNCHANGED others

(* The event service, the event thread and the connection are initialized, *)
(* or the program ends.                                                    *)
InitService == Pass("service", "register") \/ Pass("service", "failed")

(* One cps_api_event_thread_reg() per subscription; the first one starts   *)
(* the thread.                                                             *)
Register(c) ==
    /\ pc = "register" /\ c \in subscriptions \ registered
    /\ \/ /\ registered' = registered \cup {c}
          /\ evpc' = IF evpc = "none" THEN "wait" ELSE evpc
          /\ pc' = IF registered' = subscriptions THEN "ready" ELSE pc
       \/ pc' = "failed" /\ UNCHANGED <<registered, evpc>>
    /\ UNCHANGED <<subscriptions, alive>> /\ UNCHANGED others

NotifyReady == Pass("ready", "pause")
Pause       == Pass("pause", "paused")
TestNothing == Pass("while", "pause")   \* wrong: a loop without end
TestTerm    == Pass("while", IF sigterm = 0 THEN "pause" ELSE "stopping")

NotifyStopping == Pass("stopping", "delete")

(* delete subscriber_p, with the event thread running.                     *)
Delete ==
    /\ Goto("delete", "exit")
    /\ subscriptions' = {}
    /\ alive' = FALSE
    /\ UNCHANGED <<registered, evpc>> /\ UNCHANGED others

Exit == Pass("exit", "exited")

Main ==
    \/ \E c \in Cats : AddSubscription(c) \/ Register(c)
    \/ InitService \/ NotifyReady \/ Pause \/ TestTerm
    \/ NotifyStopping \/ Delete \/ Exit

-----------------------------------------------------------------------------
(* The event thread, until the process ends.                               *)

EventGoto(from, to) == pc \notin Ended /\ evpc = from /\ evpc' = to

Receive ==
    /\ EventGoto("wait", "dispatch")
    /\ queue # <<>>
    /\ event' = Head(queue)
    /\ queue' = Tail(queue)
    /\ UNCHANGED <<published, handled>> /\ UNCHANGED mainVars

(* callback(): the context is the object itself.                           *)
Callback ==
    /\ EventGoto("dispatch", "at")
    /\ UNCHANGED <<published, queue, event, handled>> /\ UNCHANGED mainVars

(* process_event(): the look-up throws if the category is not there; in an *)
(* object that is gone it finds anything.                                  *)
Found ==
    /\ EventGoto("at", "processor")
    /\ event[1] \in subscriptions \/ ~alive
    /\ UNCHANGED <<published, queue, event, handled>> /\ UNCHANGED mainVars

NotFound ==
    /\ evpc = "at" /\ pc \notin Ended
    /\ event[1] \notin subscriptions
    /\ pc' = "aborted"
    /\ UNCHANGED <<evpc, subscriptions, alive, registered>> /\ UNCHANGED others

(* Wrong: the callback ignores the events that come after SIGTERM, or      *)
(* makes the event thread stop.                                            *)
ProcessUnlessTerm ==
    /\ EventGoto("processor", "wait")
    /\ handled' = IF alive /\ sigterm = 0
                  THEN [handled EXCEPT ![event[1]] = Append(@, event[2])]
                  ELSE handled
    /\ event' = None
    /\ UNCHANGED <<published, queue>> /\ UNCHANGED mainVars

ProcessOnce ==
    /\ EventGoto("processor", "none")
    /\ handled' = IF alive THEN [handled EXCEPT ![event[1]] = Append(@, event[2])]
                           ELSE handled
    /\ event' = None
    /\ UNCHANGED <<published, queue>> /\ UNCHANGED mainVars

Process ==
    /\ EventGoto("processor", "wait")
    /\ handled' = IF alive THEN [handled EXCEPT ![event[1]] = Append(@, event[2])]
                           ELSE handled
    /\ event' = None
    /\ UNCHANGED <<published, queue>> /\ UNCHANGED mainVars

EventThread == Receive \/ Callback \/ Found \/ NotFound \/ Process

Next ==
    \/ Main \/ EventThread \/ HandleTerm
    \/ \E c \in Cats : Publish(c)

Spec == Init /\ [][Next]_vars

(* Both threads are scheduled.                                             *)
FairSpec == Spec /\ WF_vars(Main) /\ WF_vars(EventThread)

-----------------------------------------------------------------------------
(* A callback finds the subscription of its event, even one that runs      *)
(* while the constructor is still registering the other categories, as     *)
(* long as the object has not been deleted: the map is complete before the *)
(* first registration.                                                     *)
CallbackFindsSubscription ==
    alive /\ event # None => event[1] \in subscriptions

(* The object is deleted while the event thread may be in a callback on    *)
(* it; but only after a SIGTERM, with nothing left to do but to exit.  No  *)
(* failure and no other signal takes the object from a subscriber that     *)
(* goes on.                                                                *)
StaleOnlyAtExit ==
    evpc \in {"dispatch", "at", "processor"} /\ ~alive =>
        sigterm = 1 /\ pc \in {"exit", "exited", "aborted"}

(* The events of a category that the event thread has received, and the    *)
(* places of those it has not.                                             *)
Got(c) == handled[c] \o (IF event # None /\ event[1] = c THEN <<event[2]>> ELSE <<>>)
InQueue(c) == { i \in 1 .. Len(queue) : queue[i][1] = c }

(* Its first events, as many as lost says, are lost; what has been         *)
(* received are the next ones, and what waits in the queue are, in order,  *)
(* the others up to the last one published.                                *)
NoGap(c, lost) ==
    /\ lost + Len(Got(c)) <= published[c]
    /\ \A i \in 1 .. Len(Got(c)) : Got(c)[i] = lost + i
    /\ { queue[i][2] : i \in InQueue(c) } = lost + Len(Got(c)) + 1 .. published[c]
    /\ \A i, j \in InQueue(c) : i < j => queue[i][2] < queue[j][2]

(* From its registration on, the statistics of a category get all its      *)
(* events, in order, without a gap: only those published before are lost.  *)
NoGapAfterRegistration ==
    alive => \A c \in registered : \E lost \in 0 .. published[c] : NoGap(c, lost)

(* What was delivered before SIGTERM is handled, if nothing stops the      *)
(* program.                                                                *)
Served == queue # <<>> ~> queue = <<>> \/ sigterm = 1 \/ pc \in Ended

(* A SIGTERM that finds the main thread asleep, or on its way back from    *)
(* sleep, ends the program.                                                *)
AsleepTermStops ==
    (sigterm = 1 /\ pc \in {"while", "stopping", "delete", "exit"})
        ~> pc \in Ended
=============================================================================
