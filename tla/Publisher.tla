----------------------------- MODULE Publisher -----------------------------
(***************************************************************************)
(* The publisher daemon (publisher.cpp and publisher_{redis,zeromq,nano}): *)
(* one thread that sleeps in pause(), is told by SIGHUP to send a burst of *)
(* Num events and by SIGTERM to stop, and two flags that the signal        *)
(* handler sets and the thread reads.                                      *)
(*                                                                         *)
(* A signal can be handled between any two steps of the thread: neither    *)
(* signal is ever blocked, so that sending one and running its handler are *)
(* one action.  An event is its two sequence numbers; its time stamp and   *)
(* the transport's answer, which the program logs and ignores, are not     *)
(* part of this module.                                                    *)
(***************************************************************************)
EXTENDS Words, Sequences

CONSTANTS
    Num,        \* num_m: how many events a burst has (unsigned long)
    MaxHups     \* bound: SIGHUPs sent

ASSUME PublisherAssumption ==
    /\ Num \in Nat /\ Num > 0
    /\ MaxHups \in Nat

VARIABLES
    type,       \* the transport, an argument of the program
    pc,         \* the next step of the thread
    sighup,     \* flag set by SIGHUP
    sigterm,    \* flag set by SIGTERM
    seq_no,     \* the loop variable of send_events()
    status,     \* what systemd was last notified of
    offered,    \* history: the events of this burst given to send_one_event()
    bursts,     \* history: bursts begun
    hups,       \* history: SIGHUPs handled
    asked,      \* history: has a SIGHUP been handled since the last burst began
    late        \* history: events offered after a SIGTERM was handled

vars == <<type, pc, sighup, sigterm, seq_no, status, offered, bursts, hups, asked,
          late>>

flags     == <<sighup, sigterm>>
requests  == <<hups, asked>>
burstVars == <<seq_no, offered, bursts, late>>

Flag  == {0, 1}
Types == {"redis", "zeromq", "nano"}

Starting == {"construct", "open", "install_term", "install_hup"}
Running  == {"ready", "pause", "paused", "woken", "check", "reload", "clear",
             "burst", "for", "send", "rest", "while", "stopping", "close",
             "delete"}
Ended    == {"exited", "failed", "killed"}

Event == [seq_no : U32, last_seq_no : U32]

(* Wrong: the events numbered from 0.                                      *)
EventFromZero(n) == [seq_no |-> ToU32(n - 1), last_seq_no |-> ToU32(Num)]

(* What send_one_event() is given for the loop variable n: set_seq_no()    *)
(* takes its low 32 bits; the constructor did the same with num.           *)
EventOf(n) == [seq_no |-> ToU32(n), last_seq_no |-> ToU32(Num)]

(* Every variable has its type in every state.                             *)
TypeOK ==
    /\ type \in Types
    /\ pc \in Starting \cup Running \cup Ended
    /\ sighup \in Flag /\ sigterm \in Flag
    /\ seq_no \in Nat
    /\ status \in {"starting", "ready", "reloading", "stopping"}
    /\ offered \in Seq(Event)
    /\ bursts \in Nat /\ hups \in Nat /\ late \in Nat
    /\ asked \in BOOLEAN

Init ==
    /\ type \in Types
    /\ pc = "construct"
    /\ sighup = 0 /\ sigterm = 0
    /\ seq_no = 0
    /\ status = "starting"
    /\ offered = <<>>
    /\ bursts = 0 /\ hups = 0 /\ late = 0
    /\ asked = FALSE

-----------------------------------------------------------------------------
(* Signals.                                                                *)

(* The handler, whatever the thread was doing; pause() returns after it.   *)
AfterPause == IF type = "redis" THEN "woken" ELSE "check"

WakePause ==
    /\ pc' = IF pc = "paused" THEN AfterPause ELSE pc
    /\ UNCHANGED type

HandlesHup  == pc \in Running
HandlesTerm == pc \in Running \cup {"install_hup"}

HandleHup ==
    /\ HandlesHup /\ hups < MaxHups
    /\ sighup' = 1
    /\ hups' = hups + 1
    /\ asked' = TRUE
    /\ WakePause
    /\ UNCHANGED <<sigterm, status>> /\ UNCHANGED burstVars

HandleTerm ==
    /\ HandlesTerm
    /\ sigterm' = 1
    /\ WakePause
    /\ UNCHANGED <<sighup, status>> /\ UNCHANGED burstVars /\ UNCHANGED requests

(* Before its handler is installed either signal ends the process.         *)
DefaultAction ==
    /\ pc \in Starting
    /\ ~HandlesHup \/ ~HandlesTerm
    /\ pc' = "killed"
    /\ UNCHANGED <<type, status>> /\ UNCHANGED flags
    /\ UNCHANGED burstVars /\ UNCHANGED requests

-----------------------------------------------------------------------------
(* The thread.                                                             *)

Goto(from, to) == pc = from /\ pc' = to /\ UNCHANGED type

(* A step that only moves on.                                              *)
Pass(from, to) ==
    /\ Goto(from, to)
    /\ UNCHANGED status /\ UNCHANGED flags
    /\ UNCHANGED burstVars /\ UNCHANGED requests

Notify(from, to, what) ==
    /\ Goto(from, to)
    /\ status' = what
    /\ UNCHANGED flags /\ UNCHANGED burstVars /\ UNCHANGED requests

(* The constructors: of the base class, which initializes the class map    *)
(* and builds the object, and of the transport, which connects to the      *)
(* event service or opens and binds a socket.  Each may end the program.   *)
Attempt(from, to) == Pass(from, to) \/ Pass(from, "failed")

Construct  == Attempt("construct", "open")
OpenRedis  == type = "redis"  /\ Attempt("open", "install_term")
OpenZeromq == type = "zeromq" /\ Attempt("open", "install_term")
OpenNano   == type = "nano"   /\ Attempt("open", "install_term")

(* Wrong: systemd is told before the handlers are installed.               *)
InstallTermReady == Notify("install_term", "install_hup", "ready")

(* The two handlers.                                                       *)
InstallTerm == Pass("install_term", "install_hup")
InstallHup  == Pass("install_hup", "ready")
NotifyReady == Notify("ready", "pause", "ready")

(* main_loop(): pause() blocks, whatever the flags say.                    *)
Pause == Pass("pause", "paused")

(* The redis loop looks at sigterm first.                                  *)
Woken == Pass("woken", IF sigterm # 0 THEN "stopping" ELSE "check")

CheckHup == Pass("check", IF sighup # 0 THEN "reload" ELSE "while")

NotifyReloading == Notify("reload", "clear", "reloading")

(* Wrong: the flag is not cleared.                                         *)
KeepHup == Pass("clear", "burst")

ClearHup ==
    /\ Goto("clear", "burst")
    /\ sighup' = 0
    /\ UNCHANGED <<sigterm, status>> /\ UNCHANGED burstVars /\ UNCHANGED requests

(* READY=1 again, and into send_events().                                  *)
BeginBurst ==
    /\ Goto("burst", "for")
    /\ status' = "ready"
    /\ seq_no' = 1
    /\ offered' = <<>>
    /\ bursts' = bursts + 1
    /\ asked' = FALSE
    /\ UNCHANGED <<hups, late>> /\ UNCHANGED flags

(* Wrong: the burst does not look at sigterm, or is one event short.       *)
MoreAnyway == seq_no <= Num
MoreButOne == sigterm = 0 /\ seq_no < Num

(* The for loop of send_events(): its condition and its body.              *)
More == sigterm = 0 /\ seq_no <= Num

(* Wrong: the flag is cleared after the burst.                             *)
TestBurstAndClear ==
    /\ Goto("for", IF More THEN "send" ELSE "while")
    /\ sighup' = IF More THEN sighup ELSE 0
    /\ UNCHANGED <<sigterm, status>> /\ UNCHANGED burstVars /\ UNCHANGED requests

TestBurst == Pass("for", IF More THEN "send" ELSE "while")

(* The body sends one event, and rests after every fourth.                 *)
SendEvent ==
    /\ Goto("send", IF seq_no % 4 = 0 THEN "rest" ELSE "for")
    /\ offered' = Append(offered, EventOf(seq_no))
    /\ seq_no' = seq_no + 1
    /\ late' = late + sigterm
    /\ UNCHANGED <<status, bursts>> /\ UNCHANGED flags /\ UNCHANGED requests

(* send_one_event() of each transport, which logs a failure and returns:   *)
(* it is handed to the event service, or copied into the socket's queues.  *)
SendRedis  == type = "redis"  /\ SendEvent
SendZeromq == type = "zeromq" /\ SendEvent
SendNano   == type = "nano"   /\ SendEvent

(* usleep(), which a signal may cut short.                                 *)
Rest == Pass("rest", "for")

(* Wrong: a loop without end.                                              *)
TestNothing == Pass("while", "pause")

(* while (sigterm == 0), then back in publisher().                         *)
TestTerm == Pass("while", IF sigterm = 0 THEN "pause" ELSE "stopping")

NotifyStopping ==
    Notify("stopping", IF type = "redis" THEN "delete" ELSE "close", "stopping")

(* The destructors: that of the transport, if it has one, closes the       *)
(* socket; that of the base class deletes the object.                      *)
CloseZeromq == type = "zeromq" /\ Pass("close", "delete")
CloseNano   == type = "nano"   /\ Pass("close", "delete")
Delete      == Pass("delete", "exited")

Thread ==
    \/ Construct \/ OpenRedis \/ OpenZeromq \/ OpenNano \/ InstallTerm \/ InstallHup \/ NotifyReady
    \/ Pause \/ Woken \/ CheckHup \/ NotifyReloading \/ ClearHup
    \/ BeginBurst \/ TestBurst \/ SendRedis \/ SendZeromq \/ SendNano \/ Rest
    \/ TestTerm \/ NotifyStopping \/ CloseZeromq \/ CloseNano \/ Delete

Signals == HandleHup \/ HandleTerm \/ DefaultAction

Next == Thread \/ Signals

Spec == Init /\ [][Next]_vars

(* The thread is scheduled; nobody is obliged to send a signal.            *)
FairSpec == Spec /\ WF_vars(Thread)

-----------------------------------------------------------------------------
(* Once systemd has been told that the daemon is ready, neither signal     *)
(* ends it the hard way, without STOPPING=1 and the destructors: a reload  *)
(* that systemd lets through starts a burst.                               *)
ReadyIsSafe == pc = "killed" => status = "starting"

(* A burst is sent only because somebody asked for it.                     *)
OneBurstPerRequest == bursts <= hups

(* A SIGHUP that no burst has answered yet is still remembered: by the     *)
(* flag, or because the burst is about to begin.  The loop must clear the  *)
(* flag before the burst, not after it.                                    *)
RequestRemembered == asked => sighup = 1 \/ pc = "burst"

(* Once SIGTERM has been handled at most the event being sent goes out.    *)
StopsPromptly == late <= 1

(* A burst that SIGTERM did not cut has all its events.                    *)
BurstIsWhole ==
    /\ pc \in {"while", "pause", "paused", "woken", "check"}
    /\ bursts > 0 /\ sigterm = 0
    => Len(offered) = Num

(* The subscribers print their report on the event whose number is the     *)
(* last one: it is the Num-th of the burst and, below 2^32 events, no      *)
(* other.  In a longer burst, which num-events allows, both numbers wrap,  *)
(* and the events a multiple of 2^32 before it pass for the last as well.  *)
LastEventCloses ==
    \A i \in DOMAIN offered :
        offered[i].seq_no = offered[i].last_seq_no <=> (Num - i) % M32 = 0

(* A SIGTERM that is handled while the thread is busy ends the program;    *)
(* "ready" and "pause", from which the thread goes to sleep without        *)
(* looking at the flag, and "install_hup" before them, are the only steps  *)
(* in which it comes too early.                                            *)
BusyTermStops ==
    (sigterm = 1 /\ pc \in Running \ {"ready", "pause", "paused"})
        ~> pc = "exited"

-----------------------------------------------------------------------------
(* What the comments of publisher.cpp say of the flags.                    *)

(* publisher.cpp:22, "is used to terminate the program".                   *)
SigtermTerminates == sigterm = 1 ~> pc \in Ended
=============================================================================
