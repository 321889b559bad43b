-------------------------- MODULE PublisherProofs --------------------------
(***************************************************************************)
(* The safety of the publisher daemon, for every transport, every length   *)
(* of a burst and any number of signals at any step of the thread.         *)
(***************************************************************************)
EXTENDS Publisher, TLAPS

(* The inductive invariant: what each step of the thread may rely on.      *)

(* Until both handlers are installed, systemd waits.                       *)
Announced == pc \in Starting \cup {"killed"} => status = "starting"

(* Each request is answered, waiting in the flag, or about to be answered. *)
Requests ==
    /\ bursts + sighup + (IF pc = "burst" THEN 1 ELSE 0) <= hups
    /\ pc \in {"reload", "clear"} => sighup = 1
    /\ RequestRemembered

(* An event can only follow SIGTERM from the step that sends it.           *)
Lateness == late = 0 \/ (late = 1 /\ sigterm = 1 /\ pc # "send")

(* The loop variable counts the events offered; a burst is left at its end *)
(* or because of SIGTERM.                                                  *)
Counting ==
    /\ pc \in Starting \cup {"ready"} => bursts = 0
    /\ pc \in {"for", "send", "rest"} => /\ seq_no \in 1 .. Num + 1
                                         /\ Len(offered) = seq_no - 1
    /\ pc = "send" => seq_no <= Num
    /\ pc \in {"while", "pause", "paused", "woken", "check", "reload", "clear",
               "burst"} /\ bursts > 0 /\ sigterm = 0
         => Len(offered) = Num

(* The events offered are the first ones of a burst.                       *)
Offered ==
    /\ Len(offered) <= Num
    /\ \A i \in DOMAIN offered : offered[i] = EventOf(i)

IInv == TypeOK /\ Announced /\ Requests /\ Lateness /\ Counting /\ Offered

-----------------------------------------------------------------------------
(* A number below M32 keeps its value as a uint32_t; any number becomes    *)
(* one.                                                                    *)
LEMMA ToU32Type == \A n \in Nat : ToU32(n) \in U32
  BY WidthAssumption DEF ToU32, U32

LEMMA ToU32Fits == \A n \in Nat : n < M32 => ToU32(n) = n
  BY WidthAssumption DEF ToU32

LEMMA InitIInv == Init => IInv
  <1> SUFFICES ASSUME Init  PROVE IInv
    OBVIOUS
  <1>1. TypeOK
    <2>1. offered \in Seq(Event)
      BY DEF Init
    <2>2. asked \in BOOLEAN
      BY DEF Init
    <2> QED  BY <2>1, <2>2 DEF Init, TypeOK, Starting, Flag
  <1>2. Announced /\ Requests /\ Lateness /\ Counting /\ Offered
    BY PublisherAssumption
       DEF Init, Announced, Requests, RequestRemembered, Lateness, Counting, Offered, Starting
  <1> QED  BY <1>1, <1>2 DEF IInv

-----------------------------------------------------------------------------
(* One lemma per conjunct of the invariant: no step of the thread and no   *)
(* signal disturbs it.                                                     *)

(* Types.                                                                  *)
LEMMA TypeStep == IInv /\ [Next]_vars => TypeOK'
  <1> SUFFICES ASSUME IInv, [Next]_vars  PROVE TypeOK'
    OBVIOUS
  <1> USE DEF IInv, TypeOK, Flag, Starting, Running, Ended, Types, Goto, Pass, Notify, flags, requests, burstVars
  <1>1. CASE Construct \/ OpenRedis \/ OpenZeromq \/ OpenNano
    BY <1>1 DEF Construct, OpenRedis, OpenZeromq, OpenNano, Attempt
  <1>2. CASE InstallTerm
    BY <1>2 DEF InstallTerm
  <1>3. CASE InstallHup
    BY <1>3 DEF InstallHup
  <1>4. CASE NotifyReady
    BY <1>4 DEF NotifyReady
  <1>5. CASE Pause
    BY <1>5 DEF Pause
  <1>6. CASE Woken
    BY <1>6 DEF Woken
  <1>7. CASE CheckHup
    BY <1>7 DEF CheckHup
  <1>8. CASE NotifyReloading
    BY <1>8 DEF NotifyReloading
  <1>9. CASE ClearHup
    BY <1>9 DEF ClearHup
  <1>10. CASE BeginBurst
    <2>1. offered' \in Seq(Event)
      BY <1>10 DEF BeginBurst
    <2>2. asked' \in BOOLEAN
      BY <1>10 DEF BeginBurst
    <2> QED  BY <1>10, <2>1, <2>2 DEF BeginBurst
  <1>11. CASE TestBurst
    BY <1>11 DEF TestBurst, More
  <1>12. CASE SendEvent
    <2>1. EventOf(seq_no) \in Event
      BY PublisherAssumption, ToU32Type DEF EventOf, Event
    <2>2. offered' \in Seq(Event)
      BY <1>12, <2>1 DEF SendEvent
    <2> QED  BY <1>12, <2>2 DEF SendEvent
  <1>13. CASE TestTerm
    BY <1>13 DEF TestTerm
  <1>14. CASE NotifyStopping
    BY <1>14 DEF NotifyStopping
  <1>15. CASE CloseZeromq \/ CloseNano \/ Delete
    BY <1>15 DEF CloseZeromq, CloseNano, Delete
  <1>16. CASE HandleHup
    BY <1>16 DEF HandleHup, WakePause, AfterPause, HandlesHup
  <1>17. CASE HandleTerm
    BY <1>17 DEF HandleTerm, WakePause, AfterPause, HandlesTerm
  <1>18. CASE DefaultAction
    BY <1>18 DEF DefaultAction, HandlesHup, HandlesTerm
  <1>19. CASE Rest
    BY <1>19 DEF Rest
  <1>20. CASE UNCHANGED vars
    BY <1>20 DEF vars
  <1> QED  BY <1>1, <1>2, <1>3, <1>4, <1>5, <1>6, <1>7, <1>8, <1>9, <1>10,
              <1>11, <1>12, <1>13, <1>14, <1>15, <1>16, <1>17, <1>18,
              <1>19, <1>20
              DEF Next, Thread, Signals, SendRedis, SendZeromq, SendNano

(* READY=1 comes after the handlers.                                       *)
LEMMA AnnouncedStep == IInv /\ [Next]_vars => Announced'
  <1> SUFFICES ASSUME IInv, [Next]_vars  PROVE Announced'
    OBVIOUS
  <1> USE DEF IInv, TypeOK, Flag, Announced, Starting, Running, Goto, Pass, Notify, flags, requests, burstVars
  <1>1. CASE Construct \/ OpenRedis \/ OpenZeromq \/ OpenNano
    BY <1>1 DEF Construct, OpenRedis, OpenZeromq, OpenNano, Attempt
  <1>2. CASE InstallTerm
    BY <1>2 DEF InstallTerm
  <1>3. CASE InstallHup
    BY <1>3 DEF InstallHup
  <1>4. CASE NotifyReady
    BY <1>4 DEF NotifyReady
  <1>5. CASE Pause
    BY <1>5 DEF Pause
  <1>6. CASE Woken
    BY <1>6 DEF Woken
  <1>7. CASE CheckHup
    BY <1>7 DEF CheckHup
  <1>8. CASE NotifyReloading
    BY <1>8 DEF NotifyReloading
  <1>9. CASE ClearHup
    BY <1>9 DEF ClearHup
  <1>10. CASE BeginBurst
    BY <1>10 DEF BeginBurst
  <1>11. CASE TestBurst
    BY <1>11 DEF TestBurst, More
  <1>12. CASE SendEvent
    BY <1>12 DEF SendEvent
  <1>13. CASE TestTerm
    BY <1>13 DEF TestTerm
  <1>14. CASE NotifyStopping
    BY <1>14 DEF NotifyStopping
  <1>15. CASE CloseZeromq \/ CloseNano \/ Delete
    BY <1>15 DEF CloseZeromq, CloseNano, Delete
  <1>16. CASE HandleHup
    BY <1>16 DEF HandleHup, WakePause, AfterPause, HandlesHup
  <1>17. CASE HandleTerm
    BY <1>17 DEF HandleTerm, WakePause, AfterPause, HandlesTerm
  <1>18. CASE DefaultAction
    BY <1>18 DEF DefaultAction, HandlesHup, HandlesTerm
  <1>19. CASE Rest
    BY <1>19 DEF Rest
  <1>20. CASE UNCHANGED vars
    BY <1>20 DEF vars
  <1> QED  BY <1>1, <1>2, <1>3, <1>4, <1>5, <1>6, <1>7, <1>8, <1>9, <1>10,
              <1>11, <1>12, <1>13, <1>14, <1>15, <1>16, <1>17, <1>18,
              <1>19, <1>20
              DEF Next, Thread, Signals, SendRedis, SendZeromq, SendNano

(* Requests are neither forgotten nor answered twice.                      *)
LEMMA RequestsStep == IInv /\ [Next]_vars => Requests'
  <1> SUFFICES ASSUME IInv, [Next]_vars  PROVE Requests'
    OBVIOUS
  <1> USE DEF IInv, TypeOK, Flag, Requests, RequestRemembered, Starting, Running, Goto, Pass, Notify, flags, requests, burstVars
  <1>1. CASE Construct \/ OpenRedis \/ OpenZeromq \/ OpenNano
    BY <1>1 DEF Construct, OpenRedis, OpenZeromq, OpenNano, Attempt
  <1>2. CASE InstallTerm
    BY <1>2 DEF InstallTerm
  <1>3. CASE InstallHup
    BY <1>3 DEF InstallHup
  <1>4. CASE NotifyReady
    BY <1>4 DEF NotifyReady
  <1>5. CASE Pause
    BY <1>5 DEF Pause
  <1>6. CASE Woken
    BY <1>6 DEF Woken
  <1>7. CASE CheckHup
    BY <1>7 DEF CheckHup
  <1>8. CASE NotifyReloading
    BY <1>8 DEF NotifyReloading
  <1>9. CASE ClearHup
    BY <1>9 DEF ClearHup
  <1>10. CASE BeginBurst
    BY <1>10 DEF BeginBurst
  <1>11. CASE TestBurst
    BY <1>11 DEF TestBurst, More
  <1>12. CASE SendEvent
    BY <1>12 DEF SendEvent
  <1>13. CASE TestTerm
    BY <1>13 DEF TestTerm
  <1>14. CASE NotifyStopping
    BY <1>14 DEF NotifyStopping
  <1>15. CASE CloseZeromq \/ CloseNano \/ Delete
    BY <1>15 DEF CloseZeromq, CloseNano, Delete
  <1>16. CASE HandleHup
    BY <1>16 DEF HandleHup, WakePause, AfterPause, HandlesHup
  <1>17. CASE HandleTerm
    BY <1>17 DEF HandleTerm, WakePause, AfterPause, HandlesTerm
  <1>18. CASE DefaultAction
    BY <1>18 DEF DefaultAction, HandlesHup, HandlesTerm
  <1>19. CASE Rest
    BY <1>19 DEF Rest
  <1>20. CASE UNCHANGED vars
    BY <1>20 DEF vars
  <1> QED  BY <1>1, <1>2, <1>3, <1>4, <1>5, <1>6, <1>7, <1>8, <1>9, <1>10,
              <1>11, <1>12, <1>13, <1>14, <1>15, <1>16, <1>17, <1>18,
              <1>19, <1>20
              DEF Next, Thread, Signals, SendRedis, SendZeromq, SendNano

(* Once SIGTERM is set the thread does not come back to the sending step.  *)
LEMMA LatenessStep == IInv /\ [Next]_vars => Lateness'
  <1> SUFFICES ASSUME IInv, [Next]_vars  PROVE Lateness'
    OBVIOUS
  <1> USE DEF IInv, TypeOK, Flag, Lateness, Goto, Pass, Notify, flags, requests, burstVars
  <1>1. CASE Construct \/ OpenRedis \/ OpenZeromq \/ OpenNano
    BY <1>1 DEF Construct, OpenRedis, OpenZeromq, OpenNano, Attempt
  <1>2. CASE InstallTerm
    BY <1>2 DEF InstallTerm
  <1>3. CASE InstallHup
    BY <1>3 DEF InstallHup
  <1>4. CASE NotifyReady
    BY <1>4 DEF NotifyReady
  <1>5. CASE Pause
    BY <1>5 DEF Pause
  <1>6. CASE Woken
    BY <1>6 DEF Woken
  <1>7. CASE CheckHup
    BY <1>7 DEF CheckHup
  <1>8. CASE NotifyReloading
    BY <1>8 DEF NotifyReloading
  <1>9. CASE ClearHup
    BY <1>9 DEF ClearHup
  <1>10. CASE BeginBurst
    BY <1>10 DEF BeginBurst
  <1>11. CASE TestBurst
    BY <1>11 DEF TestBurst, More
  <1>12. CASE SendEvent
    BY <1>12 DEF SendEvent
  <1>13. CASE TestTerm
    BY <1>13 DEF TestTerm
  <1>14. CASE NotifyStopping
    BY <1>14 DEF NotifyStopping
  <1>15. CASE CloseZeromq \/ CloseNano \/ Delete
    BY <1>15 DEF CloseZeromq, CloseNano, Delete
  <1>16. CASE HandleHup
    BY <1>16 DEF HandleHup, WakePause, AfterPause, HandlesHup
  <1>17. CASE HandleTerm
    BY <1>17 DEF HandleTerm, WakePause, AfterPause, HandlesTerm
  <1>18. CASE DefaultAction
    BY <1>18 DEF DefaultAction, HandlesHup, HandlesTerm
  <1>19. CASE Rest
    BY <1>19 DEF Rest
  <1>20. CASE UNCHANGED vars
    BY <1>20 DEF vars
  <1> QED  BY <1>1, <1>2, <1>3, <1>4, <1>5, <1>6, <1>7, <1>8, <1>9, <1>10,
              <1>11, <1>12, <1>13, <1>14, <1>15, <1>16, <1>17, <1>18,
              <1>19, <1>20
              DEF Next, Thread, Signals, SendRedis, SendZeromq, SendNano

(* The loop variable and the events offered keep step.                     *)
LEMMA CountingStep == IInv /\ [Next]_vars => Counting'
  <1> SUFFICES ASSUME IInv, [Next]_vars  PROVE Counting'
    OBVIOUS
  <1> USE DEF IInv, TypeOK, Flag, Counting, Starting, Running, Goto, Pass, Notify, flags, requests, burstVars
  <1>1. CASE Construct \/ OpenRedis \/ OpenZeromq \/ OpenNano
    BY <1>1 DEF Construct, OpenRedis, OpenZeromq, OpenNano, Attempt
  <1>2. CASE InstallTerm
    BY <1>2 DEF InstallTerm
  <1>3. CASE InstallHup
    BY <1>3 DEF InstallHup
  <1>4. CASE NotifyReady
    BY <1>4 DEF NotifyReady
  <1>5. CASE Pause
    BY <1>5 DEF Pause
  <1>6. CASE Woken
    BY <1>6 DEF Woken
  <1>7. CASE CheckHup
    BY <1>7 DEF CheckHup
  <1>8. CASE NotifyReloading
    BY <1>8 DEF NotifyReloading
  <1>9. CASE ClearHup
    BY <1>9 DEF ClearHup
  <1>10. CASE BeginBurst
    <2>1. Len(offered') = 0
      BY <1>10 DEF BeginBurst
    <2> QED  BY <1>10, <2>1, PublisherAssumption DEF BeginBurst
  <1>11. CASE TestBurst
    BY <1>11, PublisherAssumption DEF TestBurst, More
  <1>12. CASE SendEvent
    <2>1. Len(offered') = Len(offered) + 1
      BY <1>12 DEF SendEvent
    <2> QED  BY <1>12, <2>1, PublisherAssumption DEF SendEvent
  <1>13. CASE TestTerm
    BY <1>13 DEF TestTerm
  <1>14. CASE NotifyStopping
    BY <1>14 DEF NotifyStopping
  <1>15. CASE CloseZeromq \/ CloseNano \/ Delete
    BY <1>15 DEF CloseZeromq, CloseNano, Delete
  <1>16. CASE HandleHup
    BY <1>16 DEF HandleHup, WakePause, AfterPause, HandlesHup
  <1>17. CASE HandleTerm
    BY <1>17 DEF HandleTerm, WakePause, AfterPause, HandlesTerm
  <1>18. CASE DefaultAction
    BY <1>18 DEF DefaultAction, HandlesHup, HandlesTerm
  <1>19. CASE Rest
    BY <1>19 DEF Rest
  <1>20. CASE UNCHANGED vars
    BY <1>20 DEF vars
  <1> QED  BY <1>1, <1>2, <1>3, <1>4, <1>5, <1>6, <1>7, <1>8, <1>9, <1>10,
              <1>11, <1>12, <1>13, <1>14, <1>15, <1>16, <1>17, <1>18,
              <1>19, <1>20
              DEF Next, Thread, Signals, SendRedis, SendZeromq, SendNano

(* Only the sending step adds an event, and it is the next one.            *)
LEMMA OfferedStep == IInv /\ [Next]_vars => Offered'
  <1> SUFFICES ASSUME IInv, [Next]_vars  PROVE Offered'
    OBVIOUS
  <1>1. CASE BeginBurst
    <2>1. offered' = <<>>
      BY <1>1 DEF BeginBurst
    <2>2. Len(offered') = 0 /\ DOMAIN offered' = {}
      BY <2>1
    <2> QED  BY <2>2, PublisherAssumption DEF Offered
  <1>2. CASE SendEvent
    <2>1. /\ offered \in Seq(Event) /\ seq_no \in Nat
          /\ Len(offered) = seq_no - 1 /\ seq_no <= Num
          /\ offered' = Append(offered, EventOf(seq_no))
      BY <1>2 DEF SendEvent, Goto, IInv, TypeOK, Counting
    <2>2. /\ Len(offered') = seq_no
          /\ DOMAIN offered' = 1 .. seq_no /\ DOMAIN offered = 1 .. seq_no - 1
      BY <2>1
    <2>3. ASSUME NEW i \in DOMAIN offered'  PROVE offered'[i] = EventOf(i)
      <3>1. CASE i = seq_no
        BY <2>1, <2>2, <3>1
      <3>2. CASE i # seq_no
        BY <2>1, <2>2, <2>3, <3>2 DEF IInv, Offered
      <3> QED  BY <3>1, <3>2
    <2> QED  BY <2>1, <2>2, <2>3 DEF Offered
  <1>3. CASE ~BeginBurst /\ ~SendEvent
    <2>1. UNCHANGED offered
      BY <1>3 DEF Next, Thread, Signals, vars, burstVars, Pass, Notify,
                  Construct, OpenRedis, OpenZeromq, OpenNano, Attempt, InstallTerm, InstallHup, NotifyReady, Pause, Woken,
                  CheckHup, NotifyReloading, ClearHup, TestBurst, TestTerm,
                  Rest, SendRedis, SendZeromq, SendNano, NotifyStopping,
                  CloseZeromq, CloseNano, Delete, HandleHup, HandleTerm, DefaultAction
    <2> QED  BY <2>1 DEF IInv, Offered
  <1> QED  BY <1>1, <1>2, <1>3

-----------------------------------------------------------------------------
(* The invariant holds of every behaviour of the daemon.                   *)
THEOREM InductiveInvariant == Spec => []IInv
  <1>1. IInv /\ [Next]_vars => IInv'
    BY TypeStep, AnnouncedStep, RequestsStep, LatenessStep, CountingStep,
       OfferedStep DEF IInv
  <1> QED  BY InitIInv, <1>1, PTL DEF Spec

(* Every variable keeps its type: the flags are 0 or 1, the events offered *)
(* carry two uint32_t, as the YANG model says they do.                     *)
THEOREM TypeCorrect == Spec => []TypeOK
  <1>1. IInv => TypeOK
    BY DEF IInv
  <1> QED  BY InductiveInvariant, <1>1, PTL

(* No signal kills a daemon that has told systemd that it is ready.        *)
THEOREM ReadyAlwaysSafe == Spec => []ReadyIsSafe
  <1>1. IInv => ReadyIsSafe
    BY DEF IInv, Announced, ReadyIsSafe
  <1> QED  BY InductiveInvariant, <1>1, PTL

(* No burst is sent that no SIGHUP asked for, however the signals fall     *)
(* between the steps of main_loop().                                       *)
THEOREM OneBurstPerRequestAlways == Spec => []OneBurstPerRequest
  <1>1. IInv => OneBurstPerRequest
    BY DEF IInv, TypeOK, Flag, Requests, OneBurstPerRequest
  <1> QED  BY InductiveInvariant, <1>1, PTL

(* A SIGHUP that arrives during a burst is not lost: the flag is cleared   *)
(* before the burst begins.                                                *)
THEOREM RequestAlwaysRemembered == Spec => []RequestRemembered
  <1>1. IInv => RequestRemembered
    BY DEF IInv, Requests
  <1> QED  BY InductiveInvariant, <1>1, PTL

(* After SIGTERM the burst under way sends at most one more event.         *)
THEOREM AlwaysStopsPromptly == Spec => []StopsPromptly
  <1>1. IInv => StopsPromptly
    BY DEF IInv, Lateness, StopsPromptly
  <1> QED  BY InductiveInvariant, <1>1, PTL

(* A burst that no SIGTERM interrupts has all its Num events.              *)
THEOREM BurstAlwaysWhole == Spec => []BurstIsWhole
  <1>1. IInv => BurstIsWhole
    BY DEF IInv, Counting, BurstIsWhole
  <1> QED  BY InductiveInvariant, <1>1, PTL

(* Division with remainder, and a multiple that is less than the divisor.  *)
LEMMA Division ==
    ASSUME NEW n \in Nat, NEW m \in Nat, m > 0
    PROVE  /\ n \div m \in Nat /\ n % m \in 0 .. m - 1
           /\ n = m * (n \div m) + (n % m)
  OBVIOUS

LEMMA SmallMultiple ==
    ASSUME NEW m \in Nat, NEW k \in Int, m > 0, m * k < m, -m < m * k
    PROVE  k = 0
  <1>1. CASE k > 0
    <2>1. PICK j \in Nat : k = j + 1
      BY <1>1
    <2>2. m * k = m * j + m /\ m * j >= 0
      BY <2>1
    <2> QED  BY <2>2
  <1>2. CASE k < 0
    <2>1. PICK j \in Nat : k = -j - 1
      BY <1>2
    <2>2. m * k = -(m * j) - m /\ m * j >= 0
      BY <2>1
    <2> QED  BY <2>2
  <1> QED  BY <1>1, <1>2

(* Numbers look the same as a uint32_t if they are a multiple of 2^32      *)
(* apart.                                                                  *)
LEMMA SameU32 ==
    ASSUME NEW a \in Nat, NEW b \in Nat, b <= a
    PROVE  ToU32(b) = ToU32(a) <=> (a - b) % M32 = 0
  <1> DEFINE qa == a \div M32
             qb == b \div M32
             qd == (a - b) \div M32
             ra == a % M32
             rb == b % M32
             rd == (a - b) % M32
             k  == qa - qb - qd
  <1>1. /\ qa \in Nat /\ qb \in Nat /\ qd \in Nat
        /\ ra \in 0 .. M32 - 1 /\ rb \in 0 .. M32 - 1 /\ rd \in 0 .. M32 - 1
        /\ a = M32 * qa + ra /\ b = M32 * qb + rb /\ a - b = M32 * qd + rd
    BY Division, WidthAssumption, a - b \in Nat
  <1>2. ToU32(a) = ra /\ ToU32(b) = rb
    BY DEF ToU32
  <1>3. M32 \in Nat /\ M32 > 0
    BY WidthAssumption
  <1> HIDE DEF qa, qb, qd, ra, rb, rd
  <1>4. k \in Int /\ M32 * k = M32 * qa - M32 * qb - M32 * qd
    BY <1>1, <1>3
  <1>5. M32 * k = rd - ra + rb
    BY <1>1, <1>3, <1>4
  <1>6. ra = rb => k = 0
    BY <1>1, <1>3, <1>4, <1>5, SmallMultiple
  <1>7. rd = 0 => k = 0
    BY <1>1, <1>3, <1>4, <1>5, SmallMultiple
  <1>8. k = 0 => M32 * k = 0
    BY <1>3
  <1> HIDE DEF k
  <1>9. ra = rb <=> rd = 0
    BY <1>1, <1>5, <1>6, <1>7, <1>8
  <1> QED  BY <1>2, <1>9 DEF rd

(* Only the Num-th event closes a burst for the subscribers, or one that   *)
(* the wrap-around of a uint32_t makes look like it.                       *)
THEOREM OnlyLastEventCloses == Spec => []LastEventCloses
  <1>1. ASSUME IInv  PROVE LastEventCloses
    <2> SUFFICES ASSUME NEW i \in DOMAIN offered
                 PROVE  offered[i].seq_no = offered[i].last_seq_no
                            <=> (Num - i) % M32 = 0
      BY DEF LastEventCloses
    <2>1. offered \in Seq(Event) /\ Len(offered) <= Num
      BY <1>1 DEF IInv, TypeOK, Offered
    <2>2. i \in Nat /\ i <= Num
      BY <2>1, PublisherAssumption
    <2>3. offered[i] = EventOf(i)
      BY <1>1 DEF IInv, Offered
    <2>4. ToU32(i) = ToU32(Num) <=> (Num - i) % M32 = 0
      BY <2>2, SameU32, PublisherAssumption
    <2> QED  BY <2>3, <2>4 DEF EventOf
  <1>2. IInv => LastEventCloses
    BY <1>1
  <1> QED  BY InductiveInvariant, <1>2, PTL

(* In a burst of fewer than 2^32 events no other event closes it.          *)
THEOREM NoOtherEventCloses ==
    ASSUME Num < M32
    PROVE  Spec => [](\A i \in DOMAIN offered :
                          offered[i].seq_no = offered[i].last_seq_no <=> i = Num)
  <1>1. ASSUME IInv
        PROVE  \A i \in DOMAIN offered :
                   offered[i].seq_no = offered[i].last_seq_no <=> i = Num
    <2> SUFFICES ASSUME NEW i \in DOMAIN offered
                 PROVE offered[i].seq_no = offered[i].last_seq_no <=> i = Num
      OBVIOUS
    <2>1. offered \in Seq(Event) /\ Len(offered) <= Num
      BY <1>1 DEF IInv, TypeOK, Offered
    <2>2. i \in Nat /\ i <= Num /\ i < M32
      BY <2>1, PublisherAssumption, WidthAssumption
    <2>3. offered[i] = EventOf(i)
      BY <1>1 DEF IInv, Offered
    <2>4. ToU32(i) = i /\ ToU32(Num) = Num
      BY <2>2, ToU32Fits, PublisherAssumption
    <2> QED  BY <2>3, <2>4 DEF EventOf
  <1>2. IInv => \A i \in DOMAIN offered :
                    offered[i].seq_no = offered[i].last_seq_no <=> i = Num
    BY <1>1
  <1> QED  BY InductiveInvariant, <1>2, PTL
=============================================================================
