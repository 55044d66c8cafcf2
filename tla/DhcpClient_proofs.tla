------------------------- MODULE DhcpClient_proofs -------------------------
(***************************************************************************)
(* Proofs about the client with its timer: it implements the connection    *)
(* whose timeout passes and is reported at will, and no deadline is left   *)
(* without a kernel timer, however early the kernel delivers.              *)
(***************************************************************************)
EXTENDS DhcpClient, DhcpConnection_proofs

USE DEF Times, Deadlines

-----------------------------------------------------------------------------
(***************************************************************************)
(* Type correctness.                                                       *)
(***************************************************************************)

\* The earlier of two deadlines is a deadline.
LEMMA SoonerIsDeadline ==
    ASSUME NEW s \in {0} \cup Deadlines, NEW t \in {0} \cup Deadlines
    PROVE  Sooner(s, t) \in {0} \cup Deadlines
BY DEF Sooner

\* An interval rounded up to the kernel's unit is a natural number.
LEMMA RoundUpNat == ASSUME NEW n \in Nat \ {0} PROVE RoundUp(n) \in Nat
<1>1. n + Unit - 1 \in Nat
  BY UnitAssumption
<1>2. (n + Unit - 1) \div Unit \in Nat
  BY <1>1, UnitAssumption
<1>3. \A a, b \in Nat : a * b \in Nat
  OBVIOUS
<1> QED
  BY <1>2, <1>3, UnitAssumption DEF RoundUp

LEMMA ClientTypeKept == ClientTypeOK /\ [ClientNext]_clientVars => ClientTypeOK'
<1> SUFFICES ASSUME ClientTypeOK, [ClientNext]_clientVars
             PROVE  ClientTypeOK'
  OBVIOUS
<1> USE TimeAssumption DEF ClientTypeOK
<1>1. CASE Call
  <2>1. rel' = rel /\ now' = now /\ scheduled' = scheduled /\ knote' = knote /\ expiry' = expiry /\ busy' = TRUE
    BY <1>1 DEF Call, timer
  <2>2. CASE Reset
    BY <2>1, <2>2 DEF Reset
  <2>3. CASE StartDrain
    BY <2>1, <2>3, DrainAssumption DEF StartDrain
  <2>4. CASE OtherCall
    BY <2>1, <2>4 DEF OtherCall
  <2> QED
    BY <1>1, <2>2, <2>3, <2>4 DEF Call
<1>2. ASSUME NEW t \in {0} \cup Deadlines, SetRetry(t)
      PROVE  ClientTypeOK'
  BY <1>2 DEF SetRetry, timer
<1>3. CASE ArmTimer
  <2>1. Timeout \in {0} \cup Deadlines
    BY SoonerIsDeadline DEF Timeout
  <2>2. now' = now /\ deadline' = deadline /\ retry' = retry /\ expiry' = expiry
        /\ busy' = FALSE /\ scheduled' = Timeout
    BY <1>3 DEF ArmTimer
  <2>3. knote' \in {knote, "off"}
    BY <1>3 DEF ArmTimer
  <2>4. rel' \in Nat
    BY <1>3, <2>1 DEF ArmTimer
  <2> QED
    BY <2>1, <2>2, <2>3, <2>4
<1>4. CASE KeventAdd
  <2>1. RoundUp(rel) \in Nat
    BY <1>4, RoundUpNat DEF KeventAdd
  <2>2. Saturate(now + RoundUp(rel)) \in Times
    BY <2>1 DEF Saturate
  <2> QED
    BY <1>4, <2>2 DEF KeventAdd
<1>5. CASE Poll
  BY <1>5 DEF Poll, timer
<1>6. CASE ClientDispatch
  <2>1. CASE DispatchFired
    BY <2>1 DEF DispatchFired, TimerFired, ProbeDispatchTimer
  <2>2. CASE DispatchInterrupted \/ DispatchSocket
    BY <2>2 DEF DispatchInterrupted, DispatchSocket, timer
  <2> QED
    BY <1>6, <2>1, <2>2 DEF ClientDispatch
<1>7. CASE Tick
  BY <1>7 DEF Tick, timer
<1>8. CASE Fire
  BY <1>8 DEF Fire
<1>9. CASE Receive
  BY <1>9 DEF Receive, timer
<1>10. CASE UNCHANGED clientVars
  BY <1>10 DEF clientVars, timer
<1> HIDE DEF ClientTypeOK
<1> QED
  BY <1>1, <1>2, <1>3, <1>4, <1>5, <1>6, <1>7, <1>8, <1>9, <1>10 DEF ClientNext

LEMMA InitialClientTypes == ClientInit => ClientTypeOK
<1> SUFFICES ASSUME ClientInit
             PROVE  ClientTypeOK
  OBVIOUS
<1>1. now \in Times /\ expiry \in Times /\ rel \in Nat
  BY TimeAssumption DEF ClientInit
<1>2. busy \in BOOLEAN
  BY Zenon DEF ClientInit
<1> QED
  BY <1>1, <1>2 DEF ClientInit, ClientTypeOK

\* ClientTypeOK: the clock, the deadlines and the timer keep their types.
THEOREM ClientTypeCorrect == ClientSpec => []ClientTypeOK
BY InitialClientTypes, ClientTypeKept, PTL DEF ClientSpec

-----------------------------------------------------------------------------
(***************************************************************************)
(* The client implements the connection.                                   *)
(***************************************************************************)

\* The deadline and the phase of the drain change together.
LEMMA DeadlineMatchesDrainKept ==
    ASSUME ClientTypeOK, DeadlineMatchesDrain, TypeOK, ConnectionInv, [ClientNext]_clientVars
    PROVE  DeadlineMatchesDrain'
<1> USE DEF DeadlineMatchesDrain, ClientTypeOK
<1>1. CASE Call
  <2>1. now' = now
    BY <1>1 DEF Call
  <2>2. CASE Reset
    BY <2>1, <2>2 DEF Reset, Listen, ListenFails, DropBoth, Close
  <2>3. CASE StartDrain
    BY <2>1, <2>3, DrainAssumption DEF StartDrain, ConnectShutdown
  <2>4. CASE OtherCall
    BY <2>1, <2>4 DEF OtherCall, ConnectionInit, Connect, ConnectAdd, ConnectFails
  <2> QED
    BY <1>1, <2>2, <2>3, <2>4 DEF Call
<1>2. ASSUME NEW t \in {0} \cup Deadlines, SetRetry(t)
      PROVE  DeadlineMatchesDrain'
  BY <1>2 DEF SetRetry, vars
<1>3. CASE ArmTimer \/ KeventAdd \/ Poll \/ Fire
  BY <1>3 DEF ArmTimer, KeventAdd, Poll, Fire, vars
<1>4. CASE ClientDispatch
  <2>1. CASE DispatchFired
    BY <2>1 DEF DispatchFired, ProbeDispatchTimer, ClosePacket
  <2>2. CASE DispatchInterrupted
    BY <2>2 DEF DispatchInterrupted
  <2>3. CASE DispatchSocket
    <3>1. CASE CloseDrained
      BY <2>3, <3>1 DEF DispatchSocket, CloseDrained, ClosePacket
    <3>2. ASSUME DispatchPacket \/ DispatchDraining \/ DispatchUdp \/ RecvFails, pc # "drained"
          PROVE  DeadlineMatchesDrain'
      <4>1. UNCHANGED <<now, deadline, drain>>
        BY <2>3, <3>2 DEF DispatchSocket, DispatchPacket, DispatchDraining, DispatchUdp, RecvFails
      <4> QED
        BY <4>1
    <3>3. DispatchPacket \/ DispatchDraining \/ DispatchUdp \/ RecvFails => pc # "drained"
      BY DEF DispatchPacket, DispatchDraining, DispatchUdp, RecvFails, NextEvent, InHand
    <3> QED
      BY <2>3, <3>1, <3>2, <3>3 DEF DispatchSocket
  <2> QED
    BY <1>4, <2>1, <2>2, <2>3 DEF ClientDispatch
<1>5. CASE Tick
  BY <1>5 DEF Tick
<1>6. CASE Receive
  BY <1>6 DEF Receive, Arrive
<1>7. CASE UNCHANGED clientVars
  BY <1>7 DEF clientVars, vars
<1> HIDE DEF DeadlineMatchesDrain
<1> QED
  BY <1>1, <1>2, <1>3, <1>4, <1>5, <1>6, <1>7 DEF ClientNext

\* Every step of the client is a step of the connection or leaves it alone.
LEMMA ClientStep ==
    ASSUME TypeOK, ClientTypeOK, DeadlineMatchesDrain, [ClientNext]_clientVars
    PROVE  [Next]_vars
<1>1. CASE Call
  <2>1. CASE Reset \/ StartDrain \/ OtherCall
    BY <2>1 DEF Reset, StartDrain, OtherCall, Calls, Next
  <2> QED
    BY <1>1, <2>1 DEF Call
<1>2. CASE \E t \in {0} \cup Deadlines : SetRetry(t)
  BY <1>2 DEF SetRetry
<1>3. CASE ArmTimer \/ KeventAdd \/ Fire
  BY <1>3 DEF ArmTimer, KeventAdd, Fire
<1>4. CASE Poll
  <2> DEFINE fired == IF knote = "active" THEN {"timer"} ELSE {}
  <2>1. fired \in {{}, {"timer"}}
    OBVIOUS
  <2>2. Collect(ReadableSockets \cup fired)
    BY <1>4 DEF Poll
  <2> HIDE DEF fired
  <2>3. PollWait
    BY <1>4, <2>1, <2>2 DEF Poll, PollWait
  <2> QED
    BY <2>3 DEF Next
<1>5. CASE ClientDispatch
  <2>1. CASE DispatchFired
    <3>1. CASE deadline # 0 /\ deadline < now
      <4>1. drain = "passed" /\ ClosePacket
        BY <2>1, <3>1 DEF DispatchFired, ProbeDispatchTimer, DeadlineMatchesDrain
      <4> QED
        BY <2>1, <4>1 DEF DispatchFired, DispatchTimer, Dispatch, Next
    <3>2. CASE ~(deadline # 0 /\ deadline < now)
      <4>1. UNCHANGED <<state, open, watched, shut, packets, drain>>
        BY <2>1, <3>2 DEF DispatchFired, ProbeDispatchTimer
      <4> QED
        BY <2>1, <4>1 DEF DispatchFired, DispatchTimer, Dispatch, Next
    <3> QED
      BY <3>1, <3>2
  <2>2. CASE DispatchInterrupted
    BY <2>2 DEF DispatchInterrupted, DispatchTimer, Dispatch, Next, sockets
  <2>3. CASE DispatchSocket
    BY <2>3 DEF DispatchSocket, Dispatch, Next
  <2> QED
    BY <1>5, <2>1, <2>2, <2>3 DEF ClientDispatch
<1>6. CASE Tick
  <2>1. CASE drain' = drain
    BY <1>6, <2>1 DEF Tick, vars
  <2>2. CASE drain' # drain
    <3>1. drain \in {"none", "running", "passed"}
      BY DEF TypeOK
    <3>2. deadline # 0 /\ drain' = "passed"
      BY <1>6, <2>2 DEF Tick
    <3>3. drain = "running"
      BY <2>2, <3>1, <3>2 DEF DeadlineMatchesDrain
    <3>4. DrainPasses
      BY <1>6, <3>2, <3>3 DEF Tick, DrainPasses
    <3> QED
      BY <3>4 DEF Next
  <2> QED
    BY <2>1, <2>2
<1>7. CASE Receive
  BY <1>7 DEF Receive, Next
<1>8. CASE UNCHANGED clientVars
  BY <1>8 DEF clientVars
<1> QED
  BY <1>1, <1>2, <1>3, <1>4, <1>5, <1>6, <1>7, <1>8 DEF ClientNext

\* The steps keep everything that both modules know of each other.
ClientSafe == TypeOK /\ ConnectionInv /\ ClientTypeOK /\ DeadlineMatchesDrain

\* What holds of the connection and its types holds of the client, and the drain's
\* deadline is set exactly while there is a drain.
THEOREM ClientSafety == ClientSpec => []ClientSafe
<1>1. ClientInit => ClientSafe
  <2>1. ClientInit => Init /\ DeadlineMatchesDrain
    BY DEF ClientInit, Init, DeadlineMatchesDrain
  <2> QED
    BY <2>1, InitialTypes, InitialConnection, InitialClientTypes DEF ClientSafe
<1>2. ClientSafe /\ [ClientNext]_clientVars => ClientSafe'
  <2> SUFFICES ASSUME ClientSafe, [ClientNext]_clientVars
               PROVE  ClientSafe'
    OBVIOUS
  <2>1. [Next]_vars
    BY ClientStep DEF ClientSafe
  <2>2. TypeOK'
    BY <2>1, TypesKept DEF ClientSafe
  <2>3. ConnectionInv'
    BY <2>1, ConnectionInvKept DEF ClientSafe
  <2>4. ClientTypeOK' /\ DeadlineMatchesDrain'
    BY ClientTypeKept, DeadlineMatchesDrainKept DEF ClientSafe
  <2> QED
    BY <2>2, <2>3, <2>4 DEF ClientSafe
<1> QED
  BY <1>1, <1>2, PTL DEF ClientSpec

\* ImplementsConnection: the client with its clock and kernel timer behaves like
\* the connection of DhcpConnection, so all that is proved of that one holds here.
THEOREM ClientImplementsConnection == ClientSpec => ImplementsConnection
<1>1. ClientInit => Init
  BY DEF ClientInit
<1>2. ClientSafe /\ [ClientNext]_clientVars => [Next]_vars
  BY ClientStep DEF ClientSafe
<1> QED
  BY <1>1, <1>2, ClientSafety, PTL DEF ClientSpec, ImplementsConnection, Spec

\* TimeoutBelongsToDrain and EventFindsSocket, of the client.
THEOREM ClientSockets == ClientSpec => [](TimeoutBelongsToDrain /\ EventFindsSocket)
BY ClientImplementsConnection, TimeoutOnlyInDrain, EventsFindSockets, PTL DEF ImplementsConnection

-----------------------------------------------------------------------------
(***************************************************************************)
(* No deadline without a kernel timer.                                     *)
(***************************************************************************)

LEMMA KernelTimerStays ==
    ClientTypeOK /\ KernelTimerKept /\ [ClientNext]_clientVars => KernelTimerKept'
<1> SUFFICES ASSUME ClientTypeOK, KernelTimerKept, [ClientNext]_clientVars
             PROVE  KernelTimerKept'
  OBVIOUS
<1> USE DEF KernelTimerKept, Timeout
<1>1. CASE Call
  BY <1>1 DEF Call, timer
<1>2. ASSUME NEW t \in {0} \cup Deadlines, SetRetry(t)
      PROVE  KernelTimerKept'
  BY <1>2 DEF SetRetry, timer
<1>3. CASE ArmTimer
  <2>1. Timeout \in Nat /\ now \in Nat
    BY SoonerIsDeadline, TimeAssumption DEF ClientTypeOK
  <2>2. scheduled' = Timeout /\ Timeout' = Timeout /\ busy' = FALSE
        /\ events' = <<>> /\ pc' = "ready"
    BY <1>3 DEF ArmTimer, vars
  <2>3. (rel' = 0 /\ scheduled' # 0) => knote' \in {"armed", "active"}
    BY <1>3, <2>1, <2>2 DEF ArmTimer
  <2> QED
    BY <2>2, <2>3
<1>4. CASE KeventAdd
  BY <1>4 DEF KeventAdd, vars
<1>5. CASE Poll
  BY <1>5 DEF Poll, timer
<1>6. CASE ClientDispatch
  <2>1. CASE DispatchFired
    BY <2>1 DEF DispatchFired, NextEvent, InHand, TimerFired
  <2>2. CASE DispatchInterrupted
    BY <2>2 DEF DispatchInterrupted, NextEvent, InHand, timer
  <2>3. CASE DispatchSocket
    BY <2>3 DEF DispatchSocket, DispatchPacket, DispatchDraining, DispatchUdp,
       RecvFails, CloseDrained, NextEvent, InHand, timer
  <2> QED
    BY <1>6, <2>1, <2>2, <2>3 DEF ClientDispatch
<1>7. CASE Tick \/ Fire
  BY <1>7 DEF Tick, Fire, timer, vars
<1>8. CASE Receive
  BY <1>8 DEF Receive, Arrive, timer
<1>9. CASE UNCHANGED clientVars
  BY <1>9 DEF clientVars, timer, vars
<1> HIDE DEF KernelTimerKept
<1> QED
  BY <1>1, <1>2, <1>3, <1>4, <1>5, <1>6, <1>7, <1>8, <1>9 DEF ClientNext

\* ClientInv: the drain's deadline fits its phase, and a deadline that was asked
\* for is with the kernel.
THEOREM ClientInvariant == ClientSpec => []ClientInv
<1>1. ClientInit => KernelTimerKept
  BY DEF ClientInit, Init, KernelTimerKept, Timeout, Sooner
<1>2. ClientSafe => DeadlineMatchesDrain
  BY DEF ClientSafe
<1> QED
  BY <1>1, <1>2, KernelTimerStays, ClientTypeCorrect, ClientSafety, PTL DEF ClientSpec, ClientInv

\* NoLostWakeup: between two calls a pending deadline has a kernel timer behind
\* it, for any unit of the timer and however early it is delivered.
THEOREM ClientNeverForgets == ClientSpec => []NoLostWakeup
<1>1. ClientInv => NoLostWakeup
  BY DEF ClientInv, KernelTimerKept, NoLostWakeup
<1> QED
  BY <1>1, ClientInvariant, PTL

-----------------------------------------------------------------------------
(***************************************************************************)
(* The kernel timer is an absolute timer whose clock is Early ahead.       *)
(***************************************************************************)

\* What n_dhcp4_client_dispatch() can see of the timer.  A timer that is left to
\* fire once more without a deadline stands for one that has long passed.
SeenDeadline ==
    IF rel = 0 /\ knote = "off" THEN 0 ELSE IF scheduled = 0 THEN 1 ELSE scheduled

SeenReadable == rel = 0 /\ knote = "active"

\* What the client was promised of its timer, on the clock of a kernel that is early.
Promise == INSTANCE DeadlineTimer WITH
    Times <- 0 .. MaxTime + Early,
    Deadlines <- Deadlines,
    now <- now + Early,
    deadline <- SeenDeadline,
    readable <- SeenReadable

\* An interval in flight, and the timer it became, still reach the deadline it was
\* computed for.
IntervalReachesDeadline ==
    /\ now # 0
    /\ IF rel # 0 THEN scheduled <= now + rel
                  ELSE knote # "off" => scheduled <= expiry

\* Rounding an interval up to the kernel's unit never shortens it.
LEMMA RoundUpIsLater ==
    ASSUME NEW n \in Nat \ {0}
    PROVE  RoundUp(n) \in Nat /\ n <= RoundUp(n)
<1> DEFINE m == n + Unit - 1
           q == m \div Unit
<1>1. Unit \in Nat \ {0} /\ m \in Nat
  BY UnitAssumption
<1>2. q \in Nat /\ m % Unit \in 0 .. Unit - 1 /\ m = Unit * q + (m % Unit)
  BY <1>1
<1>3. q * Unit = Unit * q /\ q * Unit \in Nat
  BY <1>1, <1>2
<1> QED
  BY <1>1, <1>2, <1>3 DEF RoundUp

LEMMA IntervalStillReaches ==
    ASSUME ClientTypeOK, ClientTypeOK', IntervalReachesDeadline, [ClientNext]_clientVars
    PROVE  IntervalReachesDeadline'
<1> USE TimeAssumption DEF IntervalReachesDeadline
<1>1. CASE Call
  BY <1>1 DEF Call, timer
<1>2. ASSUME NEW t \in {0} \cup Deadlines, SetRetry(t)
      PROVE  IntervalReachesDeadline'
  BY <1>2 DEF SetRetry, timer
<1>3. CASE ArmTimer
  <2>1. /\ now \in Nat /\ Timeout \in Nat /\ scheduled' = Timeout
        /\ rel = 0 /\ now' = now /\ expiry' = expiry
    BY <1>3, SoonerIsDeadline DEF ArmTimer, ClientTypeOK, Timeout
  <2>2. CASE Timeout = scheduled /\ UNCHANGED <<knote, rel>>
    BY <2>1, <2>2
  <2>3. CASE Timeout # scheduled /\ rel' = IF Timeout > now THEN Timeout - now ELSE 1
    <3>1. rel' # 0 /\ Timeout <= now + rel'
      BY <2>1, <2>3
    <3> QED
      BY <2>1, <3>1
  <2>4. CASE Timeout # scheduled /\ Timeout = 0 /\ knote' = "off" /\ UNCHANGED rel
    BY <2>1, <2>4
  <2> QED
    BY <1>3, <2>2, <2>3, <2>4 DEF ArmTimer
<1>4. CASE KeventAdd
  <2>1. now \in Nat /\ scheduled \in 0 .. Horizon /\ rel \in Nat \ {0}
    BY <1>4 DEF KeventAdd, ClientTypeOK
  <2>2. RoundUp(rel) \in Nat /\ rel <= RoundUp(rel)
    BY <2>1, RoundUpIsLater
  <2>3. scheduled <= now + RoundUp(rel)
    BY <2>1, <2>2
  <2>4. scheduled <= Saturate(now + RoundUp(rel))
    BY <2>1, <2>2, <2>3 DEF Saturate
  <2> QED
    BY <1>4, <2>4 DEF KeventAdd
<1>5. CASE Poll
  BY <1>5 DEF Poll, timer
<1>6. CASE ClientDispatch
  <2>1. CASE DispatchFired
    <3>1. now' = now /\ rel' = rel /\ scheduled' = 0 /\ knote' = "off" /\ now \in Nat /\ rel \in Nat
      BY <2>1 DEF DispatchFired, TimerFired, ClientTypeOK
    <3> QED
      BY <3>1
  <2>2. CASE DispatchInterrupted \/ DispatchSocket
    BY <2>2 DEF DispatchInterrupted, DispatchSocket, timer
  <2> QED
    BY <1>6, <2>1, <2>2 DEF ClientDispatch
<1>7. CASE Tick
  BY <1>7 DEF Tick, timer, ClientTypeOK
<1>8. CASE Fire
  BY <1>8 DEF Fire
<1>9. CASE Receive
  BY <1>9 DEF Receive, timer
<1>10. CASE UNCHANGED clientVars
  BY <1>10 DEF clientVars, timer
<1> HIDE DEF IntervalReachesDeadline
<1> QED
  BY <1>1, <1>2, <1>3, <1>4, <1>5, <1>6, <1>7, <1>8, <1>9, <1>10 DEF ClientNext

\* IntervalReachesDeadline: whatever the time between the read of the clock and the
\* call that arms the timer, no deadline is delivered too soon because of it.
THEOREM ClientIntervals == ClientSpec => []IntervalReachesDeadline
<1>1. ClientInit => IntervalReachesDeadline
  BY DEF ClientInit, IntervalReachesDeadline
<1>2. ClientTypeOK /\ ClientTypeOK' /\ IntervalReachesDeadline /\ [ClientNext]_clientVars
        => IntervalReachesDeadline'
  BY IntervalStillReaches
<1> QED
  BY <1>1, <1>2, ClientTypeCorrect, PTL DEF ClientSpec

\* arm_timer() asks for a deadline, or leaves the timer as it is.
LEMMA ArmingIsAllowed ==
    ASSUME ClientTypeOK, ArmTimer
    PROVE  Promise!Next \/ UNCHANGED Promise!vars
<1> USE DEF SeenDeadline, SeenReadable
<1>1. /\ rel = 0 /\ scheduled' = Timeout /\ now' = now
      /\ Timeout \in {0} \cup Deadlines /\ scheduled \in {0} \cup Deadlines /\ now \in Nat
  BY SoonerIsDeadline, TimeAssumption DEF ArmTimer, ClientTypeOK, Timeout
<1>2. CASE Timeout = scheduled /\ UNCHANGED <<knote, rel>>
  BY <1>1, <1>2 DEF Promise!vars
<1>3. CASE Timeout # scheduled /\ rel' = IF Timeout > now THEN Timeout - now ELSE 1
  <2>1. rel' # 0
    BY <1>1, <1>3
  <2>2. SeenDeadline' = (IF Timeout = 0 THEN 1 ELSE Timeout) /\ SeenReadable' = FALSE
    BY <1>1, <2>1
  <2>3. SeenDeadline' \in {0} \cup Deadlines
    BY <1>1, <1>3, <2>2, TimeAssumption
  <2> QED
    BY <1>1, <2>2, <2>3 DEF Promise!Next, Promise!TimerSet
<1>4. CASE Timeout # scheduled /\ Timeout = 0 /\ knote' = "off" /\ UNCHANGED rel
  <2>1. SeenDeadline' = 0 /\ SeenReadable' = FALSE
    BY <1>1, <1>4
  <2> QED
    BY <1>1, <2>1 DEF Promise!Next, Promise!TimerSet
<1> QED
  BY <1>2, <1>3, <1>4 DEF ArmTimer

LEMMA ClientTimerStep ==
    ASSUME ClientTypeOK, KernelTimerKept, IntervalReachesDeadline, [ClientNext]_clientVars
    PROVE  Promise!Next \/ UNCHANGED Promise!vars
<1> USE DEF SeenDeadline, SeenReadable
<1>1. CASE Call
  BY <1>1 DEF Call, timer, Promise!vars
<1>2. ASSUME NEW t \in {0} \cup Deadlines, SetRetry(t)
      PROVE  Promise!Next \/ UNCHANGED Promise!vars
  BY <1>2 DEF SetRetry, timer, Promise!vars
<1>3. CASE ArmTimer
  BY <1>3, ArmingIsAllowed
<1>4. CASE KeventAdd
  BY <1>4 DEF KeventAdd, Promise!vars
<1>5. CASE Poll
  BY <1>5 DEF Poll, timer, Promise!vars
<1>6. CASE ClientDispatch
  <2>1. CASE DispatchFired
    <3>1. rel = 0
      BY <2>1 DEF DispatchFired, NextEvent, InHand, KernelTimerKept, ClientTypeOK
    <3>2. knote = "active" /\ knote' = "off" /\ rel' = rel /\ now' = now
      BY <2>1 DEF DispatchFired, TimerFired
    <3>3. SeenReadable /\ SeenDeadline' = 0 /\ SeenReadable' = FALSE
      BY <3>1, <3>2
    <3> QED
      BY <3>2, <3>3 DEF Promise!Next, Promise!TimerRead
  <2>2. CASE DispatchInterrupted \/ DispatchSocket
    BY <2>2 DEF DispatchInterrupted, DispatchSocket, timer, Promise!vars
  <2> QED
    BY <1>6, <2>1, <2>2 DEF ClientDispatch
<1>7. CASE Tick
  <2>1. (now + Early)' \in 0 .. MaxTime + Early /\ (now + Early)' > now + Early
    BY <1>7, TimeAssumption, EarlyAssumption DEF Tick, ClientTypeOK
  <2> QED
    BY <1>7, <2>1 DEF Tick, timer, Promise!Next, Promise!Advance
<1>8. CASE Fire
  <2>1. CASE rel # 0
    BY <1>8, <2>1 DEF Fire, Promise!vars
  <2>2. CASE rel = 0
    <3>1. /\ now \in Nat /\ now # 0 /\ expiry \in Nat
          /\ scheduled \in {0} \cup Deadlines /\ scheduled <= expiry
      BY <1>8, <2>2, TimeAssumption DEF Fire, IntervalReachesDeadline, ClientTypeOK
    <3>2. expiry <= now + Early
      BY <1>8, <3>1, EarlyAssumption DEF Fire
    <3>3. SeenDeadline # 0 /\ SeenDeadline <= now + Early
      BY <1>8, <3>1, <3>2, TimeAssumption, EarlyAssumption DEF Fire
    <3>4. SeenDeadline' = SeenDeadline /\ ~SeenReadable /\ SeenReadable' /\ (now + Early)' = now + Early
      BY <1>8, <2>2 DEF Fire
    <3> QED
      BY <3>3, <3>4 DEF Promise!Next, Promise!Expire
  <2> QED
    BY <2>1, <2>2
<1>9. CASE Receive
  BY <1>9 DEF Receive, timer, Promise!vars
<1>10. CASE UNCHANGED clientVars
  BY <1>10 DEF clientVars, timer, Promise!vars
<1> QED
  BY <1>1, <1>2, <1>3, <1>4, <1>5, <1>6, <1>7, <1>8, <1>9, <1>10 DEF ClientNext

\* The client's timer keeps the promise of an absolute timer, on a clock that is
\* Early ahead: whatever the kernel's unit, the time between the read of the clock
\* and the call, and a timer that is replaced or left to fire once more, it is never
\* read for a deadline that has not passed on that clock.
THEOREM ClientTimerKeepsPromise == ClientSpec => Promise!Spec
<1>1. ClientInit => Promise!Init
  BY TimeAssumption, EarlyAssumption DEF ClientInit, Promise!Init, SeenDeadline, SeenReadable
<1>2. /\ ClientTypeOK /\ ClientInv /\ IntervalReachesDeadline /\ [ClientNext]_clientVars
      => [Promise!Next]_(Promise!vars)
  BY ClientTimerStep DEF ClientInv
<1> QED
  BY <1>1, <1>2, ClientTypeCorrect, ClientInvariant, ClientIntervals, PTL
     DEF ClientSpec, Promise!Spec

-----------------------------------------------------------------------------
(***************************************************************************)
(* How long a drain lasts.                                                 *)
(***************************************************************************)

\* A client leaves its drain for the UDP socket when the clock is past the deadline.
DrainTakesItsTime ==
    [][state = "DRAINING" /\ state' = "UDP" => deadline # 0 /\ deadline < now]_clientVars

\* DrainTakesItsTime: on the BSD seam every drain that is not cut short by a reset
\* lasts for all of DrainTime, although the packet socket it waits for is empty.
THEOREM BsdDrainTakesItsTime == Bsd = TRUE => (ClientSpec => DrainTakesItsTime)
<1> SUFFICES ASSUME Bsd = TRUE
             PROVE  ClientSpec => DrainTakesItsTime
  OBVIOUS
<1>1. /\ ClientSafe /\ DrainIsIdle /\ [ClientNext]_clientVars
      => [state = "DRAINING" /\ state' = "UDP" => deadline # 0 /\ deadline < now]_clientVars
  <2> SUFFICES ASSUME ClientSafe, DrainIsIdle, ClientNext, state = "DRAINING", state' = "UDP"
               PROVE  deadline # 0 /\ deadline < now
    OBVIOUS
  <2>1. [Next]_vars
    BY ClientStep DEF ClientSafe
  <2>2. drain = "passed"
    BY <2>1, UdpAfterTimeout
  <2> QED
    BY <2>2 DEF ClientSafe, DeadlineMatchesDrain
<1>2. Spec => []DrainIsIdle
  BY BsdDrainIsIdle
<1> QED
  BY <1>1, <1>2, ClientSafety, ClientImplementsConnection, PTL
     DEF ClientSpec, ImplementsConnection, DrainTakesItsTime

=============================================================================
