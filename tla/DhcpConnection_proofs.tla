----------------------- MODULE DhcpConnection_proofs -----------------------
(***************************************************************************)
(* Proofs about the sockets of a client connection, for both seams and any *)
(* number of datagrams.                                                    *)
(***************************************************************************)
EXTENDS DhcpConnection, SequenceTheorems, TLAPS

-----------------------------------------------------------------------------
(***************************************************************************)
(* Type correctness.                                                       *)
(***************************************************************************)

\* Nothing queued, nothing polled.
LEMMA EmptyQueues ==
    /\ <<>> \in Seq(Kinds)
    /\ <<>> \in Seq({"timer", "io"})
    /\ Len(<<>>) <= 2
OBVIOUS

\* What poll_wait() stores are one or two known events.
LEMMA PolledEvents ==
    ASSUME TypeOK, PollWait
    PROVE  events' \in Seq({"timer", "io"}) /\ Len(events') <= 2
<1>1. \A a : Event(a) \in {"timer", "io"}
  BY DEF Event
<1>2. PICK sources : Collect(sources)
  BY DEF PollWait
<1>3. CASE \E a \in sources : sources = {a} /\ events' = <<Event(a)>>
  BY <1>1, <1>3
<1>4. CASE \E a, b \in sources : a # b /\ events' = <<Event(a), Event(b)>>
  BY <1>1, <1>4
<1> QED
  BY <1>2, <1>3, <1>4 DEF Collect

\* An IO event comes from a socket that is on the poller.
LEMMA PolledSockets ==
    ASSUME PollWait, NEW i \in DOMAIN events', events'[i] = "io"
    PROVE  watched # {}
<1>1. PICK fired \in {{}, {"timer"}} : Collect(ReadableSockets \cup fired)
  BY DEF PollWait
<1> DEFINE sources == ReadableSockets \cup fired
<1>2. \A a \in sources : a # "timer" => watched # {}
  BY DEF ReadableSockets
<1>3. CASE \E a \in sources : sources = {a} /\ events' = <<Event(a)>>
  <2>1. PICK a \in sources : events' = <<Event(a)>>
    BY <1>3
  <2>2. i = 1 /\ Event(a) = "io"
    BY <2>1
  <2> QED
    BY <1>2, <2>2 DEF Event
<1>4. CASE \E a, b \in sources : a # b /\ events' = <<Event(a), Event(b)>>
  <2>1. PICK a, b \in sources : events' = <<Event(a), Event(b)>>
    BY <1>4
  <2>2. Event(a) = "io" \/ Event(b) = "io"
    BY <2>1
  <2> QED
    BY <1>2, <2>2 DEF Event
<1> QED
  BY <1>1, <1>3, <1>4 DEF Collect

\* Serving an event leaves the others.
LEMMA ServedEvents ==
    ASSUME TypeOK, NEW e, NextEvent(e)
    PROVE  events' \in Seq({"timer", "io"}) /\ Len(events') <= 2
BY DEF TypeOK, NextEvent, InHand

\* Receiving takes packets from the front of the queue.
LEMMA ReceivedPackets ==
    ASSUME TypeOK, NEW answer, PacketRecv(answer)
    PROVE  packets' \in Seq(Kinds) /\ empty' \in BOOLEAN
<1>1. packets \in Seq(Kinds)
  BY DEF TypeOK
<1>2. ASSUME NEW n \in 1 .. Len(packets)
      PROVE  SubSeq(packets, n + 1, Len(packets)) \in Seq(Kinds)
  BY <1>1
<1>3. 1 \in 1 .. Len(packets) \/ packets = <<>>
  BY <1>1
<1> QED
  BY <1>1, <1>2, <1>3 DEF PacketRecv, PacketRecvLinux, PacketRecvBsd, Take, FoundEmpty

\* The parts of TypeOK, one for each kind of reasoning.
SetTypes ==
    /\ state \in States
    /\ open \subseteq {"packet", "udp"}
    /\ watched \subseteq {"packet", "udp"}
    /\ drain \in {"none", "running", "passed"}
    /\ pc \in {"ready", "opened", "added", "drained", "udp"}
    /\ arrived \in 0 .. MaxDatagrams

FlagTypes == shut \in BOOLEAN /\ empty \in BOOLEAN

QueueTypes ==
    /\ packets \in Seq(Kinds)
    /\ datagrams \in Seq(Kinds)
    /\ events \in Seq({"timer", "io"}) /\ Len(events) <= 2

LEMMA TypeParts == TypeOK <=> SetTypes /\ FlagTypes /\ QueueTypes
BY Zenon DEF TypeOK, SetTypes, FlagTypes, QueueTypes

LEMMA SetTypesKept == TypeOK /\ [Next]_vars => SetTypes'
<1> SUFFICES ASSUME TypeOK, [Next]_vars
             PROVE  SetTypes'
  OBVIOUS
<1>1. SetTypes
  BY TypeParts
<1> USE <1>1 DEF SetTypes, States
<1>2. CASE Calls
  <2>1. CASE ConnectionInit
    BY <2>1, BoundAssumption DEF ConnectionInit, sockets
  <2>2. CASE Listen \/ ListenFails
    BY <2>2 DEF Listen, ListenFails, DropBoth
  <2>3. CASE Connect \/ ConnectAdd \/ ConnectShutdown
    BY <2>3 DEF Connect, ConnectAdd, ConnectShutdown
  <2>4. CASE ConnectFails \/ Close
    BY <2>4 DEF ConnectFails, Close
  <2> QED
    BY <1>2, <2>1, <2>2, <2>3, <2>4 DEF Calls
<1>3. CASE PollWait
  BY <1>3 DEF PollWait, sockets
<1>4. CASE Dispatch
  <2>1. CASE DispatchTimer
    BY <2>1 DEF DispatchTimer, ClosePacket
  <2>2. CASE DispatchPacket \/ DispatchDraining
    BY <2>2 DEF DispatchPacket, DispatchDraining
  <2>3. CASE CloseDrained \/ DispatchUdp
    BY <2>3 DEF CloseDrained, DispatchUdp, ClosePacket
  <2>4. CASE RecvFails
    BY <2>4 DEF RecvFails, sockets
  <2> QED
    BY <1>4, <2>1, <2>2, <2>3, <2>4 DEF Dispatch
<1>5. ASSUME NEW socket \in {"packet", "udp"}, NEW k \in Kinds, Arrive(socket, k)
      PROVE  SetTypes'
  BY <1>5, BoundAssumption DEF Arrive
<1>6. CASE DrainPasses
  BY <1>6 DEF DrainPasses, sockets
<1>7. CASE UNCHANGED vars
  BY <1>7 DEF vars, sockets
<1> QED
  BY <1>2, <1>3, <1>4, <1>5, <1>6, <1>7 DEF Next

LEMMA FlagTypesKept == TypeOK /\ [Next]_vars => FlagTypes'
<1> SUFFICES ASSUME TypeOK, [Next]_vars
             PROVE  FlagTypes'
  OBVIOUS
<1>1. FlagTypes
  BY TypeParts
<1> USE <1>1 DEF FlagTypes
<1>2. CASE Calls
  BY <1>2, Zenon DEF Calls, ConnectionInit, Listen, ListenFails, Connect, ConnectAdd,
     ConnectShutdown, ConnectFails, Close, DropBoth, PacketShutdown, sockets
<1>3. CASE PollWait
  BY <1>3, Zenon DEF PollWait, sockets
<1>4. CASE Dispatch
  BY <1>4, ReceivedPackets, Zenon DEF Dispatch, DispatchTimer, DispatchPacket,
     DispatchDraining, CloseDrained, DispatchUdp, RecvFails, ClosePacket, UdpRecv, sockets
<1>5. ASSUME NEW socket \in {"packet", "udp"}, NEW k \in Kinds, Arrive(socket, k)
      PROVE  FlagTypes'
  BY <1>5, Zenon DEF Arrive
<1>6. CASE DrainPasses
  BY <1>6, Zenon DEF DrainPasses, sockets
<1>7. CASE UNCHANGED vars
  BY <1>7, Zenon DEF vars, sockets
<1> QED
  BY <1>2, <1>3, <1>4, <1>5, <1>6, <1>7, Zenon DEF Next

LEMMA QueueTypesKept == TypeOK /\ [Next]_vars => QueueTypes'
<1> SUFFICES ASSUME TypeOK, [Next]_vars
             PROVE  QueueTypes'
  OBVIOUS
<1>1. QueueTypes
  BY TypeParts
<1> USE <1>1 DEF QueueTypes
<1>2. CASE Calls
  <2>1. packets' \in {packets, <<>>} /\ datagrams' \in {datagrams, <<>>} /\ events' \in {events, <<>>}
    BY <1>2 DEF Calls, ConnectionInit, Listen, ListenFails, Connect, ConnectAdd,
       ConnectShutdown, ConnectFails, Close, DropBoth, PacketShutdown, sockets
  <2> QED
    BY <2>1, EmptyQueues
<1>3. CASE PollWait
  BY <1>3, PolledEvents DEF PollWait, sockets
<1>4. CASE Dispatch
  <2>1. CASE DispatchTimer
    <3>1. packets' \in {packets, <<>>} /\ datagrams' = datagrams
      BY <2>1 DEF DispatchTimer, ClosePacket
    <3> QED
      BY <2>1, <3>1, ServedEvents, EmptyQueues DEF DispatchTimer
  <2>2. CASE DispatchPacket \/ DispatchDraining
    <3>1. PICK answer : PacketRecv(answer)
      BY <2>2 DEF DispatchPacket, DispatchDraining
    <3>2. packets' \in Seq(Kinds)
      BY <3>1, ReceivedPackets
    <3> QED
      BY <2>2, <3>2, ServedEvents DEF DispatchPacket, DispatchDraining
  <2>3. CASE CloseDrained
    BY <2>3, EmptyQueues DEF CloseDrained, ClosePacket
  <2>4. CASE DispatchUdp
    <3>1. datagrams' \in Seq(Kinds)
      BY <2>4 DEF DispatchUdp, UdpRecv
    <3>2. events' \in Seq({"timer", "io"}) /\ Len(events') <= 2
      BY <2>4, ServedEvents DEF DispatchUdp
    <3> QED
      BY <2>4, <3>1, <3>2 DEF DispatchUdp
  <2>5. CASE RecvFails
    <3>1. packets' = packets /\ datagrams' = datagrams
      BY <2>5 DEF RecvFails, sockets
    <3>2. events' \in {events, <<>>} \/ (events # <<>> /\ events' = Tail(events))
      BY <2>5 DEF RecvFails, InHand
    <3>3. CASE events # <<>> /\ events' = Tail(events)
      <4>1. Tail(events) \in Seq({"timer", "io"}) /\ Len(Tail(events)) <= 2
        BY <3>3
      <4> QED
        BY <3>1, <3>3, <4>1
    <3>4. CASE events' \in {events, <<>>}
      BY <3>1, <3>4, EmptyQueues
    <3> QED
      BY <3>2, <3>3, <3>4
  <2> QED
    BY <1>4, <2>1, <2>2, <2>3, <2>4, <2>5 DEF Dispatch
<1>5. ASSUME NEW socket \in {"packet", "udp"}, NEW k \in Kinds, Arrive(socket, k)
      PROVE  QueueTypes'
  <2>1. Append(packets, k) \in Seq(Kinds) /\ Append(datagrams, k) \in Seq(Kinds)
    OBVIOUS
  <2>2. packets' \in {packets, Append(packets, k)} /\ datagrams' \in {datagrams, Append(datagrams, k)}
    BY <1>5 DEF Arrive
  <2>3. events' = events
    BY <1>5 DEF Arrive
  <2> QED
    BY <2>1, <2>2, <2>3
<1>6. CASE DrainPasses
  BY <1>6 DEF DrainPasses, sockets
<1>7. CASE UNCHANGED vars
  BY <1>7 DEF vars, sockets
<1> QED
  BY <1>2, <1>3, <1>4, <1>5, <1>6, <1>7 DEF Next

LEMMA InitialTypes == Init => TypeOK
<1> SUFFICES ASSUME Init
             PROVE  TypeOK
  OBVIOUS
<1>1. SetTypes
  BY BoundAssumption DEF Init, SetTypes, States
<1>2. FlagTypes
  BY Zenon DEF Init, FlagTypes
<1>3. QueueTypes
  BY EmptyQueues DEF Init, QueueTypes
<1> QED
  BY <1>1, <1>2, <1>3, TypeParts

LEMMA TypesKept == TypeOK /\ [Next]_vars => TypeOK'
<1>1. TypeOK' <=> SetTypes' /\ FlagTypes' /\ QueueTypes'
  BY Zenon DEF TypeOK, SetTypes, FlagTypes, QueueTypes
<1> QED
  BY <1>1, SetTypesKept, FlagTypesKept, QueueTypesKept

\* TypeOK: the variables of a connection keep their types.
THEOREM TypeCorrect == Spec => []TypeOK
BY InitialTypes, TypesKept, PTL DEF Spec

-----------------------------------------------------------------------------
(***************************************************************************)
(* The sockets and the state.                                              *)
(***************************************************************************)

\* Closing the packet socket at the end of a drain leaves the UDP socket.
LEMMA ClosedPacket ==
    ASSUME TypeOK, ClosePacket, open = {"packet", "udp"}, watched = open
    PROVE  open' = {"udp"} /\ watched' = {"udp"} /\ packets' = <<>> /\ ~shut'
           /\ drain' = "none" /\ state' = "UDP"
BY DEF ClosePacket

LEMMA ConnectionInvKept == TypeOK /\ ConnectionInv /\ [Next]_vars => ConnectionInv'
<1> SUFFICES ASSUME TypeOK, ConnectionInv, [Next]_vars
             PROVE  ConnectionInv'
  OBVIOUS
<1> USE DEF ConnectionInv, SocketsMatchState, SocketsMatchCall, ShutWhileDraining,
            TimeoutBelongsToDrain, EventHasSocket, DrainedIsEmpty
<1>1. CASE ConnectionInit
  BY <1>1 DEF ConnectionInit, sockets
<1>2. CASE Listen
  BY <1>2 DEF Listen, DropBoth
<1>3. CASE ListenFails
  BY <1>3 DEF ListenFails, DropBoth
<1>4. CASE Connect
  BY <1>4 DEF Connect
<1>5. CASE ConnectAdd
  BY <1>5 DEF ConnectAdd
<1>6. CASE ConnectShutdown
  BY <1>6 DEF ConnectShutdown, PacketShutdown
<1>7. CASE ConnectFails
  BY <1>7 DEF ConnectFails
<1>8. CASE Close
  BY <1>8 DEF Close
<1>9. CASE PollWait
  <2>1. pc = "ready" /\ UNCHANGED <<state, sockets, drain, pc, empty, arrived>>
    BY <1>9 DEF PollWait
  <2>2. EventHasSocket'
    BY <1>9, <2>1, PolledSockets DEF sockets
  <2> QED
    BY <2>1, <2>2 DEF sockets
<1>10. CASE DispatchTimer
  <2>1. pc = "ready" /\ pc' = "ready" /\ datagrams' = datagrams
    BY <1>10 DEF DispatchTimer, NextEvent, InHand
  <2>2. CASE drain = "passed" /\ ClosePacket
    <3>1. open = {"packet", "udp"} /\ watched = open
      BY <2>1, <2>2
    <3>2. open' = {"udp"} /\ watched' = {"udp"} /\ ~shut' /\ drain' = "none" /\ state' = "UDP"
      BY <2>2, <3>1, ClosedPacket
    <3> QED
      BY <2>1, <3>2
  <2>3. CASE UNCHANGED <<state, open, watched, shut, packets, drain>>
    BY <1>10, <2>1, <2>3 DEF DispatchTimer, NextEvent, InHand
  <2> QED
    BY <1>10, <2>2, <2>3 DEF DispatchTimer
<1>11. CASE DispatchPacket
  BY <1>11 DEF DispatchPacket, NextEvent, InHand
<1>12. CASE DispatchDraining
  BY <1>12 DEF DispatchDraining, NextEvent, InHand, PacketRecv, PacketRecvLinux,
       PacketRecvBsd, Take, FoundEmpty
<1>13. CASE CloseDrained
  BY <1>13, ClosedPacket DEF CloseDrained
<1>14. CASE DispatchUdp
  BY <1>14 DEF DispatchUdp, NextEvent, InHand
<1>15. ASSUME NEW socket \in {"packet", "udp"}, NEW k \in Kinds, Arrive(socket, k)
       PROVE  ConnectionInv'
  BY <1>15 DEF Arrive, Hears
<1>16. CASE DrainPasses
  BY <1>16 DEF DrainPasses, sockets
<1>17. CASE RecvFails
  <2>1. /\ UNCHANGED <<state, open, watched, shut, packets, drain>>
        /\ pc' = "ready" /\ pc \in {"ready", "udp"}
    BY <1>17 DEF RecvFails, InHand, sockets
  <2>2. SocketsMatchState' /\ SocketsMatchCall' /\ ShutWhileDraining'
        /\ TimeoutBelongsToDrain' /\ DrainedIsEmpty'
    BY <2>1
  <2>3. CASE InHand("io")
    <3>1. events \in Seq({"timer", "io"}) /\ events # <<>> /\ Head(events) = "io"
      BY <2>3 DEF InHand, TypeOK
    <3>2. 1 \in DOMAIN events /\ events[1] = "io"
      BY <3>1
    <3>3. open # {} /\ state \in {"PACKET", "DRAINING", "UDP"}
      BY <3>2
    <3> QED
      BY <2>1, <2>2, <3>3
  <2>4. CASE pc = "udp" /\ events' \in {events, <<>>}
    BY <2>1, <2>2, <2>4
  <2> QED
    BY <1>17, <2>3, <2>4 DEF RecvFails
<1>18. CASE UNCHANGED vars
  BY <1>18 DEF vars, sockets
<1> QED
  BY <1>1, <1>2, <1>3, <1>4, <1>5, <1>6, <1>7, <1>8, <1>9, <1>10, <1>11,
     <1>12, <1>13, <1>14, <1>15, <1>16, <1>17, <1>18 DEF Next, Calls, Dispatch

LEMMA InitialConnection == Init => ConnectionInv
BY DEF Init, ConnectionInv, SocketsMatchState, SocketsMatchCall, ShutWhileDraining,
       TimeoutBelongsToDrain, EventHasSocket, DrainedIsEmpty

\* ConnectionInv: the sockets, the drain timeout and the events in hand fit the
\* state at every step, for both seams.
THEOREM ConnectionInvariant == Spec => []ConnectionInv
BY InitialConnection, TypeCorrect, ConnectionInvKept, PTL DEF Spec

\* SocketsMatchState: between two calls the connection has the sockets of its
\* state, all of them on the poller.
THEOREM SocketsAlwaysMatch == Spec => []SocketsMatchState
<1>1. ConnectionInv => SocketsMatchState
  BY DEF ConnectionInv
<1> QED
  BY <1>1, ConnectionInvariant, PTL

\* AlwaysHears: from listen() on some socket takes a reply at every moment.
THEOREM RepliesAlwaysHeard == Spec => []AlwaysHears
<1>1. TypeOK /\ ConnectionInv => AlwaysHears
  <2> SUFFICES ASSUME TypeOK, ConnectionInv, open # {}
               PROVE  \E socket \in open : Hears(socket)
    BY DEF AlwaysHears
  <2> USE DEF TypeOK, ConnectionInv, SocketsMatchState, SocketsMatchCall, ShutWhileDraining, Hears
  <2>1. CASE state = "DRAINING"
    <3>1. "udp" \in open
      BY <2>1
    <3> QED
      BY <3>1
  <2>2. CASE state # "DRAINING"
    BY <2>2
  <2> QED
    BY <2>1, <2>2
<1> QED
  BY <1>1, TypeCorrect, ConnectionInvariant, PTL

\* TimeoutBelongsToDrain: the drain timeout never outlives its drain.
THEOREM TimeoutOnlyInDrain == Spec => []TimeoutBelongsToDrain
<1>1. ConnectionInv => TimeoutBelongsToDrain
  BY DEF ConnectionInv
<1> QED
  BY <1>1, ConnectionInvariant, PTL

\* EventFindsSocket: whatever the events served before it did, an IO event is
\* served on an open socket of the current state.
THEOREM EventsFindSockets == Spec => []EventFindsSocket
<1>1. ConnectionInv => EventFindsSocket
  BY DEF ConnectionInv, SocketsMatchState, EventHasSocket, EventFindsSocket, InHand
<1> QED
  BY <1>1, ConnectionInvariant, PTL

\* DrainedIsEmpty: the packet socket is closed as drained only when nothing is
\* or can be queued on it.
THEOREM NothingLeftInDrain == Spec => []DrainedIsEmpty
<1>1. ConnectionInv => DrainedIsEmpty
  BY DEF ConnectionInv
<1> QED
  BY <1>1, ConnectionInvariant, PTL

-----------------------------------------------------------------------------
(***************************************************************************)
(* What only the Linux seam keeps.                                         *)
(***************************************************************************)

\* An empty packet socket is noticed within the same dispatch.
EmptyEndsDrain == empty /\ state = "DRAINING" => pc = "drained"

LEMMA EmptyEndsDrainKept ==
    ASSUME Bsd = FALSE, TypeOK, ConnectionInv, EmptyEndsDrain, [Next]_vars
    PROVE  EmptyEndsDrain'
<1> USE DEF EmptyEndsDrain
<1>1. CASE Calls
  <2>1. CASE ConnectionInit \/ Listen \/ ListenFails \/ Close
    BY <2>1 DEF ConnectionInit, Listen, ListenFails, Close, DropBoth, sockets
  <2>2. CASE Connect \/ ConnectAdd \/ ConnectFails
    BY <2>2 DEF Connect, ConnectAdd, ConnectFails, ConnectionInv, SocketsMatchCall
  <2>3. CASE ConnectShutdown
    BY <2>3 DEF ConnectShutdown
  <2> QED
    BY <1>1, <2>1, <2>2, <2>3 DEF Calls
<1>2. CASE PollWait
  BY <1>2 DEF PollWait
<1>3. CASE DispatchTimer
  BY <1>3 DEF DispatchTimer, NextEvent, InHand, ClosePacket
<1>4. CASE DispatchPacket
  BY <1>4 DEF DispatchPacket
<1>5. CASE DispatchDraining
  BY <1>5 DEF DispatchDraining, PacketRecv, PacketRecvLinux, PacketRecvBsd,
       Take, FoundEmpty
<1>6. CASE CloseDrained \/ DispatchUdp \/ RecvFails
  BY <1>6 DEF CloseDrained, DispatchUdp, RecvFails, ClosePacket
<1>7. ASSUME NEW socket \in {"packet", "udp"}, NEW k \in Kinds, Arrive(socket, k)
      PROVE  EmptyEndsDrain'
  BY <1>7 DEF Arrive
<1>8. CASE DrainPasses
  BY <1>8 DEF DrainPasses
<1>9. CASE UNCHANGED vars
  BY <1>9 DEF vars
<1> QED
  BY <1>1, <1>2, <1>3, <1>4, <1>5, <1>6, <1>7, <1>8, <1>9 DEF Next, Dispatch

\* DrainedIsClosed: on Linux a drain never goes on after the packet socket was
\* found empty.
THEOREM EmptyDrainEnds == Bsd = FALSE => (Spec => []DrainedIsClosed)
<1> SUFFICES ASSUME Bsd = FALSE
             PROVE  Spec => []DrainedIsClosed
  OBVIOUS
<1>1. Init => EmptyEndsDrain
  BY DEF Init, EmptyEndsDrain
<1>2. TypeOK /\ ConnectionInv /\ EmptyEndsDrain /\ [Next]_vars => EmptyEndsDrain'
  BY EmptyEndsDrainKept
<1>3. EmptyEndsDrain => DrainedIsClosed
  BY DEF EmptyEndsDrain, DrainedIsClosed
<1> QED
  BY <1>1, <1>2, <1>3, TypeCorrect, ConnectionInvariant, PTL DEF Spec

-----------------------------------------------------------------------------
(***************************************************************************)
(* What becomes of the packets that are queued.                            *)
(***************************************************************************)

\* What is left after the first n packets is the end of the queue.
LEMMA RestIsSuffix ==
    ASSUME NEW s \in Seq(Kinds), NEW n \in 1 .. Len(s)
    PROVE  IsSuffix(SubSeq(s, n + 1, Len(s)), s)
<1> DEFINE r == SubSeq(s, n + 1, Len(s))
<1>1. r \in Seq(Kinds) /\ Len(r) = Len(s) - n /\ \A i \in 1 .. Len(r) : r[i] = s[n + i]
  OBVIOUS
<1> HIDE DEF r
<1>2. Reverse(r) \in Seq(Kinds) /\ Reverse(s) \in Seq(Kinds)
      /\ Len(Reverse(r)) = Len(r) /\ Len(Reverse(s)) = Len(s)
  BY <1>1 DEF Reverse
<1>3. \A i \in 1 .. Len(r) : Reverse(r)[i] = Reverse(s)[i]
  BY <1>1 DEF Reverse
<1>4. SubSeq(Reverse(r), 1, Len(r)) = SubSeq(Reverse(s), 1, Len(r))
  BY <1>1, <1>2, <1>3
<1>5. Len(Reverse(r)) <= Len(Reverse(s)) /\ Len(Reverse(r)) = Len(r)
  BY <1>1, <1>2
<1>6. IsSuffix(r, s)
  BY <1>4, <1>5 DEF IsSuffix, IsPrefix
<1> QED
  BY <1>6 DEF r

\* A queue that stays, grows or was empty loses nothing.
LEMMA QueueGrows ==
    ASSUME NEW s \in Seq(Kinds), NEW k \in Kinds
    PROVE  IsPrefix(s, s) /\ IsPrefix(s, Append(s, k)) /\ IsPrefix(<<>>, s)
<1>1. Append(s, k) \in Seq(Kinds) /\ Len(Append(s, k)) = Len(s) + 1
      /\ \A i \in 1 .. Len(s) : Append(s, k)[i] = s[i]
  OBVIOUS
<1>2. SubSeq(s, 1, Len(s)) = SubSeq(Append(s, k), 1, Len(s))
  BY <1>1
<1>3. SubSeq(<<>>, 1, 0) = SubSeq(s, 1, 0)
  OBVIOUS
<1> QED
  BY <1>1, <1>2, <1>3 DEF IsPrefix

\* A step that is allowed by QueuedIsDelivered.
Delivers ==
    \/ IsPrefix(packets, packets')
    \/ InHand("io") /\ IsSuffix(packets', packets)
    \/ PacketGivenUp

\* The shutdown of the BSD seam, which empties the queue.
ShutdownFlushes == Bsd /\ ~shut /\ shut' /\ packets' = <<>>

LEMMA QueueStep ==
    ASSUME TypeOK, ConnectionInv, Next
    PROVE  Delivers \/ ShutdownFlushes
<1> DEFINE Kept == packets' = packets
<1>1. packets \in Seq(Kinds)
  BY DEF TypeOK
<1>2. Kept => Delivers
  BY <1>1, QueueGrows DEF Delivers, Kinds
<1>3. CASE ConnectionInit \/ Connect \/ ConnectAdd \/ ConnectFails
  <2>1. Kept
    BY <1>3 DEF ConnectionInit, Connect, ConnectAdd, ConnectFails, sockets
  <2> QED
    BY <1>2, <2>1
<1>4. CASE Listen
  <2>1. CASE state = "PACKET"
    BY <1>4, <2>1 DEF Listen
  <2>2. CASE state # "PACKET"
    BY <1>4, <2>2 DEF Listen, Delivers, PacketGivenUp
  <2> QED
    BY <2>1, <2>2
<1>5. CASE ListenFails \/ Close
  BY <1>5 DEF ListenFails, Close, Delivers, PacketGivenUp
<1>6. CASE ConnectShutdown
  <2>1. ~shut /\ shut'
    BY <1>6 DEF ConnectShutdown, PacketShutdown, ConnectionInv, SocketsMatchCall, ShutWhileDraining
  <2>2. CASE Bsd
    BY <1>6, <2>1, <2>2 DEF ConnectShutdown, PacketShutdown, ShutdownFlushes
  <2>3. CASE ~Bsd
    <3>1. Kept
      BY <1>6, <2>3 DEF ConnectShutdown, PacketShutdown
    <3> QED
      BY <1>2, <3>1
  <2> QED
    BY <2>2, <2>3
<1>7. CASE PollWait \/ DrainPasses \/ RecvFails \/ DispatchUdp
  <2>1. Kept
    BY <1>7 DEF PollWait, DrainPasses, RecvFails, DispatchUdp, sockets
  <2> QED
    BY <1>2, <2>1
<1>8. CASE DispatchTimer
  <2>1. CASE drain = "passed" /\ ClosePacket
    BY <2>1 DEF ClosePacket, Delivers, PacketGivenUp
  <2>2. CASE Kept
    BY <1>2, <2>2
  <2> QED
    BY <1>8, <2>1, <2>2 DEF DispatchTimer
<1>9. CASE DispatchPacket \/ DispatchDraining
  <2>1. PICK answer : PacketRecv(answer) /\ InHand("io")
    BY <1>9 DEF DispatchPacket, DispatchDraining, NextEvent
  <2>2. CASE \E n \in 1 .. Len(packets) : packets' = SubSeq(packets, n + 1, Len(packets))
    BY <1>1, <2>1, <2>2, RestIsSuffix DEF Delivers
  <2>3. CASE Kept
    BY <1>2, <2>3
  <2>4. 1 \in 1 .. Len(packets) \/ packets = <<>>
    BY <1>1
  <2> QED
    BY <2>1, <2>2, <2>3, <2>4 DEF PacketRecv, PacketRecvLinux, PacketRecvBsd, Take, FoundEmpty
<1>10. CASE CloseDrained
  <2>1. packets = <<>> /\ packets' = <<>>
    BY <1>10 DEF CloseDrained, ClosePacket, ConnectionInv, DrainedIsEmpty
  <2> QED
    BY <1>2, <2>1
<1>11. ASSUME NEW socket \in {"packet", "udp"}, NEW k \in Kinds, Arrive(socket, k)
       PROVE  Delivers
  <2>1. packets' = Append(packets, k) \/ Kept
    BY <1>11 DEF Arrive
  <2> QED
    BY <1>1, <1>2, <2>1, QueueGrows DEF Delivers
<1> QED
  BY <1>3, <1>4, <1>5, <1>6, <1>7, <1>8, <1>9, <1>10, <1>11 DEF Next, Calls, Dispatch

\* A step that loses a packet without giving the socket up is the shutdown of the BSD
\* seam.
LostOnlyByShutdown == [][Delivers \/ ShutdownFlushes]_vars

\* LostOnlyByShutdown: on either seam no failure, stale event, early timer or end of
\* the drain loses a packet that was queued; only the flush of BIOCSETF does.
THEOREM LossIsTheFlush == Spec => LostOnlyByShutdown
<1>1. TypeOK /\ ConnectionInv /\ [Next]_vars => [Delivers \/ ShutdownFlushes]_vars
  BY QueueStep
<1> QED
  BY <1>1, TypeCorrect, ConnectionInvariant, PTL DEF Spec, LostOnlyByShutdown

\* QueuedIsDelivered: with the Linux seam the promise on packet_shutdown() is kept by
\* the whole connection.
THEOREM QueuedReachesReceive == Bsd = FALSE => (Spec => QueuedIsDelivered)
<1> SUFFICES ASSUME Bsd = FALSE
             PROVE  Spec => QueuedIsDelivered
  OBVIOUS
<1>1. [Delivers \/ ShutdownFlushes]_vars =>
        [ \/ IsPrefix(packets, packets')
          \/ InHand("io") /\ IsSuffix(packets', packets)
          \/ PacketGivenUp ]_vars
  BY DEF Delivers, ShutdownFlushes
<1> QED
  BY <1>1, LossIsTheFlush, PTL DEF LostOnlyByShutdown, QueuedIsDelivered

-----------------------------------------------------------------------------
(***************************************************************************)
(* What becomes of a drain on the BSD seam.                                *)
(***************************************************************************)

\* Shutting the packet socket has emptied it, and finding it empty is not
\* recognised as the end of the drain.
DrainIsIdle ==
    /\ pc \notin {"drained", "udp"}
    /\ shut => packets = <<>>

LEMMA DrainIsIdleKept ==
    ASSUME Bsd = TRUE, DrainIsIdle, [Next]_vars
    PROVE  DrainIsIdle'
<1> USE DEF DrainIsIdle
<1>1. CASE Calls
  <2>1. CASE ConnectionInit
    BY <2>1 DEF ConnectionInit, sockets
  <2>2. CASE Listen \/ ListenFails \/ Close
    BY <2>2 DEF Listen, ListenFails, Close, DropBoth
  <2>3. CASE Connect \/ ConnectAdd \/ ConnectFails
    BY <2>3 DEF Connect, ConnectAdd, ConnectFails
  <2>4. CASE ConnectShutdown
    BY <2>4 DEF ConnectShutdown, PacketShutdown
  <2> QED
    BY <1>1, <2>1, <2>2, <2>3, <2>4 DEF Calls
<1>2. CASE PollWait
  BY <1>2 DEF PollWait, sockets
<1>3. CASE DispatchTimer
  BY <1>3 DEF DispatchTimer, ClosePacket
<1>4. CASE DispatchPacket \/ DispatchDraining
  <2>1. PICK answer \in {"message", "malformed", "again"} :
           /\ PacketRecv(answer)
           /\ pc' = pc \/ (pc' = IF answer = "again" THEN "drained" ELSE "ready")
    BY <1>4 DEF DispatchPacket, DispatchDraining
  <2>2. answer # "again" /\ (packets = <<>> => packets' = <<>>)
    BY <2>1 DEF PacketRecv, PacketRecvBsd, Take, FoundEmpty
  <2>3. shut' = shut
    BY <1>4 DEF DispatchPacket, DispatchDraining
  <2> QED
    BY <2>1, <2>2, <2>3
<1>5. CASE CloseDrained \/ DispatchUdp \/ RecvFails
  BY <1>5 DEF CloseDrained, DispatchUdp, RecvFails, NextEvent, InHand, sockets
<1>6. ASSUME NEW socket \in {"packet", "udp"}, NEW k \in Kinds, Arrive(socket, k)
      PROVE  DrainIsIdle'
  BY <1>6 DEF Arrive, Hears
<1>7. CASE DrainPasses
  BY <1>7 DEF DrainPasses, sockets
<1>8. CASE UNCHANGED vars
  BY <1>8 DEF vars, sockets
<1> HIDE DEF DrainIsIdle
<1> QED
  BY <1>1, <1>2, <1>3, <1>4, <1>5, <1>6, <1>7, <1>8 DEF Next, Dispatch

\* DrainIsIdle: on the BSD seam dispatch_io() never takes the packet socket for
\* drained, and there is nothing on it that a drain could wait for.
THEOREM BsdDrainIsIdle == Bsd = TRUE => (Spec => []DrainIsIdle)
<1> SUFFICES ASSUME Bsd = TRUE
             PROVE  Spec => []DrainIsIdle
  OBVIOUS
<1>1. Init => DrainIsIdle
  BY DEF Init, DrainIsIdle
<1>2. DrainIsIdle /\ [Next]_vars => DrainIsIdle'
  BY DrainIsIdleKept
<1> QED
  BY <1>1, <1>2, PTL DEF Spec

\* A connection leaves its drain for the UDP socket only when the timeout passed.
DrainTimesOut == [][state = "DRAINING" /\ state' = "UDP" => drain = "passed"]_vars

LEMMA UdpAfterTimeout ==
    ASSUME DrainIsIdle, [Next]_vars, state = "DRAINING", state' = "UDP"
    PROVE  drain = "passed"
<1>1. CASE Calls
  BY <1>1 DEF Calls, ConnectionInit, Listen, ListenFails, Connect, ConnectAdd,
     ConnectShutdown, ConnectFails, Close
<1>2. CASE PollWait \/ DrainPasses
  BY <1>2 DEF PollWait, DrainPasses
<1>3. CASE DispatchTimer
  BY <1>3 DEF DispatchTimer, ClosePacket
<1>4. CASE DispatchPacket \/ DispatchDraining \/ DispatchUdp \/ RecvFails
  BY <1>4 DEF DispatchPacket, DispatchDraining, DispatchUdp, RecvFails
<1>5. CASE CloseDrained
  BY <1>5 DEF CloseDrained, DrainIsIdle
<1>6. ASSUME NEW socket \in {"packet", "udp"}, NEW k \in Kinds, Arrive(socket, k)
      PROVE  drain = "passed"
  BY <1>6 DEF Arrive
<1>7. CASE UNCHANGED vars
  BY <1>7 DEF vars
<1> QED
  BY <1>1, <1>2, <1>3, <1>4, <1>5, <1>6, <1>7 DEF Next, Dispatch

\* DrainTimesOut: on the BSD seam every drain that is not cut short by a reset lasts
\* for the whole of its timeout, although nothing is left to drain.
THEOREM BsdDrainTimesOut == Bsd = TRUE => (Spec => DrainTimesOut)
<1> SUFFICES ASSUME Bsd = TRUE
             PROVE  Spec => DrainTimesOut
  OBVIOUS
<1>1. DrainIsIdle /\ [Next]_vars => [state = "DRAINING" /\ state' = "UDP" => drain = "passed"]_vars
  BY UdpAfterTimeout
<1> QED
  BY <1>1, BsdDrainIsIdle, PTL DEF Spec, DrainTimesOut

=============================================================================
