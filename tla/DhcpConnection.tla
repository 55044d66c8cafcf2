--------------------------- MODULE DhcpConnection ---------------------------
(***************************************************************************)
(* The client connection of n-dhcp4: a packet socket that hears replies    *)
(* before the host has an address, a UDP socket afterwards, and a drain    *)
(* between the two during which both are open.  The descriptors come and   *)
(* go on the poller of the client, whose dispatch collects at most two     *)
(* events and then serves them one after the other.                        *)
(*                                                                         *)
(* Bsd chooses the seam: a BPF device whose read returns several frames    *)
(* and whose filter cannot be replaced without losing what is queued, or   *)
(* the AF_PACKET socket of Linux.                                          *)
(***************************************************************************)
EXTENDS Naturals, Sequences, SequencesExt

CONSTANTS
    Bsd,            \* the BSD files of the seam are built, not the Linux ones
    MaxDatagrams    \* bound: datagrams that arrive while a connection lives

ASSUME BsdAssumption == Bsd \in BOOLEAN
ASSUME BoundAssumption == MaxDatagrams \in Nat

VARIABLES
    state,      \* connection->state
    open,       \* which of fd_packet and fd_udp are open
    watched,    \* which of them are registered on the poller
    shut,       \* the packet socket accepts nothing more
    packets,    \* queued on the packet socket
    datagrams,  \* queued on the UDP socket
    drain,      \* ns_drain_timeout: "none", "running" or "passed"
    events,     \* what poll_wait() reported and was not dispatched yet
    pc,         \* inside which call: "ready" for none
    empty,      \* the last dispatch_io() found the packet socket empty
    arrived     \* how many datagrams arrived at this connection

sockets == <<open, watched, shut, packets, datagrams>>
vars == <<state, sockets, drain, events, pc, empty, arrived>>

States == {"INIT", "PACKET", "DRAINING", "UDP", "CLOSED"}
\* A usable reply, or one that the checks of the seam discard.
Kinds == {"good", "bad"}

-----------------------------------------------------------------------------
(***************************************************************************)
(* n_dhcp4_c_connection_init(), _listen() and _close().                    *)
(***************************************************************************)

\* A new probe initialises its connection afresh.
ConnectionInit ==
    /\ state = "CLOSED" /\ events = <<>>
    /\ state' = "INIT"
    /\ arrived' = 0
    /\ UNCHANGED <<sockets, drain, events, pc, empty>>

\* The packet socket's part of ns_drain_timeout goes with the packet socket.
DropBoth ==
    /\ datagrams' = <<>>
    /\ packets' = <<>>
    /\ shut' = FALSE
    /\ empty' = FALSE
    /\ drain' = IF "packet" \in open THEN "none" ELSE drain

Listen ==
    /\ pc = "ready"
    /\ state \in {"INIT", "DRAINING", "UDP"}
    /\ DropBoth
    /\ open' = {"packet"}
    /\ watched' = {"packet"}
    /\ state' = "PACKET"
    /\ UNCHANGED <<events, pc, arrived>>

\* Mutant: the events of the round in progress are still served.
ListenFailsQuietly ==
    /\ pc = "ready"
    /\ state \in {"INIT", "DRAINING", "UDP"}
    /\ DropBoth
    /\ open' = {}
    /\ watched' = {}
    /\ UNCHANGED <<state, events, pc, arrived>>

\* The packet socket cannot be opened or registered.  The old sockets are
\* closed by then, and the state still names them; the error ends the round of
\* n_dhcp4_client_dispatch() that called.
ListenFails ==
    /\ pc = "ready"
    /\ state \in {"INIT", "DRAINING", "UDP"}
    /\ DropBoth
    /\ open' = {}
    /\ watched' = {}
    /\ events' = <<>>
    /\ UNCHANGED <<state, pc, arrived>>

Close ==
    /\ pc = "ready" /\ events = <<>>
    /\ state # "CLOSED"
    /\ open' = {}
    /\ watched' = {}
    /\ packets' = <<>>
    /\ datagrams' = <<>>
    /\ shut' = FALSE
    /\ empty' = FALSE
    /\ drain' = "none"
    /\ state' = "CLOSED"
    /\ UNCHANGED <<events, pc, arrived>>

-----------------------------------------------------------------------------
(***************************************************************************)
(* n_dhcp4_c_connection_connect(): the UDP socket is opened and registered *)
(* while the packet socket still listens, then the packet socket is shut.  *)
(***************************************************************************)

\* Mutant: the packet socket is shut before the UDP socket exists.
ConnectShutFirst ==
    /\ pc = "ready"
    /\ state = "PACKET"
    /\ pc' = "opened"
    /\ shut' = TRUE
    /\ packets' = IF Bsd THEN <<>> ELSE packets
    /\ UNCHANGED <<state, open, watched, datagrams, drain, events, empty, arrived>>

Connect ==
    /\ pc = "ready"
    /\ state = "PACKET"
    /\ pc' = "opened"
    /\ open' = open \cup {"udp"}
    /\ UNCHANGED <<state, watched, shut, packets, datagrams, drain, events, empty, arrived>>

ConnectAdd ==
    /\ pc = "opened"
    /\ pc' = "added"
    /\ watched' = watched \cup {"udp"}
    /\ UNCHANGED <<state, open, shut, packets, datagrams, drain, events, empty, arrived>>

\* Mutant: the packet socket stays as it was.
PacketShutdownForgotten == UNCHANGED <<shut, packets>>

\* The filter that discards everything.  BIOCSETF performs a flush as well.
PacketShutdown ==
    /\ shut' = TRUE
    /\ packets' = IF Bsd THEN <<>> ELSE packets

ConnectShutdown ==
    /\ pc = "added"
    /\ PacketShutdown
    /\ state' = "DRAINING"
    /\ drain' = "running"
    /\ pc' = "ready"
    /\ empty' = FALSE
    /\ UNCHANGED <<open, watched, datagrams, events, arrived>>

\* Mutant: the UDP socket is left open when it cannot be registered.
ConnectFailsLeaking ==
    /\ pc \in {"opened", "added"}
    /\ watched' = watched \ {"udp"}
    /\ datagrams' = <<>>
    /\ events' = <<>>
    /\ pc' = "ready"
    /\ UNCHANGED <<state, open, shut, packets, drain, empty, arrived>>

\* Opening, registering or shutting down fails: the UDP socket goes, the packet
\* socket keeps listening, and the round of dispatch that called is over.
ConnectFails ==
    /\ pc \in {"opened", "added"} \/ (pc = "ready" /\ state = "PACKET")
    /\ open' = open \ {"udp"}
    /\ watched' = watched \ {"udp"}
    /\ datagrams' = <<>>
    /\ events' = <<>>
    /\ pc' = "ready"
    /\ UNCHANGED <<state, shut, packets, drain, empty, arrived>>

-----------------------------------------------------------------------------
(***************************************************************************)
(* n_dhcp4_client_dispatch().                                              *)
(***************************************************************************)

ReadableSockets ==
    (IF "packet" \in watched /\ packets # <<>> THEN {"packet"} ELSE {}) \cup
    (IF "udp" \in watched /\ datagrams # <<>> THEN {"udp"} ELSE {})

\* Both sockets carry the same tag.
Event(source) == IF source = "timer" THEN "timer" ELSE "io"

\* Mutant: as many events are stored as there are.
CollectAll(sources) ==
    \E order \in SetToSeqs(sources) :
        events' = [i \in DOMAIN order |-> Event(order[i])]

\* There is room for two events, in no particular order.
Collect(sources) ==
    \/ \E a \in sources :
         /\ sources = {a}
         /\ events' = <<Event(a)>>
    \/ \E a, b \in sources :
         /\ a # b
         /\ events' = <<Event(a), Event(b)>>

\* The timer is shared with the probe and may fire at any time.
PollWait ==
    /\ pc = "ready" /\ events = <<>>
    /\ \E fired \in {{}, {"timer"}} : Collect(ReadableSockets \cup fired)
    /\ UNCHANGED <<state, sockets, drain, pc, empty, arrived>>

InHand(e) == pc = "ready" /\ events # <<>> /\ Head(events) = e

NextEvent(e) == InHand(e) /\ events' = Tail(events)

\* Mutant: the timeout outlives the drain it was for.
ClosePacketOnly ==
    /\ open' = open \ {"packet"}
    /\ watched' = watched \ {"packet"}
    /\ packets' = <<>>
    /\ shut' = FALSE
    /\ drain' = drain
    /\ state' = "UDP"

\* The packet socket is closed at the end of the drain, drained or not.
ClosePacket ==
    /\ open' = open \ {"packet"}
    /\ watched' = watched \ {"packet"}
    /\ packets' = <<>>
    /\ shut' = FALSE
    /\ drain' = "none"
    /\ state' = "UDP"

\* n_dhcp4_c_connection_dispatch_timer().  It does nothing when the timer fired
\* for another deadline, and is not reached when reading the timer was
\* interrupted.
DispatchTimer ==
    /\ NextEvent("timer")
    /\ \/ drain = "passed" /\ ClosePacket
       \/ UNCHANGED <<state, open, watched, shut, packets, drain>>
    /\ UNCHANGED <<datagrams, pc, empty, arrived>>

\* A usable packet is among the first n.
Received(n) == \E i \in 1 .. n : packets[i] = "good"

\* Mutant: an empty queue is reported like a packet that is not usable.
PacketRecvSilent(answer) ==
    \/ /\ packets # <<>>
       /\ packets' = Tail(packets)
       /\ answer = IF Received(1) THEN "message" ELSE "malformed"
       /\ empty' = FALSE
    \/ /\ packets = <<>>
       /\ packets' = packets
       /\ answer = "malformed"
       /\ empty' = TRUE

\* A receive that finds packets takes the first n; one that finds none says so
\* with the given answer.
Take(n, answer) ==
    /\ packets # <<>>
    /\ packets' = SubSeq(packets, n + 1, Len(packets))
    /\ answer = IF Received(n) THEN "message" ELSE "malformed"
    /\ empty' = FALSE

FoundEmpty ==
    /\ packets = <<>>
    /\ packets' = packets
    /\ empty' = TRUE

\* On Linux one packet is received, or EAGAIN when there is none.
PacketRecvLinux(answer) ==
    \/ Take(1, answer)
    \/ FoundEmpty /\ answer = "again"

\* On the BSDs one read() returns any number of packets, of which the first
\* usable one is kept.  An empty queue and an interrupted read both yield a
\* packet of length zero.
PacketRecvBsd(answer) ==
    \/ \E n \in 1 .. Len(packets) : Take(n, answer)
    \/ FoundEmpty /\ answer = "malformed"
    \/ /\ packets # <<>>
       /\ packets' = packets
       /\ answer = "malformed"
       /\ empty' = FALSE

\* The answer of n_dhcp4_c_socket_packet_recv().
PacketRecv(answer) ==
    IF Bsd THEN PacketRecvBsd(answer) ELSE PacketRecvLinux(answer)

\* n_dhcp4_c_connection_dispatch_io() in each of its states.
DispatchPacket ==
    /\ NextEvent("io")
    /\ state = "PACKET"
    /\ \E answer \in {"message", "malformed", "again"} : PacketRecv(answer)
    /\ UNCHANGED <<state, open, watched, shut, datagrams, drain, pc, arrived>>

\* Mutant: a packet that is not usable counts as the end of the drain, too.
DispatchDrainingLax ==
    /\ NextEvent("io")
    /\ state = "DRAINING"
    /\ \E answer \in {"message", "malformed", "again"} :
         /\ PacketRecv(answer)
         /\ pc' = IF answer # "message" THEN "drained" ELSE "ready"
    /\ UNCHANGED <<state, open, watched, shut, datagrams, drain, arrived>>

DispatchDraining ==
    /\ NextEvent("io")
    /\ state = "DRAINING"
    /\ \E answer \in {"message", "malformed", "again"} :
         /\ PacketRecv(answer)
         /\ pc' = IF answer = "again" THEN "drained" ELSE "ready"
    /\ UNCHANGED <<state, open, watched, shut, datagrams, drain, arrived>>

CloseDrained ==
    /\ pc = "drained"
    /\ ClosePacket
    /\ pc' = "udp"
    /\ UNCHANGED <<datagrams, events, empty, arrived>>

UdpRecv == datagrams' = IF datagrams = <<>> THEN datagrams ELSE Tail(datagrams)

\* Either the UDP socket's own event or the fall-through after the drain.
DispatchUdp ==
    /\ \/ NextEvent("io") /\ state = "UDP"
       \/ pc = "udp" /\ UNCHANGED events
    /\ UdpRecv
    /\ pc' = "ready"
    /\ empty' = FALSE
    /\ UNCHANGED <<state, open, watched, shut, packets, drain, arrived>>

\* A receive that fails takes nothing from its socket.  If the network is down, an
\* event says so and the round goes on; any other error ends the round.
RecvFails ==
    /\ \/ /\ InHand("io") /\ state \in {"PACKET", "DRAINING", "UDP"}
          /\ events' \in {Tail(events), <<>>}
       \/ /\ pc = "udp"
          /\ events' \in {events, <<>>}
    /\ pc' = "ready"
    /\ empty' = FALSE
    /\ UNCHANGED <<state, sockets, drain, arrived>>

-----------------------------------------------------------------------------
(***************************************************************************)
(* The network and the clock.                                              *)
(***************************************************************************)

Hears(socket) == socket \in open /\ (socket = "packet" => ~shut)

Arrive(socket, k) ==
    /\ Hears(socket)
    /\ arrived < MaxDatagrams
    /\ arrived' = arrived + 1
    /\ \/ /\ socket = "packet"
          /\ packets' = Append(packets, k)
          /\ UNCHANGED datagrams
       \/ /\ socket = "udp"
          /\ datagrams' = Append(datagrams, k)
          /\ UNCHANGED packets
    /\ UNCHANGED <<state, open, watched, shut, drain, events, pc, empty>>

DrainPasses ==
    /\ drain = "running"
    /\ drain' = "passed"
    /\ UNCHANGED <<state, sockets, events, pc, empty, arrived>>

-----------------------------------------------------------------------------

Init ==
    /\ state = "INIT"
    /\ open = {}
    /\ watched = {}
    /\ shut = FALSE
    /\ packets = <<>>
    /\ datagrams = <<>>
    /\ drain = "none"
    /\ events = <<>>
    /\ pc = "ready"
    /\ empty = FALSE
    /\ arrived = 0

Calls ==
    \/ ConnectionInit
    \/ Listen
    \/ ListenFails
    \/ Connect
    \/ ConnectAdd
    \/ ConnectShutdown
    \/ ConnectFails
    \/ Close

Dispatch ==
    \/ DispatchTimer
    \/ DispatchPacket
    \/ DispatchDraining
    \/ CloseDrained
    \/ DispatchUdp
    \/ RecvFails

Next ==
    \/ Calls
    \/ PollWait
    \/ Dispatch
    \/ \E socket \in {"packet", "udp"}, k \in Kinds : Arrive(socket, k)
    \/ DrainPasses

Spec == Init /\ [][Next]_vars

-----------------------------------------------------------------------------
(***************************************************************************)
(* Properties.                                                             *)
(***************************************************************************)

TypeOK ==
    /\ state \in States
    /\ open \subseteq {"packet", "udp"}
    /\ watched \subseteq {"packet", "udp"}
    /\ shut \in BOOLEAN
    /\ packets \in Seq(Kinds)
    /\ datagrams \in Seq(Kinds)
    /\ drain \in {"none", "running", "passed"}
    /\ events \in Seq({"timer", "io"}) /\ Len(events) <= 2
    /\ pc \in {"ready", "opened", "added", "drained", "udp"}
    /\ empty \in BOOLEAN
    /\ arrived \in 0 .. MaxDatagrams

\* Between two calls the sockets a connection has are those of its state and
\* all of them are on the poller; a failed listen() is the only way to have
\* none in a state that should have some.
SocketsMatchState ==
    pc = "ready" =>
        /\ watched = open
        /\ open # {} => open = CASE state = "PACKET" -> {"packet"}
                                 [] state = "DRAINING" -> {"packet", "udp"}
                                 [] state = "UDP" -> {"udp"}
                                 [] OTHER -> {}
        /\ state = "PACKET" => open # {}

\* From listen() on there is no moment at which neither socket would take a
\* reply: the UDP socket is there before the packet socket is shut, and the
\* packet socket is back in service when connect() fails.
AlwaysHears == open # {} => \E socket \in open : Hears(socket)

\* The drain timeout belongs to one drain: it never survives into a later
\* listen(), where it would close a packet socket that is in use.
TimeoutBelongsToDrain == drain # "none" => state = "DRAINING" /\ "packet" \in open

\* An event is served on a socket of the state the connection is in by then,
\* although the event served before it may have closed or replaced the sockets
\* that were polled.
EventFindsSocket ==
    InHand("io") =>
        \/ state \in {"PACKET", "DRAINING"} /\ "packet" \in open
        \/ state = "UDP" /\ "udp" \in open

\* When dispatch_io() decides that the packet socket is drained, nothing is or
\* can still be queued on it, since it was shut before: closing it loses nothing.
DrainedIsEmpty == pc = "drained" => packets = <<>> /\ shut

\* The comment in n_dhcp4_c_connection_dispatch_io(): once the packet socket was
\* shut down and found drained, it is cleaned up and the UDP socket dispatched.
DrainedIsClosed == (pc = "ready" /\ empty) => state # "DRAINING"

\* The packet socket is given up: by a reset or a close, or at the end of a drain
\* whose time has passed.
PacketGivenUp ==
    \/ open' = {}
    \/ state # "PACKET" /\ state' = "PACKET"
    \/ drain = "passed" /\ state' = "UDP"

\* The comment on packet_shutdown(): all packets that are already queued will still
\* be delivered.  From listen() on, through the shutdown, the drain and whatever else
\* is served meanwhile, a packet leaves the queue only from its front and into a
\* receive, unless the packet socket is given up.
QueuedIsDelivered ==
    [][ \/ IsPrefix(packets, packets')
        \/ InHand("io") /\ IsSuffix(packets', packets)
        \/ PacketGivenUp ]_vars

\* What makes these inductive: in the middle of a call the sockets are those that
\* the call has reached, the packet socket is shut exactly while it is drained,
\* and an IO event in hand implies that some socket is there to be served.
SocketsMatchCall ==
    /\ pc = "opened" => state = "PACKET" /\ open = {"packet", "udp"} /\ watched = {"packet"}
    /\ pc = "added" => state = "PACKET" /\ open = {"packet", "udp"} /\ watched = open
    /\ pc = "drained" => state = "DRAINING" /\ open = {"packet", "udp"} /\ watched = open
    /\ pc = "udp" => state = "UDP" /\ open = {"udp"} /\ watched = open

ShutWhileDraining == shut <=> state = "DRAINING" /\ open # {}

EventHasSocket ==
    (\E i \in DOMAIN events : events[i] = "io")
        => open # {} /\ state \in {"PACKET", "DRAINING", "UDP"}

ConnectionInv ==
    /\ SocketsMatchState
    /\ SocketsMatchCall
    /\ ShutWhileDraining
    /\ TimeoutBelongsToDrain
    /\ EventHasSocket
    /\ DrainedIsEmpty
=============================================================================
