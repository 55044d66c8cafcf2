----------------------------- MODULE DhcpClient -----------------------------
(***************************************************************************)
(* A client connection together with the timer that ends its drain: the    *)
(* dispatcher of n-dhcp4-client.c, the one-shot EVFILT_TIMER in a kqueue   *)
(* of its own (n-dhcp4-socket-bsd.c), and a clock.                         *)
(*                                                                         *)
(* The client has one kernel timer for the drain and for the deadlines of  *)
(* the probe.  Deadlines are absolute, the kernel takes an interval, and   *)
(* arm_timer() reads the clock before it asks for one.  The clock stops at *)
(* MaxTime, which stands for every later time.                             *)
(***************************************************************************)
EXTENDS DhcpConnection

CONSTANTS
    Horizon,    \* bound: the last deadline there is
    MaxTime,    \* bound of the clock
    DrainTime,  \* how long a drain may take
    Unit,       \* what EVFILT_TIMER counts in: 1 with NOTE_NSECONDS, more without
    Early       \* how much before its expiry the kernel may deliver the timer

ASSUME TimeAssumption ==
    /\ Horizon \in Nat
    /\ MaxTime \in Nat
    /\ Horizon < MaxTime
ASSUME DrainAssumption == DrainTime \in Nat \ {0}
ASSUME UnitAssumption == Unit \in Nat \ {0}
ASSUME EarlyAssumption == Early \in Nat

VARIABLES
    now,        \* CLOCK_BOOTTIME, or what stands for it
    deadline,   \* ns_drain_timeout as a time; drain says whether it passed
    retry,      \* the earliest deadline of the probe itself, 0 for none
    scheduled,  \* client->scheduled_timeout
    knote,      \* the EVFILT_TIMER
    expiry,     \* when the kernel will deliver it
    rel,        \* the interval computed and not yet handed to kevent(), or 0
    busy        \* a call or a round of dispatch has not ended with arm_timer()

timer == <<scheduled, knote, expiry, rel>>
clientVars == <<vars, now, deadline, retry, timer, busy>>

Times == 0 .. MaxTime
Deadlines == 1 .. Horizon

-----------------------------------------------------------------------------
(***************************************************************************)
(* Arming the timer.                                                       *)
(***************************************************************************)

\* The earlier of two deadlines, of which 0 is none.
Sooner(s, t) == IF s = 0 \/ (t # 0 /\ t < s) THEN t ELSE s

Timeout == Sooner(deadline, retry)

\* Mutant: a deadline already past is not special.
ArmTimerUnguarded ==
    /\ busy /\ rel = 0 /\ pc = "ready" /\ events = <<>>
    /\ busy' = FALSE
    /\ scheduled' = Timeout
    /\ rel' = IF Timeout = scheduled THEN rel ELSE Timeout - now
    /\ UNCHANGED <<vars, now, deadline, retry, knote, expiry>>

\* n_dhcp4_client_arm_timer() up to the call of n_dhcp4_os_timer_set(), which
\* deletes the timer for a zero interval.  A deadline already past becomes the
\* shortest interval; without any deadline the timer may be deleted or left to
\* fire once more.
ArmTimer ==
    /\ busy /\ rel = 0 /\ pc = "ready" /\ events = <<>>
    /\ busy' = FALSE
    /\ scheduled' = Timeout
    /\ \/ /\ Timeout = scheduled
          /\ UNCHANGED <<knote, rel>>
       \/ /\ Timeout # scheduled
          /\ rel' = IF Timeout > now THEN Timeout - now ELSE 1
          /\ UNCHANGED knote
       \/ /\ Timeout # scheduled /\ Timeout = 0
          /\ knote' = "off"
          /\ UNCHANGED rel
    /\ UNCHANGED <<vars, now, deadline, retry, expiry>>

\* The interval in the kernel's unit, rounded up.
RoundUp(n) == ((n + Unit - 1) \div Unit) * Unit

Saturate(t) == IF t < MaxTime THEN t ELSE MaxTime

\* EV_ADD replaces the timer, a delivery that was not read included.
KeventAdd ==
    /\ rel # 0
    /\ rel' = 0
    /\ knote' = "armed"
    /\ expiry' = Saturate(now + RoundUp(rel))
    /\ UNCHANGED <<vars, now, deadline, retry, scheduled, busy>>

-----------------------------------------------------------------------------
(***************************************************************************)
(* The calls of the connection, with what they do to its deadline.  Each   *)
(* is made from the API or from a handler of the dispatcher; both arm the  *)
(* timer before they return.                                               *)
(***************************************************************************)

Reset ==
    \/ /\ Listen \/ ListenFails
       /\ deadline' = IF "packet" \in open THEN 0 ELSE deadline
       /\ UNCHANGED retry
    \/ /\ Close
       /\ deadline' = 0
       /\ retry' = 0

\* Mutant: the drain has no deadline.
StartDrainUntimed ==
    /\ ConnectShutdown
    /\ UNCHANGED <<deadline, retry>>

StartDrain ==
    /\ ConnectShutdown
    /\ now + DrainTime <= Horizon
    /\ deadline' = now + DrainTime
    /\ UNCHANGED retry

OtherCall ==
    /\ ConnectionInit \/ Connect \/ ConnectAdd \/ ConnectFails
    /\ UNCHANGED <<deadline, retry>>

Call ==
    /\ rel = 0
    /\ Reset \/ StartDrain \/ OtherCall
    /\ busy' = TRUE
    /\ UNCHANGED <<now, timer>>

\* The probe moves or drops a deadline of its own.
SetRetry(t) ==
    /\ rel = 0 /\ pc = "ready"
    /\ state # "CLOSED"
    /\ t = 0 \/ t > now
    /\ retry' = t
    /\ busy' = TRUE
    /\ UNCHANGED <<vars, now, deadline, timer>>

-----------------------------------------------------------------------------
(***************************************************************************)
(* n_dhcp4_client_dispatch().                                              *)
(***************************************************************************)

Poll ==
    /\ ~busy /\ rel = 0
    /\ pc = "ready" /\ events = <<>>
    /\ Collect(ReadableSockets \cup (IF knote = "active" THEN {"timer"} ELSE {}))
    /\ busy' = TRUE
    /\ UNCHANGED <<state, sockets, drain, pc, empty, arrived>>
    /\ UNCHANGED <<now, deadline, retry, timer>>

\* Mutant: the deadline that was asked for is remembered after it fired.
TimerFiredUnnoted ==
    /\ knote = "active"
    /\ knote' = "off"
    /\ UNCHANGED scheduled

\* n_dhcp4_os_timer_read() finds the timer fired; being one-shot, the kernel
\* forgets it.
TimerFired ==
    /\ knote = "active"
    /\ knote' = "off"
    /\ scheduled' = 0

\* Mutant: the drain is over as soon as its deadline is reached.
ProbeDispatchTimerInclusive ==
    /\ retry' = IF retry <= now THEN 0 ELSE retry
    /\ \/ /\ deadline # 0 /\ deadline <= now
          /\ ClosePacket
          /\ deadline' = 0
       \/ /\ ~(deadline # 0 /\ deadline <= now)
          /\ UNCHANGED <<state, open, watched, shut, packets, drain, deadline>>

\* n_dhcp4_client_probe_dispatch_timer(): the deadlines of the probe are due
\* when they are reached, the drain strictly after.
ProbeDispatchTimer ==
    /\ retry' = IF retry <= now THEN 0 ELSE retry
    /\ \/ /\ deadline # 0 /\ deadline < now
          /\ ClosePacket
          /\ deadline' = 0
       \/ /\ ~(deadline # 0 /\ deadline < now)
          /\ UNCHANGED <<state, open, watched, shut, packets, drain, deadline>>

DispatchFired ==
    /\ NextEvent("timer")
    /\ TimerFired
    /\ ProbeDispatchTimer
    /\ UNCHANGED <<datagrams, pc, empty, arrived, now, expiry, rel, busy>>

\* EINTR: the event stays queued.
DispatchInterrupted ==
    /\ NextEvent("timer")
    /\ UNCHANGED <<state, sockets, drain, pc, empty, arrived>>
    /\ UNCHANGED <<now, deadline, retry, timer, busy>>

SocketAnswers ==
    /\ DispatchPacket \/ DispatchDraining \/ DispatchUdp
    /\ UNCHANGED <<now, deadline, retry, timer, busy>>

\* A packet socket that is closed as drained takes its timeout with it.
DispatchSocket ==
    /\ DispatchPacket \/ DispatchDraining \/ DispatchUdp \/ RecvFails \/ CloseDrained
    /\ deadline' = IF pc = "drained" THEN 0 ELSE deadline
    /\ UNCHANGED <<now, retry, timer, busy>>

ClientDispatch == DispatchFired \/ DispatchInterrupted \/ DispatchSocket

-----------------------------------------------------------------------------
(***************************************************************************)
(* The kernel, the clock and the network.                                  *)
(***************************************************************************)

Tick ==
    /\ now < MaxTime
    /\ now' = now + 1
    /\ drain' = IF deadline # 0 /\ deadline < now' THEN "passed" ELSE drain
    /\ UNCHANGED <<state, sockets, events, pc, empty, arrived>>
    /\ UNCHANGED <<deadline, retry, timer, busy>>

Fire ==
    /\ knote = "armed"
    /\ now + Early >= expiry
    /\ knote' = "active"
    /\ UNCHANGED <<vars, now, deadline, retry, scheduled, expiry, rel, busy>>

Receive ==
    /\ \E socket \in {"packet", "udp"}, k \in Kinds : Arrive(socket, k)
    /\ UNCHANGED <<now, deadline, retry, timer, busy>>

-----------------------------------------------------------------------------

ClientInit ==
    /\ Init
    /\ now = 1
    /\ deadline = 0
    /\ retry = 0
    /\ scheduled = 0
    /\ knote = "off"
    /\ expiry = 0
    /\ rel = 0
    /\ busy = FALSE

ClientNext ==
    \/ Call
    \/ \E t \in {0} \cup Deadlines : SetRetry(t)
    \/ ArmTimer
    \/ KeventAdd
    \/ Poll
    \/ ClientDispatch
    \/ Tick
    \/ Fire
    \/ Receive

ClientSpec == ClientInit /\ [][ClientNext]_clientVars

\* The clock runs, the kernel delivers, a call runs to its end, and the caller
\* dispatches when the poller is readable, however often it makes other calls in
\* between.  A signal does not interrupt every read of the timer forever, and a socket
\* does not fail every receive forever.
Fairness ==
    /\ WF_clientVars(Tick)
    /\ WF_clientVars(Fire)
    /\ WF_clientVars(ArmTimer)
    /\ WF_clientVars(KeventAdd)
    /\ SF_clientVars(Poll)
    /\ WF_clientVars(Call /\ pc # "ready")
    /\ WF_clientVars(ClientDispatch)
    /\ SF_clientVars(DispatchFired)
    /\ SF_clientVars(SocketAnswers)

ClientFairSpec == ClientSpec /\ Fairness

-----------------------------------------------------------------------------
(***************************************************************************)
(* Properties.                                                             *)
(***************************************************************************)

ClientTypeOK ==
    /\ now \in Times
    /\ deadline \in {0} \cup Deadlines
    /\ retry \in {0} \cup Deadlines
    /\ scheduled \in {0} \cup Deadlines
    /\ knote \in {"off", "armed", "active"}
    /\ expiry \in Times
    /\ rel \in Nat
    /\ busy \in BOOLEAN

\* With nothing in progress a pending deadline of the probe or the drain always
\* has a kernel timer behind it.  arm_timer() does not repeat a deadline it has
\* asked for, so a timer that fired too soon for the handlers - early, or for the
\* strict comparison with the drain's deadline - has to be forgotten.
NoLostWakeup ==
    (~busy /\ rel = 0 /\ Timeout # 0)
        => scheduled = Timeout /\ knote \in {"armed", "active"}

\* The drain's deadline exists exactly while the connection drains.
DeadlineMatchesDrain ==
    /\ drain = "none" <=> deadline = 0
    /\ drain = "passed" <=> deadline # 0 /\ deadline < now

\* What makes NoLostWakeup inductive.
KernelTimerKept ==
    /\ (rel = 0 /\ scheduled # 0) => knote \in {"armed", "active"}
    /\ ~busy => scheduled = Timeout
    /\ busy => rel = 0
    /\ ~busy => events = <<>> /\ pc = "ready"

ClientInv == DeadlineMatchesDrain /\ KernelTimerKept

\* With the clock and the timer in place of its free choice of when the timeout
\* passes and when the timer is reported, the client still is the connection of
\* DhcpConnection.
ImplementsConnection == Spec

\* No drain lasts: although the drain of the BSD seam is not ended by an empty
\* packet socket, its timer fires until the deadline has strictly passed.
DrainEnds == drain # "none" ~> drain = "none"

\* Whatever happens to the packet socket, a datagram queued on the UDP socket is
\* read, unless the connection is reset.
EveryDatagramRead == datagrams # <<>> ~> datagrams = <<>>
=============================================================================
