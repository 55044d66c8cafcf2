----------------------------- MODULE AcdSocket -----------------------------
(***************************************************************************)
(* The packet socket of n-acd on the BSDs: a BPF device per NAcd, opened   *)
(* and torn down by n_acd_new() and n_acd_unref(), read in batches by      *)
(* n_acd_dispatch() into one buffer that all the NAcds of the process      *)
(* share.  The library runs one call at a time; the kernel captures        *)
(* frames, loses the link and changes its buffer size at any moment.       *)
(*                                                                         *)
(* Frames are numbered in arrival order so that loss, reordering and       *)
(* duplication can be told apart; at most MaxFrames arrive.                *)
(***************************************************************************)
EXTENDS Naturals, Sequences, FiniteSets

CONSTANTS
    Acds,       \* the NAcd objects of the process, one per interface
    Bufsizes,   \* the buffer sizes a BPF device can be opened with
    Kinds,      \* the kinds of frame on the wire, out of AllKinds
    Batch,      \* n_batch of n_acd_dispatch_socket()
    MaxFrames,  \* bound: frames captured in a behaviour
    None        \* not a NAcd

\* "cut": longer than the snaplen; "short": too short for an ARP payload;
\* "arp": exactly one; "padded": one and the padding of a minimal Ethernet
\* frame; "other": not ARP at all.
AllKinds == {"cut", "short", "arp", "padded", "other"}

ASSUME BufsizesAssumption == Bufsizes \subseteq Nat \ {0}
ASSUME BatchAssumption == Batch \in Nat \ {0}
ASSUME FramesAssumption == MaxFrames \in Nat
ASSUME KindsAssumption == Kinds \subseteq AllKinds
ASSUME NoneAssumption == None \notin Acds

VARIABLES
    bufsize,    \* what the kernel gives a device opened now
    buflen,     \* n_acd_bsd_buflen, 0 while n_acd_bsd_buf is NULL
    phase,      \* how far n_acd_new() got; "none" for no object
    step,       \* the next ioctl of n_acd_bsd_open_bpf()
    fields,     \* the descriptors held in the NAcd
    open,       \* the descriptors the kernel holds open
    watched,    \* the descriptors registered on the poller
    blen,       \* the buffer size of the BPF device
    filter,     \* the ARP filter is on the device
    link,       \* the interface: "up", "down" or "gone"
    queue,      \* captured frames not read yet
    arrived,    \* how many frames were captured so far
    caller,     \* the NAcd whose call is running, or None
    batch,      \* what n_acd_dispatch_socket() read and has not handled
    handled,    \* the last frame given to the state machine
    preempted,  \* acd->preempted
    result,     \* what the last n_acd_dispatch() returned
    down        \* an N_ACD_EVENT_DOWN is queued

kernel == <<bufsize, link, arrived>>
object == <<buflen, phase, step, fields, open, watched, blen, filter>>
traffic == <<queue, batch, handled, preempted, result, down>>
vars == <<kernel, object, traffic, caller>>

Descriptors == {"timer", "bpf", "poll"}
Frames == [id : 1 .. MaxFrames, kind : Kinds]
Packets == [id : 1 .. MaxFrames, kind : Kinds, len : {"short", "exact"}]

-----------------------------------------------------------------------------
(***************************************************************************)
(* n_acd_new() and n_acd_unref().                                          *)
(***************************************************************************)

\* The poller unregisters both descriptors, then whatever the NAcd holds is
\* closed and the object is gone, its queued events with it.
Unref(a) ==
    /\ phase' = [phase EXCEPT ![a] = "none"]
    /\ fields' = [fields EXCEPT ![a] = {}]
    /\ watched' = [watched EXCEPT ![a] = {}]
    /\ blen' = [blen EXCEPT ![a] = 0]
    /\ filter' = [filter EXCEPT ![a] = FALSE]
    /\ queue' = [queue EXCEPT ![a] = <<>>]
    /\ handled' = [handled EXCEPT ![a] = 0]
    /\ preempted' = [preempted EXCEPT ![a] = FALSE]
    /\ result' = [result EXCEPT ![a] = "ok"]
    /\ down' = [down EXCEPT ![a] = FALSE]
    /\ step' = 0
    /\ caller' = None

CloseFields(a) == open' = [open EXCEPT ![a] = @ \ fields[a]]

AcdUnref(a) ==
    /\ caller = None
    /\ phase[a] = "ready"
    /\ Unref(a)
    /\ CloseFields(a)
    /\ UNCHANGED <<kernel, buflen, batch>>

AcdNew(a) ==
    /\ caller = None
    /\ phase[a] = "none"
    /\ caller' = a
    /\ phase' = [phase EXCEPT ![a] = "alloc"]
    /\ UNCHANGED <<kernel, traffic, buflen, step, fields, open, watched, blen, filter>>

TimerNew(a) ==
    /\ caller = a /\ phase[a] = "alloc"
    /\ phase' = [phase EXCEPT ![a] = "timer"]
    /\ open' = [open EXCEPT ![a] = @ \cup {"timer"}]
    /\ fields' = [fields EXCEPT ![a] = @ \cup {"timer"}]
    /\ UNCHANGED <<kernel, traffic, caller, buflen, step, watched, blen, filter>>

\* open("/dev/bpf"): the device gets the buffer size of the moment.
OpenBpf(a) ==
    /\ caller = a /\ phase[a] = "timer"
    /\ phase' = [phase EXCEPT ![a] = "bpf"]
    /\ step' = 1
    /\ open' = [open EXCEPT ![a] = @ \cup {"bpf"}]
    /\ blen' = [blen EXCEPT ![a] = bufsize]
    /\ UNCHANGED <<kernel, traffic, caller, buflen, fields, watched, filter>>

\* Mutant: the filter is installed before the interface is bound.
FilterFirst == <<"BIOCSETF", "BIOCSETIF">>

\* The ioctls that matter here, in the order of the code.
Ioctls == <<"BIOCSETIF", "BIOCSETF">>

\* Binding resets the filter and the buffers; installing a filter resets the
\* buffers.
Ioctl(a) ==
    /\ caller = a /\ phase[a] = "bpf"
    /\ step \in DOMAIN Ioctls
    /\ link[a] # "gone"
    /\ step' = step + 1
    /\ filter' = [filter EXCEPT ![a] = (Ioctls[step] = "BIOCSETF")]
    /\ queue' = [queue EXCEPT ![a] = <<>>]
    /\ UNCHANGED <<kernel, caller, buflen, phase, fields, open, watched, blen>>
    /\ UNCHANGED <<batch, handled, preempted, result, down>>

\* Mutant: the shared buffer is allocated for the first device and kept.
AllocateOnce(n) == IF buflen = 0 THEN n ELSE buflen

\* The shared buffer only ever grows.
GrowTo(n) == IF n > buflen THEN n ELSE buflen

SocketNew(a) ==
    /\ caller = a /\ phase[a] = "bpf"
    /\ step \notin DOMAIN Ioctls
    /\ buflen' = GrowTo(blen[a])
    /\ phase' = [phase EXCEPT ![a] = "socket"]
    /\ step' = 0
    /\ fields' = [fields EXCEPT ![a] = @ \cup {"bpf"}]
    /\ UNCHANGED <<kernel, traffic, caller, open, watched, blen, filter>>

\* Mutant: the device is not closed when the buffer cannot grow.
SocketNewFailsLeaking(a) ==
    /\ caller = a
    /\ phase[a] = "bpf"
    /\ Unref(a)
    /\ CloseFields(a)
    /\ UNCHANGED <<kernel, buflen, batch>>

\* An ioctl fails, or realloc() does: the device is closed before returning,
\* and n_acd_new() drops the rest.
SocketNewFails(a) ==
    /\ caller = a
    /\ phase[a] = "bpf"
    /\ Unref(a)
    /\ open' = [open EXCEPT ![a] = @ \ (fields[a] \cup {"bpf"})]
    /\ UNCHANGED <<kernel, buflen, batch>>

PollNew(a) ==
    /\ caller = a /\ phase[a] = "socket"
    /\ phase' = [phase EXCEPT ![a] = "ready"]
    /\ open' = [open EXCEPT ![a] = @ \cup {"poll"}]
    /\ fields' = [fields EXCEPT ![a] = @ \cup {"poll"}]
    /\ watched' = [watched EXCEPT ![a] = {"bpf", "timer"}]
    /\ caller' = None
    /\ UNCHANGED <<kernel, traffic, buflen, step, blen, filter>>

\* The timer, the device or the poller cannot be created.  poll_new() closes
\* its own kqueue, so the NAcd holds all there is.
NewFails(a) ==
    /\ caller = a
    /\ phase[a] \in {"alloc", "timer", "socket"}
    /\ Unref(a)
    /\ CloseFields(a)
    /\ UNCHANGED <<kernel, buflen, batch>>

-----------------------------------------------------------------------------
(***************************************************************************)
(* n_acd_dispatch(), as far as the socket goes.                            *)
(***************************************************************************)

Return(a, r) ==
    /\ result' = [result EXCEPT ![a] = r]
    /\ caller' = None

\* The poller does not report the socket: it is quiet, or kevent() was
\* interrupted.
PollNothing(a) ==
    /\ caller = None /\ phase[a] = "ready"
    /\ preempted' = [preempted EXCEPT ![a] = FALSE]
    /\ Return(a, "ok")
    /\ UNCHANGED <<kernel, object, queue, batch, handled, down>>

\* Mutant: after a preemption the socket is not asked again.
PollSocketOnce(a) ==
    /\ caller = None /\ phase[a] = "ready"
    /\ "bpf" \in watched[a]
    /\ queue[a] # <<>> /\ ~preempted[a]
    /\ caller' = a
    /\ phase' = [phase EXCEPT ![a] = "recv"]
    /\ UNCHANGED <<kernel, buflen, step, fields, open, watched, blen, filter, traffic>>

\* EVFILT_READ is level-triggered: the socket is reported while it holds data.
PollSocket(a) ==
    /\ caller = None /\ phase[a] = "ready"
    /\ "bpf" \in watched[a]
    /\ queue[a] # <<>>
    /\ preempted' = [preempted EXCEPT ![a] = FALSE]
    /\ caller' = a
    /\ phase' = [phase EXCEPT ![a] = "recv"]
    /\ UNCHANGED <<kernel, buflen, step, fields, open, watched, blen, filter>>
    /\ UNCHANGED <<queue, batch, handled, result, down>>

Leave(a) == phase' = [phase EXCEPT ![a] = "ready"]

\* Only frames captured whole, Ethernet header included, are passed on.
Whole(f) == f.kind # "cut"

\* Mutant: the length on the wire is passed on.
WireLength(k) ==
    CASE k = "short" -> "short"
      [] k = "padded" -> "long"
      [] OTHER -> "exact"

\* The payload's length, capped at one struct ether_arp.
Length(k) == IF k = "short" THEN "short" ELSE "exact"

Packet(f) == [id |-> f.id, kind |-> f.kind, len |-> Length(f.kind)]

\* Mutant: the walk over the buffer does not move past the first packet.
NthRepeated(kept, i) ==
    CHOOSE j \in kept : Cardinality({k \in kept : k <= j}) = (IF i = 1 THEN 1 ELSE i - 1)

\* The i-th of the records kept.
Nth(kept, i) == CHOOSE j \in kept : Cardinality({k \in kept : k <= j}) = i

\* The whole frames, in the order of the buffer, until the batch is full.
Parse(frames) ==
    LET kept == {j \in DOMAIN frames : Whole(frames[j])}
        taken == IF Cardinality(kept) < Batch THEN Cardinality(kept) ELSE Batch
    IN  [i \in 1 .. taken |-> Packet(frames[Nth(kept, i)])]

\* Mutant: filling every slot is not taken as a sign that more was there.
FullIsNotPreemption(n) == n > Batch

IsPreemption(n) == n >= Batch

\* One read() of the device hands over what the kernel had in the buffer it
\* was filling: the first n frames.  Parsing stops when the batch is full and
\* the rest of the buffer is forgotten.
Recv(a) ==
    /\ caller = a /\ phase[a] = "recv" /\ batch = <<>>
    /\ blen[a] = buflen
    /\ \E n \in 1 .. Len(queue[a]) :
         /\ queue' = [queue EXCEPT ![a] = SubSeq(@, n + 1, Len(@))]
         /\ batch' = Parse(SubSeq(queue[a], 1, n))
    /\ preempted' = [preempted EXCEPT ![a] = IsPreemption(Len(batch'))]
    /\ phase' = [phase EXCEPT ![a] = "handle"]
    /\ UNCHANGED <<kernel, caller, buflen, step, fields, open, watched, blen, filter>>
    /\ UNCHANGED <<handled, result, down>>

\* EINTR and EAGAIN count as reading nothing.
RecvNothing(a) ==
    /\ caller = a /\ phase[a] = "recv"
    /\ Leave(a)
    /\ Return(a, "ok")
    /\ UNCHANGED <<kernel, buflen, step, fields, open, watched, blen, filter>>
    /\ UNCHANGED <<queue, batch, handled, preempted, down>>

\* A read that is not of the device's own buffer size is EINVAL; one of a
\* device whose interface was removed may be ENXIO even with frames left, as
\* the BSDs differ in which they look at first.  Both are fatal.  ENETDOWN raises
\* an event, for which there may be no memory, and is no error.
RecvFails(a) ==
    /\ caller = a /\ phase[a] = "recv"
    /\ Leave(a)
    /\ \/ blen[a] # buflen /\ Return(a, "EINVAL") /\ UNCHANGED down
       \/ link[a] = "gone" /\ Return(a, "ENXIO") /\ UNCHANGED down
       \/ link[a] # "up" /\ Return(a, "ok") /\ down' = [down EXCEPT ![a] = TRUE]
       \/ link[a] # "up" /\ Return(a, "ENOMEM") /\ UNCHANGED down
    /\ UNCHANGED <<kernel, buflen, step, fields, open, watched, blen, filter>>
    /\ UNCHANGED <<queue, batch, handled, preempted>>

\* Exactly one ARP, by the length the seam reported.
IsValid(p) == p.len = "exact"

HandlePacket(a) ==
    /\ caller = a /\ phase[a] = "handle"
    /\ batch # <<>> /\ IsValid(Head(batch))
    /\ handled' = [handled EXCEPT ![a] = Head(batch).id]
    /\ batch' = Tail(batch)
    /\ UNCHANGED <<kernel, object, caller, queue, preempted, result, down>>

SkipInvalid(a) ==
    /\ caller = a /\ phase[a] = "handle"
    /\ batch # <<>> /\ ~IsValid(Head(batch))
    /\ batch' = Tail(batch)
    /\ UNCHANGED <<kernel, object, caller, queue, handled, preempted, result, down>>

\* n_acd_handle_packet() fails for want of memory; the rest of the batch is
\* dropped with the error.
HandlePacketFails(a) ==
    /\ caller = a /\ phase[a] = "handle"
    /\ batch # <<>> /\ IsValid(Head(batch))
    /\ batch' = <<>>
    /\ Leave(a)
    /\ Return(a, "ENOMEM")
    /\ UNCHANGED <<kernel, buflen, step, fields, open, watched, blen, filter>>
    /\ UNCHANGED <<queue, handled, preempted, down>>

DispatchReturn(a) ==
    /\ caller = a /\ phase[a] = "handle"
    /\ batch = <<>>
    /\ Leave(a)
    /\ Return(a, IF preempted[a] THEN "preempted" ELSE "ok")
    /\ UNCHANGED <<kernel, buflen, step, fields, open, watched, blen, filter>>
    /\ UNCHANGED <<queue, batch, handled, preempted, down>>

\* n_acd_send() when the write fails with ENETDOWN or ENXIO.  Its other
\* outcomes change nothing here.
SendFails(a) ==
    /\ caller = None /\ phase[a] = "ready"
    /\ link[a] # "up"
    /\ down' = [down EXCEPT ![a] = TRUE]
    /\ UNCHANGED <<kernel, object, caller, queue, batch, handled, preempted, result>>

PopEvent(a) ==
    /\ caller = None /\ down[a]
    /\ down' = [down EXCEPT ![a] = FALSE]
    /\ UNCHANGED <<kernel, object, caller, queue, batch, handled, preempted, result>>

-----------------------------------------------------------------------------
(***************************************************************************)
(* The kernel.                                                             *)
(***************************************************************************)

Bound(a) ==
    /\ "bpf" \in open[a]
    /\ phase[a] = "bpf" => \E i \in DOMAIN Ioctls : i < step /\ Ioctls[i] = "BIOCSETIF"

\* A bound device captures what its filter lets through.
Capture(a, k) ==
    /\ Bound(a) /\ link[a] = "up"
    /\ filter[a] => k # "other"
    /\ arrived < MaxFrames
    /\ arrived' = arrived + 1
    /\ queue' = [queue EXCEPT ![a] = Append(@, [id |-> arrived', kind |-> k])]
    /\ UNCHANGED <<bufsize, link, object, caller, batch, handled, preempted, result, down>>

LinkChanges(a, l) ==
    /\ link[a] # "gone"
    /\ link' = [link EXCEPT ![a] = l]
    /\ UNCHANGED <<bufsize, arrived, object, traffic, caller>>

SetBufsize(n) ==
    /\ bufsize' = n
    /\ UNCHANGED <<link, arrived, object, traffic, caller>>

-----------------------------------------------------------------------------

Init ==
    /\ bufsize \in Bufsizes
    /\ buflen = 0
    /\ phase = [a \in Acds |-> "none"]
    /\ step = 0
    /\ fields = [a \in Acds |-> {}]
    /\ open = [a \in Acds |-> {}]
    /\ watched = [a \in Acds |-> {}]
    /\ blen = [a \in Acds |-> 0]
    /\ filter = [a \in Acds |-> FALSE]
    /\ link = [a \in Acds |-> "up"]
    /\ queue = [a \in Acds |-> <<>>]
    /\ arrived = 0
    /\ caller = None
    /\ batch = <<>>
    /\ handled = [a \in Acds |-> 0]
    /\ preempted = [a \in Acds |-> FALSE]
    /\ result = [a \in Acds |-> "ok"]
    /\ down = [a \in Acds |-> FALSE]

New(a) ==
    \/ AcdNew(a)
    \/ TimerNew(a)
    \/ OpenBpf(a)
    \/ Ioctl(a)
    \/ SocketNew(a)
    \/ SocketNewFails(a)
    \/ PollNew(a)
    \/ NewFails(a)

Dispatch(a) ==
    \/ PollNothing(a)
    \/ PollSocket(a)
    \/ Recv(a)
    \/ RecvNothing(a)
    \/ RecvFails(a)
    \/ HandlePacket(a)
    \/ SkipInvalid(a)
    \/ HandlePacketFails(a)
    \/ DispatchReturn(a)

Kernel ==
    \/ \E a \in Acds, k \in Kinds : Capture(a, k)
    \/ \E a \in Acds, l \in {"up", "down", "gone"} : LinkChanges(a, l)
    \/ \E n \in Bufsizes : SetBufsize(n)

Next ==
    \/ \E a \in Acds : New(a) \/ AcdUnref(a) \/ Dispatch(a) \/ SendFails(a) \/ PopEvent(a)
    \/ Kernel

Spec == Init /\ [][Next]_vars

\* A call runs to its end; the caller's loop serves every readable descriptor;
\* a signal does not interrupt every read.
Fairness ==
    \A a \in Acds :
        /\ WF_vars(New(a) /\ caller = a)
        /\ SF_vars(PollSocket(a))
        /\ SF_vars(Recv(a))
        /\ WF_vars(caller = a /\ Dispatch(a))

FairSpec == Spec /\ Fairness

-----------------------------------------------------------------------------
(***************************************************************************)
(* Properties.                                                             *)
(***************************************************************************)

Phases == {"none", "alloc", "timer", "bpf", "socket", "ready", "recv", "handle"}
Alive == {"ready", "recv", "handle"}
Results == {"ok", "preempted", "EINVAL", "ENXIO", "ENOMEM"}

TypeOK ==
    /\ bufsize \in Bufsizes
    /\ buflen \in Bufsizes \cup {0}
    /\ phase \in [Acds -> Phases]
    /\ step \in 0 .. Len(Ioctls) + 1
    /\ fields \in [Acds -> SUBSET Descriptors]
    /\ open \in [Acds -> SUBSET Descriptors]
    /\ watched \in [Acds -> SUBSET Descriptors]
    /\ blen \in [Acds -> Bufsizes \cup {0}]
    /\ filter \in [Acds -> BOOLEAN]
    /\ link \in [Acds -> {"up", "down", "gone"}]
    /\ queue \in [Acds -> Seq(Frames)]
    /\ arrived \in 0 .. MaxFrames
    /\ caller \in Acds \cup {None}
    /\ batch \in Seq(Packets)
    /\ handled \in [Acds -> 0 .. MaxFrames]
    /\ preempted \in [Acds -> BOOLEAN]
    /\ result \in [Acds -> Results]
    /\ down \in [Acds -> BOOLEAN]

\* Whatever step of n_acd_new() fails, and whenever a NAcd is dropped, no
\* descriptor outlives the object: outside socket_new() the kernel holds open
\* exactly what the NAcd will close, and the poller watches only that.
NoLeak ==
    \A a \in Acds :
        /\ phase[a] = "none" => open[a] = {}
        /\ phase[a] # "bpf" => open[a] = fields[a]
        /\ watched[a] # {} => watched[a] = open[a] \ {"poll"}

\* The shared buffer is never smaller than what a device may fill it with,
\* whichever NAcd was opened last.
BufferFits ==
    \A a \in Acds :
        phase[a] \in {"socket"} \cup Alive => 0 < blen[a] /\ blen[a] <= buflen

\* What makes the two above inductive: the phase determines what is held, open
\* and watched, and a device's buffer size is one the shared buffer has met.
HoldsByPhase(a) ==
    /\ phase[a] \in {"none", "alloc"} => fields[a] = {} /\ open[a] = {}
    /\ phase[a] = "timer" => fields[a] = {"timer"} /\ open[a] = {"timer"}
    /\ phase[a] = "bpf" => fields[a] = {"timer"} /\ open[a] = {"timer", "bpf"}
    /\ phase[a] = "socket" => fields[a] = {"timer", "bpf"} /\ open[a] = {"timer", "bpf"}
    /\ phase[a] \in Alive => fields[a] = Descriptors /\ open[a] = Descriptors
    /\ watched[a] = IF phase[a] \in Alive THEN {"bpf", "timer"} ELSE {}

SizeByPhase(a) ==
    /\ phase[a] \in {"bpf", "socket"} \cup Alive => blen[a] \in Bufsizes
    /\ phase[a] \in {"socket"} \cup Alive => blen[a] <= buflen

LifecycleInv ==
    /\ bufsize \in Bufsizes
    /\ buflen \in Bufsizes \cup {0}
    /\ phase \in [Acds -> Phases]
    /\ fields \in [Acds -> SUBSET Descriptors]
    /\ open \in [Acds -> SUBSET Descriptors]
    /\ watched \in [Acds -> SUBSET Descriptors]
    /\ blen \in [Acds -> Bufsizes \cup {0}]
    /\ \A a \in Acds : HoldsByPhase(a) /\ SizeByPhase(a)

\* The read buffer is exactly the size the kernel chose for the device, as the
\* comments on n_acd_bsd_open_bpf() and n_acd_os_socket_new() require.
BufferExact ==
    \A a \in Acds : phase[a] = "recv" => blen[a] = buflen

\* Neither a frame that is not ARP nor a truncated one reaches the state
\* machine, although a device exists, bound, before its filter does.
OnlyWholeArp ==
    \A i \in DOMAIN batch : batch[i].kind \notin {"other", "cut"}

Ids(frames) == [i \in DOMAIN frames |-> frames[i].id]

InOrderSeq(s) == \A i, j \in DOMAIN s : i < j => s[i] < s[j]

\* A NAcd handles frames in the order they arrived and none twice, across
\* reads that stop in the middle of what is captured.
InOrder ==
    \A a \in Acds :
        InOrderSeq(<<handled[a]>> \o (IF caller = a THEN Ids(batch) ELSE <<>>) \o Ids(queue[a]))

\* The frames among s that hold exactly one whole ARP payload.
ArpIds(s) == {s[i].id : i \in {j \in DOMAIN s : s[j].kind \in {"arp", "padded"}}}

\* A captured ARP leaves the kernel's buffer for n_acd_dispatch_socket()'s batch
\* and the batch for the state machine; it is discarded only by a read that
\* reports preemption, with a failed call, or with the NAcd.
DiscardOnlyWhenPreempted ==
    [][\A a \in Acds :
        /\ ArpIds(queue[a]) \subseteq ArpIds(queue'[a]) \cup ArpIds(batch')
            \/ preempted'[a]
            \/ phase'[a] \in {"none", "bpf"}
        /\ caller = a => \/ ArpIds(batch) \subseteq ArpIds(batch') \cup {handled'[a]}
                         \/ result'[a] = "ENOMEM"
      ]_vars

\* What n_acd_dispatch_socket() says of a full batch: what was not read is still
\* there for the next turn, so no ARP is discarded while the NAcd lives.
NothingDiscarded ==
    [][\A a \in Acds :
        \/ ArpIds(queue[a]) \subseteq ArpIds(queue'[a]) \cup ArpIds(batch')
        \/ phase'[a] \in {"none", "bpf"}
      ]_vars

\* As long as the interface is there and the buffer fits, every captured frame
\* is read sooner or later, or the NAcd dropped.
EveryFrameRead ==
    \A a \in Acds, i \in 1 .. MaxFrames :
        (\E j \in DOMAIN queue[a] : queue[a][j].id = i)
            ~> \/ \A j \in DOMAIN queue[a] : queue[a][j].id # i
               \/ blen[a] # buflen
               \/ link[a] = "gone"

\* What a NAcd is still to be given: the ARPs that wait in the kernel and those
\* n_acd_dispatch_socket() has read for it.
Pending == [a \in Acds |->
    ArpIds(queue[a]) \cup (IF caller = a THEN ArpIds(batch) ELSE {})]

\* A full batch, a call that failed, or a device not open yet.
Lossy == [a \in Acds |-> preempted[a] \/ result[a] = "ENOMEM" \/ phase[a] = "bpf"]

Channel == INSTANCE FrameChannel WITH
    Channels <- Acds, pending <- Pending, lossy <- Lossy

\* Behind the one buffer and the batches each NAcd has a channel of its own: it is
\* given the ARPs captured on its interface and no others, each once, in order, and
\* only a read that reports preemption, a failed call or a device that is still being
\* opened loses any.
ImplementsChannel == Channel!Spec

=============================================================================
