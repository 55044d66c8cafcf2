# Verification of pkgsrc-zakinko

TLA+ models, TLC runs and TLAPS proofs for the program logic that this
repository adds to the software it packages.

pkgsrc-zakinko is a pkgsrc category. Most of it is packaging data: Makefiles,
file lists, vendored patches of Emacs and Mule. Its own logic sits in three
places:

- the port of NetworkManager's `n-acd` (IPv4 address conflict detection) and
  `n-dhcp4` (DHCPv4 client) to the BSDs. The patches in
  `src/NetworkManager/patches/` put a seam under both libraries: the Linux half
  of the seam is the upstream code moved aside, the BSD half (`n-acd-os-bsd.c`,
  `n-dhcp4-socket-bsd.c`, `packet-bsd.c`) rebuilds timerfd, epoll and AF_PACKET
  out of kqueue and BPF. The code above the seam was written for the guarantees
  of the Linux half, so what has to be checked is whether the BSD half gives the
  same ones;
- the NetBSD backend of `speakersafetyd`, a daemon that keeps loudspeakers from
  overheating, and the main loop it is fitted into;
- `emacs-framework/modules.mk`, which decides for which of some thirty builds of
  Emacs a Lisp package is built, under which name and into which tree.

Paths below are relative to `src/`, and `NM/` stands for
`NetworkManager/patches/patch-src_`. A line number of a patch is a line of the
patch file.

Contents: [inventory](#inventory), [modules](#modules), [runs](#runs),
[findings](#findings), [proofs](#proofs), [assumptions](#assumptions),
[not modelled](#not-modelled), [plan](#plan).


## Inventory

### Modelled

**The n-acd timer on kqueue** (`NM/n-acd_src_util_timer.c`,
`NM/n-acd_src_n-acd-os-bsd.c` 500-594, the contract in
`NM/n-acd_src_n-acd-os.h` 124-149).
*State*: a tree of timeouts, `scheduled_timeout` (the deadline the seam was last
asked for), one one-shot `EVFILT_TIMER` in an inner kqueue. *Operations*:
schedule, unschedule, rearm, set, read, pop. *Used by* the probes (through
`timer.c`) and by `n_acd_dispatch()`. *Hard*: `timer.c` thinks in absolute
deadlines and the kernel takes intervals, so reading the clock and arming are
two steps; the timer disarms itself when it fires; one wakeup may report the
socket and the timer, and the socket is served first. *Correct when* no pending
timeout is ever without a kernel timer, none is delivered early, none is
reported when nothing is due, and each is handled in the end.

**The n-acd packet socket on BPF** (`NM/n-acd_src_n-acd-os-bsd.c`,
`NM/n-acd_src_n-acd.c`).
*State*: per NAcd a timer, a BPF device and a poller; for the whole process one
read buffer and its size; the frames captured and not read. *Operations*:
`n_acd_new()`, `n_acd_unref()`, `n_acd_dispatch()`, `n_acd_send()`. *Interacts*
with the kernel (capture, link state, default buffer size) and with the ARP
state machine, which gets one packet at a time. *Hard*: creation acquires four
things one after the other, and each step may fail; the shared buffer is sized
by whichever NAcd came last; a device is bound, and captures, before its filter
is on; one `read()` returns many frames while the batch holds eight. *Correct
when* nothing leaks, reads fit the device, only whole ARPs reach the state
machine, in order and once, and none is lost.

**The n-dhcp4 client connection** (`NM/n-dhcp4_src_n-dhcp4-c-connection.c`,
`...-client.c`, `...-socket-bsd.c`, `NM/n-dhcp4_src_util_packet-bsd.c`,
`...packet-linux.c`).
*State*: the connection's state (INIT, PACKET, DRAINING, UDP, CLOSED), a packet
socket, a UDP socket, the drain timeout, the events in hand. *Operations*: init,
listen, connect, close, dispatch of timer and IO. *Interacts* with the probe (its
caller), the poller (three sources, room for two events, one tag for both
sockets) and the network. *Hard*: the change from one socket to the other while
packets arrive; failures half-way; an event served after the one before it
closed its socket; the end of the drain. *Correct when* the open sockets fit the
state, a reply is always heard, the drain ends and loses nothing, and what
arrives is read.

**The n-dhcp4 client timer** (`NM/n-dhcp4_src_n-dhcp4-client.c` 89-256,
`...-socket-bsd.c` 581-648, `...-c-connection.c` 151-160).
*State*: `scheduled_timeout`, one one-shot timer, the deadlines of the probe and
of the drain. *Operations*: arm, fire, read, dispatch. *Interacts* with the
connection whose drain it ends. *Hard*: the client compares the drain's deadline
strictly and the kernel may deliver early, so a wakeup may come for nothing and has
to be repeated; `arm_timer()` does not repeat what it believes to be armed.
*Correct when* no deadline is without a kernel timer, every drain ends, and the
connection with a real clock is still the connection it was.

**The n-dhcp4 packet seam** (`NM/n-dhcp4_src_util_packet-bsd.c`,
`...packet-linux.c`, the filters in `...-socket-bsd.c` and `...-socket-linux.c`).
*State*: the kernel's buffer of records, the buffer of one read and the place of
the walk in it. *Operations*: receive, send. *Hard*: every length is claimed by
whoever sent the frame; one read returns several frames of which one is wanted;
the filter is the Linux one with each of its loads moved by hand. *Correct when* nothing beyond
the capture is read and a read returns what Linux would have.

**speakersafetyd** (`speakersafetyd/patches/`: `main.rs`, `types.rs`, both
backends).
*State*: how far the stream of samples was read, the gain remembered for each
group, the level of each speaker in the driver, the lease of the unlock. *Hard*:
short and interrupted reads, a daemon that dies between two writes and is
started again, a driver that turns everything down by itself. *Correct when* the
unlock is renewed only with every speaker low enough and never by mistake of a
remembered gain.

**emacs-framework version choice** (`emacs-framework/modules.mk`).
*State* of one evaluation: the accepted versions, the settings, the pattern its
dependent passes on; of a build: the chain of packages and what is installed.
*Hard*: each package decides for itself, and the only thing it is told by the one
that needs it is the beginning of a name. *Correct when* a chain is built for one
Emacs and lands where that Emacs looks.

### Not modelled

| component | what it is | why not |
| --- | --- | --- |
| n-dhcp4 server, client probe | upstream code; the server is not built, the probe is not in the repository | outside; an arbitrary caller in `DhcpConnection` and `DhcpClient` |
| `bin/mkpatch` | rebuilds one patch on top of those before it | straight-line shell; it compares file names |
| libknet buffers, libqb semaphore | a halving loop, two error codes | the code around them is not in the repository |
| rc.d scripts, mozc and other patches | straight-line start-up code, portability fixes | no state worth a model |
| CI scripts | build machines; C tests of the seams | read as documentation of the seams |
| Emacs, XEmacs, Mule and other packages | packaging data | no logic of its own |

More under [not modelled](#not-modelled). The hazards of all of these are listed
in `PROJECT.json`, each at the line where it bites, with the properties that
cover it or a note on why none does.


## Modules

| module | models | extends or instantiates |
| --- | --- | --- |
| `DeadlineTimer` | the timer `timer.c` was promised: the abstract specification, which is also what the Linux seam does | |
| `AcdTimer` | `timer.c` on the BSD seam, with `n_acd_dispatch()` as far as the timer goes | instantiates `DeadlineTimer` |
| `FrameChannel` | what n-acd is promised of its packet socket: an ordered channel per NAcd that may lose frames but says so | |
| `AcdSocket` | creation, dispatch and destruction of NAcds over BPF | instantiates `FrameChannel` |
| `DhcpConnection` | the client connection over either seam (constant `Bsd`), its timeout passing at will | |
| `DhcpClient` | the connection together with the client's kernel timer and a clock | extends `DhcpConnection`, which it implements |
| `DhcpPacket` | filters, parsing and sending of the packet seam, beside what Linux does with the same frames | |
| `SpeakerSafety` | the daemon, both its backends, the driver's lease, death and restart | |
| `EmacsModules` | the version choice and builds from source that follow from it | |
| `MCDhcpPacket`, `MCSpeakerSafety`, `MCEmacsModules` | the constants of their runs | extend their module |
| `AcdTimer_proofs`, `AcdSocket_proofs`, `DhcpConnection_proofs`, `DhcpClient_proofs`, `DhcpPacket_proofs`, `SpeakerSafety_proofs`, `EmacsModules_proofs` | the theorems | extend their module and `TLAPS` |
| `LeastNumber_proofs` | a lemma two of them need: a set of naturals has a least element | `FiniteSetTheorems`, `TLAPS` |

A definition whose comment begins with "Mutant", or that stands right before
another under a name made from it (`UdpOkUnder`, `BulkDefaultAsIs`), is a plausible
bug in the definition below it. It takes no part in the specification; replacing
the definition by it makes a named property fail.

### AcdTimer

| variable | in the code |
| --- | --- |
| `now` | what `n_acd_os_timer_set()` and `n_acd_handle_timeout()` read from the clock |
| `timeout` | `timer->tree`, as a deadline per probe, 0 for none |
| `scheduled` | `timer->scheduled_timeout` |
| `knote`, `expiry` | the `EVFILT_TIMER`: `off`, `armed`, or `active` (fired, not drained) |
| `rel` | the interval between `nsecs - now` and the `kevent()` that hands it over |
| `limit` | the `now` that `n_acd_handle_timeout()` reads once |
| `pc` | where `n_acd_dispatch()` stands |

`TimerRearm` is `timer_rearm()` with its test against `scheduled_timeout`;
`TimerSet` is the first half of `n_acd_os_timer_set()` and `KeventAdd` the
second. `Schedule` and `Unschedule` are the probes, which may run between
`PollWait` and the read of the timer because packets are handled first.
`TimerReadFired`, `TimerReadNothing` and `TimerReadInterrupted` are the three
outcomes of `timer_read()`. `HandleTimeout`, `PopTimeout`, `HandleDone` are the
loop, and `HandleFails` the handler of a popped timeout returning an error, with which
the dispatch is left at once; what the caller does with the NAcd then is outside, so
nothing is scheduled or polled afterwards. `Tick` and `Fire` are the clock and the kernel; time passes between any
two steps. `Unit` is what the kernel counts in (milliseconds where
`NOTE_NSECONDS` does not exist), `Early` how much before the expiry it may
deliver.

### AcdSocket

`phase[a]` is how far `n_acd_new()` got (`none`, `alloc`, `timer`, `bpf`,
`socket`) or, once it exists, where its dispatch stands (`ready`, `recv`,
`handle`).
`fields[a]` is what the NAcd's descriptor fields hold and `open[a]` what the
kernel has open: they differ while `n_acd_os_socket_new()` runs, and a leak is a
difference that stays. `Ioctl` walks through `n_acd_bsd_open_bpf()` by the two
ioctls that decide what is captured, BIOCSETIF and BIOCSETF; frames arrive from
the first on. A failure of any call of the function, the ones between included,
is `SocketNewFails`, which may come at each of its steps. `buflen` is the file-scope
`n_acd_bsd_buflen`; `blen[a]` the size of the device. `Recv` is one `read()`
parsed into a batch of at most `Batch` packets; `IsPreemption` is the test for a
full batch. `RecvFails` is every outcome of a failed read: EINVAL for the wrong size,
ENXIO of a removed interface, and ENETDOWN, which raises N_ACD_EVENT_DOWN or finds no
memory for the event. A frame is its arrival number and a kind, which stands for what the
framing tells apart: truncated, too short, exactly one ARP, one ARP with
Ethernet padding, not ARP. The library runs one call at a time (`caller`); the
kernel steps at any moment.

`FrameChannel` knows neither devices nor buffers nor batches: a set of ARPs that each
NAcd is still to be given, the last it was given, and a flag. The mapping takes the
ARPs queued in the device and, for the NAcd whose call it is, those in the batch for
the first, and for the flag `acd->preempted`, a call that failed for memory, or a
device that is still being opened (`Lossy`). As the abstract `Handle` takes the oldest
ARP, the refinement contains the order, and it adds to `InOrder` that a frame
read for one NAcd never reaches another.

### DhcpConnection

`open`, `watched`, `shut`, `packets` and `datagrams` are the two sockets;
`drain` is `ns_drain_timeout` (none, running, passed); `events` are those of one
poll that are still to be served. `Listen`/`ListenFails`, `Connect`,
`ConnectAdd`, `ConnectShutdown`, `ConnectFails` and `Close` are the calls, cut
where the outside can step in; `DispatchTimer`, `DispatchPacket`,
`DispatchDraining`, `CloseDrained` and `DispatchUdp` are
`n_dhcp4_client_dispatch()` in each state. `ConnectFails` includes the failure of the
UDP socket's own creation, before which nothing has changed: it ends the round, and
the events still in hand are gone. `RecvFails` is a receive that returns an error in any
state: ENETDOWN, which only raises an event, or any other error, which ends the round
(`packet_recvfrom_udp()` passes on what BIOCGBLEN, `malloc()` and `read()` return). It
takes nothing from the socket, so the poller reports it again. `InHand` is the event
that is served next. The two seams differ in two
definitions only: `PacketRecv` (one packet, or one buffer of which the first
usable packet is kept; EAGAIN or an empty packet when nothing is there) and
`PacketShutdown` (keep the queue, or flush it). `empty` is a history variable:
the last receive found the packet socket empty.


### DhcpClient

`deadline` is `ns_drain_timeout` as a time, `retry` the earliest deadline of the
probe, `scheduled`, `knote`, `expiry` and `rel` as in `AcdTimer`, and `busy` says
that a call or a round of dispatch has not come to its `arm_timer()` yet. The
actions of `DhcpConnection` are used as they are: `Call` and `DispatchSocket` wrap
them and add what happens to the deadline. `ProbeDispatchTimer` is the strict
comparison of the drain's deadline with the clock, `TimerFired` the read that
forgets `scheduled_timeout`. The refinement is the identity: the variables of
`DhcpConnection` are those of `DhcpClient`, and `ImplementsConnection` is `Spec`.

### DhcpPacket

A frame is what its header fields say: lengths as numbers, checksums as
right, wrong or none, and every field with one right value (type, version,
protocol, port, ...) as right or wrong. `store` is the kernel's buffer, with each
record at its offset; `rbuf` what one `read()` returned; `off` and `cur` the walk.
Each check of `packet_bsd_parse()` is an action of its own (`CheckIp`, `CheckIpSum`,
`CheckUdp`, `CheckUdpSum`), because each reads a little further on the strength of
the ones before it. `LinuxAccepts` is the whole of the Linux receive as a
predicate on a frame, `LinuxFilter` and `BsdFilter` are the two filter programs, written out separately: one
conjunct for each load and comparison, with the place the program computes for it. What
a load finds (`Finds`) is the field only if that is where the field lies in the frame
(`Place`); elsewhere it finds bytes of some other kind, which look right or not
(`stray`), and beyond the end of the frame it rejects. So a single offset that was not
moved past the Ethernet header shows. `LeavesAtLeast` is the unsigned subtraction of the
length test, which wraps for a header longer than the frame. `Compose` is
`packet_sendto_udp()`.

Two differences are deliberate and outside `SameAsLinux` (`RoomFor`): a frame
whose payload exceeds the caller's room is dropped by Linux and cut by the BSD
side, and a capture cut off by the device's buffer exists on BPF only.
The comment at `packet-bsd.c:310-313`, that Linux does not verify the header's
checksum itself, is wrong of `packet-linux.c:297`, and the two agree. `HdrLen` is
assumed to be at least `BpfHdrLen`, as line 278 does: on a kernel that counts
`bh_hdrlen` without the structure's trailing padding the walk would refuse every
record.

### SpeakerSafety

`pc` walks through `main()`: opened, preset, loop, read, model, gains. A read
(`ReadSome`, `ReadFrames`) advances `offset` by parts of a frame, so that a read
can end inside one. `todo` are the speakers that the round of the groups has
not written; `UpdateSpeaker` is one write to the driver. `gain` is `group.gain`,
`level` what the driver has, in steps of its own, and the two backends round a
gain to a level differently (`NetbsdLevel`, `AlsaLevel`). `Die` may come between any
two system calls, `Tick` lets the lease run out, after which the driver
turns everything to `Lowest`, and `Reboot` removes the flag file. What the thermal
model asks for is an arbitrary choice of gains (`RunModel`).

### EmacsModules

`Choice` is lines 354-468 as one operator: the accepted versions (`Ok`), the
request (`Requested`), the default, the first of the list, or a refusal. `Prefix`,
`Tree` and `Emacsen` are what follows from the choice: the beginning of the name,
the tree of the files and the Emacsen that satisfy the dependency. `Bulk` and
`BulkDefault` are the lists that bulk builds are told. The state is a build from source:
`Request` evaluates the file for one package, `BuildDependency` for a dependency that
is not installed, `Install` registers the package. How dependencies are resolved is
pkgsrc's `depends.mk`, which is outside and modelled from the way `modules.mk`
relies on it. A type is a record of a version and whether it is the nox build,
and a pattern the prefix it starts with; no string is taken apart, but
`FromPattern` keeps what the loop at 415-418 does with names: no name of a package
starts with `emacs30nox-`, and an XEmacs name starts with no version at all.


## Runs

| run | expects | what it shows |
| --- | --- | --- |
| `acd_timer` | pass | no wakeup is lost, none is early or spurious, every timeout is handled, and `AcdTimer` implements `DeadlineTimer` |
| `acd_socket` | pass | a NAcd created, read and dropped with every failure, every kind of frame and changing buffer sizes: no leak, the buffer is large enough, only whole ARPs, discarded only with preemption, every frame read, and `AcdSocket` implements `FrameChannel` |
| `acd_socket_lost` | violation | a full batch forgets frames |
| `acd_socket_buffer` | violation | a device read with another device's size |
| `dhcp_connection_linux` | pass | sockets fit the state, replies are heard, the drain ends, and what was queued reaches a receive in its turn whatever fails |
| `dhcp_connection_shutdown` | violation | shutting the BPF socket loses what was queued |
| `dhcp_connection_drain` | violation | the drain over BPF does not end when it is done |
| `dhcp_client` | pass | over the BSD seam with one kernel timer that may fire early: no deadline is forgotten, stale events, every drain ends, every datagram is read, the composition implements `DhcpConnection` |
| `dhcp_packet` | pass | the parser stays in bounds, returns what Linux would, and each end takes what the other sends |
| `speaker_safety` | pass | samples in step, remembered gains true, renewal only when safe, nothing louder by itself, renewal again and again |
| `emacs_packages` | pass | one version per chain, nothing installed out of reach, a sound bulk index |
| `emacs_dependency` | violation | a dependency built for the other build of an Emacs |

### Bounds

- `acd_timer`: two probes, deadlines up to 4, a clock that saturates at 5, a unit
  of 2. Two probes are enough for one to be at the front, to be overtaken and to
  be dropped while the other is pending. A unit of 2 gives intervals that are
  and are not multiples of it. The clock may pass every deadline; where it
  saturates no deadline lies, so nothing depends on the bound.
- `acd_socket`: one NAcd that is created and dropped again and again, two buffer
  sizes, batches of two, four frames: a device is reopened with a size the shared
  buffer does not have yet, and a full batch is followed by another, with every mix of
  kinds. The code's batch is eight; the model uses it only through "full" and "not
  full". The kind `arp` is left out, as a padded ARP becomes exactly one in the seam.
  Two NAcds with these frames are beyond a run that checks liveness, so what one may do
  to another is in `acd_socket_buffer`, which has two, and in theorems for any number
  of them: `BufferIsBigEnough`, `NothingLeaks` and `SocketImplementsChannel`.
- `acd_socket_*` violations: the smallest instance that reaches the case.
- `dhcp_connection_*`: two to four datagrams, so that both sockets hold
  some at once and a read may take one, some or all of a queue. Only with the Linux seam
  can the timer and both sockets be readable at the same time, since the shutdown of
  the BSD one empties its packet socket; `dhcp_connection_linux` has that case.
- `dhcp_client`: two datagrams, deadlines up to 4, a drain of 2, a unit of 2, and a
  kernel that may deliver 1 early: the drain's deadline may fall before, on and
  after the probe's, and a wakeup before, on and after either.
- `dhcp_packet`: two frames per behaviour, with the real numbers for the headers
  (14, 20, 8, and 240 for a message), the offsets and the widths of the fields. Every
  length of a frame ranges over both sides of each comparison it takes part in, and each
  field is right, or wrong with bytes elsewhere that look right, or wrong with none. The
  buffer holds two records, or one that is cut; alignment is to 8 with a header of 34, so
  that both sums are rounded.
- `speaker_safety`: three speakers in two groups, gains of zero and of half a step,
  two parts to a frame. Two speakers in one group are needed for a group half
  written, two groups for a round half done.
- `emacs_packages`, `emacs_dependency`: five versions of which one has no nox build,
  one is XEmacs and one pkgsrc no longer has; a chain of three packages with any of
  six recipes each, installed by two requests under any two of 18 settings. Two
  requests are enough for a dependency that was installed under other settings.

`acd_timer`, `dhcp_client` and `emacs_*` may come to rest (the clock at its bound and
nothing pending; the requests used up), and their cfg says `CHECK_DEADLOCK FALSE`.
The other runs check deadlock.

### Fairness

- *Kernel and clock*: a timer that is due is delivered, the clock runs, the
  capture device captures.
- *Caller*: the documented use of both libraries is to call dispatch whenever
  their descriptor polls readable, so every dispatch step is weakly fair, and the
  poll strongly, as other calls may come in between. The calls that create, move,
  drop or close something are not fair: a caller may never make them.
- *Signals*: `TimerReadFired`, `DispatchFired` and `Recv` are strongly fair. A read
  interrupted by a signal leaves the event queued and the dispatch loop comes back
  to it; a program that is interrupted at every single read forever is excluded.
- *Errors*: `SocketAnswers` is strongly fair: a socket that is read again and again does
  not fail every receive forever. `EveryTimeoutHandled` excepts a dispatch that failed.
- *The daemon* goes on while it runs; `RenewedAgain` assumes in its own text that
  it does not die forever and is not suspended in every read.

### What the properties are aimed at

`NoLostWakeup` (of both timers) is the property most easily broken by a change to
this code: both timers skip the system call when the deadline is the one asked
for last, so any way to consume or not to arm the kernel timer without changing
`scheduled_timeout` puts the owner to sleep for good. `NoSpuriousTimeout` and
`EventFindsSocket` are about events that are stale by the time they are served.
`BufferFits`, `NoLeak` and `SocketsMatchState` are about failures half-way
through a sequence. `TimeoutBelongsToDrain` needs a listen, a connect, a reset
and another listen to go wrong. `DiscardOnlyWhenPreempted` allows exactly the loss
that the code announces and no other, which is why it passes while
`NothingDiscarded`, which allows none, does not. `DrainEnds` and `EveryDatagramRead`
are the weaker guarantees that the BSD drain does give, where `DrainedIsClosed`
fails.

`QueuedIsDelivered` says of every step of the connection what may happen to the queue of
the packet socket: it grows at its end, it loses a front part to a receive, or it goes
with a socket that `close()`, `listen()` or the drain timeout gives up. The drain has to
survive failures, stale events and packets that are not usable for that; an end of the
drain that takes such a packet for the last one breaks it, and on the BSDs so does the
shutdown itself.

`InBounds` says at each step of the parser how far that step reads, and that the
capture is that long: the checks hold it up only together. `SameAsLinux` compares
the two filters, each with its own loads, and the two receives by what they deliver; a
load that is not moved past the Ethernet header, a check that
is missing, too strict, or ends the walk instead of going on to the next record
shows. Forgetting the header in the length test does not: the load of the magic cookie,
the last of the message, implies that test in both filters (`LengthTestIsImplied`). `OwnFrames` is the round trip.

`LevelOfGain` is the assumption that lets the daemon skip a write, and what a
restart could break; `RenewedWhenSafe` and `LouderOnlyWhenAsked` are what the user of
the speakers is owed. `Excess` in them is a difference between the backends: the ALSA
one truncates a fraction of a step toward zero (`backend__alsa.rs:146-158`), toward
less attenuation, and the NetBSD one rounds away from it.

`OneVersion`, `LispWithinReach` and `BulkIndex` restate what the comments of
`modules.mk` promise about whole builds, over chains of evaluations that never see
each other's variables.


## Findings

1. **A full batch loses ARPs** (`acd_socket_lost`, `NM/n-acd_src_n-acd-os-bsd.c:282`).
   One BPF `read()` empties the kernel's buffer; what does not fit the batch is
   forgotten, while the comment on preemption says it is handled next turn.
   `FullBatchLosesNothing` proves that it needs more whole frames in the device than
   the batch holds: a batch that is exactly full loses none.
2. **The shared buffer breaks a device with a smaller size**
   (`acd_socket_buffer`, `NM/n-acd_src_n-acd-os-bsd.c:427`). Every read passes the largest
   size so far; the file's own comment says that it has to be exact. It needs a
   change of the default size between two `n_acd_new()`, and
   `BufferIsExact` proves that it needs nothing less; `MismatchIsForGood`, that such
   a NAcd never recovers.
3. **The BSD drain does not notice that it is done** (`dhcp_connection_drain`,
   `NM/n-dhcp4_src_util_packet-bsd.c:399`). EAGAIN becomes an empty packet, so DRAINING lasts
   until its timeout and the UDP socket is left unread meanwhile. `dhcp_client`
   shows that it does end then, and that what waits on the UDP socket is read.
   `BsdDrainTakesItsTime` proves that no such drain is shorter than its timeout.
4. **The BSD shutdown loses what is queued** (`dhcp_connection_shutdown`,
   `NM/n-dhcp4_src_util_packet-bsd.c:427`). BIOCSETF performs a flush (bpf(4)), so an answer
   captured before `connect()` shut the packet socket and not read yet is gone, and the
   drain that exists to deliver it drains nothing. The comment on the Linux function
   (`NM/n-dhcp4_src_util_packet-linux.c:336-337`) promises that "All packets that are
   already queued will still be delivered", and `packet.c` says that the two files have
   the same entry points. `LossIsTheFlush` proves that no other step, failure or early
   timer on either seam loses a packet, and `QueuedReachesReceive` that the Linux seam
   keeps the promise throughout.
5. **A dependency may be built for the other build of an Emacs**
   (`emacs_dependency`, `emacs-framework/modules.mk:416`). Since the nox builds are
   told apart by `EMACS_VARIANT`, the pattern `emacs30-nox11-foo` is read as emacs30. A
   package built for emacs30nox, where `EMACS_TYPE` is another, gets its dependency as
   `emacs30-foo` in the other tree, and make stops with a dependency that does not
   match. The other way round, an `EMACS_TYPE` of emacs30nox turns the dependency of a
   package that refuses the nox build into `emacs30-nox11-foo`. `ChainHasOneVersion`
   proves that the version, at least, is always the same, `MismatchIsTheBuild` that it
   happens at the first dependency or not at all, and `BulkBuildsMatch` that no build
   with its type on the command line is concerned.

Seen on the way, with no run of their own:

- A removed interface: BSD answers ENXIO to a read, which `n_acd_dispatch_socket()`
  (`NM/n-acd_src_n-acd.c:476`) does not take for a link event as the send handler
  does; ENETDOWN it does. Which error a read returns first is the kernel's, so this rests on
  something that is not in the repository.
- `timer.c` relies on a kernel that never delivers early
  (`NM/n-acd_src_util_timer.c:62`): the comment on the timeout loop promises another
  wakeup for what is not due, but `scheduled_timeout` still names the deadline. The
  run `acd_timer` therefore has `Early = 0`; the CI test
  `.github/ci/n-acd/t-timer.c:38` accepts 2 ms. `OnlyNearTimeoutsAreLost` proves what
  an early kernel costs: the wakeup of a timeout that was at most `Early` ahead, and no
  other. `DhcpClient` needs no such assumption, as its timer forgets what it asked for
  whenever it fires.
- `n-acd-os.h:99-102` describes the length of a received packet as that of the
  frame, which the BSD seam caps at one ARP (`n-acd-os-bsd.c:310`); the code above
  is right with the cap.
- Two timeouts due at the same moment: after the first is popped `timer_rearm()` sees
  the deadline it has asked for already and asks for nothing, which the loop makes good
  by popping the second. If the first one's handler fails, the loop is left
  (`NM/n-acd_src_n-acd.c:396-412`) with the second pending and no kernel timer, on either
  system. A caller that went on using that NAcd would wait for it in vain; nothing in
  the repository says that it may.
- Several comments of `modules.mk` (152-159, 388-391, 421-427, 581-585) and
  `README.md:87-92` describe the names from before `EMACS_VARIANT`, when both builds of
  an Emacs shared one. The folded bulk list leaves out `emacs30-nox11-foo` on that
  ground. The pattern of an XEmacs package carries no version, so its dependency
  falls to the default, possibly a GNU Emacs.


## Proofs

All theorems hold for every value of the constants that satisfies the named
assumptions of the module; where one has a hypothesis of its own, it is stated here. They
are proved without any bound on the number of
probes, NAcds, frames, datagrams, speakers, versions or packages. The inductive
invariants (`TimerInv`, `LifecycleInv`, `ConnectionInv`, `ClientInv`, `GainInv`) stand
in the modules they are about; `EarlyInv`, `FlowInv`, `ReadsFit`, `DrainIsIdle`, `StreamInv`
and `ChainInv` with the proofs that need them; they are theorems and are not repeated as invariants of the runs.

**AcdTimer_proofs.** `NoLostWakeup`, `NeverEarly` and `NoSpuriousTimeout` speak of
the state between calls and are not inductive. `TimerInv` is: (1)
`scheduled_timeout` is the front of the tree in every state, which is what
makes the test in `timer_rearm()` sound; (2) an interval in flight or armed
reaches the deadline it was computed for, which holds although time passes
between the two system calls because time only helps (`RoundUpIsLater`,
`IntervalReaches`); (3) a deadline without a kernel timer is one that the
running loop is about to pop, or would have been had it not failed, which is what makes it sound to leave
`scheduled_timeout` in place after the timer was consumed. `RearmKeepsInv` treats
the rearm once for the three actions that use it. `EarlyInv` is the same without
assuming a punctual kernel: (2) becomes a delivery that is early by at most `Early`,
and (3) gains the case it has to have, a timer that was consumed too early for a deadline
at most `Early` ahead. It is the invariant that is proved inductive, for every `Early`;
from it follow `OnlyNearTimeoutsAreLost`, `TimeoutEarlyByAtMost` and, with the hypothesis
`Early = 0`, `TimerInv` and the three properties of the run.

`SeamKeepsPromiseEarly` is the safety half of the refinement: arming in two steps,
firing and reading each map to a step of `DeadlineTimer` or to none, with the
abstract clock `Early` ahead of the real one (`Ahead`). That is the exact price of
relative intervals: one constant shift, for every probe, unit and interleaving.
`SeamKeepsPromise` (`Early = 0`) is the instance without a shift.

**AcdSocket_proofs.** `LifecycleInv` says that the phase determines what is held,
open and watched, and that the buffer size of a usable device is at most the shared
one. The only step where `fields` and `open` may differ is inside
`n_acd_os_socket_new()`, which is why `NoLeak` alone is not inductive.
`OneAcdMoves` reduces each action to the NAcd that moves. `NothingLeaks` and
`BufferIsBigEnough` follow; `BufferIsExact` adds the hypothesis that the kernel
offers a single size.

The second half follows the frames. `Parse` picks the i-th whole frame by its rank,
so what it returns (`ParseReturns`: whole frames, in their order, all of them if the
batch is not full) needs no induction over the buffer: the rank grows with the
position, and a least position of each rank exists (`NthIsKept`, `NthIsOrdered`,
`EveryoneIsNth`). `FlowInv` then says that a usable device has its filter and behind it
only ARP, that between two dispatches nothing is in the batch, and that the ids of what
was handled, what is in the batch and what waits lie in three ranges, each above the
one before. `InOrder` alone is not inductive: it does not say that the next
frame captured is later than all of these, nor that the frames captured before the
filter was there are gone when it is. `NoOtherFrame`, `DeliveredInOrder` and
`DiscardsAreReported` follow, for any batch size.

`SocketImplementsChannel` puts the second half into one statement, the refinement of
`FrameChannel`. Its lemmas go by action: a capture is `Arrive` or, for a frame of
another kind, `Pass`; a read moves ARPs from the queue to the batch, which the channel does
not see, or is `Lose` (`RecvIsAllowed`); a packet taken off the batch is `Handle`, which
needs `FlowInv` to know that it is the oldest (`FirstIsOldest`); everything else leaves
the channel alone or closes it. `OthersKeepDue` is why one NAcd's call cannot touch
what another is to be given, although all share the batch.

`ReadsFit` (what is in the batch was read from a device of the buffer's size) makes
`DeafForGood` inductive: after `MismatchIsForGood` a NAcd left behind by a growing
buffer stays so, because the buffer never shrinks. `FullBatchLosesNothing` counts the
whole frames of the device: `Parse` of at most `Batch` of them returns all
(`ParseOfFew`).

**DhcpConnection_proofs.** `ConnectionInv` adds to `SocketsMatchState` what the
sockets are in the middle of each call (`SocketsMatchCall`), that the packet
socket is shut exactly while it is drained (`ShutWhileDraining`), and that an event in
hand implies a socket to serve it (`EventHasSocket`): without the first, nothing
is known when the second step of `connect()` runs; without the last, an event
that was polled before a `close()` could be served after it. Eight theorems hold
for both seams, `LossIsTheFlush` among them: `QueueStep` goes through every action and
shows that the queue grows (`QueueGrows`), loses a front part to a receive
(`RestIsSuffix`), is given up with its socket, or is emptied by the shutdown of the BSD
seam. `QueuedReachesReceive` (`QueuedIsDelivered`) is what remains of it with
`Bsd = FALSE`, which `EmptyDrainEnds` assumes too; the runs `dhcp_connection_shutdown` and
`dhcp_connection_drain` show that each fails otherwise. What holds there of the drain is
proved from `Bsd = TRUE`: a socket that is shut is empty (`BsdDrainIsIdle`), and the
drain ends by its timeout only (`BsdDrainTimesOut`).

**DhcpClient_proofs.** Every step of the client is a step of the connection or
leaves it alone (`ClientImplementsConnection`), so the theorems of
`DhcpConnection_proofs` carry over (`ClientSockets`). `ClientInv` adds that the
drain's deadline exists exactly while there is a drain, and that `scheduled_timeout`
names a deadline only while the kernel holds a timer; from it `ClientNeverForgets`,
for every unit and however early the kernel delivers. `IntervalReachesDeadline` adds
that an interval in flight, or the timer it became, does not fall short of the
deadline it was computed for; with it `ClientTimerKeepsPromise` shows the client's timer
to refine `DeadlineTimer`, the specification that `AcdTimer` refines too, on a clock
that is `Early` ahead. `BsdDrainTakesItsTime` (`Bsd = TRUE`) joins the two halves of the
module: through the refinement the connection leaves the drain by its timeout, and the
timeout has passed when the clock is beyond the deadline.

**DhcpPacket_proofs.** `SameFilter` shows the two filter programs equal. Neither
is defined through the other, so each is first shown equivalent to the same statement
about the frame (`LinuxAdmits`, `BsdAdmits`), load by load: each program looks where the
field is (`FindsInPlace`), for any lengths, offsets and widths, with the unsigned
subtraction. The rest is an invariant on the buffer: records do not
overlap, each starts where the previous one, rounded up, ends, and the walk is always
at the start of one or past the last. `ParserInBounds` follows for every
alignment and buffer length. `ReadsLikeLinux` adds what has been decided so far: no record
behind the walk is one that Linux would accept, and the queue a Linux socket
would hold is, in order, what the filter let into the buffer. `SentIsTaken` follows from
both. `WalkEnds` is termination without fairness: while a read is being parsed, each step
lowers `StepsLeft`, six checks for each byte still ahead, or ends the read.
This is the part of liveness that can be proved; that the parser takes its steps at all
is a property of the processor.

**SpeakerSafety_proofs.** `GainInv` says where in the loop each speaker's level comes
from: the gain remembered for a speaker not yet written, the gain its group needs for
one that was, and the two are the same once a group is done. Death in the
middle is covered because a fresh daemon remembers nothing (`Unknown`).
`StreamInv` says where in the loop a period is partly read, and that what is held is
less than a frame off a whole number of them; `SamplesInStep` follows from the
uniqueness of quotient and rest (`RestIsUnique`), for any frame size and period.
`RenewalIsSafe` and `LouderIsAsked` are action properties from it, for any number of
speakers and groups and in either backend.

**EmacsModules_proofs.** `FirstOk` takes the first of a list, so that it is defined has to
be shown: `LeastExists` of `LeastNumber_proofs` does it with the well-foundedness of
the strict subset relation (the set of counterexamples would have a least one), as the
induction theorems of the library are out of reach. `ChainHasOneVersion` is an invariant on neighbours
of the stack, `InstalledWithinReach` one on the installed packages, and
`IndexIsSound` holds of every recipe and not only of the reachable ones. `ChainInv`
says that the first dependency settles what all the others of its chain are built for
(`SettledFor` depends on the package asked for through its version alone), so only the
first can miss the name it is looked for under, and with a type from the command line
not even that one (`BulkBuildsMatch`, `MismatchIsTheBuild`).

Only model-checked:

- liveness (`EveryTimeoutHandled`, `EveryFrameRead`, `EveryDatagramRead`, `DrainEnds`,
  `RenewedAgain`): a fair action needs ENABLED, which the prover does not have;
- the fairness half of `ImplementsDeadlineTimer`, for the same reason. Its safety half is
  the theorem `SeamKeepsPromise`.

Every other property of the passing runs is stated by a theorem.


## Assumptions

Code that is not in the repository is modelled from how the patches use it:

- `timeout_schedule()`, `timeout_unschedule()` and `timer_pop_timeout()` change
  the tree and call `timer_rearm()`; a probe asks for deadlines in the future.
- `n_acd_packet_is_valid()` accepts a packet of exactly one `struct ether_arp`.
- `n_dhcp4_c_socket_packet_recv()` turns EAGAIN into N_DHCP4_E_AGAIN and an empty
  packet into N_DHCP4_E_MALFORMED; the connection resets its drain timeout
  when the packet socket is closed as drained.
- `n_dhcp4_client_probe_get_timeout()` is the earlier of the probe's deadlines and the
  connection's, and every call on the client and every round of its dispatch, one that ends in an error
  included, ends with `n_dhcp4_client_arm_timer()`.
- speakersafetyd's flag file is written at the first start and removed by a reboot;
  a group's gain is the least of its members'.
- pkgsrc's `depends.mk` takes an installed package that matches and builds the
  dependency otherwise, and looks again afterwards; a variable of make's command line
  overrides an assignment in the file and reaches the sub-makes.
- A caller gives up a NAcd whose dispatch returned an error of a timeout's handler.
- The kernel: EV_ADD on a timer replaces it, pending delivery included; a
  one-shot timer is gone once it was returned; BIOCSETF discards what is
  captured (bpf(4): it performs the actions of BIOCFLUSH); a BPF read whose size is not the device's fails with EINVAL; a read
  of a device whose interface is gone may fail with ENXIO; checksums are complete
  when a frame is delivered (`CSUMNOTREADY` not set on Linux). The audio driver turns
  the speakers to their lowest level when the unlock lapses.

Not covered by the models: failures of `kevent()` other than EINTR, which are
fatal to the caller; overflow of the kernel's capture buffers, but for a frame
that is lost to both systems alike in `DhcpPacket`; sending, but for its link errors
and the frame it composes.


## Not modelled

Beyond the table in the inventory:

- *Most of the lines of the repository.* What can be modelled is the code that the
  repository itself contributes and that keeps a state: the files mapped are about
  6200 lines, of which the map covers more than a third, comments and headers being
  much of the rest. The other lines are vendored or generated C
  (`emacs21/files/unexmacosx.c` and its copy, which write a Mach-O image, the
  keyword table of ntp), patches that move upstream files from one place to another,
  patches of Emacs, XEmacs and Mule that follow an operating system or a compiler,
  package recipes, and CI scripts. Their behaviour is that of upstream programs whose
  other files are not here.
- *The bytes.* A frame is its kind in `AcdSocket` and `DhcpConnection` and its header
  fields in `DhcpPacket`; hardware addresses, Ethernet headers and the contents of
  messages change no decision that is modelled. The eBPF map of the Linux n-acd seam
  filters by address and has no BSD counterpart.
- *State machines above the libraries*, which appear as callers that may make
  any legal call at any time. That makes the models more permissive than the
  programs, so an invariant shown here holds for the programs too.
- *The thermal model* of speakersafetyd, which chooses any gain; whether its choice
  protects the coil is upstream's.
- *The rest of `modules.mk`*: PLIST substitutions, info directories, the CONFLICTS
  filter and the path of the Emacs binary are functions of the type and keep no
  state. `_EMACS_REQD_OTHER` of xemacs215 names a pattern (`xemacs-nox11`) that is
  not a package's; only its tree is modelled.
- *Suspend*: the clock that stands in for CLOCK_BOOTTIME stops while the machine
  sleeps (`NM/n-dhcp4_src_n-dhcp4-private.h:53`); which lease has expired by then is decided
  upstream.
- *`mkpatch`, libknet, libqb*: a comparison of file names, a loop over one
  number, two error codes. A model of each would restate it.


## Plan

Done: `DeadlineTimer` and `AcdTimer`, `FrameChannel` and `AcdSocket`, `DhcpConnection`, `DhcpClient`
(the connection composed with its timer), `SpeakerSafety`, `DhcpPacket`,
`EmacsModules`, the inductive invariant of each as theorems, the safety half of all
four refinements (both timers of `DeadlineTimer`, the sockets of `FrameChannel`, the
client of `DhcpConnection`), and for each finding a theorem on how far it reaches.

Next: `AcdSocket` with its device replaced by the records of `DhcpPacket`, so that the
ARP parser is checked field by field as the UDP one is.
