----------------------------- MODULE DhcpPacket -----------------------------
(***************************************************************************)
(* The packet seam of n-dhcp4 on a BPF device: which frames the client's   *)
(* filter lets into the kernel's buffer, how packet_recvfrom_udp() walks   *)
(* that buffer and checks one record after the other, and what             *)
(* packet_sendto_udp() puts on the wire.  Beside it, on the same frames,   *)
(* what the Linux seam takes: its filter and its packet_recvfrom_udp().    *)
(* One call of the Linux seam hands over one packet; the first packet it   *)
(* would hand over is what a BPF read has to return.                       *)
(*                                                                         *)
(* A frame is what its header fields say (ihl and tot in bytes), how many  *)
(* bytes follow its Ethernet header, whether its checksums fit, and which  *)
(* of the fields with one right value are wrong.  A filter that looks for  *)
(* a field in another place finds bytes that look right in some frames     *)
(* (stray).  A checksum that fits means that nothing was altered.          *)
(***************************************************************************)
EXTENDS Integers, Sequences

CONSTANTS
    Frames,      \* frames other machines send
    Payloads,    \* lengths of the messages this seam sends
    EtherLen,    \* PACKET_ETHER_HDR_LEN, "E" in the filter
    IpLen,       \* PACKET_IP_HDR_LEN
    UdpLen,      \* PACKET_UDP_HDR_LEN
    MessageLen,  \* sizeof(NDhcp4Message)
    Offset,      \* offsetof() of each field the filters load, in its header
    Width,       \* how many bytes of it they load
    BpfHdrLen,   \* sizeof(struct bpf_hdr)
    HdrLen,      \* bh_hdrlen, as the kernel writes it
    Word,        \* BPF_ALIGNMENT
    BufLen,      \* BIOCGBLEN
    NBuf,        \* n_buf, the caller's room for a payload
    MaxFrames    \* bound: frames that arrive

Flaws == {"type", "version", "proto", "frag", "port", "op", "magic", "ipsum"}

Frame == [len : Nat, ihl : Nat, tot : Nat, ulen : Nat,
          sum : {"none", "right", "wrong"}, flaws : SUBSET Flaws,
          stray : BOOLEAN, origin : {"other", "sent", "altered"}]

Loaded == {"type", "proto", "frag", "port", "op", "magic"}

\* A frame has at least one byte, so that its record is not empty; the kernel's
\* header is at least as long as the structure the code takes it for.
ASSUME LengthAssumption ==
    /\ EtherLen \in Nat \ {0} /\ IpLen \in Nat /\ UdpLen \in Nat /\ MessageLen \in Nat
    /\ BpfHdrLen \in Nat \ {0} /\ HdrLen \in Nat /\ BpfHdrLen <= HdrLen
    /\ BufLen \in Nat /\ HdrLen <= BufLen /\ NBuf \in Nat
    /\ Word \in {1, 2, 4, 8} /\ MaxFrames \in Nat
\* Each field lies within its own header.
ASSUME FieldAssumption ==
    /\ Offset \in [Loaded -> Nat] /\ Width \in [Loaded -> Nat \ {0}]
    /\ Offset.type + Width.type <= EtherLen
    /\ Offset.proto + Width.proto <= IpLen /\ Offset.frag + Width.frag <= IpLen
    /\ Offset.port + Width.port <= UdpLen
    /\ Offset.op + Width.op <= MessageLen /\ Offset.magic + Width.magic <= MessageLen
ASSUME FramesAssumption ==
    /\ Frames \subseteq {f \in Frame : f.origin = "other"}
    /\ Payloads \subseteq Nat
\* The messages this seam sends hold a DHCP header and fit, padded, in a BPF buffer.
ASSUME PayloadAssumption ==
    \A n \in Payloads : /\ MessageLen <= n
                        /\ EtherLen + IpLen + UdpLen + n + 1 <= BufLen - HdrLen

VARIABLES
    store,    \* records in the kernel's buffer
    queue,    \* frames an AF_PACKET socket would have queued meanwhile
    arrived,  \* bound: frames so far
    pc,       \* what packet_bsd_parse() looks at next; "idle" between two calls
    rbuf,     \* the records the last read() returned
    off,      \* off
    cur,      \* the record being checked
    out,      \* what the last call returned in buf, *n_transmittedp and *src
    meant     \* the frames queued on the AF_PACKET socket when it was called

vars == <<store, queue, arrived, pc, rbuf, off, cur, out, meant>>
parser == <<pc, rbuf, off, cur, out, meant>>

Least(a, b) == IF a < b THEN a ELSE b
Align(n) == ((n + Word - 1) \div Word) * Word
Right(f, fields) == fields \cap f.flaws = {}

-----------------------------------------------------------------------------
(***************************************************************************)
(* The filters, load by load.  On BPF the frame starts with the Ethernet   *)
(* header, on an AF_PACKET socket with the IP header; e is the length of   *)
(* what comes before the latter.  A load beyond the end of the frame       *)
(* rejects it.                                                             *)
(***************************************************************************)
Wire(f) == EtherLen + f.len

\* Where the field of a frame really is.
Place(f, e, field) ==
    CASE field = "type" -> Offset.type
      [] field \in {"proto", "frag"} -> e + Offset[field]
      [] field = "port" -> e + f.ihl + Offset.port
      [] OTHER -> e + f.ihl + UdpLen + Offset[field]

\* What is loaded from the given place is the value the filter looks for.
Finds(f, e, field, at) ==
    /\ at + Width[field] <= e + f.len
    /\ IF at = Place(f, e, field) THEN Right(f, {field}) ELSE f.stray

\* BPF_MSH: four times the low half of a byte, the IP header's first if it is taken
\* from there.
HeaderLen(f, e, at) == IF at = e \/ f.stray THEN f.ihl ELSE 0

\* A -= X and BPF_JGE: a header longer than the frame wraps to a large number.
LeavesAtLeast(length, x, n) == length < x \/ length - x >= n

\* The socket is bound to ETH_P_IP.
LinuxFilter(f) ==
    LET x == HeaderLen(f, 0, 0)
        message == x + UdpLen
    IN  /\ Right(f, {"type"})
        /\ Finds(f, 0, "proto", Offset.proto)
        /\ Finds(f, 0, "frag", Offset.frag)
        /\ LeavesAtLeast(f.len, x, UdpLen + MessageLen)
        /\ Finds(f, 0, "port", x + Offset.port)
        /\ Finds(f, 0, "op", message + Offset.op)
        /\ Finds(f, 0, "magic", message + Offset.magic)

\* Mutant: one offset is not moved past the Ethernet header.
PortBehindX(x) == x + Offset.port
PortBehindEther(x) == EtherLen + x + Offset.port

BsdFilter(f) ==
    LET x == HeaderLen(f, EtherLen, EtherLen)
        message == x + UdpLen
    IN  /\ Finds(f, EtherLen, "type", Offset.type)
        /\ Finds(f, EtherLen, "proto", EtherLen + Offset.proto)
        /\ Finds(f, EtherLen, "frag", EtherLen + Offset.frag)
        /\ LeavesAtLeast(Wire(f), x, EtherLen + UdpLen + MessageLen)
        /\ Finds(f, EtherLen, "port", PortBehindEther(x))
        /\ Finds(f, EtherLen, "op", EtherLen + message + Offset.op)
        /\ Finds(f, EtherLen, "magic", EtherLen + message + Offset.magic)

-----------------------------------------------------------------------------
(***************************************************************************)
(* packet_recvfrom_udp() on Linux: the packet it hands over for a frame.   *)
(* The payload is named by its place in the IP packet and its length.      *)
(***************************************************************************)
NoPacket == [len |-> 0]
Packet(f, n) == [frame |-> f, from |-> f.ihl + UdpLen, len |-> n]

LinuxAccepts(f) ==
    /\ f.len >= IpLen /\ Right(f, {"version"}) /\ f.ihl >= IpLen
    /\ f.tot <= Least(f.len, f.ihl + UdpLen + NBuf)
    /\ f.tot >= f.ihl + UdpLen
    /\ f.tot >= f.ihl + f.ulen
    /\ f.ulen >= UdpLen
    /\ Right(f, {"proto", "frag", "ipsum"})
    /\ f.sum # "wrong"

LinuxPacket(f) == Packet(f, f.ulen - UdpLen)

-----------------------------------------------------------------------------
(***************************************************************************)
(* packet_sendto_udp(): the frame it writes for a payload of n bytes whose *)
(* checksum adds up to sum; a checksum of zero would read as none.         *)
(***************************************************************************)
AllOnes == 65535
SentSumAsIs(sum) == sum
SentSum(sum) == IF sum = 0 THEN AllOnes ELSE sum

Compose(n, sum) ==
    [len |-> IpLen + UdpLen + n, ihl |-> IpLen, tot |-> IpLen + UdpLen + n,
     ulen |-> UdpLen + n, sum |-> IF SentSum(sum) = 0 THEN "none" ELSE "right",
     flaws |-> {}, stray |-> FALSE, origin |-> "sent"]

\* Padding to the shortest frame Ethernet carries, and damage to the payload.
Padded(f, n) == [f EXCEPT !.len = @ + n]
Altered(f) == [f EXCEPT !.sum = IF @ = "right" THEN "wrong" ELSE @, !.origin = "altered"]

\* What may arrive: a frame of another machine, or one that this seam composed, as
\* it was sent or altered under way.
Sent == {Compose(n, sum) : n \in Payloads, sum \in {0, 1}}
OnTheWire == Frames \cup {Padded(f, n) : f \in Sent, n \in {0, 1}}
                    \cup {Altered(f) : f \in Sent}

-----------------------------------------------------------------------------
(***************************************************************************)
(* The kernel's buffer: each record starts on a word boundary and holds a  *)
(* header and as much of the frame as a buffer can take.                   *)
(***************************************************************************)
End(r) == r.at + HdrLen + r.caplen
Filled(buf) == IF buf = <<>> THEN 0 ELSE End(buf[Len(buf)])
Record(f, at) == [at |-> at, caplen |-> Least(Wire(f), BufLen - HdrLen), frame |-> f]

Init ==
    /\ store = <<>> /\ queue = <<>> /\ arrived = 0
    /\ pc = "idle" /\ rbuf = <<>> /\ off = 0 /\ meant = <<>>
    /\ cur = [at |-> 0] /\ out = NoPacket

\* A frame that finds the buffer full is lost, here to both systems.
Arrive(f) ==
    LET r == Record(f, Align(Filled(store)))
    IN  /\ arrived < MaxFrames /\ arrived' = arrived + 1
        /\ End(r) <= BufLen
        /\ store' = IF BsdFilter(f) THEN Append(store, r) ELSE store
        /\ queue' = IF LinuxFilter(f) THEN Append(queue, f) ELSE queue
        /\ UNCHANGED parser

-----------------------------------------------------------------------------
(***************************************************************************)
(* packet_recvfrom_udp() on a BPF device.                                  *)
(***************************************************************************)
\* read() empties the kernel's buffer; an empty one is EAGAIN, and no error.
ReadBuffer ==
    /\ pc = "idle"
    /\ rbuf' = store /\ store' = <<>>
    /\ meant' = queue /\ queue' = <<>>
    /\ off' = 0 /\ out' = NoPacket
    /\ pc' = IF store = <<>> THEN "idle" ELSE "record"
    /\ UNCHANGED <<arrived, cur>>

\* EINTR, reported like EAGAIN; BIOCGBLEN, malloc() and read() may also fail.
ReadFails ==
    /\ pc = "idle"
    /\ rbuf' = <<>> /\ meant' = <<>> /\ out' = NoPacket
    /\ UNCHANGED <<store, queue, arrived, pc, off, cur>>

RecordAt(o) == CHOOSE i \in DOMAIN rbuf : rbuf[i].at = o
More == off + BpfHdrLen <= Filled(rbuf)

\* Where the next record starts: both lengths are rounded up together.
NextOff(r) == off + Align(HdrLen + r.caplen)

\* A record that does not fit in what was read ends the walk.
Broken(r) == HdrLen < BpfHdrLen \/ off + HdrLen + r.caplen > Filled(rbuf)

\* A capture that is cut off, or too short for its headers, is passed over.
Captured(r) == r.caplen = Wire(r.frame) /\ r.caplen >= EtherLen + IpLen + UdpLen

NextRecord ==
    /\ pc = "record" /\ More
    /\ LET r == rbuf[RecordAt(off)]
       IN  /\ ~Broken(r)
           /\ cur' = r /\ off' = NextOff(r)
           /\ pc' = IF Captured(r) THEN "ip" ELSE "record"
    /\ UNCHANGED <<store, queue, arrived, rbuf, out, meant>>

EndOfBuffer ==
    /\ pc = "record"
    /\ More => Broken(rbuf[RecordAt(off)])
    /\ pc' = "idle"
    /\ UNCHANGED <<store, queue, arrived, rbuf, off, cur, out, meant>>

\* frame, once the Ethernet header is behind
Left(r) == r.caplen - EtherLen

Check(at, ok, next) ==
    /\ pc = at
    /\ pc' = IF ok THEN next ELSE "record"
    /\ UNCHANGED <<store, queue, arrived, rbuf, off, cur, out, meant>>

IpOkLoose(f, left) ==
    /\ Right(f, {"version"}) /\ f.ihl >= IpLen
    /\ Right(f, {"proto"})
    /\ f.tot >= f.ihl + UdpLen

IpOk(f, left) ==
    /\ Right(f, {"version"}) /\ f.ihl >= IpLen /\ f.ihl <= left
    /\ Right(f, {"proto"})
    /\ f.tot <= left /\ f.tot >= f.ihl + UdpLen

UdpOkUnder(f) == f.ihl + f.ulen <= f.tot
UdpOk(f) == f.ulen >= UdpLen /\ f.ihl + f.ulen <= f.tot

SumOk(f) == f.sum # "wrong"

CheckIp == Check("ip", IpOk(cur.frame, Left(cur)), "ipsum")
CheckIpSum == Check("ipsum", Right(cur.frame, {"ipsum"}), "udp")
CheckUdp == Check("udp", UdpOk(cur.frame), "udpsum")
CheckUdpSum == Check("udpsum", SumOk(cur.frame), "copy")

\* The first packet that passes is returned; the rest of the buffer is dropped.
Copy ==
    /\ pc = "copy"
    /\ out' = Packet(cur.frame, Least(cur.frame.ulen - UdpLen, NBuf))
    /\ pc' = "idle"
    /\ UNCHANGED <<store, queue, arrived, rbuf, off, cur, meant>>

Parse == NextRecord \/ EndOfBuffer \/ CheckIp \/ CheckIpSum \/ CheckUdp \/ CheckUdpSum \/ Copy

Next == (\E f \in OnTheWire : Arrive(f)) \/ ReadBuffer \/ ReadFails \/ Parse

Spec == Init /\ [][Next]_vars

-----------------------------------------------------------------------------
(***************************************************************************)
(* Properties.                                                             *)
(***************************************************************************)
Records == [at : Nat, caplen : Nat, frame : Frame]

\* The variables have their types: what is kept of a buffer are whole records.
TypeOK ==
    /\ store \in Seq(Records) /\ rbuf \in Seq(Records)
    /\ queue \in Seq(Frame) /\ meant \in Seq(Frame)
    /\ arrived \in 0 .. MaxFrames /\ (pc # "idle" => off \in Nat)
    /\ pc \in {"idle", "record", "ip", "ipsum", "udp", "udpsum", "copy"}
    /\ pc \notin {"idle", "record"} => cur \in Records
    /\ out = NoPacket \/ (out.frame \in Frame /\ out.len \in Nat)

\* How far into the IP packet the parser reads in the step it is about to take.
Reach ==
    CASE pc = "ip" -> IpLen
      [] pc = "ipsum" -> cur.frame.ihl
      [] pc = "udp" -> cur.frame.ihl + UdpLen
      [] OTHER -> cur.frame.ihl + cur.frame.ulen

\* Whatever lengths a frame claims, packet_bsd_parse() reads only what was captured
\* of the record it is at, takes for a header only what the kernel wrote as one, and
\* never computes a payload of less than nothing; the buffer it walks is no longer
\* than the BIOCGBLEN bytes it was read into.
InBounds ==
    /\ Filled(rbuf) <= BufLen
    /\ pc = "record" /\ More => \E i \in DOMAIN rbuf : rbuf[i].at = off
    /\ pc \notin {"idle", "record"} =>
          /\ \E i \in DOMAIN rbuf : rbuf[i] = cur
          /\ Reach <= Left(cur)
    /\ pc \in {"udpsum", "copy"} => UdpLen <= cur.frame.ulen

\* The caller's buffer and the kernel's are large enough for these frames.
RoomFor(frames) ==
    \A i \in DOMAIN frames :
        /\ Wire(frames[i]) <= BufLen - HdrLen
        /\ frames[i].tot <= frames[i].ihl + UdpLen + NBuf

Acceptable(frames) == {i \in DOMAIN frames : LinuxAccepts(frames[i])}

FirstOf(frames) ==
    IF Acceptable(frames) = {} THEN NoPacket
    ELSE LinuxPacket(frames[CHOOSE i \in Acceptable(frames) :
                               \A j \in Acceptable(frames) : i <= j])

\* A read of the BPF device returns the very packet that the Linux seam would have
\* handed over first, filter and checks together, and nothing if there is none
\* ("which matches what the caller expects from the Linux side").
SameAsLinux == pc = "idle" /\ RoomFor(meant) => out = FirstOf(meant)

\* What one end of the seam sends the other takes, unless it was altered under way;
\* an altered payload is never handed over, whatever its checksum adds up to.
OwnFrames ==
    pc = "idle" =>
        /\ out # NoPacket => out.frame.origin # "altered"
        /\ (\E i \in DOMAIN meant : meant[i].origin = "sent") => out # NoPacket

=============================================================================
