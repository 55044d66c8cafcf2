------------------------- MODULE DhcpPacket_proofs -------------------------
(***************************************************************************)
(* Proofs about the packet seam: for all lengths of headers, messages and  *)
(* buffers, all word sizes, and any frames.                                *)
(***************************************************************************)
EXTENDS DhcpPacket, TLAPS

-----------------------------------------------------------------------------
(***************************************************************************)
(* The two filters.                                                        *)
(***************************************************************************)

\* A load from where the field is finds it behind either link header, or behind none.
LEMMA FindsInPlace ==
    ASSUME NEW f \in Frame, NEW e \in Nat, NEW field \in Loaded \ {"type"}
    PROVE  /\ Place(f, 0, field) \in Nat /\ Place(f, e, field) = e + Place(f, 0, field)
           /\ Finds(f, e, field, Place(f, e, field)) <=>
                 Place(f, 0, field) + Width[field] <= f.len /\ Right(f, {field})
<1>1. f.len \in Nat /\ f.ihl \in Nat /\ Offset[field] \in Nat /\ Width[field] \in Nat
  BY FieldAssumption DEF Frame, Loaded
<1>2. Offset.port \in Nat /\ UdpLen \in Nat
  BY FieldAssumption, LengthAssumption DEF Loaded
<1>3. Place(f, 0, field) \in Nat /\ Place(f, e, field) = e + Place(f, 0, field)
  BY <1>1, <1>2 DEF Place
<1> QED
  BY <1>1, <1>3 DEF Finds

\* What either filter amounts to, whatever the frame claims: the right fields, and
\* enough bytes for the last of them.
Admits(f) ==
    /\ Right(f, {"type"})
    /\ \A field \in Loaded \ {"type"} :
          Place(f, 0, field) + Width[field] <= f.len /\ Right(f, {field})
    /\ LeavesAtLeast(f.len, f.ihl, UdpLen + MessageLen)

LEMMA LinuxAdmits ==
    ASSUME NEW f \in Frame
    PROVE  LinuxFilter(f) <=> Admits(f)
<1> DEFINE Good(field) == Place(f, 0, field) + Width[field] <= f.len /\ Right(f, {field})
<1>1. f.len \in Nat /\ f.ihl \in Nat /\ UdpLen \in Nat /\ MessageLen \in Nat
  BY LengthAssumption DEF Frame
<1>2. /\ Offset.proto \in Nat /\ Offset.frag \in Nat /\ Offset.port \in Nat
      /\ Offset.op \in Nat /\ Offset.magic \in Nat
  BY FieldAssumption DEF Loaded
<1>3. HeaderLen(f, 0, 0) = f.ihl
  BY DEF HeaderLen
<1>4. /\ Place(f, 0, "proto") = Offset.proto /\ Place(f, 0, "frag") = Offset.frag
      /\ Place(f, 0, "port") = f.ihl + Offset.port
      /\ Place(f, 0, "op") = f.ihl + UdpLen + Offset.op
      /\ Place(f, 0, "magic") = f.ihl + UdpLen + Offset.magic
  BY <1>1, <1>2 DEF Place
<1>5. \A field \in Loaded \ {"type"} : Finds(f, 0, field, Place(f, 0, field)) <=> Good(field)
  BY FindsInPlace
<1>6. LinuxFilter(f) <=> /\ Right(f, {"type"})
                         /\ Good("proto") /\ Good("frag")
                         /\ LeavesAtLeast(f.len, f.ihl, UdpLen + MessageLen)
                         /\ Good("port") /\ Good("op") /\ Good("magic")
  <2> HIDE DEF Good
  <2> QED
    BY <1>3, <1>4, <1>5 DEF LinuxFilter, Loaded
<1>7. Loaded \ {"type"} = {"proto", "frag", "port", "op", "magic"}
  BY DEF Loaded
<1> QED
  BY <1>6, <1>7 DEF Admits

LEMMA BsdAdmits ==
    ASSUME NEW f \in Frame
    PROVE  BsdFilter(f) <=> Admits(f)
<1> DEFINE Good(field) == Place(f, 0, field) + Width[field] <= f.len /\ Right(f, {field})
           E == EtherLen
<1>1. f.len \in Nat /\ f.ihl \in Nat /\ UdpLen \in Nat /\ MessageLen \in Nat /\ E \in Nat
  BY LengthAssumption DEF Frame
<1>2. /\ Offset.proto \in Nat /\ Offset.frag \in Nat /\ Offset.port \in Nat
      /\ Offset.op \in Nat /\ Offset.magic \in Nat /\ Offset.type \in Nat /\ Width.type \in Nat
      /\ Offset.type + Width.type <= E
  BY FieldAssumption DEF Loaded
<1>3. HeaderLen(f, E, E) = f.ihl
  BY DEF HeaderLen
<1>4. /\ Place(f, E, "proto") = E + Offset.proto /\ Place(f, E, "frag") = E + Offset.frag
      /\ Place(f, E, "port") = PortBehindEther(f.ihl)
      /\ Place(f, E, "op") = E + (f.ihl + UdpLen) + Offset.op
      /\ Place(f, E, "magic") = E + (f.ihl + UdpLen) + Offset.magic
  BY <1>1, <1>2 DEF Place, PortBehindEther
<1>5. \A field \in Loaded \ {"type"} : Finds(f, E, field, Place(f, E, field)) <=> Good(field)
  BY <1>1, FindsInPlace
<1>6. Finds(f, E, "type", Offset.type) <=> Right(f, {"type"})
  BY <1>1, <1>2 DEF Finds, Place
<1>7. f.ihl <= f.len =>
          (LeavesAtLeast(Wire(f), f.ihl, E + UdpLen + MessageLen)
              <=> LeavesAtLeast(f.len, f.ihl, UdpLen + MessageLen))
  BY <1>1 DEF LeavesAtLeast, Wire
<1>8. BsdFilter(f) <=> /\ Right(f, {"type"})
                       /\ Good("proto") /\ Good("frag")
                       /\ LeavesAtLeast(Wire(f), f.ihl, E + UdpLen + MessageLen)
                       /\ Good("port") /\ Good("op") /\ Good("magic")
  <2> HIDE DEF Good
  <2> QED
    BY <1>3, <1>4, <1>5, <1>6 DEF BsdFilter, Loaded
<1>9. Loaded \ {"type"} = {"proto", "frag", "port", "op", "magic"}
  BY DEF Loaded
<1>10. Good("port") => f.ihl <= f.len
  <2>1. Place(f, 0, "port") = f.ihl + Offset.port /\ Width["port"] \in Nat
    BY <1>1, <1>2, FieldAssumption DEF Place, Loaded
  <2> QED
    BY <1>1, <1>2, <2>1
<1>11. Admits(f) <=> /\ Right(f, {"type"})
                     /\ Good("proto") /\ Good("frag")
                     /\ LeavesAtLeast(f.len, f.ihl, UdpLen + MessageLen)
                     /\ Good("port") /\ Good("op") /\ Good("magic")
  BY <1>9 DEF Admits
<1> HIDE DEF Good
<1> QED
  BY <1>7, <1>8, <1>10, <1>11

\* The BPF filter, with each of its loads where the code has it, admits the same
\* frames as the Linux filter with its own, whatever the frames claim and wherever
\* in their headers the fields are.
THEOREM SameFilter ==
    ASSUME NEW f \in Frame
    PROVE  BsdFilter(f) <=> LinuxFilter(f)
BY LinuxAdmits, BsdAdmits

\* The comments on both filters name a length test; the load of the magic, which ends
\* the message, makes the same test, so that an error in the former would not show.
THEOREM LengthTestIsImplied ==
    ASSUME NEW f \in Frame, Offset.magic + Width.magic = MessageLen,
           Place(f, 0, "magic") + Width.magic <= f.len
    PROVE  LeavesAtLeast(f.len, f.ihl, UdpLen + MessageLen)
<1>1. f.len \in Nat /\ f.ihl \in Nat /\ UdpLen \in Nat /\ Offset.magic \in Nat /\ Width.magic \in Nat
  BY LengthAssumption, FieldAssumption DEF Frame, Loaded
<1>2. Place(f, 0, "magic") = f.ihl + UdpLen + Offset.magic
  BY <1>1 DEF Place
<1> QED
  BY <1>1, <1>2 DEF LeavesAtLeast

-----------------------------------------------------------------------------
(***************************************************************************)
(* Word alignment.                                                         *)
(***************************************************************************)
LEMMA AlignIsNat ==
    ASSUME NEW n \in Nat
    PROVE  Align(n) \in Nat /\ n <= Align(n) /\ Align(n) % Word = 0
<1>1. CASE Word = 1
  BY <1>1 DEF Align
<1>2. CASE Word = 2
  BY <1>2 DEF Align
<1>3. CASE Word = 4
  BY <1>3 DEF Align
<1>4. CASE Word = 8
  BY <1>4 DEF Align
<1> QED
  BY <1>1, <1>2, <1>3, <1>4, LengthAssumption

\* From a word boundary, rounding up a length and rounding up its end agree.
LEMMA AlignFromBoundary ==
    ASSUME NEW a \in Nat, a % Word = 0, NEW n \in Nat
    PROVE  a + Align(n) = Align(a + n)
<1>1. CASE Word = 1
  BY <1>1 DEF Align
<1>2. CASE Word = 2
  BY <1>2 DEF Align
<1>3. CASE Word = 4
  BY <1>3 DEF Align
<1>4. CASE Word = 8
  BY <1>4 DEF Align
<1> QED
  BY <1>1, <1>2, <1>3, <1>4, LengthAssumption

-----------------------------------------------------------------------------
(***************************************************************************)
(* Frames and records.                                                     *)
(***************************************************************************)
LEMMA ComposedFrame ==
    ASSUME NEW n \in Payloads, NEW sum \in {0, 1}
    PROVE  /\ Compose(n, sum) = [len |-> IpLen + UdpLen + n, ihl |-> IpLen,
                 tot |-> IpLen + UdpLen + n, ulen |-> UdpLen + n,
                 sum |-> "right", flaws |-> {}, stray |-> FALSE, origin |-> "sent"]
           /\ n \in Nat
<1>1. n \in Nat
  BY FramesAssumption
<1>2. SentSum(sum) # 0
  BY DEF SentSum, AllOnes
<1>3. (IF SentSum(sum) = 0 THEN "none" ELSE "right") = "right"
  BY <1>2
<1> QED
  BY <1>1, <1>3, Zenon DEF Compose

\* Whatever arrives is a frame; one that was altered no longer fits its checksum,
\* and one that was sent is as this seam composed it.
LEMMA WireFrames ==
    ASSUME NEW f \in OnTheWire
    PROVE  /\ f \in Frame
           /\ f.origin = "altered" => f.sum = "wrong"
           /\ f.origin = "sent" =>
                /\ f.ihl = IpLen /\ f.tot = IpLen + f.ulen /\ f.flaws = {} /\ f.sum = "right"
                /\ f.tot <= f.len /\ Wire(f) <= BufLen - HdrLen
                /\ f.ulen >= UdpLen + MessageLen
<1>1. CASE f \in Frames
  BY <1>1, FramesAssumption
<1>2. ASSUME NEW n \in Payloads, NEW sum \in {0, 1}, NEW p \in {0, 1},
             f = Padded(Compose(n, sum), p)
      PROVE  /\ f \in Frame /\ f.origin = "sent"
             /\ f.ihl = IpLen /\ f.tot = IpLen + f.ulen /\ f.flaws = {} /\ f.sum = "right"
             /\ f.tot <= f.len /\ Wire(f) <= BufLen - HdrLen
             /\ f.ulen >= UdpLen + MessageLen
  <2>1. f = [len |-> IpLen + UdpLen + n + p, ihl |-> IpLen,
             tot |-> IpLen + UdpLen + n, ulen |-> UdpLen + n,
             sum |-> "right", flaws |-> {}, stray |-> FALSE, origin |-> "sent"]
    <3>1. PICK g : g = Compose(n, sum)
      OBVIOUS
    <3>2. g = [len |-> IpLen + UdpLen + n, ihl |-> IpLen,
               tot |-> IpLen + UdpLen + n, ulen |-> UdpLen + n,
               sum |-> "right", flaws |-> {}, stray |-> FALSE, origin |-> "sent"]
      BY <3>1, ComposedFrame
    <3>3. f = [g EXCEPT !.len = @ + p]
      BY <1>2, <3>1, <3>2 DEF Padded
    <3> QED
      BY <3>2, <3>3
  <2>2. n \in Nat /\ MessageLen <= n /\ EtherLen + IpLen + UdpLen + n + 1 <= BufLen - HdrLen
    BY PayloadAssumption, ComposedFrame
  <2> QED
    BY <2>1, <2>2, LengthAssumption DEF Frame, Wire
<1>3. ASSUME NEW n \in Payloads, NEW sum \in {0, 1}, f = Altered(Compose(n, sum))
      PROVE  f \in Frame /\ f.origin = "altered" /\ f.sum = "wrong"
  <2>1. PICK g : g = Compose(n, sum)
    OBVIOUS
  <2>2. g \in Frame /\ g.sum = "right"
    <3>1. g = [len |-> IpLen + UdpLen + n, ihl |-> IpLen,
               tot |-> IpLen + UdpLen + n, ulen |-> UdpLen + n,
               sum |-> "right", flaws |-> {}, stray |-> FALSE, origin |-> "sent"]
      BY <2>1, ComposedFrame
    <3>2. n \in Nat
      BY ComposedFrame
    <3> QED
      BY <3>1, <3>2, LengthAssumption DEF Frame
  <2>3. f = [g EXCEPT !.sum = "wrong", !.origin = "altered"]
    BY <1>3, <2>1, <2>2 DEF Altered
  <2> QED
    BY <2>2, <2>3 DEF Frame
<1> QED
  BY <1>1, <1>2, <1>3 DEF OnTheWire, Sent

\* A record that packet_bsd_parse() takes.
Passes(r) ==
    /\ Captured(r)
    /\ IpOk(r.frame, Left(r))
    /\ Right(r.frame, {"ipsum"})
    /\ UdpOk(r.frame)
    /\ SumOk(r.frame)

Whole(r) ==
    /\ r \in Records
    /\ r.caplen = Least(Wire(r.frame), BufLen - HdrLen)
    /\ LinuxFilter(r.frame)

\* With room for it, the checks of the two systems agree on a frame that passed the
\* filter: what the BSD code leaves out the filter has checked.
LEMMA SameChecks ==
    ASSUME NEW r, Whole(r), Wire(r.frame) <= BufLen - HdrLen,
           r.frame.tot <= r.frame.ihl + UdpLen + NBuf
    PROVE  Passes(r) <=> LinuxAccepts(r.frame)
<1> DEFINE f == r.frame
<1>1. /\ f.len \in Nat /\ f.ihl \in Nat /\ f.tot \in Nat /\ f.ulen \in Nat
      /\ f \in Frame
  BY DEF Whole, Records, Frame
<1>2. r.caplen = EtherLen + f.len
  BY <1>1, LengthAssumption DEF Whole, Least, Wire
<1>3. Right(f, {"proto", "frag", "ipsum"}) <=> Right(f, {"proto"}) /\ Right(f, {"frag"}) /\ Right(f, {"ipsum"})
  BY DEF Right
<1>4. Right(f, {"frag"}) /\ Right(f, {"proto"})
  BY <1>1, LinuxAdmits DEF Whole, Admits, Loaded
<1>5. f.tot <= Least(f.len, f.ihl + UdpLen + NBuf) <=> f.tot <= f.len
  BY <1>1, LengthAssumption DEF Least
<1>6. Captured(r) <=> f.len >= IpLen + UdpLen
  BY <1>1, <1>2, LengthAssumption DEF Captured, Wire
<1>7. Left(r) = f.len
  BY <1>1, <1>2, LengthAssumption DEF Left
<1>8. Passes(r) <=> /\ f.len >= IpLen + UdpLen
                    /\ Right(f, {"version"}) /\ f.ihl >= IpLen /\ f.ihl <= f.len
                    /\ f.tot <= f.len /\ f.tot >= f.ihl + UdpLen
                    /\ Right(f, {"ipsum"})
                    /\ f.ulen >= UdpLen /\ f.ihl + f.ulen <= f.tot
                    /\ f.sum # "wrong"
  BY <1>4, <1>6, <1>7 DEF Passes, IpOk, UdpOk, SumOk
<1>9. LinuxAccepts(f) <=> /\ f.len >= IpLen
                          /\ Right(f, {"version"}) /\ f.ihl >= IpLen
                          /\ f.tot <= f.len /\ f.tot >= f.ihl + UdpLen
                          /\ f.tot >= f.ihl + f.ulen /\ f.ulen >= UdpLen
                          /\ Right(f, {"ipsum"})
                          /\ f.sum # "wrong"
  BY <1>3, <1>4, <1>5 DEF LinuxAccepts
<1> QED
  BY <1>1, <1>8, <1>9, LengthAssumption

-----------------------------------------------------------------------------
(***************************************************************************)
(* The kernel's buffer.                                                    *)
(***************************************************************************)

\* Whole records of frames that arrived and passed the filter, on word boundaries,
\* one behind the other.
PlacedAt(buf, i) ==
    /\ Whole(buf[i]) /\ buf[i].frame \in OnTheWire
    /\ buf[i].at % Word = 0 /\ End(buf[i]) <= BufLen
    /\ buf[i].at = IF i = 1 THEN 0 ELSE Align(End(buf[i - 1]))
    /\ \A j \in 1 .. i - 1 : End(buf[j]) <= buf[i].at

Placed(buf) == \A i \in DOMAIN buf : PlacedAt(buf, i)

\* The records are those of the frames the other system queued.
Paired(buf, frames) ==
    /\ buf \in Seq(Records) /\ frames \in Seq(Frame)
    /\ Len(buf) = Len(frames)
    /\ \A i \in DOMAIN buf : buf[i].frame = frames[i]

BufferInv ==
    /\ Placed(store) /\ Paired(store, queue)
    /\ Placed(rbuf) /\ Paired(rbuf, meant)
    /\ arrived \in 0 .. MaxFrames

LEMMA RecordFits ==
    ASSUME NEW r \in Records
    PROVE  /\ End(r) \in Nat /\ r.at + HdrLen <= End(r) /\ r.at < End(r)
           /\ End(r) = r.at + (HdrLen + r.caplen) /\ HdrLen + r.caplen \in Nat
BY LengthAssumption DEF Records, End

\* The end of what is in a buffer, and where the next record will start.
LEMMA FilledBounds ==
    ASSUME NEW buf \in Seq(Records), Placed(buf)
    PROVE  /\ Filled(buf) \in 0 .. BufLen
           /\ \A i \in DOMAIN buf : End(buf[i]) <= Filled(buf)
<1>1. CASE buf = <<>>
  BY <1>1, LengthAssumption DEF Filled
<1>2. CASE buf # <<>>
  <2> DEFINE n == Len(buf)
  <2>1. n \in Nat /\ n >= 1 /\ DOMAIN buf = 1 .. n /\ n \in DOMAIN buf
    BY <1>2
  <2>2. Filled(buf) = End(buf[n])
    BY <1>2 DEF Filled
  <2>3. End(buf[n]) \in Nat /\ End(buf[n]) <= BufLen
    BY <2>1, RecordFits DEF Placed, PlacedAt
  <2>4. ASSUME NEW i \in DOMAIN buf PROVE End(buf[i]) <= End(buf[n])
    <3>1. CASE i = n
      BY <3>1, <2>3
    <3>2. CASE i # n
      <4>1. i \in 1 .. n - 1
        BY <3>2, <2>1
      <4>2. End(buf[i]) <= buf[n].at
        BY <4>1, <2>1 DEF Placed, PlacedAt
      <4>3. buf[n] \in Records /\ buf[i] \in Records
        BY <2>1
      <4>4. buf[n].at \in Nat
        BY <4>3 DEF Records
      <4> QED
        BY <4>2, <4>3, <4>4, RecordFits
    <3> QED
      BY <3>1, <3>2
  <2> QED
    BY <2>2, <2>3, <2>4, LengthAssumption
<1> QED
  BY <1>1, <1>2

\* The record made of a frame that arrives.
LEMMA NewRecord ==
    ASSUME NEW buf \in Seq(Records), Placed(buf), NEW f \in OnTheWire, LinuxFilter(f),
           NEW r, r = Record(f, Align(Filled(buf))), End(r) <= BufLen
    PROVE  /\ r \in Records /\ r.frame = f
           /\ Placed(Append(buf, r)) /\ Append(buf, r) \in Seq(Records)
<1> DEFINE n == Len(buf)
<1>1. Filled(buf) \in Nat /\ \A i \in DOMAIN buf : End(buf[i]) <= Filled(buf)
  BY FilledBounds
<1>2. /\ Align(Filled(buf)) \in Nat /\ Filled(buf) <= Align(Filled(buf))
      /\ Align(Filled(buf)) % Word = 0
  BY <1>1, AlignIsNat
<1>3. f \in Frame /\ f.len \in Nat
  BY WireFrames DEF Frame
<1>4. /\ r.at = Align(Filled(buf)) /\ r.frame = f
      /\ r.caplen = Least(Wire(f), BufLen - HdrLen)
      /\ r = [at |-> Align(Filled(buf)), caplen |-> Least(Wire(f), BufLen - HdrLen), frame |-> f]
  BY DEF Record
<1>5. Least(Wire(f), BufLen - HdrLen) \in Nat
  BY <1>3, LengthAssumption DEF Least, Wire
<1>6. r \in Records
  BY <1>2, <1>3, <1>4, <1>5 DEF Records
<1>7. Whole(r)
  BY <1>4, <1>6 DEF Whole
<1>0. PICK b : b = Append(buf, r)
  OBVIOUS
<1>8. /\ b \in Seq(Records) /\ Len(b) = n + 1 /\ n \in Nat
      /\ DOMAIN b = 1 .. n + 1 /\ DOMAIN buf = 1 .. n
      /\ b[n + 1] = r
      /\ \A i \in 1 .. n : b[i] = buf[i]
  BY <1>0, <1>6
<1>9. r.at = IF n + 1 = 1 THEN 0 ELSE Align(End(buf[n]))
  <2>1. CASE n = 0
    <3>1. buf = <<>> /\ Filled(buf) = 0
      BY <2>1 DEF Filled
    <3>2. Align(0) = 0
      <4>1. CASE Word = 1
        BY <4>1 DEF Align
      <4>2. CASE Word = 2
        BY <4>2 DEF Align
      <4>3. CASE Word = 4
        BY <4>3 DEF Align
      <4>4. CASE Word = 8
        BY <4>4 DEF Align
      <4> QED
        BY <4>1, <4>2, <4>3, <4>4, LengthAssumption
    <3> QED
      BY <2>1, <3>1, <3>2, <1>4
  <2>2. CASE n # 0
    BY <2>2, <1>4, <1>8 DEF Filled
  <2> QED
    BY <2>1, <2>2
<1>10. ASSUME NEW i \in 1 .. n + 1
       PROVE  PlacedAt(b, i)
  <2>1. CASE i = n + 1
    <3>1. \A j \in 1 .. n : End(buf[j]) <= r.at
      <4>1. TAKE j \in 1 .. n
      <4>2. End(buf[j]) \in Nat /\ End(buf[j]) <= Filled(buf)
        <5>1. j \in DOMAIN buf /\ buf[j] \in Records
          BY <1>8
        <5> QED
          BY <5>1, <1>1, RecordFits
      <4> QED
        BY <4>2, <1>1, <1>2, <1>4
    <3>2. n # 0 => n \in 1 .. n
      BY <1>8
    <3> QED
      BY <2>1, <1>2, <1>4, <1>7, <1>8, <1>9, <3>1, <3>2 DEF PlacedAt
  <2>2. CASE i \in 1 .. n
    <3>1. b[i] = buf[i] /\ i \in DOMAIN buf
      BY <2>2, <1>8
    <3>2. \A j \in 1 .. i - 1 : b[j] = buf[j]
      BY <2>2, <1>8
    <3>3. i # 1 => b[i - 1] = buf[i - 1]
      BY <2>2, <3>2, <1>8
    <3>4. /\ Whole(buf[i]) /\ buf[i].frame \in OnTheWire
          /\ buf[i].at % Word = 0 /\ End(buf[i]) <= BufLen
      BY <3>1 DEF Placed, PlacedAt
    <3>5. buf[i].at = IF i = 1 THEN 0 ELSE Align(End(b[i - 1]))
      BY <3>1, <3>3 DEF Placed, PlacedAt
    <3>6. \A j \in 1 .. i - 1 : End(b[j]) <= buf[i].at
      BY <3>1, <3>2 DEF Placed, PlacedAt
    <3> QED
      BY <3>1, <3>4, <3>5, <3>6 DEF PlacedAt
  <2> QED
    BY <2>1, <2>2, <1>8
<1> QED
  BY <1>0, <1>4, <1>6, <1>8, <1>10 DEF Placed

LEMMA BufferInvariant == Spec => []BufferInv
<1>1. Init => BufferInv
  BY LengthAssumption DEF Init, BufferInv, Placed, Paired
<1>2. BufferInv /\ [Next]_vars => BufferInv'
  <2> SUFFICES ASSUME BufferInv, [Next]_vars PROVE BufferInv'
    OBVIOUS
  <2>1. ASSUME NEW f \in OnTheWire, Arrive(f) PROVE BufferInv'
    <3> DEFINE r == Record(f, Align(Filled(store)))
    <3>1. End(r) <= BufLen /\ UNCHANGED <<rbuf, meant>> /\ arrived' = arrived + 1 /\ arrived < MaxFrames
      BY <2>1 DEF Arrive, parser
    <3>2. f \in Frame
      BY WireFrames
    <3>3. CASE LinuxFilter(f)
      <4>1. store' = Append(store, r) /\ queue' = Append(queue, f)
        BY <2>1, <3>2, <3>3, SameFilter DEF Arrive
      <4>2. store \in Seq(Records) /\ Placed(store) /\ queue \in Seq(Frame) /\ Len(store) = Len(queue)
        BY DEF BufferInv, Paired
      <4>3. r \in Records /\ r.frame = f /\ Placed(store') /\ store' \in Seq(Records)
        BY <3>1, <3>3, <4>1, <4>2, NewRecord
      <4>4. \A i \in DOMAIN store : store[i].frame = queue[i]
        BY DEF BufferInv, Paired
      <4> HIDE DEF r
      <4>5. Paired(store', queue')
        BY <3>2, <4>1, <4>2, <4>3, <4>4 DEF Paired
      <4> QED
        BY <3>1, <4>3, <4>5, LengthAssumption DEF BufferInv
    <3>4. CASE ~LinuxFilter(f)
      <4>1. store' = store /\ queue' = queue
        BY <2>1, <3>2, <3>4, SameFilter DEF Arrive
      <4> QED
        BY <3>1, <4>1, LengthAssumption DEF BufferInv
    <3> QED
      BY <3>3, <3>4
  <2>2. CASE ReadBuffer
    BY <2>2 DEF ReadBuffer, BufferInv, Placed, PlacedAt, Paired
  <2>3. CASE ReadFails
    BY <2>3 DEF ReadFails, BufferInv, Placed, Paired
  <2>4. CASE Parse
    <3>1. UNCHANGED <<store, queue, arrived, rbuf, meant>>
      BY <2>4 DEF Parse, NextRecord, EndOfBuffer, CheckIp, CheckIpSum, CheckUdp, CheckUdpSum, Check, Copy
    <3> QED
      BY <3>1 DEF BufferInv
  <2>5. CASE UNCHANGED vars
    BY <2>5 DEF BufferInv, vars
  <2> QED
    BY <2>1, <2>2, <2>3, <2>4, <2>5 DEF Next
<1> QED
  BY <1>1, <1>2, PTL DEF Spec

-----------------------------------------------------------------------------
(***************************************************************************)
(* The walk: off is where record k + 1 starts, the records before it were  *)
(* refused, and the one being checked has passed the checks behind it.     *)
(***************************************************************************)
Start(k) == IF k = 0 THEN 0 ELSE Align(End(rbuf[k]))

NonePass(k) == \A i \in 1 .. k : ~Passes(rbuf[i])

Stage ==
    /\ Captured(cur)
    /\ pc \in {"ipsum", "udp", "udpsum", "copy"} => IpOk(cur.frame, Left(cur))
    /\ pc \in {"udp", "udpsum", "copy"} => Right(cur.frame, {"ipsum"})
    /\ pc \in {"udpsum", "copy"} => UdpOk(cur.frame)
    /\ pc = "copy" => SumOk(cur.frame)

Walking(k) ==
    /\ off = Start(k)
    /\ pc = "record" => NonePass(k)
    /\ pc # "record" => k # 0 /\ cur = rbuf[k] /\ NonePass(k - 1) /\ Stage

Delivered(r) == Packet(r.frame, Least(r.frame.ulen - UdpLen, NBuf))

Result ==
    \/ out = NoPacket /\ NonePass(Len(rbuf))
    \/ \E k \in 1 .. Len(rbuf) :
          Passes(rbuf[k]) /\ NonePass(k - 1) /\ out = Delivered(rbuf[k])

WalkInv ==
    /\ pc \in {"idle", "record", "ip", "ipsum", "udp", "udpsum", "copy"}
    /\ pc # "idle" => out = NoPacket /\ \E k \in 0 .. Len(rbuf) : Walking(k)
    /\ pc = "idle" => Result

\* The parser finds the records where the kernel put them, and stops behind the last.
LEMMA AtRecord ==
    ASSUME BufferInv, NEW k \in 0 .. Len(rbuf), off = Start(k)
    PROVE  /\ off \in Nat
           /\ k = Len(rbuf) => ~More
           /\ k < Len(rbuf) =>
                 /\ More /\ k + 1 \in DOMAIN rbuf /\ rbuf[k + 1].at = off
                 /\ RecordAt(off) = k + 1
                 /\ ~Broken(rbuf[k + 1])
                 /\ NextOff(rbuf[k + 1]) = Start(k + 1)
<1>1. rbuf \in Seq(Records) /\ Placed(rbuf) /\ DOMAIN rbuf = 1 .. Len(rbuf) /\ Len(rbuf) \in Nat
  BY DEF BufferInv, Paired
<1>2. /\ Filled(rbuf) \in Nat
      /\ \A i \in DOMAIN rbuf : /\ rbuf[i] \in Records /\ End(rbuf[i]) <= Filled(rbuf)
                               /\ End(rbuf[i]) \in Nat
  BY <1>1, FilledBounds, RecordFits
<1>3. off \in Nat
  <2>1. CASE k = 0
    BY <2>1 DEF Start
  <2>2. CASE k # 0
    <3>1. End(rbuf[k]) \in Nat
      BY <1>1, <1>2, <2>2
    <3> QED
      BY <2>2, <3>1, AlignIsNat DEF Start
  <2> QED
    BY <2>1, <2>2
<1>4. ASSUME k = Len(rbuf) PROVE ~More
  <2>1. CASE k = 0
    BY <1>4, <2>1, <1>1, LengthAssumption DEF Start, More, Filled
  <2>2. CASE k # 0
    <3>1. Filled(rbuf) = End(rbuf[k]) /\ k \in DOMAIN rbuf
      BY <1>1, <1>4, <2>2 DEF Filled
    <3>2. End(rbuf[k]) <= off
      BY <3>1, <2>2, <1>2, AlignIsNat DEF Start
    <3> QED
      BY <1>2, <1>3, <3>1, <3>2, LengthAssumption DEF More
  <2> QED
    BY <2>1, <2>2
<1>5. ASSUME k < Len(rbuf)
      PROVE  /\ More /\ k + 1 \in DOMAIN rbuf /\ rbuf[k + 1].at = off
             /\ RecordAt(off) = k + 1
             /\ ~Broken(rbuf[k + 1])
             /\ NextOff(rbuf[k + 1]) = Start(k + 1)
  <2>1. k + 1 \in DOMAIN rbuf /\ k + 1 # 0 /\ (k + 1) - 1 = k /\ (k + 1 = 1 <=> k = 0)
    BY <1>1, <1>5
  <2>2. PlacedAt(rbuf, k + 1)
    BY <1>1, <2>1 DEF Placed
  <2>3. rbuf[k + 1].at = off /\ rbuf[k + 1].at % Word = 0
    BY <2>1, <2>2 DEF PlacedAt, Start
  <2>4. PICK r : r = rbuf[k + 1]
    OBVIOUS
  <2>5. /\ r \in Records /\ End(r) <= Filled(rbuf) /\ r.at = off /\ r.at < End(r)
        /\ r.at + HdrLen <= End(r) /\ End(r) = off + (HdrLen + r.caplen)
        /\ HdrLen + r.caplen \in Nat /\ End(r) \in Nat /\ r.caplen \in Nat
    BY <1>2, <2>1, <2>3, <2>4, RecordFits DEF Records
  <2>6. More
    BY <1>2, <1>3, <2>5, LengthAssumption DEF More
  <2>7. ~Broken(r)
    BY <1>2, <1>3, <2>5, LengthAssumption DEF Broken
  <2>8. NextOff(r) = Start(k + 1)
    <3>1. off + Align(HdrLen + r.caplen) = Align(off + (HdrLen + r.caplen))
      BY <1>3, <2>3, <2>5, AlignFromBoundary
    <3> QED
      BY <2>1, <2>4, <2>5, <3>1 DEF NextOff, Start
  <2>9. ASSUME NEW i \in DOMAIN rbuf, rbuf[i].at = off PROVE i = k + 1
    <3>0. /\ rbuf[i] \in Records /\ rbuf[i].at < End(rbuf[i]) /\ PlacedAt(rbuf, i)
          /\ End(rbuf[i]) \in Nat
      BY <1>1, <1>2, RecordFits DEF Placed
    <3>1. CASE i < k + 1
      <4>1. i \in 1 .. (k + 1) - 1
        BY <3>1, <1>1
      <4>2. End(rbuf[i]) <= rbuf[k + 1].at
        BY <2>2, <4>1 DEF PlacedAt
      <4> QED
        BY <2>9, <3>0, <4>2, <2>3, <1>3
    <3>2. CASE k + 1 < i
      <4>1. k + 1 \in 1 .. i - 1
        BY <3>2, <1>1
      <4>2. End(rbuf[k + 1]) <= rbuf[i].at
        BY <3>0, <4>1 DEF PlacedAt
      <4> QED
        BY <2>9, <2>4, <2>5, <4>2, <1>3
    <3> QED
      BY <3>1, <3>2, <1>1
  <2>10. RecordAt(off) = k + 1
    BY <2>1, <2>3, <2>9 DEF RecordAt
  <2> QED
    BY <2>1, <2>3, <2>4, <2>6, <2>7, <2>8, <2>10
<1> QED
  BY <1>3, <1>4, <1>5

LEMMA WalkInvariant == Spec => []WalkInv
<1>1. Init => WalkInv
  <2> SUFFICES ASSUME Init PROVE WalkInv
    OBVIOUS
  <2>1. rbuf = <<>> /\ out = NoPacket /\ pc = "idle"
    BY DEF Init
  <2>2. NonePass(Len(rbuf))
    BY <2>1 DEF NonePass
  <2> QED
    BY <2>1, <2>2 DEF WalkInv, Result
<1>2. WalkInv /\ BufferInv /\ [Next]_vars => WalkInv'
  <2> SUFFICES ASSUME WalkInv, BufferInv, [Next]_vars PROVE WalkInv'
    OBVIOUS
  <2>0. rbuf \in Seq(Records) /\ Len(rbuf) \in Nat
    BY DEF BufferInv, Paired
  <2>1. ASSUME NEW f \in OnTheWire, Arrive(f) PROVE WalkInv'
    BY <2>1 DEF Arrive, parser, WalkInv, Result, Walking, Start, NonePass, Stage
  <2>2. CASE ReadBuffer
    <3>1. rbuf' \in Seq(Records) /\ off' = 0 /\ out' = NoPacket
      BY <2>2 DEF ReadBuffer, BufferInv, Paired
    <3>2. CASE rbuf' = <<>>
      <4>1. pc' = "idle" /\ NonePass(Len(rbuf))'
        BY <2>2, <3>2 DEF ReadBuffer, NonePass
      <4> QED
        BY <3>1, <4>1 DEF WalkInv, Result
    <3>3. CASE rbuf' # <<>>
      <4>1. pc' = "record" /\ Walking(0)' /\ 0 \in 0 .. Len(rbuf')
        BY <2>2, <3>1, <3>3 DEF ReadBuffer, Walking, Start, NonePass
      <4> QED
        BY <3>1, <4>1 DEF WalkInv
    <3> QED
      BY <3>2, <3>3
  <2>3. CASE ReadFails
    <3>1. rbuf' = <<>> /\ out' = NoPacket /\ pc' = "idle"
      BY <2>3 DEF ReadFails
    <3>2. NonePass(Len(rbuf))'
      BY <3>1 DEF NonePass
    <3> QED
      BY <3>1, <3>2 DEF WalkInv, Result
  <2>4. CASE NextRecord
    <3>1. pc = "record" /\ UNCHANGED <<rbuf, out>> /\ More /\ out = NoPacket
      BY <2>4 DEF NextRecord, WalkInv
    <3>2. PICK k \in 0 .. Len(rbuf) : Walking(k)
      BY <3>1 DEF WalkInv
    <3>3. off = Start(k) /\ NonePass(k)
      BY <3>1, <3>2 DEF Walking
    <3>4. k < Len(rbuf)
      BY <2>0, <3>1, <3>2, <3>3, AtRecord
    <3>5. RecordAt(off) = k + 1 /\ NextOff(rbuf[k + 1]) = Start(k + 1)
      BY <3>3, <3>4, AtRecord
    <3>6. /\ cur' = rbuf[k + 1] /\ off' = Start(k + 1)
          /\ pc' = IF Captured(rbuf[k + 1]) THEN "ip" ELSE "record"
      BY <2>4, <3>5 DEF NextRecord
    <3>7. k + 1 \in 0 .. Len(rbuf) /\ k + 1 # 0 /\ (k + 1) - 1 = k
      BY <2>0, <3>4
    <3>8. off' = Start(k + 1)' /\ NonePass(k)'
      BY <3>1, <3>3, <3>6 DEF Start, NonePass
    <3>9. CASE Captured(rbuf[k + 1])
      <4>1. pc' = "ip" /\ Stage'
        BY <3>6, <3>9 DEF Stage, Captured
      <4>2. Walking(k + 1)'
        BY <3>1, <3>6, <3>7, <3>8, <4>1 DEF Walking
      <4> QED
        BY <3>1, <3>7, <4>1, <4>2 DEF WalkInv
    <3>10. CASE ~Captured(rbuf[k + 1])
      <4>1. pc' = "record" /\ ~Passes(rbuf[k + 1])
        BY <3>6, <3>10 DEF Passes
      <4>2. NonePass(k + 1)'
        <5>1. ASSUME NEW i \in 1 .. k + 1 PROVE ~Passes(rbuf'[i])
          <6>1. CASE i = k + 1
            BY <3>1, <4>1, <6>1
          <6>2. CASE i # k + 1
            <7>1. i \in 1 .. k
              BY <6>2, <2>0
            <7> QED
              BY <7>1, <3>1, <3>3 DEF NonePass
          <6> QED
            BY <6>1, <6>2
        <5> QED
          BY <5>1 DEF NonePass, Passes, Captured, IpOk, UdpOk, SumOk
      <4>3. Walking(k + 1)'
        BY <3>8, <4>1, <4>2 DEF Walking
      <4> QED
        BY <3>1, <3>7, <4>1, <4>3 DEF WalkInv
    <3> QED
      BY <3>9, <3>10
  <2>5. CASE EndOfBuffer
    <3>1. pc = "record" /\ UNCHANGED <<rbuf, out>> /\ pc' = "idle" /\ out = NoPacket
      BY <2>5 DEF EndOfBuffer, WalkInv
    <3>2. PICK k \in 0 .. Len(rbuf) : Walking(k)
      BY <3>1 DEF WalkInv
    <3>3. off = Start(k) /\ NonePass(k)
      BY <3>1, <3>2 DEF Walking
    <3>4. ~(k < Len(rbuf))
      BY <2>5, <3>3, AtRecord DEF EndOfBuffer
    <3>5. k = Len(rbuf)
      BY <2>0, <3>4
    <3>6. NonePass(Len(rbuf))'
      BY <3>1, <3>3, <3>5 DEF NonePass
    <3> QED
      BY <3>1, <3>6 DEF WalkInv, Result
  <2>6. ASSUME NEW at \in {"ip", "ipsum", "udp", "udpsum"}, NEW ok, NEW next, Check(at, ok, next),
               <<at, next>> \in {<<"ip", "ipsum">>, <<"ipsum", "udp">>, <<"udp", "udpsum">>, <<"udpsum", "copy">>},
               ok \in BOOLEAN,
               at = "ip" => (ok <=> IpOk(cur.frame, Left(cur))),
               at = "ipsum" => (ok <=> Right(cur.frame, {"ipsum"})),
               at = "udp" => (ok <=> UdpOk(cur.frame)),
               at = "udpsum" => (ok <=> SumOk(cur.frame))
        PROVE  WalkInv'
    <3>1. pc = at /\ UNCHANGED <<rbuf, off, cur, out>> /\ out = NoPacket
      BY <2>6 DEF Check, WalkInv
    <3>2. PICK k \in 0 .. Len(rbuf) : Walking(k)
      BY <3>1 DEF WalkInv
    <3>3. off = Start(k) /\ k # 0 /\ cur = rbuf[k] /\ NonePass(k - 1) /\ Stage
      BY <3>1, <3>2 DEF Walking
    <3>4. off' = Start(k)' /\ NonePass(k - 1)' /\ cur' = rbuf'[k]
      BY <3>1, <3>3 DEF Start, NonePass
    <3>5. CASE ok
      <4>1. pc' = next /\ next \in {"ipsum", "udp", "udpsum", "copy"}
        BY <2>6, <3>5 DEF Check
      <4>2. Stage'
        <5>1. CASE at = "ip"
          BY <5>1, <2>6, <3>1, <3>3, <3>5, <4>1 DEF Stage
        <5>2. CASE at = "ipsum"
          BY <5>2, <2>6, <3>1, <3>3, <3>5, <4>1 DEF Stage
        <5>3. CASE at = "udp"
          BY <5>3, <2>6, <3>1, <3>3, <3>5, <4>1 DEF Stage
        <5>4. CASE at = "udpsum"
          BY <5>4, <2>6, <3>1, <3>3, <3>5, <4>1 DEF Stage
        <5> QED
          BY <5>1, <5>2, <5>3, <5>4
      <4>3. Walking(k)'
        BY <3>3, <3>4, <4>1, <4>2 DEF Walking
      <4> QED
        BY <3>1, <4>1, <4>3 DEF WalkInv
    <3>6. CASE ~ok
      <4>1. pc' = "record" /\ ~Passes(rbuf[k])
        BY <2>6, <3>3, <3>6 DEF Check, Passes
      <4>2. NonePass(k)'
        <5>1. ASSUME NEW i \in 1 .. k PROVE ~Passes(rbuf[i])
          <6>1. CASE i = k
            BY <4>1, <6>1
          <6>2. CASE i # k
            <7>1. i \in 1 .. k - 1
              BY <6>2, <2>0
            <7> QED
              BY <7>1, <3>3 DEF NonePass
          <6> QED
            BY <6>1, <6>2
        <5> QED
          BY <5>1, <3>1 DEF NonePass
      <4>3. Walking(k)'
        BY <3>4, <4>1, <4>2 DEF Walking
      <4> QED
        BY <3>1, <4>1, <4>3 DEF WalkInv
    <3> QED
      BY <2>6, <3>5, <3>6
  <2>7. CASE CheckIp
    BY <2>7, <2>6 DEF CheckIp, IpOk, Right
  <2>8. CASE CheckIpSum
    BY <2>8, <2>6 DEF CheckIpSum, Right
  <2>9. CASE CheckUdp
    BY <2>9, <2>6 DEF CheckUdp, UdpOk
  <2>10. CASE CheckUdpSum
    BY <2>10, <2>6 DEF CheckUdpSum, SumOk
  <2>11. CASE Copy
    <3>1. /\ pc = "copy" /\ UNCHANGED rbuf /\ pc' = "idle"
          /\ out' = Packet(cur.frame, Least(cur.frame.ulen - UdpLen, NBuf))
      BY <2>11 DEF Copy
    <3>2. PICK k \in 0 .. Len(rbuf) : Walking(k)
      BY <3>1 DEF WalkInv
    <3>3. k # 0 /\ cur = rbuf[k] /\ NonePass(k - 1) /\ Stage
      BY <3>1, <3>2 DEF Walking
    <3>4. Passes(rbuf[k]) /\ k \in 1 .. Len(rbuf) /\ out' = Delivered(rbuf[k])
      BY <3>1, <3>3, <2>0 DEF Stage, Passes, Delivered
    <3>5. rbuf' = rbuf /\ NonePass(k - 1)'
      BY <3>1, <3>3 DEF NonePass
    <3>6. Result'
      BY <3>4, <3>5 DEF Result
    <3> QED
      BY <3>1, <3>6 DEF WalkInv
  <2>12. CASE UNCHANGED vars
    BY <2>12 DEF vars, WalkInv, Result, Walking, Start, NonePass, Stage
  <2> QED
    BY <2>1, <2>2, <2>3, <2>4, <2>5, <2>7, <2>8, <2>9, <2>10, <2>11, <2>12 DEF Next, Parse
<1> QED
  BY <1>1, <1>2, BufferInvariant, PTL DEF Spec

-----------------------------------------------------------------------------
(***************************************************************************)
(* The properties.                                                         *)
(***************************************************************************)

\* The record being checked is one of the buffer, and what the next check reads of it
\* lies in what was captured.
LEMMA CheckedRecord ==
    ASSUME BufferInv, WalkInv, pc \notin {"idle", "record"}
    PROVE  /\ cur \in Records /\ cur.frame \in Frame
           /\ \E i \in DOMAIN rbuf : rbuf[i] = cur
           /\ Reach <= Left(cur)
           /\ pc \in {"udpsum", "copy"} => UdpLen <= cur.frame.ulen
<1>1. PICK k \in 0 .. Len(rbuf) : Walking(k)
  BY DEF WalkInv
<1>2. k # 0 /\ cur = rbuf[k] /\ Stage
  BY <1>1 DEF Walking
<1>3. k \in DOMAIN rbuf /\ cur \in Records
  BY <1>2 DEF BufferInv, Paired
<1>4. /\ cur.frame \in Frame /\ cur.caplen \in Nat
      /\ cur.frame.ihl \in Nat /\ cur.frame.tot \in Nat /\ cur.frame.ulen \in Nat
  BY <1>3 DEF Records, Frame
<1>5. Left(cur) = cur.caplen - EtherLen /\ cur.caplen >= EtherLen + IpLen + UdpLen
  BY <1>2 DEF Stage, Captured, Left
<1>6. Reach <= Left(cur) /\ (pc \in {"udpsum", "copy"} => UdpLen <= cur.frame.ulen)
  <2>1. CASE pc = "ip"
    BY <2>1, <1>4, <1>5, LengthAssumption DEF Reach
  <2>2. CASE pc = "ipsum"
    BY <2>2, <1>2, <1>4, <1>5, LengthAssumption DEF Reach, Stage, IpOk
  <2>3. CASE pc = "udp"
    <3>1. cur.frame.tot <= Left(cur) /\ cur.frame.ihl + UdpLen <= cur.frame.tot
      BY <2>3, <1>2, <1>4, LengthAssumption DEF Stage, IpOk
    <3>2. Reach = cur.frame.ihl + UdpLen
      BY <2>3 DEF Reach
    <3> QED
      BY <2>3, <3>1, <3>2, <1>4, <1>5, LengthAssumption
  <2>4. CASE pc \in {"udpsum", "copy"}
    <3>1. cur.frame.tot <= Left(cur)
      BY <2>4, <1>2 DEF Stage, IpOk
    <3>2. cur.frame.ihl + cur.frame.ulen <= cur.frame.tot /\ UdpLen <= cur.frame.ulen
      BY <2>4, <1>2, <1>4, LengthAssumption DEF Stage, UdpOk
    <3>3. Reach = cur.frame.ihl + cur.frame.ulen
      BY <2>4 DEF Reach
    <3>4. Left(cur) \in Int
      BY <1>4, <1>5, LengthAssumption
    <3>5. Reach <= Left(cur)
      BY <3>1, <3>2, <3>3, <3>4, <1>4
    <3> QED
      BY <3>2, <3>5
  <2> QED
    BY <2>1, <2>2, <2>3, <2>4 DEF WalkInv
<1> QED
  BY <1>2, <1>3, <1>4, <1>6

\* The parser never reads outside the captured bytes of the record it is at,
\* whatever lengths the frames claim and however the kernel aligned the records.
THEOREM ParserInBounds == Spec => []InBounds
<1>1. BufferInv /\ WalkInv => InBounds
  <2> SUFFICES ASSUME BufferInv, WalkInv PROVE InBounds
    OBVIOUS
  <2>0. rbuf \in Seq(Records) /\ Placed(rbuf) /\ Len(rbuf) \in Nat
    BY DEF BufferInv, Paired
  <2>1. Filled(rbuf) <= BufLen
    BY <2>0, FilledBounds, LengthAssumption
  <2>2. ASSUME pc = "record", More PROVE \E i \in DOMAIN rbuf : rbuf[i].at = off
    <3>1. PICK k \in 0 .. Len(rbuf) : Walking(k)
      BY <2>2 DEF WalkInv
    <3>2. off = Start(k)
      BY <3>1 DEF Walking
    <3>3. k < Len(rbuf)
      BY <2>0, <2>2, <3>2, AtRecord
    <3> QED
      BY <3>2, <3>3, AtRecord
  <2> QED
    BY <2>1, <2>2, CheckedRecord DEF InBounds
<1> QED
  BY <1>1, BufferInvariant, WalkInvariant, PTL

\* The variables keep their types; the length handed over is never below zero.
THEOREM TypeCorrect == Spec => []TypeOK
<1>1. BufferInv /\ WalkInv => TypeOK
  <2> SUFFICES ASSUME BufferInv, WalkInv PROVE TypeOK
    OBVIOUS
  <2>1. /\ store \in Seq(Records) /\ rbuf \in Seq(Records)
        /\ queue \in Seq(Frame) /\ meant \in Seq(Frame)
        /\ arrived \in 0 .. MaxFrames
    BY DEF BufferInv, Paired
  <2>2. pc \notin {"idle", "record"} => cur \in Records
    BY CheckedRecord
  <2>3. out = NoPacket \/ (out.frame \in Frame /\ out.len \in Nat)
    <3>1. CASE pc # "idle"
      BY <3>1 DEF WalkInv
    <3>2. CASE pc = "idle"
      <4>1. SUFFICES ASSUME out # NoPacket PROVE out.frame \in Frame /\ out.len \in Nat
        OBVIOUS
      <4>2. PICK k \in 1 .. Len(rbuf) : Passes(rbuf[k]) /\ out = Delivered(rbuf[k])
        BY <3>2, <4>1 DEF WalkInv, Result
      <4>3. rbuf[k] \in Records
        BY <2>1
      <4>4. rbuf[k].frame \in Frame /\ rbuf[k].frame.ulen \in Nat
        BY <4>3 DEF Records, Frame
      <4>5. rbuf[k].frame.ulen >= UdpLen
        BY <4>2 DEF Passes, UdpOk
      <4> QED
        BY <4>2, <4>4, <4>5, LengthAssumption DEF Delivered, Packet, Least
    <3> QED
      BY <3>1, <3>2
  <2>4. pc # "idle" => off \in Nat
    BY AtRecord DEF WalkInv, Walking
  <2> QED
    BY <2>1, <2>2, <2>3, <2>4 DEF TypeOK, WalkInv
<1> QED
  BY <1>1, BufferInvariant, WalkInvariant, PTL

\* A BPF read returns what the Linux seam would have handed over first, for any
\* frames that neither the kernel's nor the caller's buffer cuts off.
THEOREM ReadsLikeLinux == Spec => []SameAsLinux
<1>1. BufferInv /\ WalkInv => SameAsLinux
  <2> SUFFICES ASSUME BufferInv, WalkInv, pc = "idle", RoomFor(meant)
               PROVE  out = FirstOf(meant)
    BY DEF SameAsLinux
  <2>0. /\ rbuf \in Seq(Records) /\ meant \in Seq(Frame) /\ Len(rbuf) \in Nat
        /\ DOMAIN rbuf = 1 .. Len(rbuf) /\ DOMAIN meant = 1 .. Len(rbuf)
    BY DEF BufferInv, Paired
  <2>1. ASSUME NEW i \in 1 .. Len(rbuf)
        PROVE  rbuf[i].frame = meant[i] /\ (Passes(rbuf[i]) <=> LinuxAccepts(meant[i]))
    <3>1. rbuf[i].frame = meant[i] /\ Whole(rbuf[i])
      BY <2>0 DEF BufferInv, Paired, Placed, PlacedAt
    <3>2. Wire(meant[i]) <= BufLen - HdrLen /\ meant[i].tot <= meant[i].ihl + UdpLen + NBuf
      BY <2>0 DEF RoomFor
    <3> QED
      BY <3>1, <3>2, SameChecks
  <2>2. CASE out = NoPacket /\ NonePass(Len(rbuf))
    <3>1. Acceptable(meant) = {}
      BY <2>0, <2>1, <2>2 DEF NonePass, Acceptable
    <3> QED
      BY <2>2, <3>1 DEF FirstOf
  <2>3. ASSUME NEW k \in 1 .. Len(rbuf),
               Passes(rbuf[k]), NonePass(k - 1), out = Delivered(rbuf[k])
        PROVE  out = FirstOf(meant)
    <3>1. k \in Acceptable(meant)
      BY <2>0, <2>1, <2>3 DEF Acceptable
    <3>2. ASSUME NEW j \in Acceptable(meant) PROVE k <= j
      <4>1. j \in 1 .. Len(rbuf) /\ Passes(rbuf[j])
        BY <2>0, <2>1 DEF Acceptable
      <4>2. j \notin 1 .. k - 1
        BY <2>3, <4>1 DEF NonePass
      <4> QED
        BY <2>0, <4>1, <4>2
    <3>3. \A i \in Acceptable(meant) : (\A j \in Acceptable(meant) : i <= j) => i = k
      <4>1. Acceptable(meant) \subseteq 1 .. Len(rbuf)
        BY <2>0 DEF Acceptable
      <4> QED
        BY <2>0, <3>1, <3>2, <4>1
    <3>4. FirstOf(meant) = LinuxPacket(meant[k])
      <4>1. (CHOOSE i \in Acceptable(meant) : \A j \in Acceptable(meant) : i <= j) = k
        BY <3>1, <3>2, <3>3
      <4> QED
        BY <3>1, <4>1 DEF FirstOf
    <3>5. LinuxAccepts(meant[k]) /\ rbuf[k].frame = meant[k] /\ meant[k] \in Frame
      BY <2>0, <2>1, <2>3
    <3>6. meant[k].tot <= meant[k].ihl + UdpLen + NBuf
      BY <2>0 DEF RoomFor
    <3>7. /\ meant[k].ihl + meant[k].ulen <= meant[k].tot /\ UdpLen <= meant[k].ulen
          /\ meant[k].ihl \in Nat /\ meant[k].ulen \in Nat /\ meant[k].tot \in Nat
      BY <3>5 DEF LinuxAccepts, Frame
    <3>8. Least(meant[k].ulen - UdpLen, NBuf) = meant[k].ulen - UdpLen
      <4>1. ASSUME NEW h \in Nat, NEW u \in Nat, NEW t \in Nat,
                   h + u <= t, t <= h + UdpLen + NBuf, UdpLen <= u
            PROVE  Least(u - UdpLen, NBuf) = u - UdpLen
        BY <4>1, LengthAssumption DEF Least
      <4> QED
        BY <4>1, <3>6, <3>7
    <3> QED
      BY <2>3, <3>4, <3>5, <3>8 DEF Delivered, LinuxPacket
  <2> QED
    BY <2>2, <2>3 DEF WalkInv, Result
<1> QED
  BY <1>1, BufferInvariant, WalkInvariant, PTL

LEMMA PacketIsSome ==
    ASSUME NEW f, NEW n
    PROVE  Packet(f, n) # NoPacket
<1>1. DOMAIN Packet(f, n) = {"frame", "from", "len"} /\ DOMAIN NoPacket = {"len"}
  BY DEF Packet, NoPacket
<1> QED
  BY <1>1

\* What this seam sends is taken at the other end if it arrives as it was sent, and
\* never if its payload was altered.
THEOREM SentIsTaken == Spec => []OwnFrames
<1>1. BufferInv /\ WalkInv => OwnFrames
  <2> SUFFICES ASSUME BufferInv, WalkInv, pc = "idle"
               PROVE  /\ out # NoPacket => out.frame.origin # "altered"
                      /\ (\E i \in DOMAIN meant : meant[i].origin = "sent") => out # NoPacket
    BY DEF OwnFrames
  <2>0. /\ rbuf \in Seq(Records) /\ meant \in Seq(Frame) /\ Len(rbuf) \in Nat
        /\ DOMAIN rbuf = 1 .. Len(rbuf) /\ DOMAIN meant = 1 .. Len(rbuf)
    BY DEF BufferInv, Paired
  <2>1. ASSUME NEW i \in 1 .. Len(rbuf)
        PROVE  rbuf[i].frame \in OnTheWire /\ rbuf[i].frame = meant[i] /\ Whole(rbuf[i])
    BY <2>0 DEF BufferInv, Paired, Placed, PlacedAt
  <2>2. ASSUME NEW k \in 1 .. Len(rbuf), Passes(rbuf[k]), out = Delivered(rbuf[k])
        PROVE  out # NoPacket /\ out.frame.origin # "altered"
    <3>1. rbuf[k].frame.sum # "wrong"
      BY <2>2 DEF Passes, SumOk
    <3>2. rbuf[k].frame.origin # "altered"
      BY <2>1, <3>1, WireFrames
    <3>3. out.frame = rbuf[k].frame
      BY <2>2 DEF Delivered, Packet
    <3> QED
      BY <2>2, <3>2, <3>3, PacketIsSome DEF Delivered
  <2>3. ASSUME NEW i \in 1 .. Len(rbuf), rbuf[i].frame.origin = "sent"
        PROVE  Passes(rbuf[i])
    <3>1. PICK r : r = rbuf[i]
      OBVIOUS
    <3>2. PICK f : f = r.frame
      OBVIOUS
    <3>3. f \in OnTheWire /\ Whole(r) /\ f.origin = "sent"
      BY <2>1, <2>3, <3>1, <3>2
    <3>4. /\ f.ihl = IpLen /\ f.tot = IpLen + f.ulen /\ f.flaws = {} /\ f.sum = "right"
          /\ f.tot <= f.len /\ Wire(f) <= BufLen - HdrLen
          /\ f.ulen >= UdpLen + MessageLen /\ f \in Frame
      BY <3>3, WireFrames
    <3>5. f.len \in Nat /\ f.ulen \in Nat
      BY <3>4 DEF Frame
    <3>6. r.caplen = Wire(f)
      BY <3>2, <3>3, <3>4, <3>5, LengthAssumption DEF Whole, Least, Wire
    <3>7. Captured(r) /\ Left(r) = f.len
      <4>1. r.caplen = EtherLen + f.len
        BY <3>6 DEF Wire
      <4>2. f.len >= IpLen + UdpLen
        BY <3>4, <3>5, LengthAssumption
      <4>3. r.caplen >= EtherLen + IpLen + UdpLen /\ r.caplen - EtherLen = f.len
        BY <4>1, <4>2, <3>5, LengthAssumption
      <4> QED
        BY <3>2, <3>6, <4>3 DEF Captured, Left
    <3>8. IpOk(f, f.len) /\ Right(f, {"ipsum"}) /\ UdpOk(f) /\ SumOk(f)
      <4>1. \A x : Right(f, x)
        BY <3>4 DEF Right
      <4> QED
        BY <4>1, <3>4, <3>5, LengthAssumption DEF IpOk, UdpOk, SumOk
    <3> QED
      BY <3>1, <3>2, <3>7, <3>8 DEF Passes
  <2>4. CASE out = NoPacket /\ NonePass(Len(rbuf))
    <3>1. ~\E i \in 1 .. Len(rbuf) : rbuf[i].frame.origin = "sent"
      BY <2>3, <2>4 DEF NonePass
    <3> QED
      BY <2>0, <2>1, <2>4, <3>1
  <2>5. CASE \E k \in 1 .. Len(rbuf) :
               Passes(rbuf[k]) /\ NonePass(k - 1) /\ out = Delivered(rbuf[k])
    BY <2>2, <2>5
  <2> QED
    BY <2>4, <2>5 DEF WalkInv, Result
<1> QED
  BY <1>1, BufferInvariant, WalkInvariant, PTL

-----------------------------------------------------------------------------
(***************************************************************************)
(* The walk ends.                                                          *)
(***************************************************************************)

\* The checks a record may still go through.
ChecksLeft ==
    CASE pc = "ip" -> 5 [] pc = "ipsum" -> 4 [] pc = "udp" -> 3
      [] pc = "udpsum" -> 2 [] pc = "copy" -> 1 [] OTHER -> 0

\* How many steps the parser can take at most; the last record may leave off in the
\* padding behind the buffer.
StepsLeft == 6 * (BufLen + Word - off) + ChecksLeft

\* Every step of packet_bsd_parse() and of the walk around it leaves less to do.
ParserMoves == [][pc # "idle" =>
                     \/ pc' = "idle"
                     \/ UNCHANGED parser
                     \/ StepsLeft' \in Nat /\ StepsLeft' < StepsLeft]_vars

LEMMA AlignIsNear == ASSUME NEW n \in Nat PROVE Align(n) < n + Word
<1>1. CASE Word = 1
  BY <1>1 DEF Align
<1>2. CASE Word = 2
  BY <1>2 DEF Align
<1>3. CASE Word = 4
  BY <1>3 DEF Align
<1>4. CASE Word = 8
  BY <1>4 DEF Align
<1> QED
  BY <1>1, <1>2, <1>3, <1>4, LengthAssumption

\* Where a record may start in a buffer of BufLen bytes.
LEMMA StartIsNear ==
    ASSUME BufferInv, NEW k \in 0 .. Len(rbuf)
    PROVE  Start(k) \in Nat /\ Start(k) < BufLen + Word
<1>1. rbuf \in Seq(Records) /\ Placed(rbuf) /\ DOMAIN rbuf = 1 .. Len(rbuf)
  BY DEF BufferInv, Paired
<1>2. BufLen \in Nat /\ Word \in Nat /\ Word > 0
  BY LengthAssumption
<1>3. CASE k = 0
  BY <1>2, <1>3 DEF Start
<1>4. CASE k # 0
  <2>1. k \in DOMAIN rbuf /\ rbuf[k] \in Records
    BY <1>1, <1>4
  <2>2. End(rbuf[k]) \in Nat /\ End(rbuf[k]) <= BufLen
    BY <1>1, <2>1, RecordFits DEF Placed, PlacedAt
  <2>3. Align(End(rbuf[k])) \in Nat /\ Align(End(rbuf[k])) < End(rbuf[k]) + Word
    BY <2>2, AlignIsNat, AlignIsNear
  <2> QED
    BY <1>2, <1>4, <2>2, <2>3 DEF Start
<1> QED
  BY <1>3, <1>4

StepsInv == pc # "idle" => off \in Nat /\ off < BufLen + Word /\ StepsLeft \in Nat

LEMMA StepsAreNat ==
    ASSUME BufferInv, WalkInv
    PROVE  StepsInv
<1> SUFFICES ASSUME pc # "idle"
             PROVE  off \in Nat /\ off < BufLen + Word /\ StepsLeft \in Nat
  BY DEF StepsInv
<1>1. PICK k \in 0 .. Len(rbuf) : off = Start(k)
  BY DEF WalkInv, Walking
<1>2. off \in Nat /\ off < BufLen + Word
  BY <1>1, StartIsNear
<1>3. BufLen + Word - off \in Nat
  BY <1>2, LengthAssumption
<1>4. ChecksLeft \in Nat
  BY DEF ChecksLeft
<1> QED
  BY <1>2, <1>3, <1>4 DEF StepsLeft

\* A record takes up room, so that the walk passes it for good.
LEMMA NextIsFurther ==
    ASSUME BufferInv, WalkInv, NextRecord
    PROVE  off' > off
<1>1. PICK k \in 0 .. Len(rbuf) : off = Start(k)
  BY DEF WalkInv, Walking, NextRecord
<1>2. off \in Nat /\ k \in Nat /\ Len(rbuf) \in Nat
  BY <1>1, AtRecord DEF BufferInv, Paired
<1>3. k < Len(rbuf)
  <2>1. k # Len(rbuf)
    BY <1>1, AtRecord DEF NextRecord
  <2> QED
    BY <1>2, <2>1
<1>4. k + 1 \in DOMAIN rbuf /\ RecordAt(off) = k + 1
  BY <1>1, <1>3, AtRecord
<1>5. off' = off + Align(HdrLen + rbuf[k + 1].caplen)
  BY <1>4 DEF NextRecord, NextOff
<1>6. rbuf[k + 1].caplen \in Nat
  <2>1. rbuf[k + 1] \in Records
    BY <1>4 DEF BufferInv, Paired
  <2> QED
    BY <2>1 DEF Records
<1>7. HdrLen + rbuf[k + 1].caplen \in Nat \ {0}
  BY <1>6, LengthAssumption
<1>8. /\ Align(HdrLen + rbuf[k + 1].caplen) \in Nat
      /\ HdrLen + rbuf[k + 1].caplen <= Align(HdrLen + rbuf[k + 1].caplen)
  BY <1>7, AlignIsNat
<1> QED
  BY <1>2, <1>5, <1>7, <1>8

LEMMA MovesForward ==
    ASSUME BufferInv, WalkInv, StepsInv, StepsInv', [Next]_vars, pc # "idle", pc' # "idle",
           ~UNCHANGED parser
    PROVE  StepsLeft' \in Nat /\ StepsLeft' < StepsLeft
<1>1. /\ off \in Nat /\ off < BufLen + Word /\ StepsLeft \in Nat
      /\ off' \in Nat /\ off' < BufLen + Word /\ StepsLeft' \in Nat
  BY DEF StepsInv
<1>2. BufLen \in Nat /\ Word \in Nat
  BY LengthAssumption
<1>0. ASSUME NEW a \in Nat, NEW b \in Nat, NEW c \in 0 .. 5, NEW d \in 0 .. 5,
             a > b \/ (a = b /\ c < d)
      PROVE  6 * (BufLen + Word - a) + c < 6 * (BufLen + Word - b) + d
  BY <1>0, <1>2
<1>3. CASE NextRecord
  <2>1. off' > off
    BY <1>3, NextIsFurther
  <2>2. ChecksLeft = 0 /\ ChecksLeft' \in 0 .. 5
    BY <1>3 DEF NextRecord, ChecksLeft
  <2> QED
    BY <1>1, <1>0, <2>1, <2>2 DEF StepsLeft
<1>4. CASE CheckIp \/ CheckIpSum \/ CheckUdp \/ CheckUdpSum
  <2>1. off' = off
    BY <1>4 DEF CheckIp, CheckIpSum, CheckUdp, CheckUdpSum, Check
  <2>2. ChecksLeft \in 0 .. 5 /\ ChecksLeft' \in 0 .. 5 /\ ChecksLeft' < ChecksLeft
    <3>1. CASE CheckIp
      BY <3>1 DEF CheckIp, Check, ChecksLeft
    <3>2. CASE CheckIpSum
      BY <3>2 DEF CheckIpSum, Check, ChecksLeft
    <3>3. CASE CheckUdp
      BY <3>3 DEF CheckUdp, Check, ChecksLeft
    <3>4. CASE CheckUdpSum
      BY <3>4 DEF CheckUdpSum, Check, ChecksLeft
    <3> QED
      BY <1>4, <3>1, <3>2, <3>3, <3>4
  <2> QED
    BY <1>1, <1>0, <2>1, <2>2 DEF StepsLeft
<1>5. CASE EndOfBuffer \/ Copy
  BY <1>5 DEF EndOfBuffer, Copy
<1>6. CASE ReadBuffer \/ ReadFails
  BY <1>6 DEF ReadBuffer, ReadFails
<1>7. CASE \E f \in OnTheWire : Arrive(f)
  BY <1>7 DEF Arrive
<1>8. CASE UNCHANGED vars
  BY <1>8 DEF vars, parser
<1> QED
  BY <1>3, <1>4, <1>5, <1>6, <1>7, <1>8 DEF Next, Parse

\* ParserMoves: each step of the parser ends the walk or brings its end nearer, so
\* that no buffer, whatever its frames claim, keeps packet_bsd_parse() for more than
\* 6 * (BufLen + Word) steps.
THEOREM WalkEnds == Spec => ParserMoves
<1>1. BufferInv /\ WalkInv /\ StepsInv /\ StepsInv' /\ [Next]_vars
        => [pc # "idle" => \/ pc' = "idle"
                           \/ UNCHANGED parser
                           \/ StepsLeft' \in Nat /\ StepsLeft' < StepsLeft]_vars
  BY MovesForward
<1>2. BufferInv /\ WalkInv => StepsInv
  BY StepsAreNat
<1> QED
  BY <1>1, <1>2, BufferInvariant, WalkInvariant, PTL DEF Spec, ParserMoves

=============================================================================
