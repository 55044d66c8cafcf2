-------------------------- MODULE AcdSocket_proofs --------------------------
(***************************************************************************)
(* Proofs about the NAcds of a process.  First their life: what they hold, *)
(* and that the read buffer they share is big enough for each of them.     *)
(* Then the frames on their way from a device to the state machine, for    *)
(* which it has to be known first what Parse returns.                      *)
(***************************************************************************)
EXTENDS AcdSocket, LeastNumber_proofs, SequenceTheorems, TLAPS

\* The typing part of the invariant.
Types ==
    /\ bufsize \in Bufsizes
    /\ buflen \in Bufsizes \cup {0}
    /\ phase \in [Acds -> Phases]
    /\ fields \in [Acds -> SUBSET Descriptors]
    /\ open \in [Acds -> SUBSET Descriptors]
    /\ watched \in [Acds -> SUBSET Descriptors]
    /\ blen \in [Acds -> Bufsizes \cup {0}]

\* The step touches nothing of the NAcds other than a.
OnlyTouches(a) ==
    \A b \in Acds \ {a} :
        /\ phase'[b] = phase[b]
        /\ fields'[b] = fields[b]
        /\ open'[b] = open[b]
        /\ watched'[b] = watched[b]
        /\ blen'[b] = blen[b]

LEMMA InvIsTyped == LifecycleInv => Types
BY DEF LifecycleInv, Types

LEMMA SizesAreNat == \A n \in Bufsizes \cup {0} : n \in Nat
BY BufsizesAssumption

LEMMA SizesAreOrdered ==
    ASSUME LifecycleInv
    PROVE  buflen <= buflen
<1>1. buflen \in Nat
  BY InvIsTyped, SizesAreNat DEF Types
<1> QED
  BY <1>1

\* The step of a call of one NAcd keeps the invariant if it leaves the NAcd's
\* own part in order and does not shrink the shared buffer.
LEMMA OneAcdMoves ==
    ASSUME LifecycleInv, NEW a \in Acds, Types', OnlyTouches(a), buflen <= buflen',
           HoldsByPhase(a)', SizeByPhase(a)'
    PROVE  LifecycleInv'
<1>1. \A b \in Acds : HoldsByPhase(b) /\ SizeByPhase(b)
  BY DEF LifecycleInv
<1>2. ASSUME NEW b \in Acds \ {a}
      PROVE  HoldsByPhase(b)'
  BY <1>1 DEF OnlyTouches, HoldsByPhase
<1>3. ASSUME NEW b \in Acds \ {a}
      PROVE  SizeByPhase(b)'
  <2>1. blen[b] \in Bufsizes \cup {0} /\ buflen \in Bufsizes \cup {0} /\ buflen' \in Bufsizes \cup {0}
    BY InvIsTyped DEF Types
  <2>2. blen[b] \in Nat /\ buflen \in Nat /\ buflen' \in Nat
    BY <2>1, SizesAreNat
  <2>3. blen[b] <= buflen => blen[b] <= buflen'
    BY <2>2
  <2> QED
    BY <1>1, <2>3 DEF OnlyTouches, SizeByPhase
<1>4. \A b \in Acds : HoldsByPhase(b)' /\ SizeByPhase(b)'
  BY <1>2, <1>3
<1> QED
  BY <1>4 DEF LifecycleInv, Types

\* Dropping a NAcd keeps the invariant when everything the kernel held open for
\* it is closed.
LEMMA UnrefKeepsInv ==
    ASSUME LifecycleInv, NEW a \in Acds, Unref(a), UNCHANGED <<bufsize, buflen>>,
           open' = [open EXCEPT ![a] = {}]
    PROVE  LifecycleInv'
<1>1. HoldsByPhase(a)'
  BY DEF LifecycleInv, HoldsByPhase, Unref, Alive
<1>2. SizeByPhase(a)'
  BY DEF LifecycleInv, SizeByPhase, Unref, Alive
<1>3. Types'
  BY InvIsTyped DEF Types, Unref, Phases
<1>4. OnlyTouches(a)
  BY InvIsTyped DEF Types, Unref, OnlyTouches
<1>5. buflen <= buflen'
  BY SizesAreOrdered
<1> QED
  BY <1>1, <1>2, <1>3, <1>4, <1>5, OneAcdMoves

\* A step that does not touch what the invariant speaks of.
LEMMA OthersKeepInv ==
    ASSUME LifecycleInv, bufsize' \in Bufsizes,
           UNCHANGED <<buflen, phase, fields, open, watched, blen>>
    PROVE  LifecycleInv'
BY DEF LifecycleInv, HoldsByPhase, SizeByPhase

\* Moving between the steps of n_acd_dispatch().
LEMMA DispatchKeepsInv ==
    ASSUME LifecycleInv, NEW a \in Acds, NEW p \in Alive,
           phase[a] \in Alive, phase' = [phase EXCEPT ![a] = p],
           UNCHANGED <<bufsize, buflen, fields, open, watched, blen>>
    PROVE  LifecycleInv'
<1>1. HoldsByPhase(a)' /\ SizeByPhase(a)'
  BY DEF LifecycleInv, HoldsByPhase, SizeByPhase, Alive
<1>2. Types' /\ OnlyTouches(a)
  BY InvIsTyped DEF Types, OnlyTouches, Phases, Alive
<1>3. buflen <= buflen'
  BY SizesAreOrdered
<1> QED
  BY <1>1, <1>2, <1>3, OneAcdMoves

-----------------------------------------------------------------------------

LEMMA NewKeepsInv ==
    ASSUME LifecycleInv, NEW a \in Acds, New(a)
    PROVE  LifecycleInv'
<1> USE DEF kernel
<1>0. Types /\ HoldsByPhase(a) /\ SizeByPhase(a) /\ buflen \in Nat /\ buflen <= buflen
  BY InvIsTyped, BufsizesAssumption DEF LifecycleInv, Types
<1>1. CASE AcdNew(a)
  <2>1. HoldsByPhase(a)'
    BY <1>0, <1>1 DEF AcdNew, HoldsByPhase, Types, Alive, Descriptors
  <2>2. SizeByPhase(a)'
    BY <1>0, <1>1 DEF AcdNew, SizeByPhase, Types, Alive
  <2>3. Types' /\ OnlyTouches(a)
    BY <1>0, <1>1 DEF AcdNew, Types, OnlyTouches, Phases, Descriptors
  <2> QED
    BY <1>0, <1>1, <2>1, <2>2, <2>3, OneAcdMoves DEF AcdNew
<1>2. CASE TimerNew(a)
  <2>1. HoldsByPhase(a)'
    BY <1>0, <1>2 DEF TimerNew, HoldsByPhase, Types, Alive, Descriptors
  <2>2. SizeByPhase(a)'
    BY <1>0, <1>2 DEF TimerNew, SizeByPhase, Types, Alive
  <2>3. Types' /\ OnlyTouches(a)
    BY <1>0, <1>2 DEF TimerNew, Types, OnlyTouches, Phases, Descriptors
  <2> QED
    BY <1>0, <1>2, <2>1, <2>2, <2>3, OneAcdMoves DEF TimerNew
<1>3. CASE OpenBpf(a)
  <2>1. HoldsByPhase(a)'
    BY <1>0, <1>3 DEF OpenBpf, HoldsByPhase, Types, Alive, Descriptors
  <2>2. SizeByPhase(a)'
    BY <1>0, <1>3 DEF OpenBpf, SizeByPhase, Types, Alive
  <2>3. Types' /\ OnlyTouches(a)
    BY <1>0, <1>3 DEF OpenBpf, Types, OnlyTouches, Phases, Descriptors
  <2> QED
    BY <1>0, <1>3, <2>1, <2>2, <2>3, OneAcdMoves DEF OpenBpf
<1>4. CASE Ioctl(a)
  BY <1>0, <1>4, OthersKeepInv DEF Ioctl, Types
<1>5. CASE SocketNew(a)
  <2>1. blen[a] \in Bufsizes /\ blen[a] \in Nat
    BY <1>0, <1>5, BufsizesAssumption DEF SocketNew, SizeByPhase
  <2>2. buflen' \in Bufsizes \cup {0} /\ buflen <= buflen' /\ blen[a] <= buflen'
    BY <1>0, <1>5, <2>1 DEF SocketNew, GrowTo, Types
  <2>3. HoldsByPhase(a)'
    BY <1>0, <1>5 DEF SocketNew, HoldsByPhase, Types, Alive
  <2>4. SizeByPhase(a)'
    BY <1>0, <1>5, <2>1, <2>2 DEF SocketNew, SizeByPhase, Types, Alive
  <2>5. Types' /\ OnlyTouches(a)
    BY <1>0, <1>5, <2>2 DEF SocketNew, Types, OnlyTouches, Phases, Descriptors
  <2> QED
    BY <2>2, <2>3, <2>4, <2>5, OneAcdMoves
<1>6. CASE SocketNewFails(a)
  <2>1. open[a] \ (fields[a] \cup {"bpf"}) = {}
    BY <1>0, <1>6 DEF SocketNewFails, HoldsByPhase
  <2> QED
    BY <1>6, <2>1, UnrefKeepsInv DEF SocketNewFails
<1>7. CASE PollNew(a)
  <2>1. HoldsByPhase(a)'
    BY <1>0, <1>7 DEF PollNew, HoldsByPhase, Types, Alive, Descriptors
  <2>2. SizeByPhase(a)'
    BY <1>0, <1>7 DEF PollNew, SizeByPhase, Types, Alive
  <2>3. Types' /\ OnlyTouches(a)
    BY <1>0, <1>7 DEF PollNew, Types, OnlyTouches, Phases, Descriptors
  <2> QED
    BY <1>0, <1>7, <2>1, <2>2, <2>3, OneAcdMoves DEF PollNew
<1>8. CASE NewFails(a)
  <2>1. open[a] \ fields[a] = {}
    BY <1>0, <1>8 DEF NewFails, HoldsByPhase
  <2> QED
    BY <1>8, <2>1, UnrefKeepsInv DEF NewFails, CloseFields
<1> QED
  BY <1>1, <1>2, <1>3, <1>4, <1>5, <1>6, <1>7, <1>8 DEF New

LEMMA CallsKeepInv ==
    ASSUME LifecycleInv, NEW a \in Acds,
           AcdUnref(a) \/ Dispatch(a) \/ SendFails(a) \/ PopEvent(a)
    PROVE  LifecycleInv'
<1> USE DEF kernel, object
<1>0. bufsize \in Bufsizes /\ HoldsByPhase(a)
  BY DEF LifecycleInv
<1>1. CASE AcdUnref(a)
  <2>1. open[a] \ fields[a] = {}
    BY <1>0, <1>1 DEF AcdUnref, HoldsByPhase, Alive
  <2> QED
    BY <1>1, <2>1, UnrefKeepsInv DEF AcdUnref, CloseFields
<1>2. CASE PollSocket(a)
  BY <1>2, DispatchKeepsInv DEF PollSocket, Alive
<1>3. CASE Recv(a)
  BY <1>3, DispatchKeepsInv DEF Recv, Alive
<1>4. CASE RecvNothing(a) \/ RecvFails(a) \/ HandlePacketFails(a) \/ DispatchReturn(a)
  BY <1>4, DispatchKeepsInv DEF RecvNothing, RecvFails, HandlePacketFails, DispatchReturn, Leave, Alive
<1>5. CASE PollNothing(a) \/ HandlePacket(a) \/ SkipInvalid(a) \/ SendFails(a) \/ PopEvent(a)
  BY <1>0, <1>5, OthersKeepInv DEF PollNothing, HandlePacket, SkipInvalid, SendFails, PopEvent
<1> QED
  BY <1>1, <1>2, <1>3, <1>4, <1>5 DEF Dispatch

LEMMA KernelKeepsInv ==
    ASSUME LifecycleInv, Kernel
    PROVE  LifecycleInv'
<1> USE DEF object
<1>0. bufsize \in Bufsizes
  BY DEF LifecycleInv
<1>1. CASE \E a \in Acds, k \in Kinds : Capture(a, k)
  BY <1>0, <1>1, OthersKeepInv DEF Capture
<1>2. CASE \E a \in Acds, l \in {"up", "down", "gone"} : LinkChanges(a, l)
  BY <1>0, <1>2, OthersKeepInv DEF LinkChanges
<1>3. CASE \E n \in Bufsizes : SetBufsize(n)
  BY <1>3, OthersKeepInv DEF SetBufsize
<1> QED
  BY <1>1, <1>2, <1>3 DEF Kernel

\* What a NAcd holds follows from how far n_acd_new() got, for any number of
\* NAcds and any mix of buffer sizes.
THEOREM Lifecycle == Spec => []LifecycleInv
<1>1. Init => LifecycleInv
  BY DEF Init, LifecycleInv, HoldsByPhase, SizeByPhase, Phases, Alive
<1>2. ASSUME LifecycleInv, [Next]_vars
      PROVE  LifecycleInv'
  <2>1. CASE UNCHANGED vars
    <3>1. bufsize \in Bufsizes
      BY <1>2 DEF LifecycleInv
    <3> QED
      BY <1>2, <2>1, <3>1, OthersKeepInv DEF vars, kernel, object
  <2>2. CASE Next
    BY <1>2, <2>2, NewKeepsInv, CallsKeepInv, KernelKeepsInv DEF Next
  <2> QED
    BY <1>2, <2>1, <2>2
<1> QED
  BY <1>1, <1>2, PTL DEF Spec

\* No failure inside n_acd_new() and no drop of a NAcd leaves a descriptor open
\* or watched that nobody will close.
THEOREM NothingLeaks == Spec => []NoLeak
<1>1. LifecycleInv => NoLeak
  BY DEF LifecycleInv, HoldsByPhase, NoLeak, Phases, Alive, Descriptors
<1> QED
  BY <1>1, Lifecycle, PTL

\* The shared buffer is big enough for every open device.
THEOREM BufferIsBigEnough == Spec => []BufferFits
<1>1. LifecycleInv => BufferFits
  <2> SUFFICES ASSUME LifecycleInv, NEW a \in Acds, phase[a] \in {"socket"} \cup Alive
               PROVE  0 < blen[a] /\ blen[a] <= buflen
    BY DEF BufferFits
  <2>1. blen[a] \in Bufsizes /\ blen[a] <= buflen
    BY DEF LifecycleInv, SizeByPhase
  <2> QED
    BY <2>1, BufsizesAssumption
<1> QED
  BY <1>1, Lifecycle, PTL

\* Where the kernel gives every device the same buffer size, the read is of
\* exactly that size: the sharing is then harmless.
THEOREM BufferIsExact ==
    ASSUME \A m, n \in Bufsizes : m = n
    PROVE  Spec => []BufferExact
<1>1. LifecycleInv => BufferExact
  <2> SUFFICES ASSUME LifecycleInv, NEW a \in Acds, phase[a] = "recv"
               PROVE  blen[a] = buflen
    BY DEF BufferExact
  <2>1. blen[a] \in Bufsizes /\ blen[a] <= buflen /\ buflen \in Bufsizes \cup {0}
    BY DEF LifecycleInv, SizeByPhase, Alive
  <2>2. buflen # 0
    BY <2>1, BufsizesAssumption
  <2> QED
    BY <2>1, <2>2
<1> QED
  BY <1>1, Lifecycle, PTL
-----------------------------------------------------------------------------
(***************************************************************************)
(* What Parse returns: the i-th of n positions is the one up to which      *)
(* there are i of them.                                                    *)
(***************************************************************************)

\* The positions up to j.
UpTo(kept, j) == {k \in kept : k <= j}

LEMMA KeptIsFinite ==
    ASSUME NEW n \in Nat, NEW kept \in SUBSET (1 .. n)
    PROVE  /\ kept \in SUBSET Nat
           /\ IsFiniteSet(kept) /\ Cardinality(kept) \in Nat
           /\ \A k \in kept : k \in Nat /\ k <= n /\ 0 < k
<1>1. IsFiniteSet(1 .. n)
  BY FS_Interval
<1>2. IsFiniteSet(kept)
  BY <1>1, FS_Subset
<1>3. Cardinality(kept) \in Nat
  BY <1>2, FS_CardinalityType
<1>4. \A k \in kept : k \in Nat /\ k <= n /\ 0 < k
  OBVIOUS
<1> QED
  BY <1>2, <1>3, <1>4

LEMMA UpToIsFinite ==
    ASSUME NEW kept \in SUBSET Nat, IsFiniteSet(kept), NEW j
    PROVE  /\ IsFiniteSet(UpTo(kept, j))
           /\ Cardinality(UpTo(kept, j)) \in Nat
           /\ Cardinality(UpTo(kept, j)) <= Cardinality(kept)
<1>1. UpTo(kept, j) \in SUBSET kept
  BY DEF UpTo
<1> QED
  BY <1>1, FS_Subset, FS_CardinalityType

LEMMA UpToGrows ==
    ASSUME NEW kept \in SUBSET Nat, IsFiniteSet(kept),
           NEW i \in kept, NEW j \in kept, i < j
    PROVE  Cardinality(UpTo(kept, i)) < Cardinality(UpTo(kept, j))
<1>1. i \in Nat /\ j \in Nat
  OBVIOUS
<1>2. UpTo(kept, i) \in SUBSET UpTo(kept, j) /\ j \in UpTo(kept, j) /\ j \notin UpTo(kept, i)
  <2>1. \A k \in kept : k \in Nat /\ (k <= i => k <= j)
    BY <1>1
  <2>2. j <= j /\ ~(j <= i)
    BY <1>1
  <2> QED
    BY <2>1, <2>2 DEF UpTo
<1>3. UpTo(kept, i) # UpTo(kept, j)
  BY <1>2
<1>4. /\ Cardinality(UpTo(kept, i)) \in Nat /\ Cardinality(UpTo(kept, j)) \in Nat
      /\ IsFiniteSet(UpTo(kept, j))
  BY <1>1, UpToIsFinite
<1>5. /\ Cardinality(UpTo(kept, i)) <= Cardinality(UpTo(kept, j))
      /\ Cardinality(UpTo(kept, i)) # Cardinality(UpTo(kept, j))
  BY <1>2, <1>3, <1>4, FS_Subset
<1> QED
  BY <1>4, <1>5

\* Nth() finds one of the positions, the one of that rank.
LEMMA NthIsKept ==
    ASSUME NEW n \in Nat, NEW kept \in SUBSET (1 .. n), NEW i \in 1 .. Cardinality(kept)
    PROVE  Nth(kept, i) \in kept /\ Cardinality(UpTo(kept, Nth(kept, i))) = i
<1> DEFINE Enough == {j \in Nat : Cardinality(UpTo(kept, j)) >= i}
<1>0. /\ kept \in SUBSET Nat /\ IsFiniteSet(kept)
      /\ Cardinality(kept) \in Nat /\ i \in Nat /\ i >= 1 /\ i <= Cardinality(kept)
      /\ \A k \in kept : k \in Nat /\ k <= n /\ 0 < k
  <2>1. /\ kept \in SUBSET Nat /\ IsFiniteSet(kept) /\ Cardinality(kept) \in Nat
        /\ \A k \in kept : k \in Nat /\ k <= n /\ 0 < k
    BY KeptIsFinite
  <2> QED
    BY <2>1
<1>1. n \in Enough
  <2>1. UpTo(kept, n) = kept
    BY <1>0, Zenon DEF UpTo
  <2> QED
    BY <1>0, <2>1
<1>2. PICK j \in Enough : \A m \in Enough : j <= m
  BY <1>1, LeastExists
<1>3. j # 0
  <2>0. \A k \in kept : ~(k <= 0)
    BY <1>0
  <2>1. UpTo(kept, 0) = {}
    BY <2>0, Zenon DEF UpTo
  <2> QED
    BY <1>0, <2>1, <1>2, FS_EmptySet
<1>4. j \in Nat /\ j - 1 \in Nat /\ Cardinality(UpTo(kept, j)) >= i
  BY <1>2, <1>3
<1>5. /\ Cardinality(UpTo(kept, j - 1)) \in Nat /\ Cardinality(UpTo(kept, j)) \in Nat
      /\ IsFiniteSet(UpTo(kept, j - 1))
  BY <1>0, UpToIsFinite
<1>6. Cardinality(UpTo(kept, j - 1)) < i
  <2>1. j - 1 \notin Enough
    BY <1>2, <1>4
  <2> QED
    BY <1>0, <1>4, <1>5, <2>1
<1>7. j \in kept
  <2> SUFFICES ASSUME j \notin kept PROVE FALSE
    OBVIOUS
  <2>0. \A k \in kept : k <= j <=> k <= j - 1
    BY <1>0, <1>4
  <2>1. UpTo(kept, j) = UpTo(kept, j - 1)
    BY <2>0, Zenon DEF UpTo
  <2> QED
    BY <1>0, <1>4, <1>5, <1>6, <2>1
<1>8. Cardinality(UpTo(kept, j)) = i
  <2>0. ~(j <= j - 1) /\ \A k \in kept : k <= j <=> (k <= j - 1 \/ k = j)
    BY <1>0, <1>4
  <2>1. UpTo(kept, j) = UpTo(kept, j - 1) \cup {j}
    BY <2>0, <1>7, Zenon DEF UpTo
  <2>2. j \notin UpTo(kept, j - 1)
    BY <2>0, Zenon DEF UpTo
  <2>3. Cardinality(UpTo(kept, j)) = Cardinality(UpTo(kept, j - 1)) + 1
    BY <1>5, <2>1, <2>2, FS_AddElement
  <2> QED
    BY <1>0, <1>4, <1>5, <1>6, <2>3
<1>9. \E m \in kept : Cardinality({k \in kept : k <= m}) = i
  BY <1>7, <1>8 DEF UpTo
<1> QED
  BY <1>9 DEF Nth, UpTo

LEMMA NthIsOrdered ==
    ASSUME NEW n \in Nat, NEW kept \in SUBSET (1 .. n),
           NEW i \in 1 .. Cardinality(kept), NEW j \in 1 .. Cardinality(kept), i < j
    PROVE  Nth(kept, i) < Nth(kept, j)
<1>0. kept \in SUBSET Nat /\ IsFiniteSet(kept)
  BY KeptIsFinite
<1>1. /\ Nth(kept, i) \in kept /\ Cardinality(UpTo(kept, Nth(kept, i))) = i
      /\ Nth(kept, j) \in kept /\ Cardinality(UpTo(kept, Nth(kept, j))) = j
  BY NthIsKept
<1>2. i \in Int /\ j \in Int /\ Nth(kept, i) \in Nat /\ Nth(kept, j) \in Nat
  <2>1. Nth(kept, i) \in Nat /\ Nth(kept, j) \in Nat
    BY <1>0, <1>1
  <2> QED
    BY <2>1
<1>3. Nth(kept, i) # Nth(kept, j)
  BY <1>1, <1>2
<1>4. ~(Nth(kept, j) < Nth(kept, i))
  BY <1>0, <1>1, <1>2, UpToGrows
<1> QED
  BY <1>2, <1>3, <1>4

LEMMA EveryoneIsNth ==
    ASSUME NEW n \in Nat, NEW kept \in SUBSET (1 .. n), NEW j \in kept
    PROVE  \E i \in 1 .. Cardinality(kept) : Nth(kept, i) = j
<1> DEFINE i == Cardinality(UpTo(kept, j))
<1>0. kept \in SUBSET Nat /\ IsFiniteSet(kept) /\ Cardinality(kept) \in Nat
  BY KeptIsFinite
<1>1. i \in Nat /\ i <= Cardinality(kept) /\ IsFiniteSet(UpTo(kept, j))
  BY <1>0, UpToIsFinite
<1>2. j \in UpTo(kept, j)
  BY DEF UpTo
<1>3. i # 0
  BY <1>1, <1>2, FS_EmptySet
<1>4. i \in 1 .. Cardinality(kept)
  BY <1>0, <1>1, <1>3
<1>5. Nth(kept, i) \in kept /\ Cardinality(UpTo(kept, Nth(kept, i))) = i
  BY <1>4, NthIsKept
<1>6. j \in Nat /\ Nth(kept, i) \in Nat
  BY <1>0, <1>5
<1>7. i = Cardinality(UpTo(kept, j))
  OBVIOUS
<1> DEFINE k == Nth(kept, i)
<1> HIDE DEF i, k
<1>8. k \in kept /\ Cardinality(UpTo(kept, k)) = i /\ k \in Nat
  BY <1>5, <1>6 DEF k
<1>9. ~(k < j)
  BY <1>0, <1>1, <1>7, <1>8, UpToGrows
<1>10. ~(j < k)
  BY <1>0, <1>1, <1>7, <1>8, UpToGrows
<1>11. k = j
  BY <1>6, <1>8, <1>9, <1>10
<1> QED
  BY <1>4, <1>11 DEF k

LEMMA IoctlsAre ==
    /\ DOMAIN Ioctls = {1, 2} /\ Len(Ioctls) = 2
    /\ Ioctls[1] = "BIOCSETIF" /\ Ioctls[2] = "BIOCSETF"
BY DEF Ioctls

LEMMA PacketType == ASSUME NEW f \in Frames PROVE Packet(f) \in Packets
BY DEF Frames, Packets, Packet, Length

\* A batch is made of the first whole frames of the buffer, in their order, and
\* of all of them when it is not full.
LEMMA ParseReturns ==
    ASSUME NEW s \in Seq(Frames)
    PROVE  /\ Parse(s) \in Seq(Packets)
           /\ \A i \in DOMAIN Parse(s) :
                 \E j \in DOMAIN s : Whole(s[j]) /\ Parse(s)[i] = Packet(s[j])
           /\ \A i, k \in DOMAIN Parse(s) : i < k =>
                 \E j, l \in DOMAIN s :
                    j < l /\ Parse(s)[i] = Packet(s[j]) /\ Parse(s)[k] = Packet(s[l])
           /\ Len(Parse(s)) < Batch =>
                 \A j \in DOMAIN s : Whole(s[j]) =>
                    \E i \in DOMAIN Parse(s) : Parse(s)[i] = Packet(s[j])
<1> DEFINE kept == {j \in DOMAIN s : Whole(s[j])}
           taken == IF Cardinality(kept) < Batch THEN Cardinality(kept) ELSE Batch
           at(i) == Nth(kept, i)
<1>1. /\ Len(s) \in Nat /\ DOMAIN s = 1 .. Len(s) /\ kept \in SUBSET (1 .. Len(s))
      /\ \A j \in DOMAIN s : s[j] \in Frames
  OBVIOUS
<1>2. Cardinality(kept) \in Nat
  <2> HIDE DEF kept
  <2> QED
    BY <1>1, KeptIsFinite
<1>3. taken \in Nat /\ taken <= Cardinality(kept) /\ taken <= Batch
  BY <1>2, BatchAssumption
<1>4. \A i \in 1 .. taken : i \in 1 .. Cardinality(kept)
  BY <1>2, <1>3
<1>5. Parse(s) = [i \in 1 .. taken |-> Packet(s[at(i)])]
  BY DEF Parse
<1>6. \A i \in 1 .. taken : at(i) \in kept
  <2> HIDE DEF kept
  <2> QED
    BY <1>1, <1>4, NthIsKept
<1>7. \A i, k \in 1 .. taken : i < k => at(i) < at(k)
  <2> HIDE DEF kept
  <2> QED
    BY <1>1, <1>4, NthIsOrdered
<1>8. \A i \in 1 .. taken : Packet(s[at(i)]) \in Packets
  BY <1>1, <1>6, PacketType
<1>9. Parse(s) \in Seq(Packets) /\ DOMAIN Parse(s) = 1 .. taken /\ Len(Parse(s)) = taken
  <2>1. Parse(s) \in [1 .. taken -> Packets]
    BY <1>5, <1>8
  <2>2. taken \in Nat
    BY <1>3
  <2> HIDE DEF taken
  <2> QED
    BY <2>1, <2>2
<1>10. \A j \in kept : taken < Batch => \E i \in 1 .. taken : at(i) = j
  <2>1. \A j \in kept : \E i \in 1 .. Cardinality(kept) : at(i) = j
    <3> HIDE DEF kept
    <3> QED
      BY <1>1, EveryoneIsNth
  <2>2. taken < Batch => taken = Cardinality(kept)
    BY <1>2, BatchAssumption
  <2> QED
    BY <2>1, <2>2
<1>11. \A i \in DOMAIN Parse(s) : Parse(s)[i] = Packet(s[at(i)])
  BY <1>5, <1>9
<1>12. \A j \in kept : j \in DOMAIN s /\ Whole(s[j])
  OBVIOUS
<1>13. \A j \in DOMAIN s : Whole(s[j]) => j \in kept
  OBVIOUS
<1> HIDE DEF kept, taken, at
<1>14. \A i \in DOMAIN Parse(s) :
          \E j \in DOMAIN s : Whole(s[j]) /\ Parse(s)[i] = Packet(s[j])
  BY <1>6, <1>9, <1>11, <1>12
<1>15. \A i, k \in DOMAIN Parse(s) : i < k =>
          \E j, l \in DOMAIN s :
             j < l /\ Parse(s)[i] = Packet(s[j]) /\ Parse(s)[k] = Packet(s[l])
  BY <1>6, <1>7, <1>9, <1>11, <1>12
<1>16. Len(Parse(s)) < Batch =>
          \A j \in DOMAIN s : Whole(s[j]) =>
             \E i \in DOMAIN Parse(s) : Parse(s)[i] = Packet(s[j])
  BY <1>9, <1>10, <1>11, <1>13
<1> QED
  BY <1>9, <1>14, <1>15, <1>16

-----------------------------------------------------------------------------
(***************************************************************************)
(* The types of the variables.                                             *)
(***************************************************************************)

\* The lemmas of this part go through the typing of each action of a NAcd.
LEMMA UnrefKeepsTypes ==
    ASSUME TypeOK, NEW a \in Acds, Unref(a), UNCHANGED <<kernel, buflen, batch>>,
           open' \in [Acds -> SUBSET Descriptors]
    PROVE  TypeOK'
<1> USE DEF TypeOK, Unref, kernel
<1>1. phase' \in [Acds -> Phases] /\ result' \in [Acds -> Results]
  BY DEF Phases, Results
<1>2. fields' \in [Acds -> SUBSET Descriptors] /\ watched' \in [Acds -> SUBSET Descriptors]
  OBVIOUS
<1>3. blen' \in [Acds -> Bufsizes \cup {0}] /\ handled' \in [Acds -> 0 .. MaxFrames]
  BY FramesAssumption
<1>4. filter' \in [Acds -> BOOLEAN] /\ preempted' \in [Acds -> BOOLEAN] /\ down' \in [Acds -> BOOLEAN]
  OBVIOUS
<1>5. <<>> \in Seq(Frames)
  OBVIOUS
<1>6. queue' \in [Acds -> Seq(Frames)]
  BY <1>5
<1>7. step' \in 0 .. Len(Ioctls) + 1 /\ caller' \in Acds \cup {None}
  BY IoctlsAre
<1> QED
  BY <1>1, <1>2, <1>3, <1>4, <1>6, <1>7

LEMMA NewKeepsTypes ==
    ASSUME TypeOK, NEW a \in Acds, New(a)
    PROVE  TypeOK'
<1> USE DEF TypeOK, kernel, traffic
<1>1. CASE AcdNew(a)
  BY <1>1 DEF AcdNew, Phases
<1>2. CASE TimerNew(a)
  BY <1>2 DEF TimerNew, Phases, Descriptors
<1>3. CASE OpenBpf(a)
  BY <1>3, IoctlsAre DEF OpenBpf, Phases, Descriptors
<1>4. CASE Ioctl(a)
  <2>1. step' \in 0 .. Len(Ioctls) + 1
    BY <1>4, IoctlsAre DEF Ioctl
  <2>2. queue' \in [Acds -> Seq(Frames)] /\ filter' \in [Acds -> BOOLEAN]
    BY <1>4 DEF Ioctl
  <2> QED
    BY <1>4, <2>1, <2>2 DEF Ioctl
<1>5. CASE SocketNew(a)
  BY <1>5 DEF SocketNew, GrowTo, Phases, Descriptors
<1>6. CASE PollNew(a)
  BY <1>6 DEF PollNew, Phases, Descriptors
<1>7. CASE SocketNewFails(a)
  <2>1. open' \in [Acds -> SUBSET Descriptors]
    BY <1>7 DEF SocketNewFails
  <2> QED
    BY <1>7, <2>1, UnrefKeepsTypes DEF SocketNewFails
<1>8. CASE NewFails(a)
  <2>1. open' \in [Acds -> SUBSET Descriptors]
    BY <1>8 DEF NewFails, CloseFields
  <2> QED
    BY <1>8, <2>1, UnrefKeepsTypes DEF NewFails
<1> QED
  BY <1>1, <1>2, <1>3, <1>4, <1>5, <1>6, <1>7, <1>8 DEF New

\* The first n frames of a queue, and what is left of it.
LEMMA FirstFrames ==
    ASSUME NEW s \in Seq(Frames), NEW n \in 1 .. Len(s)
    PROVE  /\ SubSeq(s, 1, n) \in Seq(Frames) /\ Len(SubSeq(s, 1, n)) = n
           /\ \A i \in 1 .. n : SubSeq(s, 1, n)[i] = s[i]
           /\ SubSeq(s, n + 1, Len(s)) \in Seq(Frames)
           /\ Len(SubSeq(s, n + 1, Len(s))) = Len(s) - n
           /\ \A i \in 1 .. Len(s) - n : SubSeq(s, n + 1, Len(s))[i] = s[n + i]
<1>1. n \in Nat /\ Len(s) \in Nat /\ n <= Len(s) /\ n + 1 \in 1 .. Len(s) + 1
  OBVIOUS
<1>2. \A i \in 1 .. n : s[i] \in Frames
  OBVIOUS
<1>3. \A i \in n + 1 .. Len(s) : s[i] \in Frames
  BY <1>1
<1> QED
  BY <1>1, <1>2, <1>3

\* What a read of n frames leaves and returns.
LEMMA RecvTypes ==
    ASSUME TypeOK, NEW a \in Acds, NEW n \in 1 .. Len(queue[a])
    PROVE  /\ SubSeq(queue[a], n + 1, Len(queue[a])) \in Seq(Frames)
           /\ Parse(SubSeq(queue[a], 1, n)) \in Seq(Packets)
<1>1. queue[a] \in Seq(Frames)
  BY DEF TypeOK
<1> QED
  BY <1>1, FirstFrames, ParseReturns

LEMMA DispatchKeepsTypes ==
    ASSUME TypeOK, NEW a \in Acds,
           AcdUnref(a) \/ Dispatch(a) \/ SendFails(a) \/ PopEvent(a)
    PROVE  TypeOK'
<1> USE DEF kernel, object, traffic
<1>1. CASE AcdUnref(a)
  <2>1. open' \in [Acds -> SUBSET Descriptors]
    BY <1>1 DEF TypeOK, AcdUnref, CloseFields
  <2> QED
    BY <1>1, <2>1, UnrefKeepsTypes DEF AcdUnref
<1>2. CASE PollNothing(a) \/ PollSocket(a)
  BY <1>2 DEF TypeOK, PollNothing, PollSocket, Return, Phases, Results
<1>3. CASE Recv(a)
  <2>1. PICK n \in 1 .. Len(queue[a]) :
           /\ queue' = [queue EXCEPT ![a] = SubSeq(@, n + 1, Len(@))]
           /\ batch' = Parse(SubSeq(queue[a], 1, n))
    BY <1>3 DEF Recv
  <2>2. queue' \in [Acds -> Seq(Frames)] /\ batch' \in Seq(Packets)
    BY <2>1, RecvTypes DEF TypeOK
  <2>3. preempted' \in [Acds -> BOOLEAN]
    BY <1>3 DEF TypeOK, Recv, IsPreemption
  <2>4. phase' \in [Acds -> Phases]
    BY <1>3 DEF TypeOK, Recv, Phases
  <2> QED
    BY <1>3, <2>2, <2>3, <2>4 DEF TypeOK, Recv
<1>4. CASE RecvNothing(a) \/ RecvFails(a)
  BY <1>4 DEF TypeOK, RecvNothing, RecvFails, Return, Leave, Phases, Results
<1>5. CASE HandlePacket(a) \/ SkipInvalid(a)
  <2>1. batch # <<>> /\ batch' = Tail(batch) /\ batch \in Seq(Packets)
    BY <1>5 DEF TypeOK, HandlePacket, SkipInvalid
  <2>2. batch' \in Seq(Packets) /\ Head(batch) \in Packets
    BY <2>1
  <2>3. Head(batch).id \in 0 .. MaxFrames
    BY <2>2, FramesAssumption DEF Packets
  <2> QED
    BY <1>5, <2>2, <2>3 DEF TypeOK, HandlePacket, SkipInvalid
<1>6. CASE HandlePacketFails(a) \/ DispatchReturn(a)
  <2>0. <<>> \in Seq(Packets)
    OBVIOUS
  <2>1. batch' \in Seq(Packets)
    BY <1>6, <2>0 DEF TypeOK, HandlePacketFails, DispatchReturn
  <2>2. phase' \in [Acds -> Phases]
    BY <1>6 DEF TypeOK, HandlePacketFails, DispatchReturn, Leave, Phases
  <2>3. result' \in [Acds -> Results] /\ caller' \in Acds \cup {None}
    BY <1>6 DEF TypeOK, HandlePacketFails, DispatchReturn, Return, Results
  <2> QED
    BY <1>6, <2>1, <2>2, <2>3 DEF TypeOK, HandlePacketFails, DispatchReturn
<1>7. CASE SendFails(a) \/ PopEvent(a)
  BY <1>7 DEF TypeOK, SendFails, PopEvent
<1> QED
  BY <1>1, <1>2, <1>3, <1>4, <1>5, <1>6, <1>7 DEF Dispatch

LEMMA KernelKeepsTypes ==
    ASSUME TypeOK, Kernel
    PROVE  TypeOK'
<1> USE DEF object, traffic
<1>1. ASSUME NEW a \in Acds, NEW k \in Kinds, Capture(a, k)
      PROVE  TypeOK'
  <2>1. arrived' \in 0 .. MaxFrames /\ arrived' \in 1 .. MaxFrames
    BY <1>1, FramesAssumption DEF TypeOK, Capture
  <2>2. [id |-> arrived', kind |-> k] \in Frames
    BY <2>1 DEF Frames
  <2>3. queue[a] \in Seq(Frames)
    BY DEF TypeOK
  <2>4. Append(queue[a], [id |-> arrived', kind |-> k]) \in Seq(Frames)
    BY <2>2, <2>3
  <2> QED
    BY <1>1, <2>1, <2>4 DEF TypeOK, Capture
<1>2. CASE \E a \in Acds, l \in {"up", "down", "gone"} : LinkChanges(a, l)
  BY <1>2 DEF TypeOK, LinkChanges
<1>3. CASE \E n \in Bufsizes : SetBufsize(n)
  BY <1>3 DEF TypeOK, SetBufsize
<1> QED
  BY <1>1, <1>2, <1>3 DEF Kernel

\* The variables keep their types.
THEOREM TypeCorrect == Spec => []TypeOK
<1>1. Init => TypeOK
  BY FramesAssumption, IoctlsAre DEF Init, TypeOK, Phases, Results
<1>2. TypeOK /\ [Next]_vars => TypeOK'
  <2> SUFFICES ASSUME TypeOK, [Next]_vars PROVE TypeOK'
    OBVIOUS
  <2>1. CASE Next
    BY <2>1, NewKeepsTypes, DispatchKeepsTypes, KernelKeepsTypes DEF Next
  <2>2. CASE UNCHANGED vars
    BY <2>2 DEF TypeOK, vars, kernel, object, traffic
  <2> QED
    BY <2>1, <2>2
<1> QED
  BY <1>1, <1>2, PTL DEF Spec

-----------------------------------------------------------------------------
(***************************************************************************)
(* The frames on their way from the device to the state machine.           *)
(***************************************************************************)

\* The phases in which a call of the NAcd is running.
Calling == {"alloc", "timer", "bpf", "socket", "recv", "handle"}

\* A device that n_acd_new() is done with has its filter, and behind the filter
\* there is nothing but ARP.
Filtered(a) ==
    /\ caller = a <=> phase[a] \in Calling
    /\ phase[a] = "bpf" => step \in 1 .. 3 /\ (step = 3 => filter[a])
    /\ phase[a] \in {"socket"} \cup Alive => filter[a]
    /\ filter[a] => \A i \in DOMAIN queue[a] : queue[a][i].kind # "other"

\* What waits in the kernel came after what was handled, in order.
QueueOrdered(a) ==
    /\ handled[a] <= arrived
    /\ \A i \in DOMAIN queue[a] : handled[a] < queue[a][i].id /\ queue[a][i].id <= arrived
    /\ \A i, j \in DOMAIN queue[a] : i < j => queue[a][i].id < queue[a][j].id

\* What was read came after what was handled and before what waits.
BatchBetween(a) ==
    caller = a /\ batch # <<>> =>
        /\ phase[a] = "handle"
        /\ \A i \in DOMAIN batch : handled[a] < batch[i].id /\ batch[i].id <= arrived
        /\ \A i \in DOMAIN batch, j \in DOMAIN queue[a] : batch[i].id < queue[a][j].id

\* What was read is whole ARP frames, in order, with their lengths.
BatchSound ==
    /\ batch # <<>> => caller \in Acds
    /\ \A i \in DOMAIN batch :
          batch[i].kind \notin {"other", "cut"} /\ batch[i].len = Length(batch[i].kind)
    /\ \A i, j \in DOMAIN batch : i < j => batch[i].id < batch[j].id

FlowInv ==
    /\ BatchSound
    /\ \A a \in Acds : Filtered(a) /\ QueueOrdered(a) /\ BatchBetween(a)

\* The step touches none of the frames of the NAcds other than a.
OnlyFlows(a) ==
    \A b \in Acds \ {a} :
        /\ phase'[b] = phase[b]
        /\ filter'[b] = filter[b]
        /\ queue'[b] = queue[b]
        /\ handled'[b] = handled[b]

\* A step of the call of one NAcd, or between calls, keeps the invariant if it
\* keeps it for that NAcd.
LEMMA OneAcdFlows ==
    ASSUME FlowInv, NEW a \in Acds, OnlyFlows(a),
           caller \in {a, None}, caller' \in {a, None}, arrived' = arrived,
           BatchSound', Filtered(a)', QueueOrdered(a)', BatchBetween(a)'
    PROVE  FlowInv'
<1>1. ASSUME NEW b \in Acds \ {a}
      PROVE  Filtered(b)' /\ QueueOrdered(b)' /\ BatchBetween(b)'
  <2>1. caller # b /\ caller' # b
    BY NoneAssumption
  <2>2. phase[b] \notin Calling
    BY <2>1 DEF FlowInv, Filtered
  <2>3. Filtered(b)'
    BY <2>1, <2>2 DEF FlowInv, OnlyFlows, Filtered, Calling
  <2>4. QueueOrdered(b)'
    BY DEF FlowInv, OnlyFlows, QueueOrdered
  <2> QED
    BY <2>1, <2>3, <2>4 DEF BatchBetween
<1> QED
  BY <1>1 DEF FlowInv

\* Outside n_acd_dispatch_socket() nothing is in the batch.
LEMMA BatchIsEmpty ==
    ASSUME FlowInv, NEW a \in Acds, caller \in {a, None}, phase[a] # "handle"
    PROVE  batch = <<>>
BY NoneAssumption DEF FlowInv, BatchSound, BatchBetween

LEMMA NothingInBatch ==
    ASSUME NEW a \in Acds, batch' = <<>>
    PROVE  BatchSound' /\ BatchBetween(a)'
BY DEF BatchSound, BatchBetween

LEMMA NothingInQueue ==
    ASSUME NEW a \in Acds, queue'[a] = <<>>, handled'[a] <= arrived'
    PROVE  QueueOrdered(a)' /\ \A i \in DOMAIN queue'[a] : queue'[a][i].kind # "other"
BY DEF QueueOrdered

\* A NAcd that is dropped leaves nothing behind.
LEMMA UnrefKeepsFlow ==
    ASSUME TypeOK, FlowInv, NEW a \in Acds, Unref(a), UNCHANGED <<kernel, buflen, batch>>,
           caller \in {a, None}, phase[a] # "handle"
    PROVE  FlowInv'
<1>1. batch' = <<>>
  BY BatchIsEmpty
<1>2. BatchSound' /\ BatchBetween(a)'
  BY <1>1, NothingInBatch
<1>3. queue'[a] = <<>> /\ handled'[a] = 0 /\ phase'[a] = "none" /\ caller' = None /\ ~filter'[a]
  BY DEF TypeOK, Unref
<1>4. arrived' = arrived /\ arrived \in Nat
  BY FramesAssumption DEF TypeOK, kernel
<1>5. QueueOrdered(a)'
  BY <1>3, <1>4, NothingInQueue
<1>6. Filtered(a)'
  BY <1>3, NoneAssumption DEF Filtered, Calling, Alive
<1>7. OnlyFlows(a)
  BY DEF TypeOK, Unref, OnlyFlows
<1> QED
  BY <1>2, <1>3, <1>4, <1>5, <1>6, <1>7, OneAcdFlows

\* The steps of n_acd_new() that do not touch the frames.
LEMMA NewFlowsOn ==
    ASSUME TypeOK, FlowInv, NEW a \in Acds, NEW p \in Phases,
           caller \in {a, None}, phase[a] # "handle", phase' = [phase EXCEPT ![a] = p],
           UNCHANGED <<kernel, traffic, filter>>, caller' \in {a, None}, Filtered(a)'
    PROVE  FlowInv'
<1>1. BatchSound' /\ BatchBetween(a)'
  BY BatchIsEmpty, NothingInBatch DEF traffic
<1>2. QueueOrdered(a)' /\ arrived' = arrived
  BY DEF FlowInv, QueueOrdered, traffic, kernel
<1>3. OnlyFlows(a)
  BY DEF TypeOK, OnlyFlows, traffic
<1> QED
  BY <1>1, <1>2, <1>3, OneAcdFlows

LEMMA NewKeepsFlow ==
    ASSUME TypeOK, FlowInv, NEW a \in Acds, New(a)
    PROVE  FlowInv'
<1>0. Filtered(a)
  BY DEF FlowInv
<1>1. CASE AcdNew(a)
  <2>1. Filtered(a)'
    BY <1>0, <1>1 DEF TypeOK, AcdNew, Filtered, Calling, Alive, traffic
  <2> QED
    BY <1>1, <2>1, NewFlowsOn DEF AcdNew, Phases
<1>2. CASE TimerNew(a)
  <2>1. Filtered(a)'
    BY <1>0, <1>2 DEF TypeOK, TimerNew, Filtered, Calling, Alive, traffic
  <2> QED
    BY <1>2, <2>1, NewFlowsOn DEF TimerNew, Phases
<1>3. CASE OpenBpf(a)
  <2>1. Filtered(a)'
    BY <1>0, <1>3 DEF TypeOK, OpenBpf, Filtered, Calling, Alive, traffic
  <2> QED
    BY <1>3, <2>1, NewFlowsOn DEF OpenBpf, Phases
<1>4. CASE Ioctl(a)
  <2>1. caller = a /\ caller' = a /\ phase[a] = "bpf" /\ phase' = phase /\ arrived' = arrived
    BY <1>4 DEF Ioctl, kernel
  <2>2. queue'[a] = <<>> /\ handled' = handled /\ OnlyFlows(a)
    BY <1>4 DEF TypeOK, Ioctl, OnlyFlows
  <2>3. BatchSound' /\ BatchBetween(a)'
    BY <1>4, <2>1, BatchIsEmpty, NothingInBatch DEF Ioctl
  <2>4. QueueOrdered(a)' /\ \A i \in DOMAIN queue'[a] : queue'[a][i].kind # "other"
    BY <2>1, <2>2, NothingInQueue DEF FlowInv, QueueOrdered
  <2>5. step' \in 1 .. 3 /\ (step' = 3 => filter'[a])
    <3>1. (step = 1 \/ step = 2) /\ step' = step + 1
      BY <1>4, IoctlsAre DEF Ioctl
    <3>2. step = 2 => filter'[a]
      BY <1>4, IoctlsAre DEF TypeOK, Ioctl
    <3> QED
      BY <3>1, <3>2
  <2>6. Filtered(a)'
    BY <2>1, <2>4, <2>5 DEF Filtered, Calling, Alive
  <2> QED
    BY <2>1, <2>2, <2>3, <2>4, <2>6, OneAcdFlows
<1>5. CASE SocketNew(a)
  <2>1. filter[a]
    BY <1>0, <1>5, IoctlsAre DEF SocketNew, Filtered
  <2>2. Filtered(a)'
    BY <1>0, <1>5, <2>1 DEF TypeOK, SocketNew, Filtered, Calling, Alive, traffic
  <2> QED
    BY <1>5, <2>2, NewFlowsOn DEF SocketNew, Phases
<1>6. CASE PollNew(a)
  <2>1. Filtered(a)'
    BY <1>0, <1>6, NoneAssumption DEF TypeOK, PollNew, Filtered, Calling, Alive, traffic
  <2> QED
    BY <1>6, <2>1, NewFlowsOn DEF PollNew, Phases
<1>7. CASE SocketNewFails(a)
  BY <1>7, UnrefKeepsFlow DEF SocketNewFails
<1>8. CASE NewFails(a)
  BY <1>8, UnrefKeepsFlow DEF NewFails
<1> QED
  BY <1>1, <1>2, <1>3, <1>4, <1>5, <1>6, <1>7, <1>8 DEF New

\* What the frames of a queue are worth in a batch: a read takes the first n
\* frames, and what it returns came after what was handled and before the rest.
LEMMA RecvFlows ==
    ASSUME TypeOK, FlowInv, NEW a \in Acds, Recv(a)
    PROVE  /\ BatchSound' /\ BatchBetween(a)' /\ QueueOrdered(a)'
           /\ \A i \in DOMAIN queue'[a] : queue'[a][i].kind # "other"
<1> DEFINE s == queue[a]
<1>1. PICK n \in 1 .. Len(s) :
         /\ queue' = [queue EXCEPT ![a] = SubSeq(@, n + 1, Len(@))]
         /\ batch' = Parse(SubSeq(s, 1, n))
  BY DEF Recv
<1>2. s \in Seq(Frames) /\ Len(s) \in Nat /\ n \in Nat /\ n <= Len(s)
  BY DEF TypeOK
<1> DEFINE t == SubSeq(s, 1, n)
           r == SubSeq(s, n + 1, Len(s))
<1>3. /\ t \in Seq(Frames) /\ Len(t) = n /\ DOMAIN t = 1 .. n
      /\ \A j \in 1 .. n : t[j] = s[j] /\ j \in DOMAIN s
      /\ r \in Seq(Frames) /\ DOMAIN r = 1 .. Len(s) - n
      /\ \A j \in 1 .. Len(s) - n : r[j] = s[n + j] /\ n + j \in DOMAIN s
  <2>1. /\ t \in Seq(Frames) /\ Len(t) = n /\ \A j \in 1 .. n : t[j] = s[j]
        /\ r \in Seq(Frames) /\ Len(r) = Len(s) - n
        /\ \A j \in 1 .. Len(s) - n : r[j] = s[n + j]
    BY <1>2, FirstFrames
  <2>2. (\A j \in 1 .. n : j \in 1 .. Len(s)) /\ \A j \in 1 .. Len(s) - n : n + j \in 1 .. Len(s)
    BY <1>2
  <2>3. DOMAIN t = 1 .. Len(t) /\ DOMAIN r = 1 .. Len(r) /\ DOMAIN s = 1 .. Len(s)
    BY <1>2, <2>1
  <2> HIDE DEF s, t, r
  <2> QED
    BY <2>1, <2>2, <2>3
<1>4. queue'[a] = r /\ batch' = Parse(t) /\ handled' = handled /\ arrived' = arrived
  BY <1>1 DEF TypeOK, Recv, kernel
<1>5. /\ \A j \in DOMAIN s : handled[a] < s[j].id /\ s[j].id <= arrived
      /\ \A i, j \in DOMAIN s : i < j => s[i].id < s[j].id
      /\ \A j \in DOMAIN s : s[j].kind # "other"
      /\ handled[a] <= arrived /\ caller = a /\ caller' = a /\ phase'[a] = "handle"
  BY DEF FlowInv, QueueOrdered, Filtered, Recv, Alive, TypeOK
<1>6. /\ \A i \in DOMAIN batch' : \E j \in 1 .. n : Whole(s[j]) /\ batch'[i] = Packet(s[j])
      /\ \A i, k \in DOMAIN batch' : i < k =>
            \E j, l \in 1 .. n : j < l /\ batch'[i] = Packet(s[j]) /\ batch'[k] = Packet(s[l])
  <2>1. /\ \A i \in DOMAIN Parse(t) :
              \E j \in DOMAIN t : Whole(t[j]) /\ Parse(t)[i] = Packet(t[j])
        /\ \A i, k \in DOMAIN Parse(t) : i < k =>
              \E j, l \in DOMAIN t :
                 j < l /\ Parse(t)[i] = Packet(t[j]) /\ Parse(t)[k] = Packet(t[l])
    BY <1>3, ParseReturns
  <2> HIDE DEF s, t, r
  <2>2. \A j \in DOMAIN t : j \in 1 .. n /\ t[j] = s[j]
    BY <1>3
  <2>3. ASSUME NEW i \in DOMAIN Parse(t)
        PROVE  \E j \in 1 .. n : Whole(s[j]) /\ Parse(t)[i] = Packet(s[j])
    <3>1. PICK j \in DOMAIN t : Whole(t[j]) /\ Parse(t)[i] = Packet(t[j])
      BY <2>1
    <3> QED
      BY <2>2, <3>1, Zenon
  <2>4. ASSUME NEW i \in DOMAIN Parse(t), NEW k \in DOMAIN Parse(t), i < k
        PROVE  \E j, l \in 1 .. n :
                  j < l /\ Parse(t)[i] = Packet(s[j]) /\ Parse(t)[k] = Packet(s[l])
    <3>1. PICK j, l \in DOMAIN t :
             j < l /\ Parse(t)[i] = Packet(t[j]) /\ Parse(t)[k] = Packet(t[l])
      BY <2>1, <2>4
    <3> QED
      BY <2>2, <3>1, Zenon
  <2>5. batch' = Parse(t)
    BY <1>4
  <2>6. \A i \in DOMAIN batch' : \E j \in 1 .. n : Whole(s[j]) /\ batch'[i] = Packet(s[j])
    BY <2>3, <2>5
  <2>7. \A i, k \in DOMAIN batch' : i < k =>
           \E j, l \in 1 .. n : j < l /\ batch'[i] = Packet(s[j]) /\ batch'[k] = Packet(s[l])
    BY <2>4, <2>5
  <2> QED
    BY <2>6, <2>7
<1> HIDE DEF s, t, r
<1>7. \A j \in DOMAIN s : /\ Packet(s[j]).id = s[j].id /\ Packet(s[j]).kind = s[j].kind
                          /\ Packet(s[j]).len = Length(s[j].kind)
  BY DEF Packet
<1>8. BatchSound'
  <2>1. caller' \in Acds
    BY <1>5
  <2>2. \A i \in DOMAIN batch' :
           batch'[i].kind \notin {"other", "cut"} /\ batch'[i].len = Length(batch'[i].kind)
    <3> SUFFICES ASSUME NEW i \in DOMAIN batch'
                 PROVE  /\ batch'[i].kind \notin {"other", "cut"}
                        /\ batch'[i].len = Length(batch'[i].kind)
      OBVIOUS
    <3>1. PICK j \in 1 .. n : Whole(s[j]) /\ batch'[i] = Packet(s[j])
      BY <1>6
    <3>2. j \in DOMAIN s
      BY <1>3
    <3>3. s[j].kind # "other" /\ s[j].kind # "cut"
      BY <1>5, <3>1, <3>2 DEF Whole
    <3> QED
      BY <1>7, <3>1, <3>2, <3>3
  <2>3. \A i, k \in DOMAIN batch' : i < k => batch'[i].id < batch'[k].id
    <3> SUFFICES ASSUME NEW i \in DOMAIN batch', NEW k \in DOMAIN batch', i < k
                 PROVE  batch'[i].id < batch'[k].id
      OBVIOUS
    <3>1. PICK j, l \in 1 .. n : j < l /\ batch'[i] = Packet(s[j]) /\ batch'[k] = Packet(s[l])
      BY <1>6
    <3>2. s[j].id < s[l].id
      BY <1>3, <1>5, <3>1
    <3> QED
      BY <1>3, <1>7, <3>1, <3>2
  <2> QED
    BY <2>1, <2>2, <2>3 DEF BatchSound, Length
<1>9. QueueOrdered(a)'
  <2>1. handled'[a] <= arrived'
    BY <1>4, <1>5
  <2>2. \A i \in DOMAIN r : handled[a] < r[i].id /\ r[i].id <= arrived
    BY <1>3, <1>5
  <2>3. \A i, j \in DOMAIN r : i < j => r[i].id < r[j].id
    <3> SUFFICES ASSUME NEW i \in DOMAIN r, NEW j \in DOMAIN r, i < j
                 PROVE  r[i].id < r[j].id
      OBVIOUS
    <3>1. r[i] = s[n + i] /\ r[j] = s[n + j] /\ n + i \in DOMAIN s /\ n + j \in DOMAIN s
      BY <1>3
    <3>2. n + i < n + j
      BY <1>2, <1>3
    <3> QED
      BY <1>5, <3>1, <3>2
  <2> QED
    BY <1>4, <2>1, <2>2, <2>3 DEF QueueOrdered
<1>10. BatchBetween(a)'
  <2>1. \A i \in DOMAIN batch' : handled[a] < batch'[i].id /\ batch'[i].id <= arrived
    BY <1>3, <1>5, <1>6, <1>7
  <2>2. \A i \in DOMAIN batch', k \in DOMAIN r : batch'[i].id < r[k].id
    <3> SUFFICES ASSUME NEW i \in DOMAIN batch', NEW k \in DOMAIN r
                 PROVE  batch'[i].id < r[k].id
      OBVIOUS
    <3>1. PICK j \in 1 .. n : batch'[i] = Packet(s[j])
      BY <1>6
    <3>2. r[k] = s[n + k] /\ n + k \in DOMAIN s /\ j \in DOMAIN s
      BY <1>3
    <3>3. j < n + k
      BY <1>2, <1>3, <3>1
    <3>4. s[j].id < s[n + k].id
      BY <1>5, <3>2, <3>3
    <3> QED
      BY <1>7, <3>1, <3>2, <3>4
  <2> QED
    BY <1>4, <1>5, <2>1, <2>2 DEF BatchBetween
<1>11. \A i \in DOMAIN queue'[a] : queue'[a][i].kind # "other"
  BY <1>3, <1>4, <1>5
<1> QED
  BY <1>8, <1>9, <1>10, <1>11

\* The first packet of the batch is taken off it.
LEMMA TailFlows ==
    ASSUME TypeOK, FlowInv, NEW a \in Acds, HandlePacket(a) \/ SkipInvalid(a)
    PROVE  BatchSound' /\ BatchBetween(a)' /\ QueueOrdered(a)' /\ OnlyFlows(a)
<1>1. /\ caller = a /\ caller' = a /\ phase[a] = "handle" /\ phase' = phase
      /\ queue' = queue /\ arrived' = arrived /\ filter' = filter
      /\ batch # <<>> /\ batch' = Tail(batch) /\ batch \in Seq(Packets)
      /\ handled[a] \in Nat /\ arrived \in Nat
  BY FramesAssumption DEF TypeOK, HandlePacket, SkipInvalid, object, kernel
<1>2. handled' = handled \/ handled' = [handled EXCEPT ![a] = batch[1].id]
  BY <1>1 DEF HandlePacket, SkipInvalid
<1>3. /\ 1 \in DOMAIN batch
      /\ \A i \in DOMAIN batch' : batch'[i] = batch[i + 1] /\ i + 1 \in DOMAIN batch /\ i \in Nat /\ 0 < i
  BY <1>1
<1>4. /\ \A i \in DOMAIN batch :
            batch[i].kind \notin {"other", "cut"} /\ batch[i].len = Length(batch[i].kind)
      /\ \A i, j \in DOMAIN batch : i < j => batch[i].id < batch[j].id
      /\ \A i \in DOMAIN batch : handled[a] < batch[i].id /\ batch[i].id <= arrived
      /\ \A i \in DOMAIN batch, j \in DOMAIN queue[a] : batch[i].id < queue[a][j].id
  BY <1>1 DEF FlowInv, BatchSound, BatchBetween
<1>5. BatchSound'
  <2>1. \A i, j \in DOMAIN batch' : i < j => batch'[i].id < batch'[j].id
    <3> SUFFICES ASSUME NEW i \in DOMAIN batch', NEW j \in DOMAIN batch', i < j
                 PROVE  batch'[i].id < batch'[j].id
      OBVIOUS
    <3>1. i + 1 < j + 1
      BY <1>3
    <3> QED
      BY <1>3, <1>4, <3>1
  <2> QED
    BY <1>1, <1>3, <1>4, <2>1 DEF BatchSound, Length
<1>6. handled'[a] = handled[a] \/ handled'[a] = batch[1].id
  BY <1>1, <1>2 DEF TypeOK
<1>7. \A i \in DOMAIN batch' : handled'[a] < batch'[i].id
  <2> SUFFICES ASSUME NEW i \in DOMAIN batch' PROVE handled'[a] < batch'[i].id
    OBVIOUS
  <2>1. 1 < i + 1
    BY <1>3
  <2>2. batch[1].id < batch[i + 1].id /\ handled[a] < batch[i + 1].id
    BY <1>3, <1>4, <2>1
  <2> QED
    BY <1>3, <1>6, <2>2
<1>8. BatchBetween(a)'
  BY <1>1, <1>3, <1>4, <1>7 DEF BatchBetween
<1>9. QueueOrdered(a)'
  <2>1. handled'[a] <= arrived /\ \A i \in DOMAIN queue[a] : handled'[a] < queue[a][i].id
    BY <1>3, <1>4, <1>6 DEF FlowInv, QueueOrdered
  <2> QED
    BY <1>1, <2>1 DEF FlowInv, QueueOrdered
<1>10. OnlyFlows(a)
  BY <1>1, <1>2 DEF TypeOK, OnlyFlows
<1> QED
  BY <1>5, <1>8, <1>9, <1>10

\* The steps of n_acd_dispatch() that touch no frame and leave the batch empty.
LEMMA DispatchFlowsOn ==
    ASSUME TypeOK, FlowInv, NEW a \in Acds, NEW p \in Alive, phase[a] \in Alive,
           phase' = [phase EXCEPT ![a] = p], caller \in {a, None}, caller' \in {a, None},
           caller' = a <=> p # "ready", batch' = <<>>,
           UNCHANGED <<filter, queue, handled, arrived>>
    PROVE  FlowInv'
<1>1. BatchSound' /\ BatchBetween(a)'
  BY NothingInBatch
<1>2. QueueOrdered(a)'
  BY DEF FlowInv, QueueOrdered
<1>3. Filtered(a)'
  BY DEF TypeOK, FlowInv, Filtered, Alive, Calling
<1>4. OnlyFlows(a)
  BY DEF TypeOK, OnlyFlows
<1> QED
  BY <1>1, <1>2, <1>3, <1>4, OneAcdFlows

LEMMA CallsKeepFlow ==
    ASSUME TypeOK, FlowInv, NEW a \in Acds,
           AcdUnref(a) \/ Dispatch(a) \/ SendFails(a) \/ PopEvent(a)
    PROVE  FlowInv'
<1> USE DEF kernel, object
<1>0. Filtered(a) /\ QueueOrdered(a) /\ BatchSound /\ BatchBetween(a)
  BY DEF FlowInv
<1>1. CASE AcdUnref(a)
  BY <1>1, UnrefKeepsFlow DEF AcdUnref
<1>2. CASE PollSocket(a)
  <2>1. batch' = <<>>
    BY <1>2, BatchIsEmpty DEF PollSocket
  <2> QED
    BY <1>2, <2>1, DispatchFlowsOn DEF PollSocket, Alive
<1>3. CASE Recv(a)
  <2>1. /\ BatchSound' /\ BatchBetween(a)' /\ QueueOrdered(a)'
        /\ \A i \in DOMAIN queue'[a] : queue'[a][i].kind # "other"
    BY <1>3, RecvFlows
  <2>2. caller = a /\ caller' = a /\ phase[a] = "recv" /\ phase'[a] = "handle" /\ filter' = filter
    BY <1>3 DEF TypeOK, Recv
  <2>3. Filtered(a)'
    BY <1>0, <2>1, <2>2 DEF Filtered, Alive, Calling
  <2>4. OnlyFlows(a)
    BY <1>3 DEF TypeOK, Recv, OnlyFlows
  <2>5. arrived' = arrived
    BY <1>3 DEF Recv
  <2> QED
    BY <2>1, <2>2, <2>3, <2>4, <2>5, OneAcdFlows
<1>4. CASE RecvNothing(a) \/ RecvFails(a)
  <2>1. batch' = <<>> /\ caller = a /\ caller' = None /\ None # a
    BY <1>4, BatchIsEmpty, NoneAssumption DEF RecvNothing, RecvFails, Return
  <2> QED
    BY <1>4, <2>1, DispatchFlowsOn DEF RecvNothing, RecvFails, Return, Leave, Alive
<1>5. CASE HandlePacket(a) \/ SkipInvalid(a)
  <2>1. BatchSound' /\ BatchBetween(a)' /\ QueueOrdered(a)' /\ OnlyFlows(a)
    BY <1>5, TailFlows
  <2>2. caller = a /\ caller' = a /\ UNCHANGED <<phase, step, filter, queue, arrived>>
    BY <1>5 DEF HandlePacket, SkipInvalid
  <2>3. Filtered(a)'
    BY <1>0, <2>2 DEF Filtered
  <2> QED
    BY <2>1, <2>2, <2>3, OneAcdFlows
<1>6. CASE HandlePacketFails(a) \/ DispatchReturn(a)
  <2>1. batch' = <<>> /\ caller = a /\ caller' = None /\ None # a
    BY <1>6, NoneAssumption DEF HandlePacketFails, DispatchReturn, Return
  <2> QED
    BY <1>6, <2>1, DispatchFlowsOn DEF HandlePacketFails, DispatchReturn, Return, Leave, Alive
<1>7. CASE PollNothing(a) \/ SendFails(a) \/ PopEvent(a)
  <2>1. caller' = caller /\ UNCHANGED <<phase, step, filter, queue, arrived, handled, batch>>
    BY <1>7 DEF PollNothing, SendFails, PopEvent, Return
  <2> QED
    BY <2>1 DEF FlowInv, Filtered, QueueOrdered, BatchBetween, BatchSound
<1> QED
  BY <1>1, <1>2, <1>3, <1>4, <1>5, <1>6, <1>7 DEF Dispatch

\* A captured frame comes after all there is.
LEMMA CaptureKeepsFlow ==
    ASSUME TypeOK, FlowInv, NEW a \in Acds, NEW k \in Kinds, Capture(a, k)
    PROVE  FlowInv'
<1> DEFINE q == queue[a]
           f == [id |-> arrived + 1, kind |-> k]
<1>1. /\ queue' = [queue EXCEPT ![a] = Append(q, f)] /\ arrived' = arrived + 1
      /\ UNCHANGED <<phase, step, filter, caller, batch, handled>>
  BY DEF Capture, object
<1>2. arrived \in Nat /\ q \in Seq(Frames) /\ Len(q) \in Nat /\ (filter[a] => k # "other")
  BY FramesAssumption DEF TypeOK, Capture
<1>3. queue'[a] = Append(q, f) /\ \A b \in Acds \ {a} : queue'[b] = queue[b]
  BY <1>1 DEF TypeOK
<1>4. /\ DOMAIN q = 1 .. Len(q) /\ DOMAIN queue'[a] = 1 .. Len(q) + 1
      /\ \A i \in 1 .. Len(q) : queue'[a][i] = q[i]
      /\ queue'[a][Len(q) + 1] = f
  BY <1>2, <1>3, AppendProperties
<1>5. \A i \in DOMAIN queue'[a] : i \in DOMAIN q \/ i = Len(q) + 1
  BY <1>2, <1>4
<1>6. f.id = arrived + 1 /\ f.kind = k
  OBVIOUS
<1> HIDE DEF q, f
<1>7. BatchSound'
  BY <1>1 DEF FlowInv, BatchSound
<1>8. \A b \in Acds : \A i \in DOMAIN queue[b] : queue[b][i].id \in Nat
  <2>1. \A b \in Acds : \A i \in DOMAIN queue[b] : queue[b][i] \in Frames
    BY DEF TypeOK
  <2> QED
    BY <2>1, FramesAssumption DEF Frames
<1>9. \A b \in Acds : handled[b] \in Nat
  BY FramesAssumption DEF TypeOK
<1>10. \A i \in DOMAIN batch : batch[i].id \in Nat
  <2>1. \A i \in DOMAIN batch : batch[i] \in Packets
    BY DEF TypeOK
  <2> QED
    BY <2>1, FramesAssumption DEF Packets
<1>11. ASSUME NEW b \in Acds \ {a}
       PROVE  Filtered(b)' /\ QueueOrdered(b)' /\ BatchBetween(b)'
  BY <1>1, <1>2, <1>3, <1>8, <1>9, <1>10, <1>11 DEF FlowInv, Filtered, QueueOrdered, BatchBetween
<1>12. Filtered(a)'
  <2>1. filter[a] => \A i \in DOMAIN queue'[a] : queue'[a][i].kind # "other"
    BY <1>2, <1>4, <1>5, <1>6 DEF FlowInv, Filtered, q
  <2> QED
    BY <1>1, <2>1 DEF FlowInv, Filtered
<1>13. /\ handled[a] <= arrived
       /\ \A i \in DOMAIN q : handled[a] < q[i].id /\ q[i].id <= arrived /\ q[i].id \in Nat
       /\ \A i, j \in DOMAIN q : i < j => q[i].id < q[j].id
  BY <1>8 DEF FlowInv, QueueOrdered, q
<1>14. QueueOrdered(a)'
  <2>1. \A i \in DOMAIN queue'[a] : handled[a] < queue'[a][i].id /\ queue'[a][i].id <= arrived + 1
    BY <1>2, <1>4, <1>5, <1>6, <1>9, <1>13
  <2>2. \A i, j \in DOMAIN queue'[a] : i < j => queue'[a][i].id < queue'[a][j].id
    <3> SUFFICES ASSUME NEW i \in DOMAIN queue'[a], NEW j \in DOMAIN queue'[a], i < j
                 PROVE  queue'[a][i].id < queue'[a][j].id
      OBVIOUS
    <3>1. i \in DOMAIN q
      BY <1>2, <1>4
    <3>2. CASE j \in DOMAIN q
      BY <1>4, <1>13, <3>1, <3>2
    <3>3. CASE j = Len(q) + 1
      BY <1>2, <1>4, <1>6, <1>13, <3>1, <3>3
    <3> QED
      BY <1>5, <3>2, <3>3
  <2>3. handled[a] <= arrived + 1
    BY <1>2, <1>9, <1>13
  <2> QED
    BY <1>1, <2>1, <2>2, <2>3 DEF QueueOrdered
<1>15. BatchBetween(a)'
  <2> SUFFICES ASSUME caller = a, batch # <<>>
               PROVE  /\ phase[a] = "handle"
                      /\ \A i \in DOMAIN batch : handled[a] < batch[i].id /\ batch[i].id <= arrived + 1
                      /\ \A i \in DOMAIN batch, j \in DOMAIN queue'[a] : batch[i].id < queue'[a][j].id
    BY <1>1 DEF BatchBetween
  <2>1. /\ phase[a] = "handle"
        /\ \A i \in DOMAIN batch : handled[a] < batch[i].id /\ batch[i].id <= arrived
        /\ \A i \in DOMAIN batch, j \in DOMAIN q : batch[i].id < q[j].id
    BY DEF FlowInv, BatchBetween, q
  <2> QED
    BY <1>2, <1>4, <1>5, <1>6, <1>9, <1>10, <2>1
<1> QED
  BY <1>7, <1>11, <1>12, <1>14, <1>15 DEF FlowInv

LEMMA KernelKeepsFlow ==
    ASSUME TypeOK, FlowInv, Kernel
    PROVE  FlowInv'
<1>1. CASE \E a \in Acds, k \in Kinds : Capture(a, k)
  BY <1>1, CaptureKeepsFlow
<1>2. CASE \/ \E a \in Acds, l \in {"up", "down", "gone"} : LinkChanges(a, l)
           \/ \E n \in Bufsizes : SetBufsize(n)
  <2>1. UNCHANGED <<arrived, object, traffic, caller>>
    BY <1>2 DEF LinkChanges, SetBufsize
  <2> QED
    BY <2>1 DEF FlowInv, Filtered, QueueOrdered, BatchBetween, BatchSound, object, traffic
<1> QED
  BY <1>1, <1>2 DEF Kernel

\* From the device to the state machine frames are filtered and in order, for
\* any number of NAcds and of frames and any size of the batch.
THEOREM FlowInvariant == Spec => []FlowInv
<1>1. Init => FlowInv
  <2> SUFFICES ASSUME Init PROVE FlowInv
    OBVIOUS
  <2>1. BatchSound
    BY DEF Init, BatchSound
  <2>2. ASSUME NEW a \in Acds
        PROVE  Filtered(a) /\ QueueOrdered(a) /\ BatchBetween(a)
    <3>1. phase[a] = "none" /\ ~filter[a] /\ caller # a /\ queue[a] = <<>> /\ handled[a] = 0 /\ arrived = 0
      BY NoneAssumption DEF Init
    <3> QED
      BY <3>1 DEF Filtered, QueueOrdered, BatchBetween, Calling, Alive
  <2> QED
    BY <2>1, <2>2 DEF FlowInv
<1>2. TypeOK /\ FlowInv /\ [Next]_vars => FlowInv'
  <2> SUFFICES ASSUME TypeOK, FlowInv, [Next]_vars PROVE FlowInv'
    OBVIOUS
  <2>1. CASE Next
    BY <2>1, NewKeepsFlow, CallsKeepFlow, KernelKeepsFlow DEF Next
  <2>2. CASE UNCHANGED vars
    BY <2>2 DEF FlowInv, Filtered, QueueOrdered, BatchBetween, BatchSound, vars, kernel, object, traffic
  <2> QED
    BY <2>1, <2>2
<1> QED
  BY <1>1, <1>2, TypeCorrect, PTL DEF Spec

\* Nothing but whole ARP frames reaches the state machine, although frames of
\* every kind are captured before the filter is installed.
THEOREM NoOtherFrame == Spec => []OnlyWholeArp
<1>1. FlowInv => OnlyWholeArp
  BY DEF FlowInv, BatchSound, OnlyWholeArp
<1> QED
  BY <1>1, FlowInvariant, PTL

LEMMA JoinedInOrder ==
    ASSUME NEW s \in Seq(Nat), NEW t \in Seq(Nat), InOrderSeq(s), InOrderSeq(t),
           \A i \in DOMAIN s, j \in DOMAIN t : s[i] < t[j]
    PROVE  InOrderSeq(s \o t)
<1>1. /\ Len(s) \in Nat /\ Len(t) \in Nat /\ DOMAIN s = 1 .. Len(s) /\ DOMAIN t = 1 .. Len(t)
      /\ DOMAIN (s \o t) = 1 .. Len(s) + Len(t)
  OBVIOUS
<1>2. ASSUME NEW i \in DOMAIN (s \o t)
      PROVE  \/ i \in DOMAIN s /\ (s \o t)[i] = s[i]
             \/ i - Len(s) \in DOMAIN t /\ (s \o t)[i] = t[i - Len(s)] /\ Len(s) < i
  BY <1>1
<1> SUFFICES ASSUME NEW i \in DOMAIN (s \o t), NEW j \in DOMAIN (s \o t), i < j
             PROVE  (s \o t)[i] < (s \o t)[j]
  BY DEF InOrderSeq
<1>3. i \in Nat /\ j \in Nat
  BY <1>1
<1>4. CASE j \in DOMAIN s /\ (s \o t)[j] = s[j]
  <2>1. i \in DOMAIN s /\ ~(Len(s) < i)
    BY <1>1, <1>3, <1>4
  <2> QED
    BY <1>2, <1>4, <2>1 DEF InOrderSeq
<1>5. CASE j - Len(s) \in DOMAIN t /\ (s \o t)[j] = t[j - Len(s)] /\ Len(s) < j
  <2>1. CASE i \in DOMAIN s /\ (s \o t)[i] = s[i]
    BY <1>5, <2>1
  <2>2. CASE i - Len(s) \in DOMAIN t /\ (s \o t)[i] = t[i - Len(s)] /\ Len(s) < i
    <3>1. i - Len(s) < j - Len(s)
      BY <1>1, <1>3
    <3> QED
      BY <1>5, <2>2, <3>1 DEF InOrderSeq
  <2> QED
    BY <1>2, <2>1, <2>2
<1> QED
  BY <1>2, <1>4, <1>5

LEMMA IdsAre ==
    ASSUME NEW s, s \in Seq(Frames) \/ s \in Seq(Packets)
    PROVE  /\ Ids(s) \in Seq(Nat) /\ DOMAIN Ids(s) = DOMAIN s
           /\ \A i \in DOMAIN s : Ids(s)[i] = s[i].id
<1>1. DOMAIN s = 1 .. Len(s) /\ Len(s) \in Nat
  OBVIOUS
<1>2. \A i \in DOMAIN s : s[i] \in Frames \/ s[i] \in Packets
  OBVIOUS
<1>3. \A i \in DOMAIN s : s[i].id \in Nat
  BY <1>2, FramesAssumption DEF Frames, Packets
<1>4. Ids(s) = [i \in 1 .. Len(s) |-> s[i].id]
  BY <1>1 DEF Ids
<1>5. Ids(s) \in [1 .. Len(s) -> Nat]
  BY <1>1, <1>3, <1>4
<1>6. Ids(s) \in Seq(Nat)
  BY <1>1, <1>5
<1> QED
  BY <1>1, <1>4, <1>6

\* A NAcd handles frames in the order they were captured, none of them twice.
THEOREM DeliveredInOrder == Spec => []InOrder
<1>1. TypeOK /\ FlowInv => InOrder
  <2> SUFFICES ASSUME TypeOK, FlowInv, NEW a \in Acds
               PROVE  InOrderSeq(<<handled[a]>> \o (IF caller = a THEN Ids(batch) ELSE <<>>) \o Ids(queue[a]))
    BY DEF InOrder
  <2> DEFINE h == <<handled[a]>>
             b == IF caller = a THEN Ids(batch) ELSE <<>>
             q == Ids(queue[a])
  <2>1. handled[a] \in Nat /\ queue[a] \in Seq(Frames) /\ batch \in Seq(Packets)
    BY FramesAssumption DEF TypeOK
  <2>2. /\ q \in Seq(Nat) /\ DOMAIN q = DOMAIN queue[a] /\ \A i \in DOMAIN q : q[i] = queue[a][i].id
        /\ Ids(batch) \in Seq(Nat) /\ DOMAIN Ids(batch) = DOMAIN batch
        /\ \A i \in DOMAIN batch : Ids(batch)[i] = batch[i].id
    BY <2>1, IdsAre
  <2>3. b \in Seq(Nat) /\ (DOMAIN b # {} => caller = a /\ batch # <<>> /\ b = Ids(batch))
    BY <2>1, <2>2
  <2>4. h \in Seq(Nat) /\ DOMAIN h = {1} /\ h[1] = handled[a]
    BY <2>1
  <2>5. /\ \A i \in DOMAIN q : handled[a] < q[i]
        /\ \A i, j \in DOMAIN q : i < j => q[i] < q[j]
    BY <2>2 DEF FlowInv, QueueOrdered
  <2>6. /\ \A i \in DOMAIN b : handled[a] < b[i]
        /\ \A i, j \in DOMAIN b : i < j => b[i] < b[j]
        /\ \A i \in DOMAIN b, j \in DOMAIN q : b[i] < q[j]
    <3> HIDE DEF b, q
    <3>1. CASE DOMAIN b = {}
      BY <3>1
    <3>2. CASE DOMAIN b # {}
      <4>1. caller = a /\ batch # <<>> /\ b = Ids(batch)
        BY <2>3, <3>2
      <4>2. /\ \A i \in DOMAIN batch : handled[a] < batch[i].id
            /\ \A i, j \in DOMAIN batch : i < j => batch[i].id < batch[j].id
            /\ \A i \in DOMAIN batch, j \in DOMAIN queue[a] : batch[i].id < queue[a][j].id
        BY <4>1 DEF FlowInv, BatchSound, BatchBetween
      <4>3. DOMAIN b = DOMAIN batch /\ \A i \in DOMAIN batch : b[i] = batch[i].id
        BY <2>2, <4>1
      <4>4. DOMAIN q = DOMAIN queue[a] /\ \A i \in DOMAIN q : q[i] = queue[a][i].id
        BY <2>2
      <4> QED
        BY <4>2, <4>3, <4>4
    <3> QED
      BY <3>1, <3>2
  <2> HIDE DEF h, b, q
  <2>7. InOrderSeq(h) /\ InOrderSeq(b) /\ InOrderSeq(q)
    <3>1. \A i, j \in DOMAIN h : ~(i < j)
      BY <2>4
    <3> QED
      BY <2>5, <2>6, <3>1 DEF InOrderSeq
  <2>8. InOrderSeq(h \o b) /\ h \o b \in Seq(Nat)
    <3>1. \A i \in DOMAIN h, j \in DOMAIN b : h[i] < b[j]
      BY <2>4, <2>6
    <3> QED
      BY <2>3, <2>4, <2>7, <3>1, JoinedInOrder
  <2>9. \A i \in DOMAIN (h \o b), j \in DOMAIN q : (h \o b)[i] < q[j]
    <3>1. \A i \in DOMAIN (h \o b) :
             \/ (h \o b)[i] = h[1]
             \/ \E j \in DOMAIN b : (h \o b)[i] = b[j]
      <4>1. Len(h) = 1 /\ Len(b) \in Nat /\ DOMAIN b = 1 .. Len(b)
        BY <2>3, <2>4 DEF h
      <4>2. DOMAIN (h \o b) = 1 .. 1 + Len(b)
        <5>1. Len(h \o b) = Len(h) + Len(b) /\ DOMAIN (h \o b) = 1 .. Len(h \o b)
          BY <2>3, <2>4, ConcatProperties
        <5> QED
          BY <4>1, <5>1
      <4> SUFFICES ASSUME NEW i \in DOMAIN (h \o b), i # 1
                   PROVE  \E j \in DOMAIN b : (h \o b)[i] = b[j]
        BY <2>3, <2>4, <4>1, <4>2
      <4>3. i - 1 \in DOMAIN b /\ (h \o b)[i] = b[i - 1]
        BY <2>3, <2>4, <4>1, <4>2
      <4> QED
        BY <4>3
    <3> QED
      BY <2>4, <2>5, <2>6, <3>1
  <2>10. InOrderSeq(h \o b \o q)
    BY <2>2, <2>7, <2>8, <2>9, JoinedInOrder
  <2> QED
    BY <2>10 DEF h, b, q
<1> QED
  BY <1>1, TypeCorrect, FlowInvariant, PTL

-----------------------------------------------------------------------------
(***************************************************************************)
(* What may be discarded on the way.                                       *)
(***************************************************************************)

\* The ARPs waiting for a are still there, or were read, or their loss shows.
QueueKept(a) ==
    \/ ArpIds(queue[a]) \subseteq ArpIds(queue'[a]) \cup ArpIds(batch')
    \/ preempted'[a]
    \/ phase'[a] \in {"none", "bpf"}

\* The ARPs a read are still to be handled, or handled, or the call failed.
BatchKept(a) ==
    caller = a => \/ ArpIds(batch) \subseteq ArpIds(batch') \cup {handled'[a]}
                  \/ result'[a] = "ENOMEM"

LEMMA ArpIdsAre ==
    ASSUME NEW s, NEW x
    PROVE  x \in ArpIds(s) <=> \E j \in DOMAIN s : s[j].kind \in {"arp", "padded"} /\ x = s[j].id
BY DEF ArpIds

\* An ARP that a read takes off the queue is in the batch, unless the batch was
\* too small for all there was.
LEMMA RecvKeepsArps ==
    ASSUME TypeOK, FlowInv, NEW a \in Acds, Recv(a)
    PROVE  QueueKept(a) /\ BatchKept(a)
<1> DEFINE s == queue[a]
<1>1. PICK n \in 1 .. Len(s) :
         /\ queue' = [queue EXCEPT ![a] = SubSeq(@, n + 1, Len(@))]
         /\ batch' = Parse(SubSeq(s, 1, n))
  BY DEF Recv
<1> DEFINE t == SubSeq(s, 1, n)
           r == SubSeq(s, n + 1, Len(s))
<1>2. s \in Seq(Frames) /\ Len(s) \in Nat /\ n \in Nat /\ n <= Len(s) /\ DOMAIN s = 1 .. Len(s)
  BY DEF TypeOK
<1>3. queue'[a] = r /\ batch' = Parse(t)
  BY <1>1 DEF TypeOK
<1>4. (Len(batch') >= Batch => preempted'[a]) /\ batch = <<>>
  BY DEF TypeOK, Recv, IsPreemption
<1>5. /\ t \in Seq(Frames) /\ Len(t) = n /\ \A j \in 1 .. n : t[j] = s[j]
      /\ r \in Seq(Frames) /\ Len(r) = Len(s) - n
      /\ \A j \in 1 .. Len(s) - n : r[j] = s[n + j]
  BY <1>2, FirstFrames
<1>6. Parse(t) \in Seq(Packets) /\ (Len(Parse(t)) < Batch =>
         \A j \in DOMAIN t : Whole(t[j]) =>
            \E i \in DOMAIN Parse(t) : Parse(t)[i] = Packet(t[j]))
  BY <1>5, ParseReturns
<1> HIDE DEF s, t, r
<1>7. BatchKept(a)
  <2>1. ArpIds(batch) = {}
    BY <1>4 DEF ArpIds
  <2> QED
    BY <2>1 DEF BatchKept
<1>8. QueueKept(a)
  <2> SUFFICES ASSUME ~preempted'[a], NEW j \in DOMAIN s, s[j].kind \in {"arp", "padded"}
               PROVE  s[j].id \in ArpIds(r) \cup ArpIds(Parse(t))
    BY <1>3, ArpIdsAre DEF QueueKept, s
  <2>1. Len(Parse(t)) < Batch
    <3>1. ~(Len(Parse(t)) >= Batch) /\ Len(Parse(t)) \in Nat /\ Batch \in Nat
      BY <1>3, <1>4, <1>6, BatchAssumption
    <3> QED
      BY <3>1
  <2>2. CASE j \in 1 .. n
    <3>1. j \in DOMAIN t /\ t[j] = s[j] /\ Whole(t[j])
      BY <1>2, <1>5, <2>2 DEF Whole
    <3>2. PICK i \in DOMAIN Parse(t) : Parse(t)[i] = Packet(s[j])
      BY <1>6, <2>1, <3>1
    <3>3. Parse(t)[i].kind \in {"arp", "padded"} /\ Parse(t)[i].id = s[j].id
      BY <3>2 DEF Packet
    <3> QED
      BY <3>3, ArpIdsAre
  <2>3. CASE j \notin 1 .. n
    <3>1. j - n \in 1 .. Len(s) - n /\ n + (j - n) = j
      BY <1>2, <2>3
    <3>2. r[j - n] = s[j] /\ j - n \in DOMAIN r
      <4>1. r[j - n] = s[n + (j - n)]
        BY <1>5, <3>1
      <4>2. DOMAIN r = 1 .. Len(r)
        BY <1>5
      <4> QED
        BY <1>5, <3>1, <4>1, <4>2
    <3> QED
      BY <3>2, ArpIdsAre
  <2> QED
    BY <2>2, <2>3
<1> QED
  BY <1>7, <1>8

\* The packet taken off the batch is handled, or is no ARP.
LEMMA TailKeepsArps ==
    ASSUME TypeOK, FlowInv, NEW a \in Acds, HandlePacket(a) \/ SkipInvalid(a)
    PROVE  BatchKept(a)
<1>1. batch \in Seq(Packets) /\ batch # <<>> /\ batch' = Tail(batch)
  BY DEF TypeOK, HandlePacket, SkipInvalid
<1>2. \A j \in DOMAIN batch : j = 1 \/ (j - 1 \in DOMAIN batch' /\ batch'[j - 1] = batch[j])
  <2>1. /\ Len(batch) \in Nat /\ DOMAIN batch = 1 .. Len(batch) /\ DOMAIN batch' = 1 .. Len(batch) - 1
        /\ \A i \in 1 .. Len(batch) - 1 : batch'[i] = batch[i + 1]
    BY <1>1
  <2>2. ASSUME NEW j \in DOMAIN batch, j # 1
        PROVE  j - 1 \in DOMAIN batch' /\ batch'[j - 1] = batch[j]
    <3>1. j - 1 \in 1 .. Len(batch) - 1 /\ (j - 1) + 1 = j
      BY <2>1, <2>2
    <3>2. batch'[j - 1] = batch[(j - 1) + 1]
      BY <2>1, <3>1
    <3> QED
      BY <2>1, <3>1, <3>2
  <2> QED
    BY <2>2, Zenon
<1>3. handled'[a] = batch[1].id \/ batch[1].kind \notin {"arp", "padded"}
  <2>1. CASE HandlePacket(a)
    BY <1>1, <2>1 DEF TypeOK, HandlePacket
  <2>2. CASE SkipInvalid(a)
    <3>1. 1 \in DOMAIN batch /\ Head(batch) = batch[1]
      BY <1>1
    <3> QED
      BY <2>2, <3>1 DEF SkipInvalid, IsValid, FlowInv, BatchSound, Length
  <2> QED
    BY <2>1, <2>2
<1> SUFFICES ASSUME NEW j \in DOMAIN batch, batch[j].kind \in {"arp", "padded"}
             PROVE  batch[j].id \in ArpIds(batch') \cup {handled'[a]}
  BY ArpIdsAre DEF BatchKept
<1>4. CASE j = 1
  BY <1>3, <1>4
<1>5. CASE j # 1
  <2>1. j - 1 \in DOMAIN batch' /\ batch'[j - 1] = batch[j]
    BY <1>2, <1>5
  <2> QED
    BY <2>1, ArpIdsAre
<1> QED
  BY <1>4, <1>5

LEMMA CaptureKeepsArps ==
    ASSUME TypeOK, NEW a \in Acds, NEW k \in Kinds, Capture(a, k)
    PROVE  QueueKept(a)
<1> DEFINE f == [id |-> arrived', kind |-> k]
           q == queue[a]
<1>1. q \in Seq(Frames) /\ queue'[a] = Append(q, f)
  BY DEF TypeOK, Capture
<1> HIDE DEF f, q
<1>2. \A j \in DOMAIN q : j \in DOMAIN queue'[a] /\ queue'[a][j] = q[j]
  BY <1>1, AppendProperties
<1> SUFFICES ASSUME NEW j \in DOMAIN q, q[j].kind \in {"arp", "padded"}
             PROVE  q[j].id \in ArpIds(queue'[a])
  BY ArpIdsAre DEF QueueKept, q
<1> QED
  BY <1>2, ArpIdsAre

LEMMA Unmoved ==
    /\ \A a \in Acds : queue'[a] = queue[a] => QueueKept(a)
    /\ batch' = batch => \A a \in Acds : BatchKept(a)
    /\ \A a \in Acds : caller # a => BatchKept(a)
BY DEF QueueKept, BatchKept

LEMMA CallsKeepArps ==
    ASSUME TypeOK, FlowInv, NEW a \in Acds,
           New(a) \/ AcdUnref(a) \/ Dispatch(a) \/ SendFails(a) \/ PopEvent(a)
    PROVE  \A b \in Acds : QueueKept(b) /\ BatchKept(b)
<1> USE DEF traffic
<1>1. caller \in {a, None}
  BY DEF New, AcdNew, TimerNew, OpenBpf, Ioctl, SocketNew, SocketNewFails, PollNew, NewFails,
         AcdUnref, Dispatch, PollNothing, PollSocket, Recv, RecvNothing, RecvFails, HandlePacket,
         SkipInvalid, HandlePacketFails, DispatchReturn, SendFails, PopEvent
<1>2. ASSUME NEW b \in Acds \ {a}
      PROVE  queue'[b] = queue[b]
  BY DEF TypeOK, Unref, New, AcdNew, TimerNew, OpenBpf, Ioctl, SocketNew, SocketNewFails, PollNew, NewFails,
         AcdUnref, Dispatch, PollNothing, PollSocket, Recv, RecvNothing, RecvFails, HandlePacket,
         SkipInvalid, HandlePacketFails, DispatchReturn, SendFails, PopEvent
<1>3. ASSUME NEW b \in Acds \ {a}
      PROVE  QueueKept(b) /\ BatchKept(b)
  <2>1. caller # b
    BY <1>1, NoneAssumption
  <2> QED
    BY <1>2, <2>1, Unmoved
<1>4. QueueKept(a)
  <2>1. CASE Unref(a)
    BY <2>1 DEF TypeOK, Unref, QueueKept
  <2>2. CASE Ioctl(a)
    BY <2>2 DEF Ioctl, QueueKept
  <2>3. CASE Recv(a)
    BY <2>3, RecvKeepsArps
  <2>4. CASE queue' = queue
    BY <2>4, Unmoved
  <2> QED
    BY <2>1, <2>2, <2>3, <2>4
    DEF New, AcdNew, TimerNew, OpenBpf, SocketNew, SocketNewFails, PollNew, NewFails,
        AcdUnref, Dispatch, PollNothing, PollSocket, RecvNothing, RecvFails, HandlePacket,
        SkipInvalid, HandlePacketFails, DispatchReturn, SendFails, PopEvent
<1>5. BatchKept(a)
  <2>1. CASE HandlePacket(a) \/ SkipInvalid(a)
    BY <2>1, TailKeepsArps
  <2>2. CASE HandlePacketFails(a)
    BY <2>2 DEF TypeOK, HandlePacketFails, Return, BatchKept
  <2>3. CASE Recv(a)
    BY <2>3, RecvKeepsArps
  <2>4. CASE batch' = batch
    BY <2>4, Unmoved
  <2> QED
    BY <2>1, <2>2, <2>3, <2>4
    DEF New, AcdNew, TimerNew, OpenBpf, Ioctl, SocketNew, SocketNewFails, PollNew, NewFails,
        AcdUnref, Dispatch, PollNothing, PollSocket, RecvNothing, RecvFails,
        DispatchReturn, SendFails, PopEvent
<1> QED
  BY <1>3, <1>4, <1>5

LEMMA KernelKeepsArps ==
    ASSUME TypeOK, Kernel
    PROVE  \A b \in Acds : QueueKept(b) /\ BatchKept(b)
<1>1. CASE \E a \in Acds, k \in Kinds : Capture(a, k)
  <2>1. PICK a \in Acds, k \in Kinds : Capture(a, k)
    BY <1>1
  <2>2. batch' = batch /\ \A b \in Acds \ {a} : queue'[b] = queue[b]
    BY <2>1 DEF TypeOK, Capture
  <2> QED
    BY <2>1, <2>2, CaptureKeepsArps, Unmoved
<1>2. CASE \/ \E a \in Acds, l \in {"up", "down", "gone"} : LinkChanges(a, l)
           \/ \E n \in Bufsizes : SetBufsize(n)
  <2>1. batch' = batch /\ queue' = queue
    BY <1>2 DEF LinkChanges, SetBufsize, traffic
  <2> QED
    BY <2>1, Unmoved
<1> QED
  BY <1>1, <1>2 DEF Kernel

\* A captured ARP reaches the state machine unless the read that dropped it
\* reports preemption, the call fails, or the NAcd goes away.
THEOREM DiscardsAreReported == Spec => DiscardOnlyWhenPreempted
<1> DEFINE Step == \A a \in Acds : QueueKept(a) /\ BatchKept(a)
<1>1. TypeOK /\ FlowInv /\ [Next]_vars => [Step]_vars
  <2> SUFFICES ASSUME TypeOK, FlowInv, Next PROVE Step
    OBVIOUS
  <2>1. CASE Kernel
    BY <2>1, KernelKeepsArps
  <2>2. CASE \E a \in Acds : New(a) \/ AcdUnref(a) \/ Dispatch(a) \/ SendFails(a) \/ PopEvent(a)
    BY <2>2, CallsKeepArps
  <2> QED
    BY <2>1, <2>2 DEF Next
<1>2. [Step]_vars =>
         [\A a \in Acds :
            /\ ArpIds(queue[a]) \subseteq ArpIds(queue'[a]) \cup ArpIds(batch')
                \/ preempted'[a]
                \/ phase'[a] \in {"none", "bpf"}
            /\ caller = a => \/ ArpIds(batch) \subseteq ArpIds(batch') \cup {handled'[a]}
                             \/ result'[a] = "ENOMEM"
         ]_vars
  BY DEF QueueKept, BatchKept
<1>3. Spec => [][Step]_vars
  BY <1>1, TypeCorrect, FlowInvariant, PTL DEF Spec
<1> QED
  BY <1>2, <1>3, PTL DEF DiscardOnlyWhenPreempted

-----------------------------------------------------------------------------
(***************************************************************************)
(* What becomes of a NAcd whose device is smaller than the shared buffer.  *)
(***************************************************************************)

\* A batch in hand was read while the device still had the buffer's size.
ReadsFit == \A a \in Acds : phase[a] = "handle" => blen[a] = buflen

\* Growing never shrinks, so a size that was left behind stays behind.
LEMMA GrowingLeavesBehind ==
    ASSUME NEW m \in Nat, NEW n \in Nat, buflen \in Nat, n < buflen
    PROVE  n < GrowTo(m) /\ n # GrowTo(m)
BY DEF GrowTo

\* The NAcd whose call is running is the only one in the middle of something.
LEMMA OthersAreNotCalling ==
    ASSUME FlowInv, NEW a \in Acds, NEW b \in Acds, caller = b \/ caller = None, a # b
    PROVE  phase[a] \notin Calling
BY NoneAssumption DEF FlowInv, Filtered

LEMMA ReadsFitKept ==
    ASSUME TypeOK, FlowInv, ReadsFit, [Next]_vars
    PROVE  ReadsFit'
<1> USE DEF ReadsFit, kernel, object, traffic
<1>1. ASSUME NEW b \in Acds, New(b)
      PROVE  ReadsFit'
  <2>1. ASSUME NEW a \in Acds, phase'[a] = "handle"
        PROVE  blen'[a] = buflen'
    <3>1. /\ caller \in {b, None}
          /\ phase' = [phase EXCEPT ![b] = phase'[b]] /\ phase'[b] # "handle"
          /\ phase \in [Acds -> Phases]
      BY <1>1 DEF New, AcdNew, TimerNew, OpenBpf, Ioctl, SocketNew, SocketNewFails,
         PollNew, NewFails, Unref, TypeOK
    <3>2. a # b /\ phase[a] = "handle"
      BY <2>1, <3>1
    <3>3. FALSE
      BY <3>1, <3>2, OthersAreNotCalling DEF Calling
    <3> QED
      BY <3>3
  <2> QED
    BY <2>1
<1>2. ASSUME NEW b \in Acds, AcdUnref(b)
      PROVE  ReadsFit'
  BY <1>2 DEF AcdUnref, Unref, TypeOK
<1>3. ASSUME NEW b \in Acds, Dispatch(b) \/ SendFails(b) \/ PopEvent(b)
      PROVE  ReadsFit'
  BY <1>3 DEF Dispatch, PollNothing, PollSocket, Recv, RecvNothing, RecvFails, HandlePacket,
     SkipInvalid, HandlePacketFails, DispatchReturn, SendFails, PopEvent, Leave, Return, TypeOK
<1>4. CASE Kernel
  BY <1>4 DEF Kernel, Capture, LinkChanges, SetBufsize
<1>5. CASE UNCHANGED vars
  BY <1>5 DEF vars
<1> HIDE DEF ReadsFit
<1> QED
  BY <1>1, <1>2, <1>3, <1>4, <1>5 DEF Next

\* ReadsFit: what is handled was read with the device's own size.
THEOREM HandledWasReadWhole == Spec => []ReadsFit
<1>1. Init => ReadsFit
  BY DEF Init, ReadsFit
<1>2. TypeOK /\ FlowInv /\ ReadsFit /\ [Next]_vars => ReadsFit'
  BY ReadsFitKept
<1> QED
  BY <1>1, <1>2, TypeCorrect, FlowInvariant, PTL DEF Spec

Deaf(a) == phase[a] \in Alive /\ blen[a] # buflen

\* What a step leaves of a deaf NAcd: nothing, or the same NAcd, as deaf as before,
\* with the frames that wait for it.
StaysDeaf(a) ==
    \/ phase'[a] = "none"
    \/ /\ phase'[a] \in Alive /\ blen'[a] # buflen'
       /\ handled'[a] = handled[a]
       /\ \A i \in DOMAIN queue[a] : i \in DOMAIN queue'[a] /\ queue'[a][i] = queue[a][i]

LEMMA DeafStaysDeaf ==
    ASSUME TypeOK, LifecycleInv, FlowInv, ReadsFit, Next, NEW a \in Acds, Deaf(a)
    PROVE  StaysDeaf(a)
<1> USE DEF kernel, object, traffic
<1>0. /\ phase[a] \in Alive /\ blen[a] # buflen /\ phase[a] # "handle"
      /\ blen[a] \in Nat /\ buflen \in Nat /\ blen[a] < buflen
      /\ \A b \in Acds : blen[b] \in Nat
  BY SizesAreNat DEF Deaf, ReadsFit, LifecycleInv, SizeByPhase
<1>1. ASSUME NEW b \in Acds, New(b)
      PROVE  StaysDeaf(a)
  <2>1. phase[b] \in {"none", "alloc", "timer", "bpf", "socket"} /\ a # b
    BY <1>0, <1>1 DEF New, AcdNew, TimerNew, OpenBpf, Ioctl, SocketNew, SocketNewFails,
       PollNew, NewFails, Alive
  <2>2. phase'[a] = phase[a] /\ blen'[a] = blen[a]
    BY <1>1, <2>1 DEF New, AcdNew, TimerNew, OpenBpf, Ioctl, SocketNew, SocketNewFails,
       PollNew, NewFails, Unref, TypeOK
  <2>3. handled'[a] = handled[a] /\ queue'[a] = queue[a]
    BY <1>1, <2>1 DEF New, AcdNew, TimerNew, OpenBpf, Ioctl, SocketNew, SocketNewFails,
       PollNew, NewFails, Unref, TypeOK
  <2>4. buflen' = buflen \/ buflen' = GrowTo(blen[b])
    BY <1>1 DEF New, AcdNew, TimerNew, OpenBpf, Ioctl, SocketNew, SocketNewFails,
       PollNew, NewFails
  <2>5. blen'[a] # buflen'
    BY <1>0, <2>2, <2>4, GrowingLeavesBehind
  <2> QED
    BY <1>0, <2>2, <2>3, <2>5 DEF StaysDeaf
<1>2. ASSUME NEW b \in Acds, AcdUnref(b)
      PROVE  StaysDeaf(a)
  BY <1>0, <1>2 DEF AcdUnref, Unref, TypeOK, StaysDeaf
<1>3. ASSUME NEW b \in Acds, Dispatch(b) \/ SendFails(b) \/ PopEvent(b)
      PROVE  StaysDeaf(a)
  <2>1. blen'[a] = blen[a] /\ buflen' = buflen
    BY <1>3 DEF Dispatch, PollNothing, PollSocket, Recv, RecvNothing, RecvFails,
       HandlePacket, SkipInvalid, HandlePacketFails, DispatchReturn, SendFails, PopEvent
  <2>2. phase'[a] \in Alive
    BY <1>0, <1>3 DEF Dispatch, PollNothing, PollSocket, Recv, RecvNothing, RecvFails,
       HandlePacket, SkipInvalid, HandlePacketFails, DispatchReturn, SendFails, PopEvent,
       Leave, Alive, TypeOK
  <2>3. handled'[a] = handled[a]
    BY <1>0, <1>3 DEF Dispatch, PollNothing, PollSocket, Recv, RecvNothing, RecvFails,
       HandlePacket, SkipInvalid, HandlePacketFails, DispatchReturn, SendFails, PopEvent, TypeOK
  <2>4. queue'[a] = queue[a]
    BY <1>0, <1>3 DEF Dispatch, PollNothing, PollSocket, Recv, RecvNothing, RecvFails,
       HandlePacket, SkipInvalid, HandlePacketFails, DispatchReturn, SendFails, PopEvent, TypeOK
  <2> QED
    BY <1>0, <2>1, <2>2, <2>3, <2>4 DEF StaysDeaf
<1>4. ASSUME NEW b \in Acds, NEW k \in Kinds, Capture(b, k)
      PROVE  StaysDeaf(a)
  <2>1. /\ queue' = [queue EXCEPT ![b] = Append(@, [id |-> arrived', kind |-> k])]
        /\ phase' = phase /\ blen' = blen /\ buflen' = buflen /\ handled' = handled
        /\ queue \in [Acds -> Seq(Frames)]
    BY <1>4 DEF Capture, TypeOK
  <2>2. CASE a # b
    <3>1. queue'[a] = queue[a]
      BY <2>1, <2>2
    <3> QED
      BY <1>0, <2>1, <3>1 DEF StaysDeaf
  <2>3. CASE a = b
    <3> DEFINE f == [id |-> arrived', kind |-> k]
    <3>1. queue[a] \in Seq(Frames) /\ queue'[a] = Append(queue[a], f)
      BY <2>1, <2>3
    <3> HIDE DEF f
    <3>2. \A i \in DOMAIN queue[a] : i \in DOMAIN queue'[a] /\ queue'[a][i] = queue[a][i]
      BY <3>1
    <3> QED
      BY <1>0, <2>1, <3>2 DEF StaysDeaf
  <2> QED
    BY <2>2, <2>3
<1>5. CASE (\E b \in Acds, l \in {"up", "down", "gone"} : LinkChanges(b, l))
           \/ (\E n \in Bufsizes : SetBufsize(n))
  BY <1>0, <1>5 DEF LinkChanges, SetBufsize, StaysDeaf
<1> QED
  BY <1>1, <1>2, <1>3, <1>4, <1>5 DEF Next, Kernel

\* A NAcd whose device does not have the size of the shared buffer hears nothing
\* more, and no later step of any NAcd makes up for it: the frames that wait for it
\* are neither read nor dropped until the NAcd is.
DeafForGood == [][\A a \in Acds : Deaf(a) => StaysDeaf(a)]_vars

\* DeafForGood: how far the disagreement that BufferExact shows reaches.
THEOREM MismatchIsForGood == Spec => DeafForGood
<1>1. TypeOK /\ LifecycleInv /\ FlowInv /\ ReadsFit /\ [Next]_vars
        => [\A a \in Acds : Deaf(a) => StaysDeaf(a)]_vars
  BY DeafStaysDeaf
<1> QED
  BY <1>1, TypeCorrect, Lifecycle, FlowInvariant, HandledWasReadWhole, PTL DEF Spec, DeafForGood

-----------------------------------------------------------------------------
(***************************************************************************)
(* The packet socket implements a channel of frames for each NAcd.         *)
(***************************************************************************)

\* What is still to be given to a.
Due(a) == ArpIds(queue[a]) \cup (IF caller = a THEN ArpIds(batch) ELSE {})

LEMMA PendingIsDue ==
    /\ Pending = [a \in Acds |-> Due(a)]
    /\ Pending' = [a \in Acds |-> Due(a)']
BY DEF Pending, Due

LEMMA LossyIs ==
    /\ Lossy \in [Acds -> BOOLEAN] /\ Lossy' \in [Acds -> BOOLEAN]
    /\ \A a \in Acds : preempted'[a] \/ result'[a] = "ENOMEM" \/ phase'[a] = "bpf" => Lossy'[a]
BY DEF Lossy

\* The step gives nothing to, and takes nothing from, the NAcds other than a.
OthersKeepDue(a) == \A b \in Acds \ {a} : Due(b)' = Due(b) /\ handled'[b] = handled[b]

LEMMA OthersStayDue ==
    ASSUME NEW a \in Acds, OnlyFlows(a), caller \in {a, None}, caller' \in {a, None}
    PROVE  OthersKeepDue(a)
<1>1. \A b \in Acds \ {a} : caller # b /\ caller' # b
  BY NoneAssumption
<1> QED
  BY <1>1 DEF OthersKeepDue, Due, OnlyFlows, ArpIds

\* The steps of the channel, from what they do to one NAcd.
LEMMA StaysIf ==
    ASSUME NEW a \in Acds, TypeOK, TypeOK', OthersKeepDue(a), arrived' = arrived,
           Due(a)' = Due(a), handled'[a] = handled[a]
    PROVE  Channel!Next
<1>1. Pending' = Pending
  BY PendingIsDue DEF OthersKeepDue
<1>2. handled' = handled
  BY DEF OthersKeepDue, TypeOK
<1> QED
  BY <1>1, <1>2, LossyIs DEF Channel!Next

LEMMA LosesIf ==
    ASSUME NEW a \in Acds, TypeOK, TypeOK', OthersKeepDue(a), arrived' = arrived,
           Due(a)' \subseteq Due(a), handled'[a] = handled[a], Lossy'[a]
    PROVE  Channel!Next
<1> DEFINE lost == Due(a) \ Due(a)'
<1>1. handled' = handled
  BY DEF OthersKeepDue, TypeOK
<1>2. lost \in SUBSET Pending[a]
  BY PendingIsDue
<1>3. Due(a)' = Pending[a] \ lost
  BY PendingIsDue
<1>4. Pending' = [Pending EXCEPT ![a] = @ \ lost]
  <2> HIDE DEF lost
  <2> QED
    BY <1>3, PendingIsDue DEF OthersKeepDue
<1>5. Channel!Lose(a)
  BY <1>1, <1>2, <1>4 DEF Channel!Lose
<1> QED
  BY <1>5, LossyIs DEF Channel!Next

LEMMA ClosesIf ==
    ASSUME NEW a \in Acds, TypeOK, TypeOK', OthersKeepDue(a), arrived' = arrived,
           Due(a)' = {}, handled'[a] = 0
    PROVE  Channel!Next
<1>1. handled' = [handled EXCEPT ![a] = 0]
  BY DEF OthersKeepDue, TypeOK
<1>2. Pending' = [Pending EXCEPT ![a] = {}]
  BY PendingIsDue DEF OthersKeepDue
<1>3. Channel!Close(a)
  BY <1>1, <1>2 DEF Channel!Close
<1> QED
  BY <1>3, LossyIs DEF Channel!Next

LEMMA HandlesIf ==
    ASSUME NEW a \in Acds, TypeOK, TypeOK', OthersKeepDue(a), arrived' = arrived,
           NEW i \in Due(a), \A j \in Due(a) : i <= j,
           Due(a)' = Due(a) \ {i}, handled'[a] = i
    PROVE  Channel!Next
<1>1. handled' = [handled EXCEPT ![a] = i]
  BY DEF OthersKeepDue, TypeOK
<1>2. Pending' = [Pending EXCEPT ![a] = @ \ {i}] /\ Pending[a] = Due(a)
  BY PendingIsDue DEF OthersKeepDue
<1>3. Channel!Handle(a)
  BY <1>1, <1>2 DEF Channel!Handle
<1> QED
  BY <1>3, LossyIs DEF Channel!Next

\* Nothing is due from a batch outside n_acd_dispatch_socket().
LEMMA DueIsQueued ==
    ASSUME FlowInv, NEW a \in Acds, caller \in {a, None}, phase[a] # "handle"
    PROVE  Due(a) = ArpIds(queue[a])
<1>1. batch = <<>>
  BY BatchIsEmpty
<1>2. ArpIds(batch) = {}
  BY <1>1 DEF ArpIds
<1> QED
  BY <1>2 DEF Due

\* A read only takes what is due from the kernel into the batch, and loses some only
\* when the batch is full.
LEMMA RecvIsAllowed ==
    ASSUME TypeOK, TypeOK', FlowInv, NEW a \in Acds, Recv(a), OthersKeepDue(a)
    PROVE  Channel!Next
<1> DEFINE s == queue[a]
<1>1. PICK n \in 1 .. Len(s) :
         /\ queue' = [queue EXCEPT ![a] = SubSeq(@, n + 1, Len(@))]
         /\ batch' = Parse(SubSeq(s, 1, n))
  BY DEF Recv
<1> DEFINE t == SubSeq(s, 1, n)
           r == SubSeq(s, n + 1, Len(s))
<1>2. s \in Seq(Frames) /\ Len(s) \in Nat /\ n \in Nat /\ n <= Len(s) /\ DOMAIN s = 1 .. Len(s)
  BY DEF TypeOK
<1>3. queue'[a] = r /\ batch' = Parse(t)
  BY <1>1 DEF TypeOK
<1>4. /\ caller = a /\ caller' = a /\ phase[a] = "recv" /\ phase'[a] = "handle"
      /\ handled' = handled /\ arrived' = arrived
  BY DEF TypeOK, Recv, kernel
<1>5. /\ t \in Seq(Frames) /\ Len(t) = n /\ \A j \in 1 .. n : t[j] = s[j]
      /\ r \in Seq(Frames) /\ Len(r) = Len(s) - n
      /\ \A j \in 1 .. Len(s) - n : r[j] = s[n + j]
  BY <1>2, FirstFrames
<1>6. \A i \in DOMAIN Parse(t) : \E j \in DOMAIN t : Parse(t)[i] = Packet(t[j])
  BY <1>5, ParseReturns
<1>7. Due(a) = ArpIds(s)
  BY <1>4, DueIsQueued
<1>8. Due(a)' = ArpIds(r) \cup ArpIds(Parse(t))
  BY <1>3, <1>4 DEF Due, ArpIds
<1>9. QueueKept(a)
  BY RecvKeepsArps
<1>10. ArpIds(queue'[a]) \cup ArpIds(batch') = Due(a)'
  BY <1>4 DEF Due, ArpIds
<1> HIDE DEF s, t, r
<1>11. Due(a)' \subseteq Due(a)
  <2>1. ASSUME NEW x \in ArpIds(r) PROVE x \in ArpIds(s)
    <3>1. PICK j \in DOMAIN r : r[j].kind \in {"arp", "padded"} /\ x = r[j].id
      BY <2>1, ArpIdsAre
    <3>2. j \in 1 .. Len(s) - n /\ n + j \in 1 .. Len(s)
      BY <1>2, <1>5
    <3>3. n + j \in DOMAIN s /\ s[n + j] = r[j]
      BY <1>2, <1>5, <3>2
    <3> QED
      BY <3>1, <3>3, ArpIdsAre
  <2>2. ASSUME NEW x \in ArpIds(Parse(t)) PROVE x \in ArpIds(s)
    <3>1. PICK i \in DOMAIN Parse(t) : Parse(t)[i].kind \in {"arp", "padded"} /\ x = Parse(t)[i].id
      BY <2>2, ArpIdsAre
    <3>2. PICK j \in DOMAIN t : Parse(t)[i] = Packet(t[j])
      BY <1>6, <3>1
    <3>3. j \in 1 .. n /\ j \in 1 .. Len(s)
      BY <1>2, <1>5
    <3>4. t[j] = s[j] /\ j \in DOMAIN s
      BY <1>2, <1>5, <3>3
    <3>5. Parse(t)[i].kind = s[j].kind /\ Parse(t)[i].id = s[j].id
      BY <3>2, <3>4 DEF Packet
    <3> QED
      BY <3>1, <3>4, <3>5, ArpIdsAre
  <2> QED
    BY <1>7, <1>8, <2>1, <2>2
<1>12. CASE preempted'[a]
  BY <1>4, <1>11, <1>12, LosesIf, LossyIs
<1>13. CASE ~preempted'[a]
  <2>1. Due(a) \subseteq Due(a)'
    BY <1>4, <1>7, <1>9, <1>10, <1>13 DEF QueueKept, s
  <2>2. Due(a)' = Due(a)
    BY <1>11, <2>1
  <2> QED
    BY <1>4, <2>2, StaysIf
<1> QED
  BY <1>12, <1>13

\* The ARPs of a batch without its first packet.
LEMMA TailIds ==
    ASSUME TypeOK, batch # <<>>, NEW x
    PROVE  x \in ArpIds(Tail(batch)) <=>
              \E j \in DOMAIN batch : j # 1 /\ batch[j].kind \in {"arp", "padded"} /\ x = batch[j].id
<1> DEFINE t == Tail(batch)
<1>1. /\ Len(batch) \in Nat /\ DOMAIN batch = 1 .. Len(batch) /\ DOMAIN t = 1 .. Len(batch) - 1
      /\ \A i \in 1 .. Len(batch) - 1 : t[i] = batch[i + 1]
  BY DEF TypeOK
<1> HIDE DEF t
<1>2. ASSUME NEW j \in DOMAIN t, t[j].kind \in {"arp", "padded"}, x = t[j].id
      PROVE  \E i \in DOMAIN batch : i # 1 /\ batch[i].kind \in {"arp", "padded"} /\ x = batch[i].id
  <2>1. j + 1 \in DOMAIN batch /\ j + 1 # 1 /\ t[j] = batch[j + 1]
    BY <1>1
  <2> QED
    BY <1>2, <2>1
<1>3. ASSUME NEW j \in DOMAIN batch, j # 1, batch[j].kind \in {"arp", "padded"}, x = batch[j].id
      PROVE  \E i \in DOMAIN t : t[i].kind \in {"arp", "padded"} /\ x = t[i].id
  <2>1. j - 1 \in DOMAIN t /\ (j - 1) + 1 = j
    BY <1>1, <1>3
  <2>2. t[j - 1] = batch[(j - 1) + 1]
    BY <1>1, <2>1
  <2> QED
    BY <1>3, <2>1, <2>2
<1>4. x \in ArpIds(t) <=> \E j \in DOMAIN t : t[j].kind \in {"arp", "padded"} /\ x = t[j].id
  BY ArpIdsAre
<1> QED
  BY <1>2, <1>3, <1>4 DEF t

\* The first packet of a batch is the oldest that is due, if it is an ARP.
LEMMA FirstIsOldest ==
    ASSUME TypeOK, FlowInv, NEW a \in Acds, caller = a, batch # <<>>
    PROVE  /\ 1 \in DOMAIN batch /\ Head(batch) = batch[1] /\ batch[1].id \in Nat
           /\ batch[1].kind \notin {"other", "cut"} /\ batch[1].len = Length(batch[1].kind)
           /\ batch[1].kind \in AllKinds
           /\ \A j \in DOMAIN batch : j # 1 => batch[1].id < batch[j].id
           /\ \A j \in DOMAIN queue[a] : batch[1].id < queue[a][j].id
<1>1. batch \in Seq(Packets)
  BY DEF TypeOK
<1>2. 1 \in DOMAIN batch /\ Head(batch) = batch[1] /\ batch[1] \in Packets
  BY <1>1
<1>3. batch[1].id \in Nat /\ batch[1].kind \in AllKinds
  BY <1>2, KindsAssumption DEF Packets
<1>4. \A j \in DOMAIN batch : j # 1 => 1 < j
  BY <1>1
<1> QED
  BY <1>2, <1>3, <1>4 DEF FlowInv, BatchSound, BatchBetween

LEMMA HandlingIsAllowed ==
    ASSUME TypeOK, TypeOK', FlowInv, NEW a \in Acds, HandlePacket(a) \/ SkipInvalid(a),
           OthersKeepDue(a)
    PROVE  Channel!Next
<1> DEFINE i == batch[1].id
<1>1. /\ caller = a /\ caller' = a /\ batch # <<>> /\ batch' = Tail(batch)
      /\ queue' = queue /\ arrived' = arrived
  BY DEF HandlePacket, SkipInvalid, kernel
<1>2. /\ 1 \in DOMAIN batch /\ Head(batch) = batch[1] /\ i \in Nat
      /\ batch[1].kind \notin {"other", "cut"} /\ batch[1].len = Length(batch[1].kind)
      /\ batch[1].kind \in AllKinds
      /\ \A j \in DOMAIN batch : j # 1 => i < batch[j].id
      /\ \A j \in DOMAIN queue[a] : i < queue[a][j].id
  BY <1>1, FirstIsOldest
<1>3. Due(a) = ArpIds(queue[a]) \cup ArpIds(batch)
  BY <1>1 DEF Due
<1>4. Due(a)' = ArpIds(queue[a]) \cup ArpIds(Tail(batch))
  BY <1>1 DEF Due, ArpIds
<1> HIDE DEF i
<1>5. ASSUME NEW x PROVE x \in Due(a) <=>
           \/ x \in Due(a)'
           \/ batch[1].kind \in {"arp", "padded"} /\ x = i
  <2>1. x \in ArpIds(batch) <=> \E j \in DOMAIN batch : batch[j].kind \in {"arp", "padded"} /\ x = batch[j].id
    BY ArpIdsAre
  <2>2. x \in ArpIds(Tail(batch)) <=>
          \E j \in DOMAIN batch : j # 1 /\ batch[j].kind \in {"arp", "padded"} /\ x = batch[j].id
    BY <1>1, TailIds
  <2> QED
    BY <1>2, <1>3, <1>4, <2>1, <2>2 DEF i
<1>6. \A x \in Due(a)' : i < x
  <2>1. ASSUME NEW x \in ArpIds(queue[a]) PROVE i < x
    BY <1>2, <2>1, ArpIdsAre
  <2>2. ASSUME NEW x \in ArpIds(Tail(batch)) PROVE i < x
    BY <1>1, <1>2, <2>2, TailIds
  <2> QED
    BY <1>4, <2>1, <2>2
<1>7. i \notin Due(a)'
  BY <1>2, <1>6
<1>8. batch[1].len = "exact" <=> batch[1].kind \in {"arp", "padded"}
  BY <1>2 DEF Length, AllKinds
<1>9. CASE HandlePacket(a)
  <2>1. handled'[a] = i /\ batch[1].kind \in {"arp", "padded"}
    BY <1>2, <1>8, <1>9 DEF HandlePacket, IsValid, TypeOK, i
  <2>2. i \in Due(a) /\ Due(a)' = Due(a) \ {i}
    BY <1>5, <1>7, <2>1
  <2>3. \A j \in Due(a) : i <= j
    <3>1. ASSUME NEW j \in Due(a) PROVE i <= j
      <4>1. j = i \/ i < j
        BY <1>5, <1>6, <3>1
      <4>2. CASE j = i
        BY <1>2, <4>2
      <4>3. CASE i < j
        <5>1. j \in Nat
          <6>1. \A x \in ArpIds(batch) : x \in Nat
            <7> SUFFICES ASSUME NEW k \in DOMAIN batch PROVE batch[k].id \in Nat
              BY ArpIdsAre
            <7>1. batch[k] \in Packets
              BY DEF TypeOK
            <7> QED
              BY <7>1 DEF Packets
          <6>2. \A x \in ArpIds(queue[a]) : x \in Nat
            <7> SUFFICES ASSUME NEW k \in DOMAIN queue[a] PROVE queue[a][k].id \in Nat
              BY ArpIdsAre
            <7>1. queue[a][k] \in Frames
              BY DEF TypeOK
            <7> QED
              BY <7>1 DEF Frames
          <6> QED
            BY <1>3, <3>1, <6>1, <6>2
        <5> QED
          BY <1>2, <4>3, <5>1
      <4> QED
        BY <4>1, <4>2, <4>3
    <3> QED
      BY <3>1
  <2> QED
    BY <1>1, <2>1, <2>2, <2>3, HandlesIf
<1>10. CASE SkipInvalid(a)
  <2>1. handled' = handled /\ batch[1].kind \notin {"arp", "padded"}
    BY <1>2, <1>8, <1>10 DEF SkipInvalid, IsValid
  <2>2. Due(a)' = Due(a)
    BY <1>5, <2>1
  <2> QED
    BY <1>1, <2>1, <2>2, StaysIf
<1> QED
  BY <1>9, <1>10

\* A call of one NAcd, and what the owner does between calls.
LEMMA CallsAreAllowed ==
    ASSUME TypeOK, TypeOK', FlowInv, NEW a \in Acds,
           New(a) \/ AcdUnref(a) \/ Dispatch(a) \/ SendFails(a) \/ PopEvent(a)
    PROVE  Channel!Next
<1> USE DEF traffic, kernel
<1>1. caller \in {a, None} /\ caller' \in {a, None} /\ arrived' = arrived
  BY DEF Unref, Return, object, New, AcdNew, TimerNew, OpenBpf, Ioctl, SocketNew, SocketNewFails, PollNew, NewFails,
         AcdUnref, Dispatch, PollNothing, PollSocket, Recv, RecvNothing, RecvFails, HandlePacket,
         SkipInvalid, HandlePacketFails, DispatchReturn, SendFails, PopEvent
<1>2. \A b \in Acds \ {a} : queue'[b] = queue[b] /\ handled'[b] = handled[b]
  <2>1. ASSUME NEW b \in Acds \ {a} PROVE queue'[b] = queue[b]
    <3>1. CASE Unref(a) \/ Ioctl(a) \/ Recv(a)
      BY <3>1 DEF TypeOK, Unref, Ioctl, Recv
    <3>2. CASE New(a)
      BY <3>1, <3>2 DEF New, AcdNew, TimerNew, OpenBpf, SocketNew, SocketNewFails, PollNew, NewFails
    <3>3. CASE AcdUnref(a) \/ SendFails(a) \/ PopEvent(a)
      BY <3>1, <3>3 DEF AcdUnref, SendFails, PopEvent
    <3>4. CASE Dispatch(a)
      BY <3>1, <3>4 DEF Dispatch, PollNothing, PollSocket, RecvNothing, RecvFails, HandlePacket,
                        SkipInvalid, HandlePacketFails, DispatchReturn
    <3> QED
      BY <3>1, <3>2, <3>3, <3>4
  <2>2. ASSUME NEW b \in Acds \ {a} PROVE handled'[b] = handled[b]
    <3>1. CASE Unref(a) \/ HandlePacket(a)
      BY <3>1 DEF TypeOK, Unref, HandlePacket
    <3>2. CASE New(a)
      BY <3>1, <3>2 DEF New, AcdNew, TimerNew, OpenBpf, Ioctl, SocketNew, SocketNewFails, PollNew, NewFails
    <3>3. CASE AcdUnref(a) \/ SendFails(a) \/ PopEvent(a)
      BY <3>1, <3>3 DEF AcdUnref, SendFails, PopEvent
    <3>4. CASE Dispatch(a)
      BY <3>1, <3>4 DEF Dispatch, PollNothing, PollSocket, Recv, RecvNothing, RecvFails,
                        SkipInvalid, HandlePacketFails, DispatchReturn
    <3> QED
      BY <3>1, <3>2, <3>3, <3>4
  <2> QED
    BY <2>1, <2>2
<1>3. OthersKeepDue(a)
  <2>1. \A b \in Acds \ {a} : caller # b /\ caller' # b
    BY <1>1, NoneAssumption
  <2> QED
    BY <1>2, <2>1 DEF OthersKeepDue, Due, ArpIds
<1>4. CASE Unref(a) /\ phase[a] # "handle"
  <2>1. caller' = None /\ queue'[a] = <<>> /\ handled'[a] = 0
    BY <1>4 DEF Unref, TypeOK
  <2>2. caller' # a /\ ArpIds(<<>>) = {}
    BY <2>1, NoneAssumption DEF ArpIds
  <2>3. Due(a)' = {}
    BY <2>1, <2>2 DEF Due, ArpIds
  <2> QED
    BY <1>1, <1>3, <2>1, <2>3, ClosesIf
<1>5. CASE Ioctl(a)
  <2>1. phase'[a] = "bpf" /\ queue'[a] = <<>> /\ handled' = handled /\ batch' = batch /\ caller' = a
        /\ phase[a] = "bpf"
    BY <1>5 DEF Ioctl, TypeOK
  <2>2. batch = <<>>
    BY <1>1, <2>1, BatchIsEmpty
  <2>3. Due(a)' = {}
    BY <2>1, <2>2 DEF Due, ArpIds
  <2>4. Lossy'[a]
    BY <2>1, LossyIs
  <2> QED
    BY <1>1, <1>3, <2>1, <2>3, <2>4, LosesIf
<1>6. CASE Recv(a)
  BY <1>3, <1>6, RecvIsAllowed
<1>7. CASE HandlePacket(a) \/ SkipInvalid(a)
  BY <1>3, <1>7, HandlingIsAllowed
<1>8. CASE HandlePacketFails(a)
  <2>1. /\ result'[a] = "ENOMEM" /\ batch' = <<>> /\ queue' = queue /\ handled' = handled
    BY <1>8 DEF HandlePacketFails, Return, TypeOK
  <2>2. Due(a)' = ArpIds(queue[a])
    BY <2>1 DEF Due, ArpIds
  <2>3. Due(a)' \subseteq Due(a)
    BY <2>2 DEF Due
  <2>4. Lossy'[a]
    BY <2>1, LossyIs
  <2> QED
    BY <1>1, <1>3, <2>1, <2>3, <2>4, LosesIf
<1>9. CASE queue' = queue /\ batch' = batch /\ handled' = handled /\ batch = <<>>
  <2>1. ArpIds(batch) = {}
    BY <1>9 DEF ArpIds
  <2>2. Due(a)' = Due(a)
    BY <1>9, <2>1 DEF Due, ArpIds
  <2> QED
    BY <1>1, <1>3, <1>9, <2>2, StaysIf
<1>10. phase[a] # "handle" => batch = <<>>
  BY <1>1, BatchIsEmpty
<1>11. CASE New(a)
  <2>1. phase[a] # "handle"
    BY <1>11 DEF New, AcdNew, TimerNew, OpenBpf, Ioctl, SocketNew, SocketNewFails, PollNew, NewFails
  <2>2. \/ Unref(a) \/ Ioctl(a)
        \/ queue' = queue /\ batch' = batch /\ handled' = handled
    BY <1>11 DEF New, AcdNew, TimerNew, OpenBpf, SocketNew, SocketNewFails, PollNew, NewFails
  <2> QED
    BY <1>4, <1>5, <1>9, <1>10, <2>1, <2>2
<1>12. CASE AcdUnref(a)
  BY <1>4, <1>12 DEF AcdUnref
<1>13. CASE \/ PollNothing(a) \/ PollSocket(a) \/ RecvNothing(a) \/ RecvFails(a)
            \/ DispatchReturn(a) \/ SendFails(a) \/ PopEvent(a)
  <2>1. queue' = queue /\ batch' = batch /\ handled' = handled
    BY <1>13 DEF PollNothing, PollSocket, RecvNothing, RecvFails, DispatchReturn, SendFails, PopEvent
  <2>2. batch = <<>>
    <3>1. CASE PollNothing(a) \/ PollSocket(a) \/ RecvNothing(a) \/ RecvFails(a) \/ SendFails(a)
      BY <1>10, <3>1 DEF PollNothing, PollSocket, RecvNothing, RecvFails, SendFails
    <3>2. CASE DispatchReturn(a)
      BY <3>2 DEF DispatchReturn
    <3>3. CASE PopEvent(a)
      BY <3>3, NoneAssumption DEF PopEvent, FlowInv, BatchSound
    <3> QED
      BY <1>13, <3>1, <3>2, <3>3
  <2> QED
    BY <1>9, <2>1, <2>2
<1> QED
  BY <1>6, <1>7, <1>8, <1>11, <1>12, <1>13 DEF Dispatch

\* A frame is captured for one NAcd, and is due if it is an ARP.
LEMMA CaptureIsAllowed ==
    ASSUME TypeOK, TypeOK', NEW a \in Acds, NEW k \in Kinds, Capture(a, k)
    PROVE  Channel!Next
<1> DEFINE f == [id |-> arrived', kind |-> k]
           q == queue[a]
<1>1. /\ q \in Seq(Frames) /\ queue'[a] = Append(q, f) /\ f.id = arrived' /\ f.kind = k
      /\ arrived' = arrived + 1 /\ caller' = caller /\ batch' = batch /\ handled' = handled
  BY DEF TypeOK, Capture
<1>2. \A b \in Acds \ {a} : queue'[b] = queue[b]
  BY DEF TypeOK, Capture
<1>3. \A b \in Acds \ {a} : Due(b)' = Due(b)
  BY <1>1, <1>2 DEF Due, ArpIds
<1> HIDE DEF f, q
<1>4. ASSUME NEW x
      PROVE  x \in ArpIds(queue'[a]) <=> x \in ArpIds(q) \/ (k \in {"arp", "padded"} /\ x = arrived')
  <2>1. /\ Len(q) \in Nat /\ DOMAIN q = 1 .. Len(q) /\ DOMAIN queue'[a] = 1 .. Len(q) + 1
        /\ \A i \in 1 .. Len(q) : queue'[a][i] = q[i]
        /\ queue'[a][Len(q) + 1] = f
    BY <1>1, AppendProperties
  <2>2. \A i \in DOMAIN queue'[a] : i \in 1 .. Len(q) \/ i = Len(q) + 1
    BY <2>1
  <2>3. \A i \in 1 .. Len(q) : i \in DOMAIN queue'[a]
    BY <2>1
  <2>4. Len(q) + 1 \in DOMAIN queue'[a]
    BY <2>1
  <2>5. x \in ArpIds(q) <=> \E i \in 1 .. Len(q) : q[i].kind \in {"arp", "padded"} /\ x = q[i].id
    BY <2>1, ArpIdsAre
  <2>6. x \in ArpIds(queue'[a]) <=>
           \E i \in DOMAIN queue'[a] : queue'[a][i].kind \in {"arp", "padded"} /\ x = queue'[a][i].id
    BY ArpIdsAre
  <2> QED
    BY <1>1, <2>1, <2>2, <2>3, <2>4, <2>5, <2>6
<1>5. Due(a)' = ArpIds(queue'[a]) \cup (IF caller = a THEN ArpIds(batch) ELSE {})
  BY <1>1 DEF Due, ArpIds
<1>6. CASE k \in {"arp", "padded"}
  <2>1. Due(a)' = Due(a) \cup {arrived'}
    BY <1>4, <1>5, <1>6 DEF Due, q
  <2>2. Pending' = [Pending EXCEPT ![a] = @ \cup {arrived'}]
    BY <1>3, <2>1, PendingIsDue
  <2>3. Channel!Arrive(a)
    BY <1>1, <2>2 DEF Channel!Arrive
  <2> QED
    BY <2>3, LossyIs DEF Channel!Next
<1>7. CASE k \notin {"arp", "padded"}
  <2>1. Due(a)' = Due(a)
    BY <1>4, <1>5, <1>7 DEF Due, q
  <2>2. Pending' = Pending
    BY <1>3, <2>1, PendingIsDue
  <2>3. Channel!Pass
    BY <1>1, <2>2 DEF Channel!Pass
  <2> QED
    BY <2>3, LossyIs DEF Channel!Next
<1> QED
  BY <1>6, <1>7

LEMMA KernelIsAllowed ==
    ASSUME TypeOK, TypeOK', Kernel
    PROVE  Channel!Next
<1>1. CASE \E a \in Acds, k \in Kinds : Capture(a, k)
  BY <1>1, CaptureIsAllowed
<1>2. CASE \/ \E a \in Acds, l \in {"up", "down", "gone"} : LinkChanges(a, l)
           \/ \E n \in Bufsizes : SetBufsize(n)
  <2>1. arrived' = arrived /\ handled' = handled /\ caller' = caller /\ batch' = batch /\ queue' = queue
    BY <1>2 DEF LinkChanges, SetBufsize, traffic
  <2>2. Pending' = Pending
    BY <2>1 DEF Pending, ArpIds
  <2> QED
    BY <2>1, <2>2, LossyIs DEF Channel!Next
<1> QED
  BY <1>1, <1>2 DEF Kernel

\* ImplementsChannel: whatever a read returns, however the calls of the NAcds take
\* turns with the one buffer, each is given the ARPs of its own interface, once and
\* in order, and is told when some may be missing.
THEOREM SocketImplementsChannel == Spec => ImplementsChannel
<1>1. Init => Channel!Init
  <2> SUFFICES ASSUME Init PROVE Channel!Init
    OBVIOUS
  <2>1. \A a \in Acds : Due(a) = {}
    BY NoneAssumption DEF Init, Due, ArpIds
  <2>2. Pending = [a \in Acds |-> {}]
    BY <2>1, PendingIsDue
  <2> QED
    BY <2>2, LossyIs DEF Init, Channel!Init
<1>2. TypeOK /\ TypeOK' /\ FlowInv /\ [Next]_vars => [Channel!Next]_(Channel!vars)
  <2> SUFFICES ASSUME TypeOK, TypeOK', FlowInv, [Next]_vars
               PROVE  Channel!Next \/ UNCHANGED Channel!vars
    OBVIOUS
  <2>1. CASE Kernel
    BY <2>1, KernelIsAllowed
  <2>2. CASE \E a \in Acds : New(a) \/ AcdUnref(a) \/ Dispatch(a) \/ SendFails(a) \/ PopEvent(a)
    BY <2>2, CallsAreAllowed
  <2>3. CASE UNCHANGED vars
    BY <2>3 DEF vars, kernel, object, traffic, Channel!vars, Pending, Lossy, ArpIds
  <2> QED
    BY <2>1, <2>2, <2>3 DEF Next
<1> QED
  BY <1>1, <1>2, TypeCorrect, FlowInvariant, PTL DEF Spec, ImplementsChannel, Channel!Spec

-----------------------------------------------------------------------------
(***************************************************************************)
(* When a full batch loses something.                                      *)
(***************************************************************************)

WholeIn(s) == {j \in DOMAIN s : Whole(s[j])}

\* NothingDiscarded but for a device that holds more whole frames than the batch
\* does: the full batch alone, of which the comment on preemption speaks, loses
\* nothing.
LossNeedsMoreThanABatch ==
    [][\A a \in Acds :
        \/ ArpIds(queue[a]) \subseteq ArpIds(queue'[a]) \cup ArpIds(batch')
        \/ phase'[a] \in {"none", "bpf"}
        \/ Batch < Cardinality(WholeIn(queue[a]))
      ]_vars

ReadOrTooMany(a) ==
    \/ ArpIds(queue[a]) \subseteq ArpIds(queue'[a]) \cup ArpIds(batch')
    \/ phase'[a] \in {"none", "bpf"}
    \/ Batch < Cardinality(WholeIn(queue[a]))

LEMMA WholeIsFinite ==
    ASSUME NEW s \in Seq(Frames)
    PROVE  IsFiniteSet(WholeIn(s)) /\ Cardinality(WholeIn(s)) \in Nat
<1>1. Len(s) \in Nat /\ WholeIn(s) \in SUBSET (1 .. Len(s))
  BY DEF WholeIn
<1> QED
  BY <1>1, KeptIsFinite

\* What fits the batch is in it, also when it fills it.
LEMMA ParseOfFew ==
    ASSUME NEW s \in Seq(Frames), Cardinality(WholeIn(s)) <= Batch,
           NEW j \in DOMAIN s, Whole(s[j])
    PROVE  \E i \in DOMAIN Parse(s) : Parse(s)[i] = Packet(s[j])
<1> DEFINE kept == WholeIn(s)
           m == Cardinality(kept)
<1>1. Len(s) \in Nat /\ kept \in SUBSET (1 .. Len(s)) /\ j \in kept
  BY DEF WholeIn
<1>2. m \in Nat /\ (IF m < Batch THEN m ELSE Batch) = m
  BY WholeIsFinite, BatchAssumption
<1>3. Parse(s) = [i \in 1 .. (IF m < Batch THEN m ELSE Batch) |-> Packet(s[Nth(kept, i)])]
  BY DEF Parse, WholeIn
<1>4. \E i \in 1 .. m : Nth(kept, i) = j
  <2> HIDE DEF kept
  <2> QED
    BY <1>1, EveryoneIsNth
<1> HIDE DEF m, kept
<1> QED
  BY <1>2, <1>3, <1>4

LEMMA RecvKeepsFew ==
    ASSUME TypeOK, NEW a \in Acds, Recv(a)
    PROVE  ReadOrTooMany(a)
<1> DEFINE s == queue[a]
<1>1. PICK n \in 1 .. Len(s) :
         /\ queue' = [queue EXCEPT ![a] = SubSeq(@, n + 1, Len(@))]
         /\ batch' = Parse(SubSeq(s, 1, n))
  BY DEF Recv
<1> DEFINE t == SubSeq(s, 1, n)
           r == SubSeq(s, n + 1, Len(s))
<1>2. s \in Seq(Frames) /\ Len(s) \in Nat /\ n \in Nat /\ n <= Len(s) /\ DOMAIN s = 1 .. Len(s)
  BY DEF TypeOK
<1>3. queue'[a] = r /\ batch' = Parse(t)
  BY <1>1 DEF TypeOK
<1>5. /\ t \in Seq(Frames) /\ Len(t) = n /\ \A j \in 1 .. n : t[j] = s[j]
      /\ r \in Seq(Frames) /\ Len(r) = Len(s) - n
      /\ \A j \in 1 .. Len(s) - n : r[j] = s[n + j]
  BY <1>2, FirstFrames
<1> HIDE DEF s, t, r
<1> SUFFICES ASSUME Cardinality(WholeIn(s)) <= Batch,
                    NEW j \in DOMAIN s, s[j].kind \in {"arp", "padded"}
             PROVE  s[j].id \in ArpIds(r) \cup ArpIds(Parse(t))
  <2>1. Cardinality(WholeIn(s)) \in Nat
    BY <1>2, WholeIsFinite
  <2>2. Batch < Cardinality(WholeIn(s)) \/ Cardinality(WholeIn(s)) <= Batch
    BY <2>1, BatchAssumption
  <2> QED
    BY <1>3, <2>2, ArpIdsAre DEF ReadOrTooMany, s
<1>6. CASE j \in 1 .. n
  <2>1. j \in DOMAIN t /\ t[j] = s[j] /\ Whole(t[j])
    BY <1>2, <1>5, <1>6 DEF Whole
  <2>2. WholeIn(t) \subseteq WholeIn(s)
    <3>1. DOMAIN t = 1 .. n /\ 1 .. n \subseteq 1 .. Len(s)
      BY <1>2, <1>5
    <3> QED
      BY <1>2, <1>5, <3>1 DEF WholeIn
  <2>3. Cardinality(WholeIn(t)) <= Cardinality(WholeIn(s))
    BY <1>2, <2>2, WholeIsFinite, FS_Subset
  <2>4. Cardinality(WholeIn(t)) <= Batch
    BY <1>2, <1>5, <2>3, WholeIsFinite, BatchAssumption
  <2>5. PICK i \in DOMAIN Parse(t) : Parse(t)[i] = Packet(s[j])
    BY <1>5, <2>1, <2>4, ParseOfFew
  <2>6. Parse(t)[i].kind \in {"arp", "padded"} /\ Parse(t)[i].id = s[j].id
    BY <2>5 DEF Packet
  <2> QED
    BY <2>6, ArpIdsAre
<1>7. CASE j \notin 1 .. n
  <2>1. j - n \in 1 .. Len(s) - n /\ n + (j - n) = j
    BY <1>2, <1>7
  <2>2. r[j - n] = s[n + (j - n)]
    BY <1>5, <2>1
  <2>3. DOMAIN r = 1 .. Len(r)
    BY <1>5
  <2>4. r[j - n] = s[j] /\ j - n \in DOMAIN r
    BY <1>5, <2>1, <2>2, <2>3
  <2> QED
    BY <2>4, ArpIdsAre
<1> QED
  BY <1>6, <1>7

LEMMA QueueStays ==
    ASSUME NEW a \in Acds, queue'[a] = queue[a]
    PROVE  ReadOrTooMany(a)
BY DEF ReadOrTooMany

\* Only a read of a device takes ARPs off it, or what opens or closes it.
LEMMA CallsReadOrOpen ==
    ASSUME TypeOK, NEW a \in Acds,
           New(a) \/ AcdUnref(a) \/ Dispatch(a) \/ SendFails(a) \/ PopEvent(a),
           NEW b \in Acds
    PROVE  ReadOrTooMany(b)
<1> USE DEF traffic
<1>1. CASE Unref(a)
  <2>1. IF b = a THEN phase'[b] = "none" ELSE queue'[b] = queue[b]
    BY <1>1 DEF TypeOK, Unref
  <2> QED
    BY <2>1, QueueStays DEF ReadOrTooMany
<1>2. CASE Ioctl(a)
  <2>1. IF b = a THEN phase'[b] = "bpf" ELSE queue'[b] = queue[b]
    BY <1>2 DEF TypeOK, Ioctl
  <2> QED
    BY <2>1, QueueStays DEF ReadOrTooMany
<1>3. CASE Recv(a)
  <2>1. b # a => queue'[b] = queue[b]
    BY <1>3 DEF TypeOK, Recv
  <2> QED
    BY <1>3, <2>1, QueueStays, RecvKeepsFew
<1>4. CASE queue' = queue
  BY <1>4, QueueStays
<1>5. New(a) => Unref(a) \/ Ioctl(a) \/ queue' = queue
  BY DEF New, AcdNew, TimerNew, OpenBpf, SocketNew, SocketNewFails, PollNew, NewFails
<1>6. AcdUnref(a) \/ SendFails(a) \/ PopEvent(a) => Unref(a) \/ queue' = queue
  BY DEF AcdUnref, SendFails, PopEvent
<1>7. Dispatch(a) => Recv(a) \/ queue' = queue
  BY DEF Dispatch, PollNothing, PollSocket, RecvNothing, RecvFails, HandlePacket,
         SkipInvalid, HandlePacketFails, DispatchReturn
<1> QED
  BY <1>1, <1>2, <1>3, <1>4, <1>5, <1>6, <1>7

\* LossNeedsMoreThanABatch: what the violated NothingDiscarded asks for is true of
\* every device that is read before it holds more than the batch takes.
THEOREM FullBatchLosesNothing == Spec => LossNeedsMoreThanABatch
<1> DEFINE Step == \A a \in Acds : ReadOrTooMany(a)
<1>1. TypeOK /\ [Next]_vars => [Step]_vars
  <2> SUFFICES ASSUME TypeOK, Next, NEW b \in Acds PROVE ReadOrTooMany(b)
    OBVIOUS
  <2>1. CASE \E a \in Acds : New(a) \/ AcdUnref(a) \/ Dispatch(a) \/ SendFails(a) \/ PopEvent(a)
    BY <2>1, CallsReadOrOpen
  <2>2. CASE \E a \in Acds, k \in Kinds : Capture(a, k)
    <3>1. PICK a \in Acds, k \in Kinds : Capture(a, k)
      BY <2>2
    <3> DEFINE f == [id |-> arrived', kind |-> k]
               q == queue[a]
    <3>2. q \in Seq(Frames) /\ queue'[a] = Append(q, f) /\ \A c \in Acds \ {a} : queue'[c] = queue[c]
      BY <3>1 DEF TypeOK, Capture
    <3> HIDE DEF f, q
    <3>3. \A j \in DOMAIN q : j \in DOMAIN queue'[a] /\ queue'[a][j] = q[j]
      BY <3>2, AppendProperties
    <3>4. ArpIds(q) \subseteq ArpIds(queue'[a])
      BY <3>3, ArpIdsAre
    <3> QED
      BY <3>2, <3>4, QueueStays DEF ReadOrTooMany, q
  <2>3. CASE \/ \E a \in Acds, l \in {"up", "down", "gone"} : LinkChanges(a, l)
             \/ \E n \in Bufsizes : SetBufsize(n)
    <3>1. queue' = queue
      BY <2>3 DEF LinkChanges, SetBufsize, traffic
    <3> QED
      BY <3>1, QueueStays
  <2> QED
    BY <2>1, <2>2, <2>3 DEF Next, Kernel
<1>2. [Step]_vars =>
         [\A a \in Acds :
            \/ ArpIds(queue[a]) \subseteq ArpIds(queue'[a]) \cup ArpIds(batch')
            \/ phase'[a] \in {"none", "bpf"}
            \/ Batch < Cardinality(WholeIn(queue[a]))
         ]_vars
  BY DEF ReadOrTooMany
<1> QED
  BY <1>1, <1>2, TypeCorrect, PTL DEF Spec, LossNeedsMoreThanABatch

=============================================================================
