--------------------------- MODULE AcdTimer_proofs ---------------------------
(***************************************************************************)
(* Proofs about AcdTimer, for every set of probes, every horizon and every *)
(* unit of the kernel timer, and whatever Early is: one inductive          *)
(* invariant covers a kernel that delivers before the expiry as well.      *)
(* With Early = 0 it is the invariant of the module; otherwise it says how *)
(* far the seam can be off.                                                *)
(***************************************************************************)
EXTENDS AcdTimer, TLAPS

\* Rounding an interval up to the kernel's unit never shortens it.
LEMMA RoundUpIsLater ==
    ASSUME NEW n \in Nat
    PROVE  RoundUp(n) \in Nat /\ n <= RoundUp(n)
<1> DEFINE m == n + Unit - 1
           q == m \div Unit
<1>1. Unit \in Nat \ {0} /\ m \in Nat
  BY UnitAssumption
<1>2. q \in Nat /\ m % Unit \in 0 .. Unit - 1 /\ m = Unit * q + (m % Unit)
  BY <1>1
<1>3. q * Unit = Unit * q /\ q * Unit \in Nat
  BY <1>1, <1>2
<1> QED
  BY <1>1, <1>2, <1>3 DEF RoundUp

\* The interval handed to EVFILT_TIMER reaches the deadline it stands for.
LEMMA IntervalReaches ==
    ASSUME TypeOK, NEW t \in Deadlines
    PROVE  Interval(t) \in Nat \ {0} /\ t <= now + Interval(t)
  BY TimeAssumption DEF Interval, TypeOK, Times, Deadlines

\* Saturating the clock keeps an expiry on or after any deadline before it.
LEMMA SaturateIsLater ==
    ASSUME NEW x \in Nat, NEW d \in Deadlines, d <= x
    PROVE  Saturate(x) \in Times /\ d <= Saturate(x)
  BY TimeAssumption DEF Saturate, Times, Deadlines

-----------------------------------------------------------------------------

\* Type correctness of the timer: every variable stays in its range.
THEOREM TypeCorrect == Spec => []TypeOK
<1> USE TimeAssumption
<1>1. Init => TypeOK
  BY DEF Init, TypeOK, Times
<1>2. TypeOK /\ [Next]_vars => TypeOK'
  <2> SUFFICES ASSUME TypeOK, [Next]_vars
               PROVE  TypeOK'
    OBVIOUS
  <2>1. ASSUME NEW tree, TimerRearm(tree)
        PROVE  /\ scheduled' \in {0} \cup Deadlines
               /\ knote' \in {"off", "armed", "active"}
               /\ rel' \in Nat
    BY <2>1, IntervalReaches DEF TimerRearm, TimerSet, TypeOK
  <2>2. ASSUME NEW p \in Probes, NEW t \in Deadlines, Schedule(p, t)
        PROVE  TypeOK'
    BY <2>1, <2>2 DEF Schedule, TypeOK
  <2>3. ASSUME NEW p \in Probes, Unschedule(p)
        PROVE  TypeOK'
    BY <2>1, <2>3 DEF Unschedule, TypeOK
  <2>4. CASE KeventAdd
    <3>1. now + RoundUp(rel) \in Nat
      BY RoundUpIsLater DEF TypeOK, Times
    <3>2. Saturate(now + RoundUp(rel)) \in Times
      BY <3>1 DEF Saturate, Times
    <3> QED
      BY <2>4, <3>2 DEF KeventAdd, TypeOK
  <2>5. ASSUME NEW p \in Probes, PopTimeout(p) \/ HandleFails(p)
        PROVE  TypeOK'
    BY <2>1, <2>5 DEF PopTimeout, HandleFails, Pop, TypeOK
  <2>6. CASE PollWait \/ TimerReadFired \/ TimerReadNothing \/ TimerReadInterrupted
    BY <2>6 DEF PollWait, TimerReadFired, TimerReadNothing, TimerReadInterrupted, TypeOK
  <2>7. CASE HandleTimeout \/ HandleDone
    BY <2>7 DEF HandleTimeout, HandleDone, TypeOK
  <2>8. CASE Tick \/ Fire
    BY <2>8 DEF Tick, Fire, TypeOK, Times
  <2>9. CASE UNCHANGED vars
    BY <2>9 DEF vars, TypeOK
  <2> QED
    BY <2>2, <2>3, <2>4, <2>5, <2>6, <2>7, <2>8, <2>9 DEF Next, Dispatch
<1> QED
  BY <1>1, <1>2, PTL DEF Spec

-----------------------------------------------------------------------------

\* timer_rearm() leaves either the kernel timer it found, for a deadline that
\* has not changed, or no timer, or an interval on its way to the kernel.
LEMMA RearmCases ==
    ASSUME TypeOK, NEW tree \in [Probes -> {0} \cup Deadlines], TimerRearm(tree)
    PROVE  /\ Front(tree, scheduled')
           /\ \/ scheduled' = scheduled /\ knote' = knote /\ rel' = rel
              \/ scheduled' = 0 /\ knote' = "off" /\ rel' = rel
              \/ scheduled' # 0 /\ rel' # 0 /\ scheduled' <= now + rel'
  BY IntervalReaches DEF TimerRearm, TimerSet

\* A timer is delivered at most Early before the deadline it stands for.
DeliveredEarlyBy ==
    (knote = "active" /\ rel = 0) => scheduled # 0 /\ scheduled <= now + Early

\* A deadline without a kernel timer is one that the running timeout handler is
\* about to pop, or was when it failed, or, on a kernel that delivers early, one at
\* most Early ahead.
OverlookedIsNear ==
    /\ pc = "triggered" => rel = 0 /\ scheduled # 0 /\ scheduled <= now + Early
    /\ (rel = 0 /\ scheduled # 0 /\ knote = "off") =>
          \/ pc = "triggered"
          \/ pc = "handle" /\ scheduled <= limit
          \/ pc = "failed"
          \/ Early > 0 /\ scheduled <= now + Early

EarlyInv ==
    /\ ScheduledIsFront
    /\ IntervalReachesDeadline
    /\ DeliveredEarlyBy
    /\ OverlookedIsNear

\* A probe moving or dropping a timeout, or one being popped, keeps the inductive invariant.
LEMMA RearmKeepsInv ==
    ASSUME TypeOK, EarlyInv, rel = 0, pc # "triggered",
           timeout' \in [Probes -> {0} \cup Deadlines],
           TimerRearm(timeout'),
           UNCHANGED <<now, expiry, limit>>,
           pc' = pc \/ pc' = "failed"
    PROVE  EarlyInv'
<1>1. /\ Front(timeout', scheduled')
      /\ \/ scheduled' = scheduled /\ knote' = knote /\ rel' = rel
         \/ scheduled' = 0 /\ knote' = "off" /\ rel' = rel
         \/ scheduled' # 0 /\ rel' # 0 /\ scheduled' <= now + rel'
  BY RearmCases
<1>2. ScheduledIsFront'
  BY <1>1 DEF ScheduledIsFront, Front, Pending
<1>3. IntervalReachesDeadline'
  BY <1>1 DEF EarlyInv, IntervalReachesDeadline
<1>4. DeliveredEarlyBy'
  BY <1>1 DEF EarlyInv, DeliveredEarlyBy
<1>5. OverlookedIsNear'
  BY <1>1 DEF EarlyInv, OverlookedIsNear
<1> QED
  BY <1>2, <1>3, <1>4, <1>5 DEF EarlyInv

\* Every step keeps the invariant, however early the kernel delivers.
LEMMA Inductive ==
    ASSUME TypeOK, EarlyInv, [Next]_vars, TypeOK'
    PROVE  EarlyInv'
<1> USE TimeAssumption, EarlyAssumption
<1>1. ASSUME NEW p \in Probes, NEW t \in Deadlines, Schedule(p, t)
      PROVE  EarlyInv'
  BY <1>1, RearmKeepsInv DEF Schedule, InProbeCode, TypeOK
<1>2. ASSUME NEW p \in Probes, Unschedule(p)
      PROVE  EarlyInv'
  BY <1>2, RearmKeepsInv DEF Unschedule, InProbeCode, TypeOK
<1>3. CASE KeventAdd
  <2>1. /\ scheduled \in Deadlines
        /\ now + RoundUp(rel) \in Nat
        /\ scheduled <= now + RoundUp(rel)
    BY <1>3, RoundUpIsLater
       DEF KeventAdd, EarlyInv, IntervalReachesDeadline, TypeOK, Times, Deadlines
  <2>2. scheduled <= expiry'
    BY <1>3, <2>1, SaturateIsLater DEF KeventAdd
  <2>3. pc # "triggered"
    BY <1>3 DEF KeventAdd, EarlyInv, OverlookedIsNear
  <2> QED
    BY <1>3, <2>1, <2>2, <2>3
       DEF KeventAdd, EarlyInv, ScheduledIsFront, Front, Pending,
           IntervalReachesDeadline, DeliveredEarlyBy, OverlookedIsNear, Deadlines
<1>4. ASSUME NEW p \in Probes, PopTimeout(p) \/ HandleFails(p)
      PROVE  EarlyInv'
  <2>1. Pop(p) /\ (pc' = pc \/ pc' = "failed")
    BY <1>4 DEF PopTimeout, HandleFails
  <2> QED
    BY <2>1, RearmKeepsInv DEF Pop, TypeOK
<1>5. CASE PollWait \/ TimerReadNothing \/ TimerReadInterrupted
  BY <1>5
     DEF PollWait, TimerReadNothing, TimerReadInterrupted, EarlyInv, ScheduledIsFront,
         Front, Pending, IntervalReachesDeadline, DeliveredEarlyBy, OverlookedIsNear
<1>6. CASE TimerReadFired
  BY <1>6
     DEF TimerReadFired, EarlyInv, ScheduledIsFront, Front, Pending,
         IntervalReachesDeadline, DeliveredEarlyBy, OverlookedIsNear
<1>7. CASE HandleTimeout
  <2>1. scheduled <= now \/ (Early > 0 /\ scheduled <= now + Early)
    BY <1>7 DEF HandleTimeout, EarlyInv, OverlookedIsNear, TypeOK, Times, Deadlines
  <2> QED
    BY <1>7, <2>1
       DEF HandleTimeout, EarlyInv, ScheduledIsFront, Front, Pending,
           IntervalReachesDeadline, DeliveredEarlyBy, OverlookedIsNear
<1>8. CASE HandleDone
  <2>1. scheduled = 0 \/ scheduled > limit
    BY <1>8 DEF HandleDone, EarlyInv, ScheduledIsFront, Front, Pending
  <2> QED
    BY <1>8, <2>1
       DEF HandleDone, EarlyInv, ScheduledIsFront, Front, Pending, TypeOK, Times, Deadlines,
           IntervalReachesDeadline, DeliveredEarlyBy, OverlookedIsNear
<1>9. CASE Tick
  BY <1>9
     DEF Tick, EarlyInv, ScheduledIsFront, Front, Pending, TypeOK, Times, Deadlines,
         IntervalReachesDeadline, DeliveredEarlyBy, OverlookedIsNear
<1>10. CASE Fire
  BY <1>10
     DEF Fire, EarlyInv, ScheduledIsFront, Front, Pending, TypeOK, Times, Deadlines,
         IntervalReachesDeadline, DeliveredEarlyBy, OverlookedIsNear
<1>11. CASE UNCHANGED vars
  BY <1>11
     DEF vars, EarlyInv, ScheduledIsFront, Front, Pending,
         IntervalReachesDeadline, DeliveredEarlyBy, OverlookedIsNear
<1> QED
  BY <1>1, <1>2, <1>3, <1>4, <1>5, <1>6, <1>7, <1>8, <1>9, <1>10, <1>11
     DEF Next, Dispatch

\* EarlyInv: whatever the kernel's unit and however early it delivers, the
\* bookkeeping of util/timer.c and the kernel timer are never further apart than
\* that.
THEOREM EarlyInvariant == Spec => []EarlyInv
<1>1. Init => EarlyInv
  BY DEF Init, EarlyInv, ScheduledIsFront, Front, Pending,
         IntervalReachesDeadline, DeliveredEarlyBy, OverlookedIsNear
<1>2. TypeOK /\ TypeOK' /\ EarlyInv /\ [Next]_vars => EarlyInv'
  BY Inductive
<1> QED
  BY <1>1, <1>2, TypeCorrect, PTL DEF Spec

\* A pending timeout without a kernel timer behind it, which is what stalls a
\* probe, is at most Early ahead.
LostIsNear ==
    (pc \in {"idle", "woken"} /\ rel = 0 /\ Pending(timeout) # {} /\ knote = "off")
        => Early > 0 /\ \E p \in Pending(timeout) :
              /\ Front(timeout, timeout[p])
              /\ timeout[p] <= now + Early

\* LostIsNear: on a kernel that delivers early, the only timeouts whose wakeup is
\* lost are those that were at most Early ahead when their timer was read.
THEOREM OnlyNearTimeoutsAreLost == Spec => []LostIsNear
<1>1. TypeOK /\ EarlyInv => LostIsNear
  <2> SUFFICES ASSUME TypeOK, EarlyInv, pc \in {"idle", "woken"}, rel = 0,
                      Pending(timeout) # {}, knote = "off"
               PROVE  Early > 0 /\ \E p \in Pending(timeout) :
                         Front(timeout, timeout[p]) /\ timeout[p] <= now + Early
    BY DEF LostIsNear
  <2>1. PICK p \in Pending(timeout) : timeout[p] = scheduled
    BY DEF EarlyInv, ScheduledIsFront, Front
  <2>2. scheduled # 0 /\ Front(timeout, timeout[p])
    BY <2>1 DEF Pending, EarlyInv, ScheduledIsFront
  <2>3. Early > 0 /\ scheduled <= now + Early
    BY <2>2 DEF EarlyInv, OverlookedIsNear
  <2> QED
    BY <2>1, <2>2, <2>3
<1> QED
  BY <1>1, TypeCorrect, EarlyInvariant, PTL

\* timer_read() reports a timeout at most Early before one is due.
EarlyTimeout ==
    pc = "triggered" => \E p \in Pending(timeout) : timeout[p] <= now + Early

\* EarlyTimeout: a timeout that is reported before it is due is so by what the
\* kernel is early, never by the rounding or by the time between two calls.
THEOREM TimeoutEarlyByAtMost == Spec => []EarlyTimeout
<1>1. TypeOK /\ EarlyInv => EarlyTimeout
  BY DEF TypeOK, EarlyInv, ScheduledIsFront, OverlookedIsNear, EarlyTimeout, Front,
         Pending, Deadlines
<1> QED
  BY <1>1, TypeCorrect, EarlyInvariant, PTL

-----------------------------------------------------------------------------
(***************************************************************************)
(* On a kernel that never fires early.                                     *)
(***************************************************************************)

\* On a kernel that never fires early, the bookkeeping of util/timer.c and the
\* kernel timer never come apart.
THEOREM TimerInvariant ==
    ASSUME Early = 0
    PROVE  Spec => []TimerInv
<1>1. TypeOK /\ EarlyInv => TimerInv
  BY TimeAssumption
     DEF TypeOK, EarlyInv, TimerInv, DeliveredEarlyBy, NeverEarly, OverlookedIsNear,
         DeadlineIsCovered, Times, Deadlines
<1> QED
  BY <1>1, TypeCorrect, EarlyInvariant, PTL

\* A pending timeout always has a kernel timer behind it.
THEOREM WakeupNeverLost ==
    ASSUME Early = 0
    PROVE  Spec => []NoLostWakeup
<1>1. TypeOK /\ TimerInv => NoLostWakeup
  BY DEF TypeOK, TimerInv, ScheduledIsFront, DeadlineIsCovered, NoLostWakeup, Front,
         Pending, Deadlines
<1> QED
  BY <1>1, TypeCorrect, TimerInvariant, PTL

\* The kernel timer is never delivered before the deadline it was armed for.
THEOREM DeliveryNeverEarly ==
    ASSUME Early = 0
    PROVE  Spec => []NeverEarly
<1>1. TimerInv => NeverEarly
  BY DEF TimerInv
<1> QED
  BY <1>1, TimerInvariant, PTL

\* timer_read() never reports a timeout when none is due.
THEOREM TimeoutNeverSpurious ==
    ASSUME Early = 0
    PROVE  Spec => []NoSpuriousTimeout
<1>1. TypeOK /\ TimerInv => NoSpuriousTimeout
  BY DEF TypeOK, TimerInv, ScheduledIsFront, DeadlineIsCovered, NoSpuriousTimeout, Front,
         Pending, Deadlines
<1> QED
  BY <1>1, TypeCorrect, TimerInvariant, PTL

-----------------------------------------------------------------------------
(***************************************************************************)
(* The seam keeps the promise: the safety half of DeadlineTimer, by a      *)
(* clock that is Early ahead.                                              *)
(***************************************************************************)

\* The promise, read on the clock of a kernel that is early.
Ahead == INSTANCE DeadlineTimer WITH
    Times <- 0 .. MaxTime + Early,
    Deadlines <- Deadlines,
    now <- now + Early,
    deadline <- IF rel = 0 /\ knote = "off" THEN 0 ELSE scheduled,
    readable <- rel = 0 /\ knote = "active"

\* The deadline and the readiness that a probe's code can see.
SeenDeadline == IF rel = 0 /\ knote = "off" THEN 0 ELSE scheduled
SeenReadable == rel = 0 /\ knote = "active"

\* timer_rearm() asks the timer for another deadline, or leaves it alone.
LEMMA RearmSets ==
    ASSUME TypeOK, rel = 0, NEW tree, TimerRearm(tree), now' = now
    PROVE  Ahead!Next \/ UNCHANGED Ahead!vars
<1>1. PICK t \in {0} \cup Deadlines :
         \/ t # scheduled /\ TimerSet(t) /\ scheduled' = t
         \/ t = scheduled /\ UNCHANGED <<knote, rel, scheduled>>
  BY DEF TimerRearm
<1>2. CASE t = scheduled /\ UNCHANGED <<knote, rel, scheduled>>
  BY <1>2 DEF Ahead!vars
<1>3. CASE t # scheduled /\ TimerSet(t) /\ scheduled' = t
  <2>1. SeenDeadline' = t /\ SeenReadable' = FALSE
    BY <1>3, IntervalReaches DEF TimerSet, SeenDeadline, SeenReadable
  <2> QED
    BY <2>1 DEF Ahead!Next, Ahead!TimerSet, SeenDeadline, SeenReadable
<1> QED
  BY <1>1, <1>2, <1>3

\* Arming, firing and reading are what the promise says of a single timer; the
\* rest of a dispatch is not seen.
LEMMA StepsAreAllowed ==
    ASSUME TypeOK, EarlyInv, [Next]_vars
    PROVE  Ahead!Next \/ UNCHANGED Ahead!vars
<1>1. ASSUME NEW p \in Probes, NEW t \in Deadlines, Schedule(p, t)
      PROVE  Ahead!Next \/ UNCHANGED Ahead!vars
  BY <1>1, RearmSets DEF Schedule, InProbeCode
<1>2. ASSUME NEW p \in Probes, Unschedule(p) \/ PopTimeout(p) \/ HandleFails(p)
      PROVE  Ahead!Next \/ UNCHANGED Ahead!vars
  BY <1>2, RearmSets DEF Unschedule, PopTimeout, HandleFails, Pop, InProbeCode
<1>3. CASE KeventAdd
  BY <1>3 DEF KeventAdd, Ahead!vars
<1>4. CASE TimerReadFired
  BY <1>4 DEF TimerReadFired, Ahead!Next, Ahead!TimerRead
<1>5. CASE PollWait \/ TimerReadNothing \/ TimerReadInterrupted \/ HandleTimeout \/ HandleDone
  BY <1>5 DEF PollWait, TimerReadNothing, TimerReadInterrupted, HandleTimeout, HandleDone, Ahead!vars
<1>6. CASE Tick
  <2>1. (now + Early)' \in 0 .. MaxTime + Early /\ (now + Early)' > now + Early
    BY <1>6, TimeAssumption, EarlyAssumption DEF Tick, TypeOK, Times
  <2> QED
    BY <1>6, <2>1 DEF Tick, Ahead!Next, Ahead!Advance
<1>7. CASE Fire
  <2>1. CASE rel # 0
    BY <1>7, <2>1 DEF Fire, Ahead!vars
  <2>2. CASE rel = 0
    <3>1. scheduled # 0 /\ scheduled <= now + Early
      <4>1. scheduled # 0 /\ scheduled <= expiry
        BY <1>7, <2>2 DEF Fire, EarlyInv, IntervalReachesDeadline
      <4>2. expiry <= now + Early
        BY <1>7, TimeAssumption, EarlyAssumption DEF Fire, TypeOK, Times
      <4> QED
        BY <4>1, <4>2, TimeAssumption, EarlyAssumption DEF TypeOK, Times, Deadlines
    <3> QED
      BY <1>7, <2>2, <3>1 DEF Fire, Ahead!Next, Ahead!Expire
  <2> QED
    BY <2>1, <2>2
<1>8. CASE UNCHANGED vars
  BY <1>8 DEF vars, Ahead!vars
<1> QED
  BY <1>1, <1>2, <1>3, <1>4, <1>5, <1>6, <1>7, <1>8 DEF Next, Dispatch

\* Whatever the unit of the kernel timer and however early it is delivered, and
\* although it is armed with an interval in two steps, what the probes see is an
\* absolute timer whose clock is Early ahead: no delivery of another deadline, none
\* of one that was taken back, and none earlier than that.
THEOREM SeamKeepsPromiseEarly == Spec => Ahead!Spec
<1>1. Init => Ahead!Init
  BY TimeAssumption, EarlyAssumption DEF Init, Ahead!Init
<1>2. TypeOK /\ EarlyInv /\ [Next]_vars => [Ahead!Next]_(Ahead!vars)
  BY StepsAreAllowed
<1> QED
  BY <1>1, <1>2, TypeCorrect, EarlyInvariant, PTL DEF Spec, Ahead!Spec

\* On a kernel that never fires early no behaviour of the seam on kqueue is one
\* that an absolute timer could not show.
THEOREM SeamKeepsPromise ==
    ASSUME Early = 0
    PROVE  Spec => Contract!Spec
<1>1. Init => Contract!Init
  BY TimeAssumption DEF Init, Contract!Init, Times
<1>2. TypeOK /\ TypeOK' /\ EarlyInv /\ [Next]_vars => [Contract!Next]_(Contract!vars)
  <2> SUFFICES ASSUME TypeOK, TypeOK', Ahead!Next \/ UNCHANGED Ahead!vars
               PROVE  Contract!Next \/ UNCHANGED Contract!vars
    BY StepsAreAllowed
  <2>0. now \in Nat /\ now' \in Nat /\ now' \in Times
    BY TimeAssumption DEF TypeOK, Times
  <2>1. now + Early = now /\ now' + Early = now' /\ MaxTime + Early = MaxTime
    <3>1. Early = 0
      OBVIOUS
    <3>2. \A n \in Nat : n + Early = n
      BY <3>1
    <3> QED
      BY <2>0, <3>2, TimeAssumption
  <2>2. CASE UNCHANGED Ahead!vars
    BY <2>0, <2>1, <2>2 DEF Ahead!vars, Contract!vars
  <2>3. CASE Ahead!Next
    BY <2>0, <2>1, <2>3
       DEF Ahead!Next, Ahead!TimerSet, Ahead!TimerRead, Ahead!Expire, Ahead!Advance,
           Contract!Next, Contract!TimerSet, Contract!TimerRead, Contract!Expire,
           Contract!Advance, Times
  <2> QED
    BY <2>2, <2>3
<1> QED
  BY <1>1, <1>2, TypeCorrect, EarlyInvariant, PTL DEF Spec, Contract!Spec
=============================================================================
