------------------------------ MODULE AcdTimer ------------------------------
(***************************************************************************)
(* The timer of one NAcd on the BSDs: util/timer.c (a tree of timeouts and *)
(* the deadline it last asked for) on top of n-acd-os-bsd.c (a kqueue that *)
(* holds a single one-shot EVFILT_TIMER), driven by n_acd_dispatch().      *)
(*                                                                         *)
(* timer.c thinks in absolute deadlines.  EVFILT_TIMER takes an interval,  *)
(* so n_acd_os_timer_set() reads the clock, subtracts, and arms the timer  *)
(* with a second system call.  Time passes between any two system calls.   *)
(*                                                                         *)
(* The clock saturates at MaxTime, which stands for every later time; no   *)
(* deadline lies there.                                                    *)
(***************************************************************************)
EXTENDS Naturals

CONSTANTS
    Probes,     \* the probes whose timeouts share the timer
    Horizon,    \* the last deadline a probe can ask for
    MaxTime,    \* bound of the clock
    Unit,       \* what EVFILT_TIMER counts in: 1 with NOTE_NSECONDS, more without
    Early       \* how much before its expiry the kernel may deliver the timer

ASSUME TimeAssumption ==
    /\ Horizon \in Nat
    /\ MaxTime \in Nat
    /\ Horizon < MaxTime
ASSUME UnitAssumption == Unit \in Nat \ {0}
ASSUME EarlyAssumption == Early \in Nat

VARIABLES
    now,        \* CLOCK_MONOTONIC
    timeout,    \* the tree: each probe's deadline, 0 when it has none
    scheduled,  \* timer->scheduled_timeout
    knote,      \* the EVFILT_TIMER of the inner kqueue
    expiry,     \* when the kernel will deliver it
    rel,        \* the interval computed and not yet handed to kevent(), or 0
    limit,      \* the time n_acd_handle_timeout() read once
    pc          \* where n_acd_dispatch() stands

vars == <<now, timeout, scheduled, knote, expiry, rel, limit, pc>>

Deadlines == 1 .. Horizon
Times == 0 .. MaxTime

-----------------------------------------------------------------------------
(***************************************************************************)
(* util/timer.c and the two system calls below it.                         *)
(***************************************************************************)

Pending(tree) == {p \in Probes : tree[p] # 0}

\* The deadline at the front of the tree is t; 0 stands for an empty tree.
Front(tree, t) ==
    IF Pending(tree) = {}
    THEN t = 0
    ELSE /\ \E p \in Pending(tree) : tree[p] = t
         /\ \A p \in Pending(tree) : t <= tree[p]

\* Mutant: the interval in the kernel's unit, rounded down.
RoundDown(n) == IF n < Unit THEN Unit ELSE (n \div Unit) * Unit

\* The interval in the kernel's unit, rounded up and never zero.
RoundUp(n) == ((n + Unit - 1) \div Unit) * Unit

Saturate(t) == IF t < MaxTime THEN t ELSE MaxTime

\* Mutants: a deadline already past is not special, or asks for a zero interval.
IntervalUnguarded(t) == t - now
IntervalZeroWhenPast(t) == IF t > now THEN t - now ELSE 0

\* A deadline already past becomes the shortest interval, because zero would
\* disarm the timer.
Interval(t) == IF t > now THEN t - now ELSE 1

\* Mutant: zero is passed over, so a timer no timeout needs stays armed.
TimerSetIgnoresZero(t) ==
    /\ rel' = IF t # 0 THEN Interval(t) ELSE rel
    /\ UNCHANGED knote

\* Deleting takes one system call; arming reads the clock here and hands the
\* interval over in KeventAdd.
TimerSet(t) ==
    \/ /\ t = 0
       /\ knote' = "off"
       /\ UNCHANGED rel
    \/ /\ t # 0
       /\ rel' = Interval(t)
       /\ UNCHANGED knote

TimerRearm(tree) ==
    \E t \in {0} \cup Deadlines :
        /\ Front(tree, t)
        /\ \/ /\ t # scheduled
              /\ TimerSet(t)
              /\ scheduled' = t
           \/ /\ t = scheduled
              /\ UNCHANGED <<knote, rel, scheduled>>

\* The second half of n_acd_os_timer_set().  EV_ADD on a timer that exists
\* replaces it, pending delivery included.
KeventAdd ==
    /\ rel # 0
    /\ knote' = "armed"
    /\ expiry' = Saturate(now + RoundUp(rel))
    /\ rel' = 0
    /\ UNCHANGED <<now, timeout, scheduled, limit, pc>>

-----------------------------------------------------------------------------
(***************************************************************************)
(* The probes: an API call, a received packet or a timeout handler moves   *)
(* or drops a probe's timeout.  A packet may be handled between the poll   *)
(* and the read of the timer, since one wakeup can report both.            *)
(***************************************************************************)

InProbeCode == rel = 0 /\ pc \in {"idle", "woken", "handle"}

Schedule(p, t) ==
    /\ InProbeCode
    /\ t > now
    /\ timeout' = [timeout EXCEPT ![p] = t]
    /\ TimerRearm(timeout')
    /\ UNCHANGED <<now, expiry, limit, pc>>

Unschedule(p) ==
    /\ InProbeCode
    /\ timeout[p] # 0
    /\ timeout' = [timeout EXCEPT ![p] = 0]
    /\ TimerRearm(timeout')
    /\ UNCHANGED <<now, expiry, limit, pc>>

-----------------------------------------------------------------------------
(***************************************************************************)
(* n_acd_dispatch(), as far as the timer goes.                             *)
(***************************************************************************)

\* The inner kqueue is readable, so the outer one reports the timer event.
PollWait ==
    /\ pc = "idle" /\ rel = 0
    /\ knote = "active"
    /\ pc' = "woken"
    /\ UNCHANGED <<now, timeout, scheduled, knote, expiry, rel, limit>>

\* The event is drained; being one-shot, the kernel forgets the timer.
TimerReadFired ==
    /\ pc = "woken" /\ rel = 0
    /\ knote = "active"
    /\ knote' = "off"
    /\ pc' = "triggered"
    /\ UNCHANGED <<now, timeout, scheduled, expiry, rel, limit>>

\* Mutant: an empty read is reported upwards as a timeout.
TimerReadNothingReported ==
    /\ pc = "woken" /\ rel = 0
    /\ knote # "active"
    /\ pc' = "triggered"
    /\ UNCHANGED <<now, timeout, scheduled, knote, expiry, rel, limit>>

\* A packet handled first deleted or moved the timer: nothing to drain.
TimerReadNothing ==
    /\ pc = "woken" /\ rel = 0
    /\ knote # "active"
    /\ pc' = "idle"
    /\ UNCHANGED <<now, timeout, scheduled, knote, expiry, rel, limit>>

\* EINTR is neither an error nor a firing; the event stays queued.
TimerReadInterrupted ==
    /\ pc = "woken" /\ rel = 0
    /\ knote = "active"
    /\ pc' = "idle"
    /\ UNCHANGED <<now, timeout, scheduled, knote, expiry, rel, limit>>

\* n_acd_handle_timeout() reads the clock once, then pops what is due.
HandleTimeout ==
    /\ pc = "triggered"
    /\ limit' = now
    /\ pc' = "handle"
    /\ UNCHANGED <<now, timeout, scheduled, knote, expiry, rel>>

Pop(p) ==
    /\ pc = "handle" /\ rel = 0
    /\ timeout[p] # 0
    /\ Front(timeout, timeout[p])
    /\ timeout[p] <= limit
    /\ timeout' = [timeout EXCEPT ![p] = 0]
    /\ TimerRearm(timeout')
    /\ UNCHANGED <<now, expiry, limit>>

PopTimeout(p) == Pop(p) /\ UNCHANGED pc

\* The handler of the popped timeout fails: the loop is left there and then, and
\* n_acd_dispatch() returns the error, after which the NAcd is given up.
HandleFails(p) == Pop(p) /\ pc' = "failed"

HandleDone ==
    /\ pc = "handle" /\ rel = 0
    /\ \A p \in Pending(timeout) : timeout[p] > limit
    /\ pc' = "idle"
    /\ UNCHANGED <<now, timeout, scheduled, knote, expiry, rel, limit>>

Dispatch ==
    \/ PollWait
    \/ TimerReadFired
    \/ TimerReadNothing
    \/ TimerReadInterrupted
    \/ HandleTimeout
    \/ \E p \in Probes : PopTimeout(p) \/ HandleFails(p)
    \/ HandleDone

-----------------------------------------------------------------------------
(***************************************************************************)
(* The kernel.                                                             *)
(***************************************************************************)

Tick ==
    /\ now < MaxTime
    /\ now' = now + 1
    /\ UNCHANGED <<timeout, scheduled, knote, expiry, rel, limit, pc>>

Fire ==
    /\ knote = "armed"
    /\ now + Early >= expiry
    /\ knote' = "active"
    /\ UNCHANGED <<now, timeout, scheduled, expiry, rel, limit, pc>>

-----------------------------------------------------------------------------

Init ==
    /\ now = 1
    /\ timeout = [p \in Probes |-> 0]
    /\ scheduled = 0
    /\ knote = "off"
    /\ expiry = 0
    /\ rel = 0
    /\ limit = 0
    /\ pc = "idle"

Next ==
    \/ \E p \in Probes, t \in Deadlines : Schedule(p, t)
    \/ \E p \in Probes : Unschedule(p)
    \/ KeventAdd
    \/ Dispatch
    \/ Tick
    \/ Fire

Spec == Init /\ [][Next]_vars

\* The clock runs, the kernel delivers, and the caller runs n_acd_dispatch()
\* whenever the descriptor polls readable.  A signal does not interrupt every
\* read of the timer forever.
Fairness ==
    /\ WF_vars(Tick)
    /\ WF_vars(Fire)
    /\ WF_vars(KeventAdd)
    /\ WF_vars(PollWait)
    /\ WF_vars(TimerReadNothing)
    /\ SF_vars(TimerReadFired)
    /\ WF_vars(HandleTimeout)
    /\ WF_vars(\E p \in Probes : PopTimeout(p))
    /\ WF_vars(HandleDone)

FairSpec == Spec /\ Fairness

-----------------------------------------------------------------------------
(***************************************************************************)
(* Properties.                                                             *)
(***************************************************************************)

TypeOK ==
    /\ now \in Times
    /\ timeout \in [Probes -> {0} \cup Deadlines]
    /\ scheduled \in {0} \cup Deadlines
    /\ knote \in {"off", "armed", "active"}
    /\ expiry \in Times
    /\ rel \in Nat
    /\ limit \in Times
    /\ pc \in {"idle", "woken", "triggered", "handle", "failed"}

\* Outside the timeout handler a pending timeout always has a kernel timer
\* behind it, set for the earliest of them: nothing else would ever wake
\* n_acd_dispatch() for it, since timer_rearm() does not repeat a deadline it
\* has already asked for.
NoLostWakeup ==
    (pc \in {"idle", "woken"} /\ rel = 0 /\ Pending(timeout) # {})
        => Front(timeout, scheduled) /\ knote \in {"armed", "active"}

\* The kernel timer is never delivered before the deadline timer.c asked for,
\* although it was armed with an interval, in the kernel's own unit.
NeverEarly ==
    (knote = "active" /\ rel = 0) => scheduled # 0 /\ scheduled <= now

\* timer_read() reports a timeout only when some timeout is due, even when a
\* packet handled after the poll has moved or dropped the one that fired.
NoSpuriousTimeout ==
    pc = "triggered" => \E p \in Pending(timeout) : timeout[p] <= now

\* The seam on kqueue keeps the promise util/timer.c was written against: what
\* the probes see of it is a timer with an absolute deadline, although it is
\* armed in two steps with an interval and disarms itself when it fires.
Contract == INSTANCE DeadlineTimer WITH
    Times <- Times,
    Deadlines <- Deadlines,
    now <- now,
    deadline <- IF rel = 0 /\ knote = "off" THEN 0 ELSE scheduled,
    readable <- rel = 0 /\ knote = "active"

ImplementsDeadlineTimer == Contract!FairSpec

\* What makes the three above inductive: timer->scheduled_timeout is always the
\* front of the tree; an interval in flight still reaches the deadline it was
\* computed for; and a deadline without a kernel timer is one that the running
\* timeout handler is about to pop, or was when another timeout's handler failed.
ScheduledIsFront == Front(timeout, scheduled)

IntervalReachesDeadline ==
    IF rel # 0
    THEN scheduled # 0 /\ scheduled <= now + rel
    ELSE knote # "off" => scheduled # 0 /\ scheduled <= expiry

DeadlineIsCovered ==
    /\ pc = "triggered" => rel = 0 /\ scheduled # 0 /\ scheduled <= now
    /\ (rel = 0 /\ scheduled # 0 /\ knote = "off") =>
          \/ pc = "triggered"
          \/ pc = "handle" /\ scheduled <= limit
          \/ pc = "failed"

TimerInv ==
    /\ ScheduledIsFront
    /\ IntervalReachesDeadline
    /\ NeverEarly
    /\ DeadlineIsCovered

\* Every timeout a probe asks for is eventually handled or dropped, unless the
\* dispatch failed first.
EveryTimeoutHandled ==
    \A p \in Probes : timeout[p] # 0 ~> (timeout[p] = 0 \/ pc = "failed")
=============================================================================
