---------------------------- MODULE DeadlineTimer ----------------------------
(***************************************************************************)
(* What util/timer.c is promised by the seam (n-acd-os.h): one descriptor  *)
(* armed with an absolute deadline, readable once the deadline has passed, *)
(* disarmed by zero, and drained by a read.  On Linux this is a timerfd    *)
(* and n-acd-os-linux.c only passes the deadline on, so its three timer    *)
(* functions are the actions below.                                        *)
(***************************************************************************)
EXTENDS Naturals

CONSTANTS
    Times,      \* the values of the clock
    Deadlines   \* the deadlines that can be asked for; zero disarms

VARIABLES
    now,        \* the clock of the timer
    deadline,   \* it_value, 0 when the timer is disarmed
    readable    \* the deadline passed and nobody has read the descriptor

vars == <<now, deadline, readable>>

\* timerfd_settime(TFD_TIMER_ABSTIME): replaces the deadline and takes back a
\* firing that was not read.
TimerSet(t) ==
    /\ deadline' = t
    /\ readable' = FALSE
    /\ UNCHANGED now

\* read(): the timer is not periodic, so a firing disarms it.
TimerRead ==
    /\ readable
    /\ readable' = FALSE
    /\ deadline' = 0
    /\ UNCHANGED now

Expire ==
    /\ deadline # 0
    /\ deadline <= now
    /\ ~readable
    /\ readable' = TRUE
    /\ UNCHANGED <<now, deadline>>

Advance ==
    /\ now' \in Times
    /\ now' > now
    /\ UNCHANGED <<deadline, readable>>

Init ==
    /\ now \in Times
    /\ deadline = 0
    /\ readable = FALSE

Next ==
    \/ \E t \in {0} \cup Deadlines : TimerSet(t)
    \/ TimerRead
    \/ Expire
    \/ Advance

Spec == Init /\ [][Next]_vars

\* A deadline that has passed makes the descriptor readable, unless it is moved.
FairSpec == Spec /\ WF_vars(Expire)
=============================================================================
