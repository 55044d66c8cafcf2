---------------------------- MODULE FrameChannel ----------------------------
(***************************************************************************)
(* What the state machine of n-acd is promised of the packet socket: the   *)
(* ARPs of its own link, each at most once and in the order they arrived.  *)
(* A channel may lose any of them, but then it says so.                    *)
(***************************************************************************)
EXTENDS Naturals

CONSTANT
    Channels    \* the NAcds

VARIABLES
    arrived,    \* how many frames arrived so far, on any link
    pending,    \* the ARPs that arrived for each and were not handled yet
    handled,    \* the last one handled, 0 for none
    lossy       \* whether it says that it may just have lost some

vars == <<arrived, pending, handled, lossy>>

Arrive(c) ==
    /\ arrived' = arrived + 1
    /\ pending' = [pending EXCEPT ![c] = @ \cup {arrived'}]
    /\ UNCHANGED handled

\* A frame that no channel is for.
Pass ==
    /\ arrived' = arrived + 1
    /\ UNCHANGED <<pending, handled>>

Handle(c) ==
    \E i \in pending[c] :
        /\ \A j \in pending[c] : i <= j
        /\ handled' = [handled EXCEPT ![c] = i]
        /\ pending' = [pending EXCEPT ![c] = @ \ {i}]
        /\ UNCHANGED arrived

Lose(c) ==
    /\ lossy'[c]
    /\ \E lost \in SUBSET pending[c] : pending' = [pending EXCEPT ![c] = @ \ lost]
    /\ UNCHANGED <<arrived, handled>>

\* The NAcd is dropped, or could not be made.
Close(c) ==
    /\ pending' = [pending EXCEPT ![c] = {}]
    /\ handled' = [handled EXCEPT ![c] = 0]
    /\ UNCHANGED arrived

Init ==
    /\ arrived = 0
    /\ pending = [c \in Channels |-> {}]
    /\ handled = [c \in Channels |-> 0]
    /\ lossy \in [Channels -> BOOLEAN]

\* What it says may change at any time.
Next ==
    /\ lossy' \in [Channels -> BOOLEAN]
    /\ \/ \E c \in Channels : Arrive(c) \/ Handle(c) \/ Lose(c) \/ Close(c)
       \/ Pass
       \/ UNCHANGED <<arrived, pending, handled>>

Spec == Init /\ [][Next]_vars
=============================================================================
