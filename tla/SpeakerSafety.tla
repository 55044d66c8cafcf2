--------------------------- MODULE SpeakerSafety ---------------------------
(***************************************************************************)
(* speakersafetyd: the loop that reads the voltage and current a period at *)
(* a time, works out how far each speaker has to be turned down, writes    *)
(* that to the driver, and only then renews the unlock, which the driver   *)
(* lets lapse by itself.  The daemon may die between any two system calls  *)
(* and be started again; its flag file tells a first start from another.   *)
(*                                                                         *)
(* The two backends differ in how a read ends and how a gain is rounded.   *)
(* Gains are counted in half steps of the driver's level, so that rounding *)
(* is visible; the stream of samples is counted in parts of a frame.       *)
(***************************************************************************)
EXTENDS Integers

CONSTANTS
    Speakers,
    Groups,
    GroupOf,        \* the group of each speaker
    Gains,          \* the gains the thermal model may ask for, in half steps
    Lowest,         \* the level the driver turns a locked speaker down to
    Parts,          \* parts of a frame that one read may end at
    Period,         \* frames the loop asks for
    MaxAvailable,   \* bound: parts the capture device buffers
    Lease,          \* how long the driver keeps an unlock
    Unknown         \* no gain that was ever written

ASSUME SpeakerAssumption == GroupOf \in [Speakers -> Groups]
ASSUME GainAssumption ==
    /\ Gains \subseteq Int
    /\ 0 \in Gains
    /\ Unknown \notin Int
    /\ Lowest \in Int
    /\ \A n \in Gains : 2 * Lowest <= n
ASSUME StreamAssumption ==
    /\ Parts \in Nat \ {0}
    /\ Period \in Nat \ {0}
    /\ MaxAvailable \in Nat \ {0}
ASSUME LeaseAssumption == Lease \in Nat \ {0}

VARIABLES
    backend,    \* which backend is built
    flag,       \* FLAGFILE exists
    pc,         \* where the daemon stands, "down" when it does not run
    cold,       \* cold_boot
    available,  \* parts captured and not read
    offset,     \* how far into a frame the stream has been read
    got,        \* parts read by the read in progress
    need,       \* what the model of each speaker asked for last
    todo,       \* speakers that this round of the groups has not come to
    gain,       \* group.gain
    level,      \* the volume of each speaker in the driver
    lease       \* how long the unlock still lasts, 0 when locked

stream == <<available, offset, got>>
gains == <<need, todo, gain, level>>
vars == <<backend, flag, pc, cold, stream, gains, lease>>

Members(g) == {s \in Speakers : GroupOf[s] = g}

-----------------------------------------------------------------------------
(***************************************************************************)
(* Starting up.                                                            *)
(***************************************************************************)

Start ==
    /\ pc = "down"
    /\ pc' = "opened"
    /\ cold' = ~flag
    /\ flag' = TRUE
    /\ available' = 0
    /\ offset' = 0
    /\ got' = 0
    /\ UNCHANGED <<backend, gains, lease>>

\* Mutant: every start presets no reduction.
FirstUnlockAlike ==
    /\ pc = "opened"
    /\ lease' = Lease
    /\ pc' = "preset"
    /\ todo' = Speakers
    /\ UNCHANGED <<backend, flag, cold, stream, need, gain, level>>

\* The unlock is written before any gain is.
FirstUnlock ==
    /\ pc = "opened"
    /\ lease' = Lease
    /\ pc' = "preset"
    /\ todo' = IF cold THEN Speakers ELSE {}
    /\ UNCHANGED <<backend, flag, cold, stream, need, gain, level>>

\* level_cdb(): towards more attenuation and never above zero.
NetbsdLevel(n) == IF n \div 2 < 0 THEN n \div 2 ELSE 0

\* db_to_int(): a fraction of a step is cut off before the driver's own steps
\* are found.
AlsaLevel(n) == IF n < 0 THEN -((-n) \div 2) ELSE n \div 2

LevelOf(n) == IF backend = "netbsd" THEN NetbsdLevel(n) ELSE AlsaLevel(n)

\* A cold start presets no reduction.
Preset(s) ==
    /\ pc = "preset" /\ s \in todo
    /\ level' = [level EXCEPT ![s] = LevelOf(0)]
    /\ todo' = todo \ {s}
    /\ UNCHANGED <<backend, flag, pc, cold, stream, need, gain, lease>>

\* Mutant: a warm start believes the gains to be nominal, too.
PresetDoneAlike ==
    /\ pc = "preset" /\ todo = {}
    /\ gain' = [g \in Groups |-> 0]
    /\ pc' = "loop"
    /\ UNCHANGED <<backend, flag, cold, stream, need, todo, level, lease>>

\* A warm start leaves the gains alone and takes for granted that the first
\* period changes them.
PresetDone ==
    /\ pc = "preset" /\ todo = {}
    /\ gain' = [g \in Groups |-> IF cold THEN 0 ELSE Unknown]
    /\ pc' = "loop"
    /\ UNCHANGED <<backend, flag, cold, stream, need, todo, level, lease>>

-----------------------------------------------------------------------------
(***************************************************************************)
(* Sense::read().                                                          *)
(***************************************************************************)

\* Mutant: a read goes on where the last one stopped.
ReadOn ==
    /\ pc = "loop"
    /\ pc' = "read"
    /\ UNCHANGED <<backend, flag, cold, stream, gains, lease>>

Read ==
    /\ pc = "loop"
    /\ pc' = "read"
    /\ got' = 0
    /\ UNCHANGED <<backend, flag, cold, available, offset, gains, lease>>

Want == Period * Parts

\* A read goes on until it has whole frames.
Enough(n) == n >= Parts /\ n % Parts = 0

\* Mutant: each read() may fill a whole buffer.
ReadSomeMore(n) ==
    /\ pc = "read" /\ backend = "netbsd"
    /\ n <= available /\ n <= Want
    /\ available' = available - n
    /\ offset' = (offset + n) % Parts
    /\ got' = got + n
    /\ pc' = IF Enough(got + n) \/ got + n = Want THEN "model" ELSE "read"
    /\ UNCHANGED <<backend, flag, cold, gains, lease>>

\* One read() of the NetBSD loop.
ReadSome(n) ==
    /\ pc = "read" /\ backend = "netbsd"
    /\ n <= available /\ got + n <= Want
    /\ available' = available - n
    /\ offset' = (offset + n) % Parts
    /\ got' = got + n
    /\ pc' = IF Enough(got + n) \/ got + n = Want THEN "model" ELSE "read"
    /\ UNCHANGED <<backend, flag, cold, gains, lease>>

\* readi() returns whole frames by itself.
ReadFrames(n) ==
    /\ pc = "read" /\ backend = "alsa"
    /\ n * Parts <= available /\ n <= Period
    /\ available' = available - n * Parts
    /\ got' = n * Parts
    /\ pc' = "model"
    /\ UNCHANGED <<backend, flag, cold, offset, gains, lease>>

\* Suspend: the device is opened anew and the read repeated.
ReadSuspended ==
    /\ pc = "read" /\ backend = "alsa"
    /\ available' = 0
    /\ offset' = 0
    /\ got' = 0
    /\ pc' = "loop"
    /\ UNCHANGED <<backend, flag, cold, gains, lease>>

\* Mutant: an interrupted read is repeated like one that read nothing.
InterruptedRetried ==
    /\ pc = "read" /\ backend = "netbsd"
    /\ pc' = "loop"
    /\ UNCHANGED <<backend, flag, cold, stream, gains, lease>>

\* A signal is fatal on NetBSD: part of a frame may have been read.
ReadInterrupted ==
    /\ pc = "read" /\ backend = "netbsd"
    /\ pc' = "down"
    /\ UNCHANGED <<backend, flag, cold, stream, gains, lease>>

-----------------------------------------------------------------------------
(***************************************************************************)
(* The rest of the loop.                                                   *)
(***************************************************************************)

RunModel ==
    /\ pc = "model"
    /\ need' \in [Speakers -> Gains]
    /\ todo' = Speakers
    /\ pc' = "gains"
    /\ UNCHANGED <<backend, flag, cold, stream, gain, level, lease>>

\* The gain of a group is the least of its speakers'.
GainOf(g, n) ==
    /\ \E s \in Members(g) : need[s] = n
    /\ \A s \in Members(g) : n <= need[s]

\* One group is done before the next.
Turn(g) == \A h \in Groups \ {g} : Members(h) \cap todo \in {{}, Members(h)}

\* A group whose gain is what was written last is left alone.
SkipGroup(g) ==
    /\ pc = "gains" /\ Members(g) \cap todo # {}
    /\ Turn(g)
    /\ GainOf(g, gain[g])
    /\ todo' = todo \ Members(g)
    /\ UNCHANGED <<backend, flag, pc, cold, stream, need, gain, level, lease>>

\* The speakers of a group are written one by one, and its gain is remembered
\* when the last of them was.
UpdateSpeaker(s, n) ==
    /\ pc = "gains" /\ s \in todo
    /\ Turn(GroupOf[s])
    /\ GainOf(GroupOf[s], n)
    /\ n # gain[GroupOf[s]]
    /\ level' = [level EXCEPT ![s] = LevelOf(n)]
    /\ todo' = todo \ {s}
    /\ gain' = [gain EXCEPT ![GroupOf[s]] =
                  IF Members(GroupOf[s]) \cap todo' = {} THEN n ELSE gain[GroupOf[s]]]
    /\ UNCHANGED <<backend, flag, pc, cold, stream, need, lease>>

\* Mutant: the unlock is renewed as soon as the samples were looked at.
RenewFirst ==
    /\ pc = "gains"
    /\ lease' = Lease
    /\ pc' = IF todo = {} THEN "loop" ELSE "gains"
    /\ UNCHANGED <<backend, flag, cold, stream, gains>>

Renew ==
    /\ pc = "gains" /\ todo = {}
    /\ lease' = Lease
    /\ pc' = "loop"
    /\ UNCHANGED <<backend, flag, cold, stream, gains>>

\* SIGQUIT, a panic on a failed system call, or a signal that cannot be caught.
Die ==
    /\ pc # "down"
    /\ pc' = "down"
    /\ UNCHANGED <<backend, flag, cold, stream, gains, lease>>

-----------------------------------------------------------------------------
(***************************************************************************)
(* The driver.                                                             *)
(***************************************************************************)

Capture ==
    /\ available < MaxAvailable
    /\ available' = available + 1
    /\ UNCHANGED <<backend, flag, pc, cold, offset, got, gains, lease>>

\* Time passes; a lapsed unlock may have the driver turn the speakers down.
Tick ==
    /\ lease > 0
    /\ lease' = lease - 1
    /\ \/ UNCHANGED level
       \/ lease' = 0 /\ level' = [s \in Speakers |-> Lowest]
    /\ UNCHANGED <<backend, flag, pc, cold, stream, need, todo, gain>>

\* rc(8) clears the flag file.
Reboot ==
    /\ pc = "down"
    /\ flag' = FALSE
    /\ lease' = 0
    /\ level' = [s \in Speakers |-> Lowest]
    /\ UNCHANGED <<backend, pc, cold, stream, need, todo, gain>>

-----------------------------------------------------------------------------

Init ==
    /\ backend \in {"netbsd", "alsa"}
    /\ flag = FALSE
    /\ pc = "down"
    /\ cold = FALSE
    /\ available = 0
    /\ offset = 0
    /\ got = 0
    /\ need = [s \in Speakers |-> 0]
    /\ todo = {}
    /\ gain = [g \in Groups |-> Unknown]
    /\ level = [s \in Speakers |-> Lowest]
    /\ lease = 0

Startup == Start \/ FirstUnlock \/ (\E s \in Speakers : Preset(s)) \/ PresetDone

ReadFully == \E n \in 1 .. MaxAvailable : ReadSome(n) \/ ReadFrames(n)

Sense ==
    \/ Read
    \/ ReadFully
    \/ ReadSuspended
    \/ ReadInterrupted

Limit ==
    \/ RunModel
    \/ \E g \in Groups : SkipGroup(g)
    \/ \E s \in Speakers, n \in Gains : UpdateSpeaker(s, n)
    \/ Renew

Next ==
    \/ Startup
    \/ Sense
    \/ Limit
    \/ Die
    \/ Capture
    \/ Tick
    \/ Reboot

Spec == Init /\ [][Next]_vars

\* While the daemon runs it goes on, and reads what the device captures.
Fairness ==
    /\ WF_vars(Startup)
    /\ WF_vars(Read)
    /\ WF_vars(ReadFully)
    /\ WF_vars(Limit)
    /\ WF_vars(Capture)

FairSpec == Spec /\ Fairness

-----------------------------------------------------------------------------
(***************************************************************************)
(* Properties.                                                             *)
(***************************************************************************)

TypeOK ==
    /\ backend \in {"netbsd", "alsa"}
    /\ flag \in BOOLEAN
    /\ pc \in {"down", "opened", "preset", "loop", "read", "model", "gains"}
    /\ cold \in BOOLEAN
    /\ available \in 0 .. MaxAvailable
    /\ offset \in 0 .. (Parts - 1)
    /\ got \in 0 .. Want
    /\ need \in [Speakers -> Gains]
    /\ todo \subseteq Speakers
    /\ gain \in [Groups -> Gains \cup {Unknown}]
    /\ level \in [Speakers -> Int]
    /\ lease \in 0 .. Lease

\* The samples handed to the model are whole frames, in step with the device:
\* voltage and current are never taken for each other because an earlier read
\* ended, or failed, inside a frame.
WholeFrames == pc = "model" => got > 0 /\ got % Parts = 0 /\ offset = 0

\* How much louder than asked for a level may be, in half steps.
Excess == IF backend = "netbsd" THEN 0 ELSE 1

\* The loop renews the unlock only when every speaker is as far down as its own
\* model asked for with the latest samples, whatever was believed about a group
\* before, by this daemon or an earlier one.
RenewedWhenSafe ==
    [][(pc = "gains" /\ lease' > lease) => \A s \in Speakers : 2 * level[s] <= need[s] + Excess]_vars

\* A speaker gets louder only at the first start since boot or because its model
\* allows it: a daemon that died and was started again does not do it by itself.
LouderOnlyWhenAsked ==
    [][\A s \in Speakers : level'[s] > level[s] =>
          \/ pc = "gains" /\ 2 * level'[s] <= need[s] + Excess
          \/ pc = "preset" /\ cold]_vars

\* The speakers of g are being written.
InUpdate(g) == pc = "gains" /\ Members(g) \cap todo \notin {{}, Members(g)}

\* The gain remembered for a group is what its speakers have in the driver, unless
\* that turned them down.  The loop writes nothing when the gain does not change,
\* so a wrong memory, after a restart for one, would never be corrected.
LevelOfGain ==
    \A s \in Speakers :
        (/\ pc \in {"loop", "read", "model", "gains"}
         /\ gain[GroupOf[s]] # Unknown
         /\ ~InUpdate(GroupOf[s]))
        => level[s] \in {LevelOf(gain[GroupOf[s]]), Lowest}

\* What makes these inductive, at each point of the loop: a speaker not yet
\* written has the level of the gain remembered, a speaker written has that of
\* the gain its group needs, and the two are the same once a group is done.
Held(s, n) == level[s] \in {LevelOf(n), Lowest}

HoldsRemembered(s) == gain[GroupOf[s]] # Unknown => Held(s, gain[GroupOf[s]])

HoldsNeeded(s) == \E n \in Gains : GainOf(GroupOf[s], n) /\ Held(s, n)

GainInv ==
    /\ \A s \in Speakers : Lowest <= level[s]
    /\ pc = "preset" => IF cold THEN \A s \in Speakers \ todo : Held(s, 0) ELSE todo = {}
    /\ pc \in {"loop", "read", "model"} => \A s \in Speakers : HoldsRemembered(s)
    /\ pc = "gains" =>
          /\ \A s \in todo : HoldsRemembered(s)
          /\ \A s \in Speakers \ todo : HoldsNeeded(s)
          /\ \A s \in Speakers : Members(GroupOf[s]) \cap todo = {}
                => GainOf(GroupOf[s], gain[GroupOf[s]])

\* A daemon that keeps running renews the unlock again and again, unless it is
\* suspended in every read.
RenewedAgain ==
    (<>[](pc # "down") /\ <>[][~ReadSuspended]_vars) => []<>(lease = Lease)
=============================================================================
