------------------------ MODULE SpeakerSafety_proofs ------------------------
(***************************************************************************)
(* Proofs about the gains and the samples: for any speakers, groups, gains *)
(* and sizes of frames, in either backend, across any number of restarts   *)
(* of the daemon.                                                          *)
(***************************************************************************)
EXTENDS SpeakerSafety, TLAPS

-----------------------------------------------------------------------------
(***************************************************************************)
(* Type correctness.                                                       *)
(***************************************************************************)

\* The variables the gains depend on; the stream has no part in them.
GainTypes ==
    /\ backend \in {"netbsd", "alsa"}
    /\ pc \in {"down", "opened", "preset", "loop", "read", "model", "gains"}
    /\ need \in [Speakers -> Gains]
    /\ todo \in SUBSET Speakers
    /\ gain \in [Groups -> Gains \cup {Unknown}]
    /\ level \in [Speakers -> Int]
    /\ lease \in 0 .. Lease

\* The level of a gain is a whole step, and not louder than the gain by more than
\* the backend's excess.
LEMMA LevelOfIsInt == ASSUME NEW n \in Int PROVE LevelOf(n) \in Int
BY DEF LevelOf, NetbsdLevel, AlsaLevel

LEMMA Halves ==
    ASSUME NEW n \in Int
    PROVE  n \div 2 \in Int /\ 2 * (n \div 2) <= n /\ n <= 2 * (n \div 2) + 1
OBVIOUS

LEMMA LevelIsLow ==
    ASSUME NEW n \in Int
    PROVE  2 * LevelOf(n) <= n + Excess
<1>1. CASE backend = "netbsd"
  BY <1>1, Halves DEF LevelOf, NetbsdLevel, Excess
<1>2. CASE backend # "netbsd" /\ n < 0
  <2>1. -n \in Int
    OBVIOUS
  <2>2. -n <= 2 * ((-n) \div 2) + 1 /\ (-n) \div 2 \in Int
    BY <2>1, Halves
  <2>3. LevelOf(n) = -((-n) \div 2) /\ Excess = 1
    BY <1>2 DEF LevelOf, AlsaLevel, Excess
  <2> QED
    BY <2>2, <2>3
<1>3. CASE backend # "netbsd" /\ ~(n < 0)
  BY <1>3, Halves DEF LevelOf, AlsaLevel, Excess
<1> QED
  BY <1>1, <1>2, <1>3

\* No gain puts a speaker below the level of a locked one.
LEMMA LevelIsHigh ==
    ASSUME NEW n \in Gains
    PROVE  Lowest <= LevelOf(n)
<1>1. /\ n \in Int /\ Lowest \in Int
      /\ 2 * Lowest <= n /\ 2 * Lowest <= 0
  BY GainAssumption
<1>2. CASE backend = "netbsd"
  BY <1>1, <1>2 DEF LevelOf, NetbsdLevel
<1>3. CASE backend # "netbsd"
  BY <1>1, <1>3 DEF LevelOf, AlsaLevel
<1> QED
  BY <1>2, <1>3

\* A group needs one gain.
LEMMA OneGain ==
    ASSUME GainTypes, NEW g \in Groups, NEW m, NEW n, GainOf(g, m), GainOf(g, n)
    PROVE  m = n
<1>1. PICK s \in Members(g) : need[s] = m
  BY DEF GainOf
<1>2. PICK t \in Members(g) : need[t] = n
  BY DEF GainOf
<1>3. m <= need[t] /\ n <= need[s]
  BY DEF GainOf
<1>4. need[s] \in Int /\ need[t] \in Int
  BY GainAssumption DEF GainTypes, Members
<1> QED
  BY <1>1, <1>2, <1>3, <1>4

LEMMA GainIsAGain ==
    ASSUME GainTypes, NEW g \in Groups, NEW n, GainOf(g, n)
    PROVE  n \in Gains /\ n # Unknown
BY GainAssumption DEF GainTypes, GainOf, Members

LEMMA GainTypesKept == GainTypes /\ [Next]_vars => GainTypes'
<1> SUFFICES ASSUME GainTypes, [Next]_vars
             PROVE  GainTypes'
  OBVIOUS
<1> USE GainAssumption, SpeakerAssumption, LeaseAssumption DEF GainTypes
<1>1. CASE Startup
  <2>1. CASE Start \/ FirstUnlock
    BY <2>1 DEF Start, FirstUnlock, gains
  <2>2. ASSUME NEW s \in Speakers, Preset(s)
        PROVE  GainTypes'
    BY <2>2, LevelOfIsInt DEF Preset
  <2>3. CASE PresetDone
    BY <2>3 DEF PresetDone
  <2> HIDE DEF GainTypes
  <2> QED
    BY <1>1, <2>1, <2>2, <2>3 DEF Startup
<1>2. CASE Sense
  <2>1. CASE Read \/ ReadSuspended \/ ReadInterrupted
    BY <2>1 DEF Read, ReadSuspended, ReadInterrupted, gains
  <2>2. ASSUME NEW n \in 1 .. MaxAvailable, ReadSome(n) \/ ReadFrames(n)
        PROVE  GainTypes'
    BY <2>2 DEF ReadSome, ReadFrames, gains
  <2> HIDE DEF GainTypes
  <2> QED
    BY <1>2, <2>1, <2>2 DEF Sense, ReadFully
<1>3. CASE Limit
  <2>1. CASE RunModel \/ Renew
    BY <2>1 DEF RunModel, Renew, gains
  <2>2. ASSUME NEW g \in Groups, SkipGroup(g)
        PROVE  GainTypes'
    BY <2>2 DEF SkipGroup
  <2>3. ASSUME NEW s \in Speakers, NEW n \in Gains, UpdateSpeaker(s, n)
        PROVE  GainTypes'
    <3>1. LevelOf(n) \in Int
      BY LevelOfIsInt
    <3>2. level' \in [Speakers -> Int] /\ todo' \in SUBSET Speakers
      BY <2>3, <3>1 DEF UpdateSpeaker
    <3>3. gain' \in [Groups -> Gains \cup {Unknown}]
      BY <2>3 DEF UpdateSpeaker
    <3> QED
      BY <2>3, <3>2, <3>3 DEF UpdateSpeaker
  <2> HIDE DEF GainTypes
  <2> QED
    BY <1>3, <2>1, <2>2, <2>3 DEF Limit
<1>4. CASE Die \/ Capture \/ Tick \/ Reboot
  BY <1>4 DEF Die, Capture, Tick, Reboot, gains
<1>5. CASE UNCHANGED vars
  BY <1>5 DEF vars, gains
<1> HIDE DEF GainTypes
<1> QED
  BY <1>1, <1>2, <1>3, <1>4, <1>5 DEF Next

\* The part of TypeOK that the proofs below rest on.
THEOREM GainTypeCorrect == Spec => []GainTypes
<1>1. Init => GainTypes
  BY GainAssumption, LeaseAssumption DEF Init, GainTypes
<1> QED
  BY <1>1, GainTypesKept, PTL DEF Spec

-----------------------------------------------------------------------------
(***************************************************************************)
(* What the driver holds and what the daemon remembers.                    *)
(***************************************************************************)

\* The group of a speaker is a group, and the speaker is in it.
LEMMA InItsGroup ==
    ASSUME NEW s \in Speakers
    PROVE  GroupOf[s] \in Groups /\ s \in Members(GroupOf[s])
BY SpeakerAssumption DEF Members

\* The predicates below depend on nothing but gains and the backend.
LEMMA GainInvStutters ==
    ASSUME GainInv, UNCHANGED <<gains, backend>>,
           \/ UNCHANGED <<pc, cold>>
           \/ pc \in {"loop", "read", "model"} /\ pc' \in {"loop", "read", "model", "down"}
           \/ pc' \in {"down", "opened"}
    PROVE  GainInv'
BY DEF GainInv, gains, HoldsRemembered, HoldsNeeded, Held, LevelOf, NetbsdLevel, AlsaLevel,
       GainOf, Members

LEMMA StartupKeepsGainInv == GainTypes /\ GainInv /\ Startup => GainInv'
<1> SUFFICES ASSUME GainTypes, GainInv, Startup
             PROVE  GainInv'
  OBVIOUS
<1>1. CASE Start
  BY <1>1, GainInvStutters DEF Start
<1>2. CASE FirstUnlock
  BY <1>2 DEF FirstUnlock, GainInv, GainTypes
<1>3. ASSUME NEW s \in Speakers, Preset(s)
      PROVE  GainInv'
  <2>1. /\ pc = "preset" /\ pc' = "preset" /\ cold /\ cold' = cold
        /\ backend' = backend /\ todo' = todo \ {s}
        /\ level' = [level EXCEPT ![s] = LevelOf(0)]
    BY <1>3 DEF Preset, GainInv
  <2>2. Lowest <= LevelOf(0)
    BY LevelIsHigh, GainAssumption
  <2>3. ASSUME NEW t \in Speakers
        PROVE  Lowest <= level'[t]
    BY <2>1, <2>2, <2>3 DEF GainInv, GainTypes
  <2>4. ASSUME NEW t \in Speakers \ todo'
        PROVE  Held(t, 0)'
    <3>1. CASE t = s
      BY <2>1, <3>1 DEF Held, GainTypes, LevelOf, NetbsdLevel, AlsaLevel
    <3>2. CASE t # s
      BY <2>1, <3>2 DEF GainInv, Held, GainTypes, LevelOf, NetbsdLevel, AlsaLevel
    <3> QED
      BY <3>1, <3>2
  <2> QED
    BY <2>1, <2>3, <2>4 DEF GainInv
<1>4. CASE PresetDone
  <2>1. /\ pc = "preset" /\ pc' = "loop" /\ level' = level /\ backend' = backend
        /\ gain' = [g \in Groups |-> IF cold THEN 0 ELSE Unknown]
        /\ todo = {}
    BY <1>4 DEF PresetDone
  <2>2. ASSUME NEW s \in Speakers
        PROVE  HoldsRemembered(s)'
    <3>1. CASE cold
      <4>1. Held(s, 0)
        BY <2>1, <3>1 DEF GainInv
      <4>2. gain'[GroupOf[s]] = 0
        BY <2>1, <3>1, InItsGroup
      <4> QED
        BY <2>1, <4>1, <4>2 DEF HoldsRemembered, Held, LevelOf, NetbsdLevel, AlsaLevel
    <3>2. CASE ~cold
      BY <2>1, <3>2, InItsGroup DEF HoldsRemembered
    <3> QED
      BY <3>1, <3>2
  <2> QED
    BY <2>1, <2>2 DEF GainInv
<1> QED
  BY <1>1, <1>2, <1>3, <1>4 DEF Startup

LEMMA SenseKeepsGainInv == GainInv /\ Sense => GainInv'
<1> SUFFICES ASSUME GainInv, Sense
             PROVE  GainInv'
  OBVIOUS
<1>1. CASE Read \/ ReadSuspended \/ ReadInterrupted
  BY <1>1, GainInvStutters DEF Read, ReadSuspended, ReadInterrupted
<1>2. ASSUME NEW n \in 1 .. MaxAvailable, ReadSome(n) \/ ReadFrames(n)
      PROVE  GainInv'
  <2>1. UNCHANGED <<gains, backend>> /\ pc = "read" /\ pc' \in {"read", "model"}
    BY <1>2 DEF ReadSome, ReadFrames
  <2> QED
    BY <2>1, GainInvStutters
<1> QED
  BY <1>1, <1>2 DEF Sense, ReadFully

LEMMA RunModelKeepsGainInv == GainTypes /\ GainInv /\ RunModel => GainInv'
<1> SUFFICES ASSUME GainTypes, GainInv, RunModel
             PROVE  GainInv'
  OBVIOUS
<1>1. /\ pc = "model" /\ pc' = "gains" /\ todo' = Speakers
      /\ UNCHANGED <<gain, level, backend>>
  BY DEF RunModel
<1>2. \A s \in Speakers : HoldsRemembered(s)'
  BY <1>1 DEF GainInv, HoldsRemembered, Held, LevelOf, NetbsdLevel, AlsaLevel
<1>3. \A s \in Speakers : Members(GroupOf[s]) \cap todo' # {}
  BY <1>1, InItsGroup DEF Members
<1> QED
  BY <1>1, <1>2, <1>3 DEF GainInv, Members

\* Both actions on a group take what they take from todo out of one group only.
LEMMA OtherGroups ==
    ASSUME NEW g \in Groups, NEW s \in Speakers, GroupOf[s] # g,
           todo \ todo' \subseteq Members(g), todo' \subseteq todo
    PROVE  Members(GroupOf[s]) \cap todo' = Members(GroupOf[s]) \cap todo
BY DEF Members

LEMMA SkipGroupKeepsGainInv ==
    ASSUME GainTypes, GainInv, NEW g \in Groups, SkipGroup(g)
    PROVE  GainInv'
<1>1. /\ pc = "gains" /\ pc' = pc /\ GainOf(g, gain[g]) /\ todo' = todo \ Members(g)
      /\ UNCHANGED <<gain, level, backend, need>>
  BY DEF SkipGroup
<1>2. \A s \in todo' : HoldsRemembered(s)'
  BY <1>1 DEF GainInv, HoldsRemembered, Held, LevelOf, NetbsdLevel, AlsaLevel
<1>3. gain[g] \in Gains /\ gain[g] # Unknown
  BY <1>1, GainIsAGain
<1>4. ASSUME NEW s \in Speakers \ todo'
      PROVE  HoldsNeeded(s)'
  <2>1. CASE s \in todo
    <3>1. GroupOf[s] = g
      BY <1>1, <1>4, <2>1 DEF Members
    <3>2. Held(s, gain[g])
      BY <1>1, <1>3, <2>1, <3>1 DEF GainInv, HoldsRemembered
    <3>3. HoldsNeeded(s)
      BY <1>1, <1>3, <3>1, <3>2 DEF HoldsNeeded
    <3> QED
      BY <1>1, <3>3 DEF HoldsNeeded, Held, LevelOf, NetbsdLevel, AlsaLevel, GainOf, Members
  <2>2. CASE s \notin todo
    BY <1>1, <1>4, <2>2 DEF GainInv, HoldsNeeded, Held, LevelOf, NetbsdLevel, AlsaLevel, GainOf, Members
  <2> QED
    BY <2>1, <2>2
<1>5. ASSUME NEW s \in Speakers, Members(GroupOf[s]) \cap todo' = {}
      PROVE  GainOf(GroupOf[s], gain[GroupOf[s]])'
  <2>1. GainOf(GroupOf[s], gain[GroupOf[s]])
    <3>1. CASE GroupOf[s] = g
      BY <1>1, <3>1
    <3>2. CASE GroupOf[s] # g
      BY <1>1, <1>5, <3>2 DEF GainInv, Members
    <3> QED
      BY <3>1, <3>2
  <2> QED
    BY <1>1, <2>1 DEF GainOf, Members
<1>6. \A s \in Speakers : Lowest <= level'[s]
  BY <1>1 DEF GainInv
<1> QED
  BY <1>1, <1>2, <1>4, <1>5, <1>6 DEF GainInv, Members

LEMMA UpdateSpeakerKeepsGainInv ==
    ASSUME GainTypes, GainInv, NEW s \in Speakers, NEW n \in Gains, UpdateSpeaker(s, n)
    PROVE  GainInv'
<1> DEFINE g == GroupOf[s]
<1>1. /\ pc = "gains" /\ pc' = pc /\ s \in todo /\ todo' = todo \ {s} /\ GainOf(g, n)
      /\ level' = [level EXCEPT ![s] = LevelOf(n)]
      /\ UNCHANGED <<backend, need>>
  BY DEF UpdateSpeaker
<1>2. gain' = [gain EXCEPT ![g] = IF Members(g) \cap todo' = {} THEN n ELSE gain[g]]
  BY DEF UpdateSpeaker
<1>3. g \in Groups /\ s \in Members(g)
  BY InItsGroup
<1>4. ASSUME NEW t \in Speakers, t # s
      PROVE  level'[t] = level[t]
  BY <1>1, <1>4 DEF GainTypes
<1>5. level'[s] = LevelOf(n)
  BY <1>1 DEF GainTypes
<1>6. ASSUME NEW t \in todo'
      PROVE  HoldsRemembered(t)'
  <2>1. t \in Speakers /\ t \in todo /\ t # s
    BY <1>1, <1>6 DEF GainTypes
  <2>2. t \in Members(GroupOf[t]) \cap todo'
    BY <1>6, <2>1, InItsGroup
  <2>3. gain'[GroupOf[t]] = gain[GroupOf[t]]
    BY <1>2, <1>3, <2>1, <2>2, InItsGroup DEF GainTypes
  <2>4. HoldsRemembered(t)
    BY <1>1, <2>1 DEF GainInv
  <2> QED
    BY <1>1, <1>4, <2>1, <2>3, <2>4 DEF HoldsRemembered, Held, LevelOf, NetbsdLevel, AlsaLevel
<1>7. ASSUME NEW t \in Speakers \ todo'
      PROVE  HoldsNeeded(t)'
  <2>1. CASE t = s
    BY <1>1, <1>5, <2>1 DEF HoldsNeeded, Held, LevelOf, NetbsdLevel, AlsaLevel, GainOf, Members
  <2>2. CASE t # s
    <3>1. HoldsNeeded(t)
      BY <1>1, <1>7, <2>2 DEF GainInv
    <3> QED
      BY <1>1, <1>4, <2>2, <3>1 DEF HoldsNeeded, Held, LevelOf, NetbsdLevel, AlsaLevel, GainOf, Members
  <2> QED
    BY <2>1, <2>2
<1>8. ASSUME NEW t \in Speakers, Members(GroupOf[t]) \cap todo' = {}
      PROVE  GainOf(GroupOf[t], gain'[GroupOf[t]])
  <2>1. CASE GroupOf[t] = g
    BY <1>1, <1>2, <1>3, <1>8, <2>1 DEF GainTypes
  <2>2. CASE GroupOf[t] # g
    <3>1. gain'[GroupOf[t]] = gain[GroupOf[t]]
      BY <1>2, <1>3, <2>2, InItsGroup DEF GainTypes
    <3>2. Members(GroupOf[t]) \cap todo = {}
      BY <1>1, <1>8, <2>2 DEF Members
    <3> QED
      BY <1>1, <3>1, <3>2 DEF GainInv
  <2> QED
    BY <2>1, <2>2
<1>9. \A t \in Speakers : Lowest <= level'[t]
  BY <1>4, <1>5, LevelIsHigh DEF GainInv
<1>10. \A t \in Speakers : Members(GroupOf[t]) \cap todo' = {}
          => GainOf(GroupOf[t], gain[GroupOf[t]])'
  BY <1>1, <1>8 DEF GainOf, Members
<1> QED
  BY <1>1, <1>6, <1>7, <1>9, <1>10 DEF GainInv, Members

\* A finished round: every speaker has the level of the gain its group needs.
LEMMA RoundDone ==
    ASSUME GainTypes, GainInv, pc = "gains", NEW s \in Speakers,
           Members(GroupOf[s]) \cap todo = {}
    PROVE  Held(s, gain[GroupOf[s]])
<1>1. s \notin todo /\ GroupOf[s] \in Groups
  BY InItsGroup
<1>2. GainOf(GroupOf[s], gain[GroupOf[s]])
  BY DEF GainInv
<1>3. PICK n \in Gains : GainOf(GroupOf[s], n) /\ Held(s, n)
  BY <1>1 DEF GainInv, HoldsNeeded
<1> QED
  BY <1>1, <1>2, <1>3, OneGain

LEMMA RenewKeepsGainInv == GainTypes /\ GainInv /\ Renew => GainInv'
<1> SUFFICES ASSUME GainTypes, GainInv, Renew
             PROVE  GainInv'
  OBVIOUS
<1>1. pc = "gains" /\ pc' = "loop" /\ todo = {} /\ UNCHANGED <<gains, backend>>
  BY DEF Renew
<1>2. \A s \in Speakers : HoldsRemembered(s)'
  BY <1>1, RoundDone DEF HoldsRemembered, Held, LevelOf, NetbsdLevel, AlsaLevel, gains
<1> QED
  BY <1>1, <1>2 DEF GainInv, gains

LEMMA DriverKeepsGainInv ==
    GainTypes /\ GainInv /\ (Die \/ Capture \/ Tick \/ Reboot \/ UNCHANGED vars) => GainInv'
<1> SUFFICES ASSUME GainTypes, GainInv, Die \/ Capture \/ Tick \/ Reboot \/ UNCHANGED vars
             PROVE  GainInv'
  OBVIOUS
<1>1. CASE Die \/ Capture \/ UNCHANGED vars
  BY <1>1, GainInvStutters DEF Die, Capture, vars
<1>2. CASE Tick /\ UNCHANGED level
  BY <1>2, GainInvStutters DEF Tick, gains
<1>3. CASE (Tick \/ Reboot) /\ level' = [s \in Speakers |-> Lowest]
  <2>1. UNCHANGED <<backend, pc, cold, need, todo, gain>>
    BY <1>3 DEF Tick, Reboot
  <2>2. \A s \in Speakers : level'[s] = Lowest
    BY <1>3
  <2>3. \A s \in Speakers : \A n : Held(s, n)'
    BY <2>2 DEF Held
  <2>4. \A s \in Speakers : HoldsNeeded(s) => HoldsNeeded(s)'
    BY <2>1, <2>3 DEF HoldsNeeded, GainOf, Members
  <2>5. \A s \in Speakers : HoldsRemembered(s)'
    BY <2>3 DEF HoldsRemembered
  <2>6. \A s \in Speakers : Lowest <= level'[s]
    BY <2>2, GainAssumption
  <2>7. \A s \in todo' : HoldsRemembered(s)'
    BY <2>1, <2>5 DEF GainTypes
  <2> QED
    BY <2>1, <2>3, <2>4, <2>5, <2>6, <2>7 DEF GainInv, GainOf, Members
<1> QED
  BY <1>1, <1>2, <1>3 DEF Tick, Reboot

LEMMA GainInvKept == GainTypes /\ GainInv /\ [Next]_vars => GainInv'
<1> SUFFICES ASSUME GainTypes, GainInv, [Next]_vars
             PROVE  GainInv'
  OBVIOUS
<1>1. CASE Limit
  BY <1>1, RunModelKeepsGainInv, SkipGroupKeepsGainInv, UpdateSpeakerKeepsGainInv,
     RenewKeepsGainInv DEF Limit
<1> QED
  BY <1>1, StartupKeepsGainInv, SenseKeepsGainInv, DriverKeepsGainInv DEF Next

LEMMA InitialGains == Init => GainTypes /\ GainInv
BY GainAssumption, LeaseAssumption DEF Init, GainTypes, GainInv

\* Whatever the groups, whenever the daemon died, and however often it was started
\* again: what it remembers of a group is what the driver holds.
THEOREM GainInvariant == Spec => []GainInv
BY InitialGains, GainTypesKept, GainInvKept, PTL DEF Spec

\* LevelOfGain: the gain remembered for a group is the one in the driver, which is
\* what allows the daemon to skip a write.
THEOREM RemembersWhatIsHeld == Spec => []LevelOfGain
<1>1. GainTypes /\ GainInv => LevelOfGain
  <2> SUFFICES ASSUME GainTypes, GainInv, NEW s \in Speakers,
                      pc \in {"loop", "read", "model", "gains"},
                      gain[GroupOf[s]] # Unknown, ~InUpdate(GroupOf[s])
               PROVE  Held(s, gain[GroupOf[s]])
    BY DEF LevelOfGain, Held
  <2>1. CASE pc \in {"loop", "read", "model"}
    BY <2>1 DEF GainInv, HoldsRemembered
  <2>2. CASE pc = "gains" /\ Members(GroupOf[s]) \cap todo = {}
    BY <2>2, RoundDone
  <2>3. CASE pc = "gains" /\ Members(GroupOf[s]) \cap todo = Members(GroupOf[s])
    BY <2>3, InItsGroup DEF GainInv, HoldsRemembered
  <2> QED
    BY <2>1, <2>2, <2>3 DEF InUpdate
<1> QED
  BY <1>1, GainTypeCorrect, GainInvariant, PTL

-----------------------------------------------------------------------------
(***************************************************************************)
(* What a step may do.                                                     *)
(***************************************************************************)

\* A speaker held at its group's gain, or turned down, is as low as its own model
\* asked for.
LEMMA HeldIsLow ==
    ASSUME GainTypes, NEW s \in Speakers, NEW n, GainOf(GroupOf[s], n),
           NEW l, l \in {LevelOf(n), Lowest}
    PROVE  2 * l <= need[s] + Excess
<1>1. n \in Gains /\ n \in Int
  BY GainIsAGain, InItsGroup, GainAssumption
<1>2. n <= need[s] /\ need[s] \in Gains /\ need[s] \in Int
  BY InItsGroup, GainAssumption DEF GainOf, GainTypes
<1>3. Excess \in Int /\ Excess >= 0
  BY DEF Excess
<1>4. 2 * LevelOf(n) <= n + Excess /\ LevelOf(n) \in Int
  BY <1>1, LevelIsLow, LevelOfIsInt
<1>5. 2 * Lowest <= need[s] /\ Lowest \in Int
  BY <1>2, GainAssumption
<1> QED
  BY <1>1, <1>2, <1>3, <1>4, <1>5

\* Only two actions write the unlock.
LEMMA RenewsUnlock ==
    ASSUME GainTypes, [Next]_vars, pc = "gains", lease' > lease
    PROVE  Renew
<1>1. lease \in Int
  BY LeaseAssumption DEF GainTypes
<1>2. ~(lease > lease) /\ ~(lease - 1 > lease)
  BY <1>1
<1>3. ~(Startup \/ Sense)
  BY DEF Startup, Start, FirstUnlock, Preset, PresetDone, Sense, Read, ReadFully, ReadSome,
         ReadFrames, ReadSuspended, ReadInterrupted
<1>4. ~(Die \/ Capture \/ Tick \/ Reboot \/ UNCHANGED vars)
  BY <1>2 DEF Die, Capture, Tick, Reboot, vars
<1>5. \A g \in Groups : ~SkipGroup(g)
  BY <1>2 DEF SkipGroup
<1>6. \A s \in Speakers, n \in Gains : ~UpdateSpeaker(s, n)
  BY <1>2 DEF UpdateSpeaker
<1>7. ~RunModel
  BY DEF RunModel
<1> QED
  BY <1>3, <1>4, <1>5, <1>6, <1>7 DEF Next, Limit

\* The unlock is renewed only when every speaker is as far down as its model asked
\* for, for any groups and gains, in either backend.
THEOREM RenewalIsSafe == Spec => RenewedWhenSafe
<1>1. ASSUME GainTypes, GainInv, [Next]_vars, pc = "gains", lease' > lease, NEW s \in Speakers
      PROVE  2 * level[s] <= need[s] + Excess
  <2>1. Renew
    BY <1>1, RenewsUnlock
  <2>2. s \notin todo
    BY <2>1 DEF Renew
  <2>3. PICK n \in Gains : GainOf(GroupOf[s], n) /\ Held(s, n)
    BY <1>1, <2>2 DEF GainInv, HoldsNeeded
  <2> QED
    BY <1>1, <2>3, HeldIsLow DEF Held
<1>2. GainTypes /\ GainInv /\ [Next]_vars
      => [pc = "gains" /\ lease' > lease
            => \A s \in Speakers : 2 * level[s] <= need[s] + Excess]_vars
  BY <1>1
<1> QED
  BY <1>2, GainTypeCorrect, GainInvariant, PTL DEF Spec, RenewedWhenSafe

\* No restart, suspend or lapsed unlock makes a speaker louder by itself.
THEOREM LouderIsAsked == Spec => LouderOnlyWhenAsked
<1>1. ASSUME GainTypes, GainInv, [Next]_vars, NEW s \in Speakers, level'[s] > level[s]
      PROVE  \/ pc = "gains" /\ 2 * level'[s] <= need[s] + Excess
             \/ pc = "preset" /\ cold
  <2>1. level[s] \in Int /\ Lowest \in Int /\ Lowest <= level[s]
    BY <1>1, GainAssumption DEF GainTypes, GainInv
  <2>2. level' # level
    BY <1>1, <2>1
  <2>3. level' # [t \in Speakers |-> Lowest]
    BY <1>1, <2>1
  <2>4. ~(Sense \/ Die \/ Capture \/ Tick \/ Reboot \/ UNCHANGED vars)
    BY <2>2, <2>3 DEF Sense, Read, ReadFully, ReadSome, ReadFrames, ReadSuspended,
       ReadInterrupted, Die, Capture, Tick, Reboot, vars, gains
  <2>5. ~(RunModel \/ Renew \/ \E g \in Groups : SkipGroup(g))
    BY <2>2 DEF RunModel, Renew, SkipGroup, gains
  <2>6. ASSUME NEW t \in Speakers, NEW n \in Gains, UpdateSpeaker(t, n)
        PROVE  pc = "gains" /\ 2 * level'[s] <= need[s] + Excess
    <3>1. t = s
      BY <1>1, <2>1, <2>6 DEF UpdateSpeaker, GainTypes
    <3>2. level'[s] = LevelOf(n) /\ GainOf(GroupOf[s], n) /\ pc = "gains"
      BY <1>1, <2>6, <3>1 DEF UpdateSpeaker, GainTypes
    <3> QED
      BY <1>1, <3>2, HeldIsLow
  <2>7. ASSUME Startup
        PROVE  pc = "preset" /\ cold
    <3>1. PICK t \in Speakers : Preset(t)
      BY <2>2, <2>7 DEF Startup, Start, FirstUnlock, PresetDone, gains
    <3> QED
      BY <1>1, <3>1 DEF Preset, GainInv
  <2> QED
    BY <1>1, <2>4, <2>5, <2>6, <2>7 DEF Next, Limit
<1>2. GainTypes /\ GainInv /\ [Next]_vars
      => [\A s \in Speakers : level'[s] > level[s] =>
            \/ pc = "gains" /\ 2 * level'[s] <= need[s] + Excess
            \/ pc = "preset" /\ cold]_vars
  BY <1>1
<1> QED
  BY <1>2, GainTypeCorrect, GainInvariant, PTL DEF Spec, LouderOnlyWhenAsked

-----------------------------------------------------------------------------
(***************************************************************************)
(* The stream of samples.                                                  *)
(***************************************************************************)

\* How far into a frame the stream is at each point of the loop, and what a read
\* that ended has returned.
StreamInv ==
    /\ backend \in {"netbsd", "alsa"}
    /\ flag \in BOOLEAN /\ cold \in BOOLEAN
    /\ available \in 0 .. MaxAvailable
    /\ offset \in 0 .. (Parts - 1)
    /\ got \in 0 .. Want
    /\ backend = "alsa" => offset = 0
    /\ pc \in {"opened", "preset", "loop", "model", "gains"} => offset = 0
    /\ pc = "read" => offset = got % Parts
    /\ pc = "model" => got > 0 /\ got % Parts = 0

\* Division with a rest.
LEMMA Quotient ==
    ASSUME NEW a \in Nat, NEW p \in Nat \ {0}
    PROVE  a \div p \in Int /\ a % p \in 0 .. (p - 1) /\ a = p * (a \div p) + (a % p)
OBVIOUS

LEMMA MultipleIsLarge ==
    ASSUME NEW p \in Nat \ {0}, NEW d \in Int, d >= 1
    PROVE  p * d >= p
OBVIOUS

LEMMA RestIsUnique ==
    ASSUME NEW p \in Nat \ {0}, NEW q \in Int, NEW r \in 0 .. (p - 1),
           NEW k \in Int, NEW s \in 0 .. (p - 1), p * q + r = p * k + s
    PROVE  r = s
<1>1. p * (q - k) = s - r /\ p * (k - q) = r - s
  OBVIOUS
<1>2. CASE q - k >= 1
  <2>1. p * (q - k) >= p
    BY <1>2, MultipleIsLarge
  <2> QED
    BY <1>1, <2>1
<1>3. CASE k - q >= 1
  <2>1. p * (k - q) >= p
    BY <1>3, MultipleIsLarge
  <2> QED
    BY <1>1, <2>1
<1>4. CASE q = k
  BY <1>1, <1>4
<1> QED
  BY <1>2, <1>3, <1>4

\* The offset may be kept up to date by adding what each read returned.
LEMMA RestOfSum ==
    ASSUME NEW p \in Nat \ {0}, NEW a \in Nat, NEW n \in Nat
    PROVE  ((a % p) + n) % p = (a + n) % p
<1> DEFINE b == (a % p) + n
           x == a \div p
           y == b \div p
           z == (a + n) \div p
<1>1. b \in Nat /\ a + n \in Nat /\ a % p \in Nat
  BY Quotient
<1>2. b = p * y + (b % p) /\ y \in Int /\ b % p \in 0 .. (p - 1)
  BY <1>1, Quotient
<1>3. a + n = p * z + ((a + n) % p) /\ z \in Int /\ (a + n) % p \in 0 .. (p - 1)
  BY <1>1, Quotient
<1>4. p * x + b = a + n /\ x \in Int
  BY <1>1, Quotient
<1>5. p * (x + y) = p * x + p * y /\ x + y \in Int
  BY <1>2, <1>4
<1>6. p * (x + y) + (b % p) = p * z + ((a + n) % p)
  BY <1>1, <1>2, <1>3, <1>4, <1>5
<1>7. b % p = (a + n) % p
  <2> HIDE DEF b, x, y, z
  <2> QED
    BY <1>2, <1>3, <1>5, <1>6, RestIsUnique
<1> QED
  BY <1>7

LEMMA RestOfMultiple ==
    ASSUME NEW p \in Nat \ {0}, NEW n \in Nat
    PROVE  n * p \in Nat /\ (n * p) % p = 0
<1>1. n * p \in Nat
  OBVIOUS
<1>2. /\ n * p = p * ((n * p) \div p) + ((n * p) % p)
      /\ (n * p) \div p \in Int /\ (n * p) % p \in 0 .. (p - 1)
  BY <1>1, Quotient
<1>3. p * n + 0 = p * ((n * p) \div p) + ((n * p) % p)
  BY <1>2
<1> QED
  BY <1>1, <1>2, <1>3, RestIsUnique

\* What a read asks for is a number of frames, and at least one.
LEMMA WantIsFrames == Want \in Nat /\ Want % Parts = 0 /\ Parts <= Want
<1>1. Parts \in Nat \ {0} /\ Period \in Nat /\ Period >= 1
  BY StreamAssumption
<1>2. Period * Parts >= Parts
  BY <1>1
<1> QED
  BY <1>1, <1>2, RestOfMultiple DEF Want

\* One read() of the NetBSD loop: the offset stays what was read modulo a frame.
LEMMA ReadSomeKeepsStream ==
    ASSUME StreamInv, NEW n \in 1 .. MaxAvailable, ReadSome(n)
    PROVE  StreamInv'
<1>1. /\ Parts \in Nat \ {0} /\ MaxAvailable \in Nat /\ Want \in Nat
      /\ n \in Nat /\ n >= 1 /\ got \in Nat /\ available \in Nat
      /\ n <= available /\ got + n <= Want
  BY StreamAssumption, WantIsFrames DEF StreamInv, ReadSome
<1>2. offset' = got' % Parts /\ got' = got + n
  <2>1. offset = got % Parts /\ offset' = (offset + n) % Parts /\ got' = got + n
    BY DEF StreamInv, ReadSome
  <2>2. ((got % Parts) + n) % Parts = (got + n) % Parts
    BY <1>1, RestOfSum
  <2> QED
    BY <2>1, <2>2
<1>3. offset' \in 0 .. (Parts - 1)
  BY <1>1, <1>2, Quotient
<1>4. available' \in 0 .. MaxAvailable /\ got' \in 0 .. Want /\ got' > 0
  BY <1>1 DEF StreamInv, ReadSome
<1>5. pc' = "model" => got' % Parts = 0
  BY <1>2, WantIsFrames DEF ReadSome, Enough
<1> QED
  BY <1>2, <1>3, <1>4, <1>5 DEF StreamInv, ReadSome

\* readi() returns whole frames.
LEMMA ReadFramesKeepsStream ==
    ASSUME StreamInv, NEW n \in 1 .. MaxAvailable, ReadFrames(n)
    PROVE  StreamInv'
<1>1. /\ Parts \in Nat \ {0} /\ MaxAvailable \in Nat /\ Period \in Nat
      /\ n \in Nat /\ n >= 1 /\ n <= Period /\ available \in Nat
  BY StreamAssumption DEF StreamInv, ReadFrames
<1>2. n * Parts \in Nat /\ (n * Parts) % Parts = 0
  BY <1>1, RestOfMultiple
<1>3. n * Parts >= 1 /\ n * Parts <= Period * Parts
  BY <1>1
<1>4. got' \in 0 .. Want /\ got' > 0 /\ got' % Parts = 0
  BY <1>2, <1>3, WantIsFrames DEF ReadFrames, Want
<1>5. available' \in 0 .. MaxAvailable
  BY <1>1, <1>2 DEF StreamInv, ReadFrames
<1> QED
  BY <1>4, <1>5 DEF StreamInv, ReadFrames

\* Only a read moves the stream; what starts one starts at the beginning of a frame.
LEMMA OthersKeepStream ==
    ASSUME StreamInv, [Next]_vars, ~ReadFully
    PROVE  StreamInv'
<1> USE StreamAssumption, WantIsFrames
<1>0. 0 % Parts = 0 /\ 0 \in 0 .. (Parts - 1)
  OBVIOUS
<1>1. CASE Startup
  <2>1. CASE Start
    BY <2>1, <1>0 DEF Start, StreamInv, stream
  <2>2. CASE FirstUnlock \/ PresetDone
    BY <2>2 DEF FirstUnlock, PresetDone, StreamInv, stream
  <2>3. ASSUME NEW s \in Speakers, Preset(s)
        PROVE  StreamInv'
    BY <2>3 DEF Preset, StreamInv, stream
  <2> QED
    BY <1>1, <2>1, <2>2, <2>3 DEF Startup
<1>2. CASE Read \/ ReadSuspended \/ ReadInterrupted
  BY <1>0, <1>2 DEF Read, ReadSuspended, ReadInterrupted, StreamInv, stream
<1>3. CASE Limit
  <2>1. CASE RunModel \/ Renew
    BY <2>1 DEF RunModel, Renew, StreamInv, stream
  <2>2. ASSUME NEW g \in Groups, SkipGroup(g)
        PROVE  StreamInv'
    BY <2>2 DEF SkipGroup, StreamInv, stream
  <2>3. ASSUME NEW s \in Speakers, NEW n \in Gains, UpdateSpeaker(s, n)
        PROVE  StreamInv'
    BY <2>3 DEF UpdateSpeaker, StreamInv, stream
  <2> QED
    BY <1>3, <2>1, <2>2, <2>3 DEF Limit
<1>4. CASE Die \/ Tick \/ Reboot
  BY <1>4 DEF Die, Tick, Reboot, StreamInv, stream
<1>5. CASE Capture
  BY <1>5 DEF Capture, StreamInv
<1>6. CASE UNCHANGED vars
  BY <1>6 DEF vars, StreamInv, stream
<1> QED
  BY <1>1, <1>2, <1>3, <1>4, <1>5, <1>6 DEF Next, Sense

\* StreamInv: where in the loop a period is partly read, and how much of it.
THEOREM StreamInvariant == Spec => []StreamInv
<1>1. Init => StreamInv
  <2>1. 0 \in 0 .. Want /\ 0 \in 0 .. (Parts - 1) /\ 0 \in 0 .. MaxAvailable
    BY StreamAssumption, WantIsFrames
  <2> QED
    BY <2>1 DEF Init, StreamInv
<1>2. ASSUME StreamInv, [Next]_vars
      PROVE  StreamInv'
  <2>1. ASSUME NEW n \in 1 .. MaxAvailable, ReadSome(n) \/ ReadFrames(n)
        PROVE  StreamInv'
    BY <1>2, <2>1, ReadSomeKeepsStream, ReadFramesKeepsStream
  <2> QED
    BY <1>2, <2>1, OthersKeepStream DEF ReadFully
<1> QED
  BY <1>1, <1>2, PTL DEF Spec

\* For any size of frame and any period, and however the reads are cut up, the model
\* is given whole frames and the stream stands at the beginning of one.
THEOREM SamplesInStep == Spec => []WholeFrames
<1>1. StreamInv => WholeFrames
  BY DEF StreamInv, WholeFrames
<1> QED
  BY <1>1, StreamInvariant, PTL

\* All the variables keep their types.
THEOREM TypeCorrect == Spec => []TypeOK
<1>1. GainTypes /\ StreamInv => TypeOK
  BY DEF GainTypes, StreamInv, TypeOK
<1> QED
  BY <1>1, GainTypeCorrect, StreamInvariant, PTL
=============================================================================
