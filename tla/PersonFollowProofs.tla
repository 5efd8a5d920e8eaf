------------------------- MODULE PersonFollowProofs -------------------------
(* Theorems about PersonFollow, for every set of tracks and people, and    *)
(* every timeout, pause and number of frames.                              *)
EXTENDS PersonFollow, SequenceTheorems, TLAPS

-----------------------------------------------------------------------------
(* The control node and the bridge: how long the cart drives blind. *)

\* A message that waits, a target that counts as detected and a velocity that counts
\* as fresh each bound the time since the target was seen.
Sight ==
    /\ unseen \in Nat /\ target_age \in Nat /\ cmd_age \in Nat
    /\ controls \in BOOLEAN /\ detected \in BOOLEAN
    /\ target_person \in BOOLEAN
    /\ target_person => controls /\ unseen = 0
    /\ detected /\ target_age <= TargetTimeout => unseen <= target_age
    /\ latest # Zero /\ cmd_age < CmdTimeout => unseen <= TargetTimeout + cmd_age

LEMMA Timeouts == TargetTimeout \in Nat \ {0} /\ CmdTimeout \in Nat \ {0}
BY FollowAssumption

\* What a frame does to the message and to the time since the target was seen.
LEMMA FrameSees ==
    ASSUME NEW f \in Frames, Frame(f), Sight
    PROVE  /\ UNCHANGED <<controlVars, nodeVars>>
           /\ unseen' \in {0, unseen}
           /\ \/ target_person' = target_person
              \/ target_person' = controls /\ unseen' = 0
<1> USE DEF Frame, TracksCallback
<1>1. CASE TryAutoSelect(f)
  BY <1>1 DEF TryAutoSelect
<1>2. CASE Initialize(f)
  BY <1>2 DEF Initialize
<1>3. CASE FollowTarget(f, controls)
  BY <1>3 DEF FollowTarget
<1>4. CASE RecoverTarget(f, controls)
  <2>1. PICK taken \in DOMAIN f \cup {NoTrack} :
          \/ /\ target' = taken /\ target_person' = controls
             /\ Observe(recovery, taken).count >= ConfirmFrames
          \/ UNCHANGED <<target, target_person>>
    BY <1>4 DEF RecoverTarget
  <2>2. CASE UNCHANGED <<target, target_person>>
    BY <2>2
  <2>3. CASE target' = taken /\ target_person' = controls
               /\ Observe(recovery, taken).count >= ConfirmFrames
    <3>1. taken # NoTrack
      BY <2>3, LockAssumption DEF Observe, NoWatch
    <3>2. state = "TRACKING" /\ target' \in DOMAIN f
      BY <1>4, <2>3, <3>1 DEF RecoverTarget
    <3> QED BY <2>3, <3>2
  <2> QED BY <2>1, <2>2, <2>3
<1> QED BY <1>1, <1>2, <1>3, <1>4

LEMMA SightInductive == Sight /\ [FollowNext]_followVars => Sight'
<1> SUFFICES ASSUME Sight, [FollowNext]_followVars PROVE Sight'
  OBVIOUS
<1> USE Timeouts DEF Sight, controlVars, nodeVars
<1>1. ASSUME NEW f \in Frames, Frame(f) PROVE Sight'
  BY <1>1, FrameSees
<1>2. ASSUME NEW t \in Tracks, Choose(t) PROVE Sight'
  BY <1>2 DEF Choose, Select
<1>3. CASE ReidRestarts
  BY <1>3 DEF ReidRestarts, LockRestart
<1>4. CASE TargetCallback
  <2>1. unseen' = 0 /\ target_age' = 0 /\ UNCHANGED <<controls, latest, cmd_age>>
    BY <1>4 DEF TargetCallback
  <2>2. ~target_person' /\ detected' \in BOOLEAN /\ target_person' \in BOOLEAN
    BY <1>4 DEF TargetCallback
  <2> QED BY <2>1, <2>2
<1>5. CASE ControlLoop
  BY <1>5 DEF ControlLoop, Steer, Bridge!CmdVel, lockVars
<1>6. CASE ControlDies
  BY <1>6 DEF ControlDies
<1>7. CASE ControlStarts
  BY <1>7 DEF ControlStarts, lockVars
<1>8. CASE Tick
  BY <1>8 DEF Tick, Bridge!Elapse, LockElapse, Blind
<1>9. CASE UNCHANGED followVars
  BY <1>9 DEF followVars, lockVars
<1> QED BY <1>1, <1>2, <1>3, <1>4, <1>5, <1>6, <1>7, <1>8, <1>9 DEF FollowNext

\* The cart stands still when it has not seen its target for the two timeouts together
\* (control_node._target_is_stale, select_wheel_command).
THEOREM BlindDrive == FollowSpec => []BlindDriveIsBounded
<1>1. FollowInit => Sight
  <2> SUFFICES ASSUME FollowInit PROVE Sight
    OBVIOUS
  <2>1. /\ unseen = TargetTimeout + CmdTimeout /\ target_age = 0 /\ cmd_age = CmdTimeout
        /\ controls = TRUE /\ detected = FALSE /\ target_person = FALSE
    BY DEF FollowInit, LockInit, Blind
  <2>2. /\ controls \in BOOLEAN /\ detected \in BOOLEAN /\ target_person \in BOOLEAN
        /\ ~detected /\ ~target_person
    BY <2>1
  <2> QED BY <2>1, <2>2, Timeouts DEF Sight
<1>2. Sight => BlindDriveIsBounded
  BY Timeouts DEF Sight, BlindDriveIsBounded, Bridge!Selected, Blind
<1> QED BY <1>1, <1>2, SightInductive, PTL DEF FollowSpec

-----------------------------------------------------------------------------
(* The lock: who is followed, and whose features are kept. *)

LEMMA FrameTracks ==
    ASSUME NEW f \in Frames
    PROVE  DOMAIN f \subseteq Tracks /\ \A t \in DOMAIN f : t # NoTrack /\ f[t] \in People
BY LockAssumption DEF Frames

LEMMA Bounds ==
    /\ StableFrames \in Nat \ {0} /\ ConfirmFrames \in Nat \ {0} /\ MaxFeatures \in Nat \ {0}
    /\ Pause \in Nat \ {0} /\ Registration \in Nat
BY LockAssumption

\* The bank stays within its bound, and what is new in it is a picture of the target.
LEMMA FeatureAdded ==
    ASSUME NEW f \in Frames, AddFeature(f), bank \in Seq(People), Len(bank) <= MaxFeatures
    PROVE  /\ bank' \in Seq(People) /\ Len(bank') <= MaxFeatures
           /\ bank # << >> => bank' # << >>
           /\ \A i \in 1 .. Len(bank') :
                 \/ \E j \in 1 .. Len(bank) : bank'[i] = bank[j]
                 \/ target \in DOMAIN f /\ paused = 0 /\ bank'[i] = f[target]
                      /\ f[target] \in mistaken' \cup {Owner[target]}
           /\ mistaken \subseteq mistaken'
<1>1. CASE UNCHANGED <<bank, mistaken>>
  BY <1>1
<1>2. CASE ~UNCHANGED <<bank, mistaken>>
  <2> DEFINE all == Append(bank, f[target])
             from == IF Len(all) > MaxFeatures THEN 2 ELSE 1
  <2>1. /\ target \in DOMAIN f /\ paused = 0 /\ bank' = SubSeq(all, from, Len(all))
        /\ mistaken' = mistaken \cup ({f[target]} \ {Owner[target]})
    BY <1>2 DEF AddFeature
  <2>2. f[target] \in People
    BY <2>1, FrameTracks
  <2>3. /\ all \in Seq(People) /\ Len(all) = Len(bank) + 1 /\ all[Len(all)] = f[target]
        /\ \A i \in 1 .. Len(bank) : all[i] = bank[i]
    BY <2>2
  <2>4. /\ bank' \in Seq(People) /\ Len(bank') = Len(all) - from + 1
        /\ \A i \in 1 .. Len(bank') : bank'[i] = all[from + i - 1]
    <3>1. from \in 1 .. Len(all) + 1 /\ Len(all) \in from - 1 .. Len(all)
      BY <2>3, Bounds
    <3> HIDE DEF all, from
    <3> QED BY <2>1, <2>3, <3>1, SubSeqProperties
  <2>5. Len(bank') >= 1 /\ Len(bank') <= MaxFeatures
    BY <2>3, <2>4, Bounds
  <2>6. bank' # << >>
    BY <2>5
  <2>7. ASSUME NEW i \in 1 .. Len(bank')
        PROVE (\E j \in 1 .. Len(bank) : bank'[i] = bank[j]) \/ bank'[i] = f[target]
    <3>1. from + i - 1 \in 1 .. Len(all) /\ bank'[i] = all[from + i - 1]
      BY <2>3, <2>4, Bounds
    <3>2. CASE from + i - 1 = Len(all)
      BY <3>1, <3>2, <2>3
    <3>3. CASE from + i - 1 # Len(all)
      <4>1. from + i - 1 \in 1 .. Len(bank)
        BY <3>1, <3>3, <2>3
      <4> QED BY <4>1, <3>1, <2>3
    <3> QED BY <3>2, <3>3
  <2>8. mistaken \subseteq mistaken' /\ f[target] \in mistaken' \cup {Owner[target]}
    BY <2>1
  <2> QED BY <2>1, <2>4, <2>5, <2>6, <2>7, <2>8
<1> QED BY <1>1, <1>2

\* A target that is not trusted is in its pause: the history and the clock of the
\* node run together.
Trust ==
    /\ locked \in 0 .. Pause
    /\ target # NoTrack /\ Owner[target] \notin trusted
         => locked < Pause /\ paused + locked = Pause
    /\ state # "WAITING_SELECTION" => target # NoTrack
    /\ BriefMistakeLeavesNoTrace

LockOK == LockTypeOK /\ Trust

LEMMA FeatureKeepsLock ==
    ASSUME LockOK, NEW f \in Frames, AddFeature(f), tracked' \subseteq Tracks,
           UNCHANGED <<target, registering, paused, locked, trusted>>,
           \/ state' = state
           \/ state = "INITIALIZING" /\ state' = "TRACKING" /\ bank' # << >>
    PROVE  LockOK'
<1> USE DEF LockOK, LockTypeOK, Trust
<1>1. \A i \in 1 .. Len(bank') : bank'[i] \in trusted' \cup mistaken'
  <2> SUFFICES ASSUME NEW i \in 1 .. Len(bank') PROVE bank'[i] \in trusted' \cup mistaken'
    OBVIOUS
  <2>1. CASE \E j \in 1 .. Len(bank) : bank'[i] = bank[j]
    BY <2>1, FeatureAdded DEF BriefMistakeLeavesNoTrace
  <2>2. CASE /\ target \in DOMAIN f /\ paused = 0 /\ bank'[i] = f[target]
             /\ f[target] \in mistaken' \cup {Owner[target]}
    <3>1. target # NoTrack
      BY <2>2, FrameTracks
    <3>2. Owner[target] \in trusted
      BY <2>2, <3>1, Bounds
    <3> QED BY <2>2, <3>2
  <2> QED BY <2>1, <2>2, FeatureAdded
<1>2. LockTypeOK'
  BY FeatureAdded
<1> QED BY <1>1, <1>2 DEF BriefMistakeLeavesNoTrace

LEMMA FrameKeepsLock ==
    ASSUME LockOK, NEW f \in Frames, Frame(f) PROVE LockOK'
<1>1. tracked' \subseteq Tracks
  BY FrameTracks DEF Frame, TracksCallback
<1>2. CASE TryAutoSelect(f)
  <2>1. PICK nearest \in DOMAIN f \cup {NoTrack} :
          \/ Observe(selection, nearest).count >= StableFrames /\ Register(nearest)
          \/ UNCHANGED <<state, target, bank, registering, trusted, mistaken>>
    BY <1>2 DEF TryAutoSelect
  <2>2. UNCHANGED <<paused, locked>>
    BY <1>2 DEF TryAutoSelect
  <2>3. CASE UNCHANGED <<state, target, bank, registering, trusted, mistaken>>
    BY <1>1, <2>2, <2>3 DEF LockOK, LockTypeOK, Trust, BriefMistakeLeavesNoTrace
  <2>4. CASE Observe(selection, nearest).count >= StableFrames /\ Register(nearest)
    <3>1. nearest # NoTrack
      BY <2>4, Bounds DEF Observe, NoWatch
    <3>2. nearest \in Tracks
      BY <3>1, FrameTracks
    <3> QED BY <1>1, <2>2, <2>4, <3>1, <3>2, Bounds
           DEF Register, LockOK, LockTypeOK, Trust, BriefMistakeLeavesNoTrace
  <2> QED BY <2>1, <2>3, <2>4
<1>3. CASE Initialize(f)
  <2>1. UNCHANGED <<locked, trusted>>
    BY <1>3 DEF Initialize
  <2>2. CASE /\ AddFeature(f) /\ UNCHANGED <<target, registering, paused>>
             /\ \/ state' = state
                \/ state = "INITIALIZING" /\ state' = "TRACKING" /\ bank' # << >>
    <3>1. UNCHANGED <<target, registering, paused, locked, trusted>>
      BY <2>1, <2>2
    <3>2. AddFeature(f)
      BY <2>2
    <3> QED BY <1>1, <2>2, <3>1, <3>2, FeatureKeepsLock
  <2>3. CASE LockReset /\ UNCHANGED mistaken
    BY <1>1, <2>1, <2>3, Bounds
       DEF LockReset, LockOK, LockTypeOK, Trust, BriefMistakeLeavesNoTrace
  <2> QED BY <1>3, <2>2, <2>3 DEF Initialize
<1>4. CASE FollowTarget(f, controls)
  <2>1. AddFeature(f) /\ UNCHANGED <<state, target, registering, paused, locked, trusted>>
    BY <1>4 DEF FollowTarget
  <2>2. UNCHANGED <<target, registering, paused, locked, trusted>> /\ state' = state
    BY <2>1
  <2> QED BY <1>1, <2>1, <2>2, FeatureKeepsLock
<1>5. CASE RecoverTarget(f, controls)
  <2>1. PICK taken \in DOMAIN f \cup {NoTrack} :
          \/ /\ Observe(recovery, taken).count >= ConfirmFrames
             /\ target' = taken /\ paused' = Pause /\ locked' = 0
          \/ UNCHANGED <<target, paused, locked>>
    BY <1>5 DEF RecoverTarget
  <2>2. UNCHANGED <<state, bank, registering, trusted, mistaken>>
    BY <1>5 DEF RecoverTarget
  <2>3. CASE UNCHANGED <<target, paused, locked>>
    BY <1>1, <2>2, <2>3 DEF LockOK, LockTypeOK, Trust, BriefMistakeLeavesNoTrace
  <2>4. CASE /\ Observe(recovery, taken).count >= ConfirmFrames
             /\ target' = taken /\ paused' = Pause /\ locked' = 0
    <3>1. taken # NoTrack
      BY <2>4, Bounds DEF Observe, NoWatch
    <3>2. taken \in Tracks
      BY <3>1, FrameTracks
    <3> QED BY <1>1, <2>2, <2>4, <3>1, <3>2, Bounds DEF LockOK, LockTypeOK, Trust, BriefMistakeLeavesNoTrace
  <2> QED BY <2>1, <2>3, <2>4
<1> QED BY <1>2, <1>3, <1>4, <1>5 DEF Frame, TracksCallback

LEMMA LockInductive == LockOK /\ [FollowNext]_followVars => LockOK'
<1> SUFFICES ASSUME LockOK, [FollowNext]_followVars PROVE LockOK'
  OBVIOUS
<1> USE Bounds DEF LockOK, LockTypeOK, Trust, BriefMistakeLeavesNoTrace
<1>1. ASSUME NEW f \in Frames, Frame(f) PROVE LockOK'
  BY <1>1, FrameKeepsLock
<1>2. ASSUME NEW t \in Tracks, Choose(t) PROVE LockOK'
  BY <1>2, LockAssumption DEF Choose, Select, Register
<1>3. CASE ReidRestarts
  BY <1>3 DEF ReidRestarts, LockRestart, LockReset
<1>4. CASE Tick
  BY <1>4 DEF Tick, LockElapse
<1>5. CASE TargetCallback
  BY <1>5 DEF TargetCallback, lockHistory
<1>6. CASE ControlDies
  BY <1>6 DEF ControlDies, lockHistory
<1>7. CASE ControlLoop \/ ControlStarts \/ UNCHANGED followVars
  BY <1>7 DEF ControlLoop, ControlStarts, followVars, lockVars, lockHistory
<1> QED BY <1>1, <1>2, <1>3, <1>4, <1>5, <1>6, <1>7 DEF FollowNext

LEMMA LockInitially == FollowInit => LockOK
BY Bounds, LockAssumption
   DEF FollowInit, LockInit, LockOK, LockTypeOK, Trust, BriefMistakeLeavesNoTrace

\* The node has a target and features whenever it tracks, and its bank and its clocks
\* keep within their bounds (reid_node).
THEOREM LockTypes == FollowSpec => []LockTypeOK
<1>1. LockOK => LockTypeOK
  BY DEF LockOK
<1> QED BY <1>1, LockInitially, LockInductive, PTL DEF FollowSpec

\* A mistake that is shorter than the pause leaves nothing in the memory bank
\* (_feature_update_paused_until).
THEOREM BriefMistake == FollowSpec => []BriefMistakeLeavesNoTrace
<1>1. LockOK => BriefMistakeLeavesNoTrace
  BY DEF LockOK, Trust
<1> QED BY <1>1, LockInitially, LockInductive, PTL DEF FollowSpec

-----------------------------------------------------------------------------
(* The frames that are counted are frames in a row. *)

\* The stabilizer counts no more than the frames in which its track was taken for the
\* target since the target was seen.
Counted ==
    /\ recovery \in [track : Tracks \cup {NoTrack}, count : Nat]
    /\ streak \in [Tracks -> Nat]
    /\ recovery.track # NoTrack => recovery.count <= streak[recovery.track]
    /\ recovery.count < ConfirmFrames

LEMMA NothingCounted == ASSUME recovery' = NoWatch, streak' \in [Tracks -> Nat] PROVE Counted'
BY Bounds DEF Counted, NoWatch

\* A frame without the target: the count goes on, or it is full and so is the streak.
LEMMA RecoverCounts ==
    ASSUME Counted, NEW f \in Frames, NEW listens, RecoverTarget(f, listens)
    PROVE  Counted' /\ (target' # target => streak'[target'] = ConfirmFrames)
<1>1. PICK taken \in DOMAIN f \cup {NoTrack} :
        /\ streak' = [t \in Tracks |-> IF t # taken THEN 0
                                       ELSE IF streak[t] < ConfirmFrames THEN streak[t] + 1
                                       ELSE ConfirmFrames]
        /\ \/ /\ Observe(recovery, taken).count >= ConfirmFrames
              /\ recovery' = NoWatch /\ target' = taken
           \/ /\ Observe(recovery, taken).count < ConfirmFrames
              /\ recovery' = Observe(recovery, taken) /\ target' = target
  <2>1. \A t \in DOMAIN f \cup {NoTrack} : Observe(recovery, t).count \in Nat
    BY DEF Observe, NoWatch, Counted
  <2> QED BY <2>1, Bounds DEF RecoverTarget
<1>2. streak' \in [Tracks -> Nat]
  BY <1>1, Bounds DEF Counted
<1>3. CASE taken = NoTrack
  <2>1. Observe(recovery, taken) = NoWatch
    BY <1>3 DEF Observe
  <2>2. recovery' = NoWatch /\ target' = target
    BY <1>1, <2>1, Bounds DEF NoWatch
  <2> QED BY <1>2, <2>2, NothingCounted
<1>4. CASE taken # NoTrack
  <2>1. taken \in Tracks
    BY <1>4, FrameTracks
  <2> DEFINE n == Observe(recovery, taken).count
  <2>2. n \in Nat /\ Observe(recovery, taken) = [track |-> taken, count |-> n]
    BY <1>4 DEF Observe, Counted
  <2>3. n = 1 \/ (recovery.track = taken /\ n = recovery.count + 1)
    BY <1>4 DEF Observe
  <2>4. streak'[taken] = IF streak[taken] < ConfirmFrames THEN streak[taken] + 1
                         ELSE ConfirmFrames
    BY <1>1, <2>1
  <2>5. n >= ConfirmFrames => streak'[taken] = ConfirmFrames
    BY <1>4, <2>1, <2>3, <2>4, Bounds DEF Counted
  <2>6. n < ConfirmFrames => n <= streak'[taken]
    BY <1>4, <2>1, <2>3, <2>4, Bounds DEF Counted
  <2>7. CASE n >= ConfirmFrames
    <3>1. recovery' = NoWatch /\ target' = taken
      BY <1>1, <2>2, <2>7, Bounds
    <3> QED BY <1>2, <2>5, <2>7, <3>1, NothingCounted
  <2>8. CASE n < ConfirmFrames
    <3>1. recovery' = [track |-> taken, count |-> n] /\ target' = target
      BY <1>1, <2>2, <2>8, Bounds
    <3> QED BY <1>2, <2>1, <2>2, <2>6, <2>8, <3>1 DEF Counted
  <2> QED BY <2>2, <2>7, <2>8, Bounds
<1> QED BY <1>3, <1>4

\* What a step does to the count and to the target of a node that tracks.
LEMMA CountedStep ==
    Counted /\ [FollowNext]_followVars
      => /\ Counted'
         /\ (state = "TRACKING" /\ target' \notin {target, NoTrack}
               => streak'[target'] = ConfirmFrames)
<1> SUFFICES ASSUME Counted, [FollowNext]_followVars
             PROVE  /\ Counted'
                    /\ (state = "TRACKING" /\ target' \notin {target, NoTrack}
                          => streak'[target'] = ConfirmFrames)
  OBVIOUS
<1>1. ASSUME NEW f \in Frames, Frame(f)
      PROVE  /\ Counted'
             /\ (state = "TRACKING" /\ target' # target => streak'[target'] = ConfirmFrames)
  <2>1. CASE TryAutoSelect(f)
    BY <2>1 DEF TryAutoSelect, Counted
  <2>2. CASE Initialize(f)
    <3>1. state # "TRACKING" /\ streak' = streak /\ recovery' \in {recovery, NoWatch}
      BY <2>2 DEF Initialize, LockReset
    <3>2. streak' \in [Tracks -> Nat]
      BY <3>1 DEF Counted
    <3>3. recovery' = recovery => Counted'
      BY <3>1 DEF Counted
    <3> QED BY <3>1, <3>2, <3>3, NothingCounted
  <2>3. CASE FollowTarget(f, controls)
    <3>1. streak' \in [Tracks -> Nat]
      BY <2>3 DEF FollowTarget, NoStreak
    <3> QED BY <2>3, <3>1, NothingCounted DEF FollowTarget
  <2>4. CASE RecoverTarget(f, controls)
    BY <2>4, RecoverCounts
  <2> QED BY <1>1, <2>1, <2>2, <2>3, <2>4 DEF Frame, TracksCallback
<1>2. ASSUME NEW t \in Tracks, Choose(t) PROVE Counted' /\ state # "TRACKING"
  BY <1>2 DEF Choose, Select, Counted
<1>3. CASE ReidRestarts
  <2>1. recovery' = NoWatch /\ streak' = NoStreak /\ target' = NoTrack
    BY <1>3 DEF ReidRestarts, LockRestart, LockReset
  <2>2. streak' \in [Tracks -> Nat]
    BY <2>1 DEF NoStreak
  <2> QED BY <2>1, <2>2, NothingCounted
<1>4. CASE Tick
  BY <1>4 DEF Tick, LockElapse, Counted
<1>5. CASE TargetCallback \/ ControlDies
  BY <1>5 DEF TargetCallback, ControlDies, lockHistory, Counted
<1>6. CASE ControlLoop \/ ControlStarts \/ UNCHANGED followVars
  BY <1>6 DEF ControlLoop, ControlStarts, followVars, lockVars, lockHistory, Counted
<1> QED BY <1>1, <1>2, <1>3, <1>4, <1>5, <1>6 DEF FollowNext

\* The cart turns to another track only after that has been taken for its target in
\* ConfirmFrames frames in a row without the target (_handle_tracking,
\* AutoSelectStabilizer).
THEOREM SwitchConfirmed == FollowSpec => SwitchIsConfirmed
<1>1. FollowInit => Counted
  BY Bounds DEF FollowInit, LockInit, Counted, NoWatch, NoStreak
<1>2. Counted /\ [FollowNext]_followVars
        => [state = "TRACKING" /\ target' \notin {target, NoTrack}
              => streak'[target'] = ConfirmFrames]_lockVars
  BY CountedStep
<1>3. Counted /\ [FollowNext]_followVars => Counted'
  BY CountedStep
<1> QED BY <1>1, <1>2, <1>3, PTL DEF FollowSpec, SwitchIsConfirmed
=============================================================================
