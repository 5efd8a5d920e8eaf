----------------------------- MODULE TargetLock -----------------------------
(***************************************************************************)
(* reid_node: whom the cart follows.  A person is chosen by hand or as the *)
(* nearest one, registered by features of pictures taken for a while, and  *)
(* then followed by the number of the track.  When that is lost, the track *)
(* that looks like the features is taken, after it did so in several       *)
(* frames in a row.                                                        *)
(*                                                                         *)
(* Looks are the environment's choice: any track of the frame may be the   *)
(* nearest, any may be taken for the target, any picture may be unfit.     *)
(* Before the first picture nothing is chosen and nothing fits.            *)
(***************************************************************************)
EXTENDS Naturals, Sequences, FiniteSets

CONSTANTS
    Tracks, NoTrack,
    People, Owner,   \* who is behind a track
    StableFrames,    \* auto_select_stable_frames
    ConfirmFrames,   \* recovery_confirm_frames
    MaxFeatures,     \* memory_bank_max_features
    Registration,    \* registration_duration_sec, in clock ticks
    Pause,           \* post_recovery_update_delay_sec, in clock ticks
    MaxMixups        \* frames in which the tracker mixes up its tracks

ASSUME LockAssumption ==
    /\ NoTrack \notin Tracks /\ Owner \in [Tracks -> People]
    /\ {StableFrames, ConfirmFrames, MaxFeatures, Pause} \subseteq Nat \ {0}
    /\ Registration \in Nat /\ MaxMixups \in Nat

VARIABLES
    state, target,
    tracked,         \* _current_track_ids, which nobody reads but to choose one
    bank,            \* whose features the memory bank holds, the oldest first
    selection,       \* _auto_select_stabilizer
    recovery,        \* _recovery_stabilizer
    registering,     \* ticks since _registration_started_at
    paused,          \* ticks to _feature_update_paused_until
    target_person,   \* a message for the control node
    streak,          \* history: how often in a row each track was taken for the lost target
    locked,          \* history: ticks since the target was found again, at most Pause
    trusted,         \* history: who was chosen, or followed for Pause ticks at a stretch
    mistaken,        \* history: whose picture went under the number of the target
    mixups

lockHistory == <<streak, locked, trusted, mistaken, mixups>>
lockVars == <<state, target, tracked, bank, selection, recovery, registering, paused,
              target_person, lockHistory>>

NoWatch == [track |-> NoTrack, count |-> 0]
NoStreak == [t \in Tracks |-> 0]

LockReset ==
    /\ state' = "WAITING_SELECTION" /\ target' = NoTrack /\ bank' = << >>
    /\ selection' = NoWatch /\ recovery' = NoWatch
    /\ registering' = 0 /\ paused' = 0

LockInit ==
    /\ state = "WAITING_SELECTION" /\ target = NoTrack /\ tracked = {} /\ bank = << >>
    /\ selection = NoWatch /\ recovery = NoWatch
    /\ registering = 0 /\ paused = 0 /\ target_person = FALSE
    /\ streak = NoStreak /\ locked = 0 /\ trusted = {} /\ mistaken = {} /\ mixups = 0

\* The boxes of a frame: the person in the box of each track.  ByteTrack swaps
\* tracks when people cross; and _detection_callback gives the numbers to the boxes
\* in order, one too far when an earlier box has none.
Frames == {f \in UNION {[T -> People] : T \in SUBSET Tracks} :
               \A s, t \in DOMAIN f : f[s] = f[t] => s = t}
Aligned(f) == \A t \in DOMAIN f : f[t] = Owner[t]

\* AutoSelectStabilizer.observe
Observe(watch, t) ==
    IF t = NoTrack THEN NoWatch
    ELSE [track |-> t, count |-> IF t = watch.track THEN watch.count + 1 ELSE 1]

-----------------------------------------------------------------------------
\* _start_memory_bank_initialization
Register(t) ==
    /\ target' = t /\ registering' = 0 /\ bank' = << >> /\ state' = "INITIALIZING"
    /\ trusted' = {Owner[t]} /\ mistaken' = {}

\* _select_callback: the track may have gone since.  A choice that is not one of the
\* tracks, or comes when one has been chosen, changes nothing.
Select(t) ==
    /\ state = "WAITING_SELECTION" /\ t \in tracked
    /\ Register(t)
    /\ tracked' = {}
    /\ UNCHANGED <<selection, recovery, paused, target_person, streak, locked, mixups>>

\* _try_auto_select with the nearest track of those that fit.
TryAutoSelect(f) ==
    /\ state = "WAITING_SELECTION"
    /\ \E nearest \in DOMAIN f \cup {NoTrack} :
         LET watch == Observe(selection, nearest) IN
         IF watch.count >= StableFrames
         THEN Register(nearest) /\ selection' = NoWatch
         ELSE /\ selection' = watch
              /\ UNCHANGED <<state, target, bank, registering, trusted, mistaken>>
    /\ UNCHANGED <<recovery, paused, target_person, streak, locked>>

\* Mutant of AddFeature: there is no pause.
AddAnyFeature(f) ==
    \/ UNCHANGED <<bank, mistaken>>
    \/ /\ target \in DOMAIN f
       /\ bank' = LET all == Append(bank, f[target])
                  IN SubSeq(all, IF Len(all) > MaxFeatures THEN 2 ELSE 1, Len(all))
       /\ mistaken' = mistaken \cup ({f[target]} \ {Owner[target]})

\* _add_target_feature, from a picture that fits and after the sampling interval.
AddFeature(f) ==
    \/ UNCHANGED <<bank, mistaken>>
    \/ /\ target \in DOMAIN f /\ paused = 0
       /\ bank' = LET all == Append(bank, f[target])
                  IN SubSeq(all, IF Len(all) > MaxFeatures THEN 2 ELSE 1, Len(all))
       /\ mistaken' = mistaken \cup ({f[target]} \ {Owner[target]})

\* _handle_initializing: a registration without a feature starts all over.
Initialize(f) ==
    /\ state = "INITIALIZING"
    /\ IF registering < Registration
       THEN AddFeature(f) /\ UNCHANGED <<state, target, selection, recovery, registering, paused>>
       ELSE \/ /\ AddFeature(f) /\ bank' # << >>
               /\ state' = "TRACKING"
               /\ UNCHANGED <<target, selection, recovery, registering, paused>>
            \/ bank = << >> /\ LockReset /\ UNCHANGED mistaken
    /\ UNCHANGED <<target_person, streak, locked, trusted>>

\* Mutant of FollowTarget: the frames counted before are not forgotten.
FollowCounting(f, listens) ==
    /\ state = "TRACKING" /\ target \in DOMAIN f
    /\ AddFeature(f)
    /\ target_person' = listens
    /\ streak' = NoStreak
    /\ UNCHANGED <<state, target, selection, recovery, registering, paused, locked, trusted>>

\* _handle_tracking with the target in the frame.
FollowTarget(f, listens) ==
    /\ state = "TRACKING" /\ target \in DOMAIN f
    /\ recovery' = NoWatch
    /\ AddFeature(f)
    /\ target_person' = listens
    /\ streak' = NoStreak
    /\ UNCHANGED <<state, target, selection, registering, paused, locked, trusted>>

\* _handle_tracking without it: _recover_target takes a track for it, or none.
RecoverTarget(f, listens) ==
    /\ state = "TRACKING" /\ target \notin DOMAIN f
    /\ \E taken \in DOMAIN f \cup {NoTrack} :
         LET watch == Observe(recovery, taken) IN
         /\ streak' = [t \in Tracks |-> IF t # taken THEN 0
                                        ELSE IF streak[t] < ConfirmFrames THEN streak[t] + 1
                                        ELSE ConfirmFrames]
         /\ IF watch.count >= ConfirmFrames
            THEN /\ recovery' = NoWatch /\ target' = taken /\ paused' = Pause
                 /\ target_person' = listens
                 /\ locked' = 0
            ELSE recovery' = watch /\ UNCHANGED <<target, paused, target_person, locked>>
    /\ UNCHANGED <<state, bank, selection, registering, trusted, mistaken>>

\* _tracks_callback.  No frame without a target tells the control node that it is lost.
TracksCallback(f, listens) ==
    /\ Aligned(f) \/ mixups < MaxMixups
    /\ mixups' = IF Aligned(f) THEN mixups ELSE mixups + 1
    /\ TryAutoSelect(f) \/ Initialize(f) \/ FollowTarget(f, listens) \/ RecoverTarget(f, listens)
    /\ tracked' = IF state' = "WAITING_SELECTION" THEN DOMAIN f ELSE {}

\* The node starts again and knows nobody.
LockRestart ==
    /\ LockReset
    /\ tracked' = {} /\ streak' = NoStreak /\ locked' = 0 /\ trusted' = {} /\ mistaken' = {}
    /\ UNCHANGED <<target_person, mixups>>

LockElapse ==
    /\ registering' = IF state = "INITIALIZING" /\ registering < Registration
                      THEN registering + 1 ELSE registering
    /\ paused' = IF paused > 0 THEN paused - 1 ELSE 0
    /\ locked' = IF locked < Pause THEN locked + 1 ELSE Pause
    /\ trusted' = IF locked' = Pause /\ target # NoTrack THEN trusted \cup {Owner[target]}
                  ELSE trusted
    /\ UNCHANGED <<state, target, tracked, bank, selection, recovery, target_person,
                   streak, mistaken, mixups>>

-----------------------------------------------------------------------------
LockTypeOK ==
    /\ state \in {"WAITING_SELECTION", "INITIALIZING", "TRACKING"}
    /\ target \in Tracks \cup {NoTrack} /\ tracked \subseteq Tracks
    /\ bank \in Seq(People) /\ Len(bank) <= MaxFeatures
    /\ state = "TRACKING" => target # NoTrack /\ bank # << >>
    /\ paused \in 0 .. Pause /\ registering \in 0 .. Registration

\* The cart turns from one track to another only when that has been taken for its
\* target in ConfirmFrames frames in a row, with the target in none of them, however
\* often both came and went before.
SwitchIsConfirmed ==
    [][state = "TRACKING" /\ target' \notin {target, NoTrack}
         => streak'[target'] = ConfirmFrames]_lockVars

\* Somebody who is followed by mistake for less than the pause leaves nothing in the
\* memory bank: it holds features of the person who was chosen and of those who were
\* followed for longer, unless the tracker has mixed up its tracks.
BriefMistakeLeavesNoTrace ==
    \A i \in 1 .. Len(bank) : bank[i] \in trusted \cup mistaken
=============================================================================
