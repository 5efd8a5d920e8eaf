---------------------------- MODULE PersonFollow ----------------------------
(***************************************************************************)
(* From the frames of the camera to the velocity on the serial line, with  *)
(* legacy_control: reid_node, control_node and stm_serial_bridge.  Nobody  *)
(* says that the target is lost, its messages just end, so the cart is     *)
(* stopped by the timeouts of the two nodes; each of the others may die.   *)
(*                                                                         *)
(* The clock ticks when the control loop of a node that lives has run and  *)
(* the message that waits has been taken: a tick is longer than both.      *)
(***************************************************************************)
EXTENDS TargetLock

CONSTANTS
    TargetTimeout,   \* target_timeout_sec, in clock ticks
    CmdTimeout,      \* cmd_vel_timeout_sec, in clock ticks
    Velocity, Zero

ASSUME FollowAssumption == {TargetTimeout, CmdTimeout} \subseteq Nat \ {0} /\ Zero \in Velocity

VARIABLES
    controls,        \* control_node runs
    detected,
    target_age,      \* ticks since last_target_time, at most TargetTimeout + 1
    looped,          \* the control loop has run since the last tick
    running, latest, cmd_age, fault,   \* SerialBridge
    unseen           \* history: ticks since the last frame with the target

Bridge == INSTANCE SerialBridge WITH Cause <- {}

controlVars == <<controls, detected, target_age, looped>>
nodeVars == <<running, latest, cmd_age, fault>>
followVars == <<lockVars, controlVars, nodeVars, unseen>>

\* What the two timeouts leave.
Blind == TargetTimeout + CmdTimeout

FollowInit ==
    /\ LockInit
    /\ controls = TRUE /\ detected = FALSE /\ target_age = 0 /\ looped = FALSE
    /\ running = TRUE /\ latest = Zero /\ cmd_age = CmdTimeout /\ fault = "NONE"
    /\ unseen = Blind

Frame(f) ==
    /\ TracksCallback(f, controls)
    /\ unseen' = IF state = "TRACKING" /\ target' \in DOMAIN f THEN 0 ELSE unseen
    /\ UNCHANGED <<controlVars, nodeVars>>

Choose(t) == Select(t) /\ UNCHANGED <<controlVars, nodeVars, unseen>>

ReidRestarts == LockRestart /\ UNCHANGED <<controlVars, nodeVars, unseen>>

\* target_callback
TargetCallback ==
    /\ controls /\ target_person
    /\ target_person' = FALSE
    /\ detected' = TRUE /\ target_age' = 0
    /\ UNCHANGED <<state, target, tracked, bank, selection, recovery, registering, paused,
                   lockHistory, controls, looped, nodeVars, unseen>>

\* Mutant of Steer: a target that was detected once is detected.
SteerDetected(v) == detected \/ v = Zero

\* What the control loop may publish.  Its speed is that of the PID and of the range
\* that the last scan has in the direction of the target, however old the scan.
Steer(v) == (detected /\ target_age <= TargetTimeout) \/ v = Zero

\* control_loop, and the bridge takes what it publishes.
ControlLoop ==
    /\ controls /\ ~looped /\ looped' = TRUE
    /\ \E v \in Velocity : Steer(v) /\ Bridge!CmdVel(v)
    /\ UNCHANGED <<lockVars, controls, detected, target_age, unseen>>

ControlDies ==
    /\ controls /\ controls' = FALSE
    /\ target_person' = FALSE
    /\ UNCHANGED <<state, target, tracked, bank, selection, recovery, registering, paused,
                   lockHistory, detected, target_age, looped, nodeVars, unseen>>

ControlStarts ==
    /\ ~controls /\ controls' = TRUE
    /\ detected' = FALSE /\ target_age' = 0 /\ looped' = FALSE
    /\ UNCHANGED <<lockVars, nodeVars, unseen>>

Tick ==
    /\ controls => (looped /\ ~target_person)
    /\ looped' = FALSE
    /\ target_age' = IF target_age <= TargetTimeout THEN target_age + 1 ELSE target_age
    /\ unseen' = IF unseen < Blind THEN unseen + 1 ELSE Blind
    /\ LockElapse /\ Bridge!Elapse
    /\ UNCHANGED <<controls, detected>>

FollowNext ==
    \/ \E f \in Frames : Frame(f)
    \/ \E t \in Tracks : Choose(t)
    \/ ReidRestarts \/ TargetCallback \/ ControlLoop \/ ControlDies \/ ControlStarts \/ Tick

FollowSpec == FollowInit /\ [][FollowNext]_followVars

-----------------------------------------------------------------------------
FollowTypeOK ==
    /\ LockTypeOK /\ Bridge!BridgeTypeOK
    /\ {controls, detected, looped, target_person} \subseteq BOOLEAN
    /\ target_age \in 0 .. TargetTimeout + 1 /\ unseen \in 0 .. Blind

\* The cart does not drive on without seeing its target for longer than the two
\* timeouts, whichever of the nodes before the bridge has died, come back or fallen
\* silent meanwhile.
BlindDriveIsBounded == unseen >= Blind => Bridge!Selected = Zero
=============================================================================
