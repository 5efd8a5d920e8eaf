----------------------------- MODULE DriveGuard -----------------------------
(***************************************************************************)
(* What the stop, motion and motor controllers promise together            *)
(* (stop_controller.h, motion_controller.h, motor.h): reasons to stop, a   *)
(* drive that runs only while there is none, and who may lift which.       *)
(* CartFirmware implements it.                                             *)
(***************************************************************************)

VARIABLES
    held,     \* the reasons to stop that are in force
    moving,   \* the drive is switched on, or a wheel is driven
    powered   \* the enable pins of the bridge are high

guardVars == <<held, moving, powered>>

Reasons    == {"OPERATIONAL", "LATCHED_SAFE", "EMERGENCY", "STALL"}
Liftable   == {"OPERATIONAL", "STALL"}
UntilReset == {"LATCHED_SAFE", "EMERGENCY"}

GuardInit == held = {} /\ moving = FALSE /\ powered = TRUE

\* A stop takes effect: the drive is off in the same step, ESTOP cuts the power.
StopFor(reasons) ==
    /\ held' = held \cup reasons
    /\ moving' = FALSE
    /\ powered' = (powered /\ "EMERGENCY" \notin reasons)

\* A velocity lifts an operational stop and RESET_STALL a stall, neither of them
\* under a latch; the drive stays as it is.
Lift(reason) ==
    /\ held \cap UntilReset = {}
    /\ held' = held \ {reason}
    /\ UNCHANGED <<moving, powered>>

Start == /\ held = {}
         /\ moving' = TRUE
         /\ UNCHANGED <<held, powered>>

Reset == held' = {} /\ moving' = FALSE /\ powered' = TRUE

GuardNext == \/ \E reasons \in (SUBSET Reasons) \ {{}} : StopFor(reasons)
             \/ \E reason \in Liftable : Lift(reason)
             \/ Start
             \/ Reset

GuardSpec == GuardInit /\ [][GuardNext]_guardVars
=============================================================================
