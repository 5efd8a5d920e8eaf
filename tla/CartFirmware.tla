---------------------------- MODULE CartFirmware ----------------------------
(***************************************************************************)
(* The STM32 wheel controller: the main loop of App_Run (Communication,    *)
(* AppEventQueue, StopController, MotionController, Motor) interleaved     *)
(* with the interrupts of the UART receiver, of button B1 and of SysTick.  *)
(* Every call of the loop that touches data shared with an interrupt is a  *)
(* step of its own, so an interrupt may fall between any two of them.      *)
(*                                                                         *)
(* A line stands for the bytes up to a '\n' in the receive ring.  The      *)
(* motor is one drive: `limited' is the velocity its speed profile follows *)
(* (module WheelDrive has the profile of each wheel) and `driven' says the *)
(* PWM duty is not 0.                                                      *)
(***************************************************************************)
EXTENDS EventQueue

CONSTANTS
    Timeout,      \* MOTION_CONTROLLER_COMM_TIMEOUT_MS, in clock ticks
    RxSize,       \* complete lines the receive ring can hold
    MaxArrivals,  \* lines and button presses that fall into one loop pass
    Cause         \* MotorStallCause_t without NONE: which wheel stalled, or both

ASSUME FirmwareAssumption == /\ Timeout \in Nat \ {0}
                             /\ RxSize \in Nat
                             /\ MaxArrivals \in Nat
                             /\ "NONE" \notin Cause

VARIABLES
    pc,         \* the call of App_Run that comes next
    arrivals,   \* inputs received in this pass (bounded by MaxArrivals)
    rx,         \* lines in the receive ring
    stop_requested,   \* the levels whose *_stop_requested flag is set
    stopped,          \* the levels whose *_stopped flag is set
    target, has_received_first_command, timeout_latched,
    age,        \* HAL_GetTick() - last_command_tick, at most Timeout
    enabled,    \* motor_speed_control_enabled
    requested,  \* motor_requested_*
    limited,    \* motor_limited_*
    driven,     \* a PWM duty is not 0
    bridge,     \* the BTS7960 enable pins are high
    stall_cause,
    lastInput,  \* history: the last of STOP and SET_WHEEL_VEL to be queued
    commanded   \* history: a SET_WHEEL_VEL was parsed since the last RESET_STALL

ioVars      == <<arrivals, rx>>
stopVars    == <<stop_requested, stopped>>
motionVars  == <<target, has_received_first_command, timeout_latched>>
motorVars   == <<enabled, requested, limited, driven, bridge, stall_cause>>
historyVars == <<lastInput, commanded>>

vars == <<pc, queue, ioVars, stopVars, motionVars, age,
          motorVars, historyVars>>

Calls == {"Communication", "Events", "Stop", "Motion", "Motor"}

Level == {"OPERATIONAL", "LATCHED_SAFE", "EMERGENCY"}
Latches == {"LATCHED_SAFE", "EMERGENCY"}

Line == [cmd : {"SET_WHEEL_VEL"}, vel : Velocity]
          \cup [cmd : {"STOP", "ESTOP", "RESET_STALL", "OTHER"}, vel : {Zero}]

-----------------------------------------------------------------------------
(* App_Init, which also clears everything after a reboot. *)

Init ==
    /\ pc = "Communication"
    /\ QueueInit
    /\ arrivals = 0 /\ rx = << >>
    /\ stop_requested = {} /\ stopped = {}
    /\ target = Zero /\ has_received_first_command = FALSE
    /\ timeout_latched = FALSE /\ age = 0
    /\ enabled = FALSE /\ requested = Zero /\ limited = Zero
    /\ driven = FALSE /\ bridge = TRUE /\ stall_cause = "NONE"
    /\ lastInput = "NONE" /\ commanded = FALSE

Reboot ==
    /\ pc' = "Communication"
    /\ queue' = << >>
    /\ arrivals' = 0 /\ rx' = << >>
    /\ stop_requested' = {} /\ stopped' = {}
    /\ target' = Zero /\ has_received_first_command' = FALSE
    /\ timeout_latched' = FALSE /\ age' = 0
    /\ enabled' = FALSE /\ requested' = Zero /\ limited' = Zero
    /\ driven' = FALSE /\ bridge' = TRUE /\ stall_cause' = "NONE"
    /\ lastInput' = "NONE" /\ commanded' = FALSE

-----------------------------------------------------------------------------
(* Interrupts. *)

\* HAL_UART_RxCpltCallback, up to the last byte of a line; a full ring loses it.
UartLine(l) ==
    /\ arrivals < MaxArrivals
    /\ arrivals' = arrivals + 1
    /\ rx' = IF Len(rx) < RxSize THEN Append(rx, l) ELSE rx
    /\ UNCHANGED <<pc, queue, stopVars, motionVars, age,
                   motorVars, historyVars>>

\* HAL_GPIO_EXTI_Callback.
B1Pressed ==
    /\ arrivals < MaxArrivals
    /\ arrivals' = arrivals + 1
    /\ Push(StopEvent("LATCHED_SAFE_STOP"))
    /\ UNCHANGED <<pc, rx, stopVars, motionVars, age,
                   motorVars, historyVars>>

SysTick ==
    /\ age < Timeout
    /\ age' = age + 1
    /\ UNCHANGED <<pc, queue, ioVars, stopVars, motionVars,
                   motorVars, historyVars>>

-----------------------------------------------------------------------------
(* Communication_Process: one line of the receive ring. *)

Record(e, input) ==
    lastInput' = IF Accepted(queue, e) THEN input ELSE lastInput

\* Communication_HandleCompleteLine of a command that becomes an event.
QueueCommand(l) ==
    \/ /\ l.cmd = "SET_WHEEL_VEL"
       /\ Push(VelocityEvent(l.vel))
       /\ Record(VelocityEvent(l.vel), "SET_WHEEL_VEL")
       /\ commanded' = TRUE
    \/ /\ l.cmd = "STOP"
       /\ Push(StopEvent("OPERATIONAL_STOP"))
       /\ Record(StopEvent("OPERATIONAL_STOP"), "STOP")
       /\ UNCHANGED commanded
    \/ /\ l.cmd = "ESTOP"
       /\ Push(StopEvent("EMERGENCY_STOP"))
       /\ UNCHANGED historyVars

ReadCommand ==
    /\ pc = "Communication" /\ rx # << >>
    /\ rx' = Tail(rx)
    /\ QueueCommand(Head(rx))
    /\ UNCHANGED <<pc, arrivals, stopVars, motionVars, age,
                   motorVars>>

StopController_IsStopped == stopped # {}

\* Mutant of StallResettable: a latched stop is no obstacle.
StallResettableAnyway == "STALL" \in stopped

\* StopController_ClearStall returns STOP_CONTROLLER_STALL_RESET_OK.
StallResettable == "STALL" \in stopped /\ stopped \cap Latches = {}

\* Communication_HandleResetStall, at once and not through the queue.
ReadResetStall ==
    /\ pc = "Communication" /\ rx # << >> /\ Head(rx).cmd = "RESET_STALL"
    /\ rx' = Tail(rx)
    /\ IF StallResettable
       THEN /\ stopped' = stopped \ {"STALL"}
            /\ stall_cause' = "NONE"
            /\ target' = Zero
            /\ commanded' = FALSE
       ELSE UNCHANGED <<stopped, stall_cause, target, commanded>>
    /\ UNCHANGED <<pc, queue, arrivals, stop_requested,
                   has_received_first_command, timeout_latched, age, enabled,
                   requested, limited, driven, bridge, lastInput>>

\* A line that does not parse, or SET_PI_GAINS (which changes only the gains).
ReadOther ==
    /\ pc = "Communication" /\ rx # << >> /\ Head(rx).cmd = "OTHER"
    /\ rx' = Tail(rx)
    /\ UNCHANGED <<pc, queue, arrivals, stopVars, motionVars, age,
                   motorVars, historyVars>>

CommunicationDone ==
    /\ pc = "Communication" /\ rx = << >>
    /\ pc' = "Events"
    /\ UNCHANGED <<queue, ioVars, stopVars, motionVars, age,
                   motorVars, historyVars>>

-----------------------------------------------------------------------------
(* App_ProcessEvents: one event of the queue. *)

\* The level a stop event asks for: a timeout asks for the same one as STOP.
LevelOf(t) == CASE t = "LATCHED_SAFE_STOP" -> "LATCHED_SAFE"
                [] t = "EMERGENCY_STOP"    -> "EMERGENCY"
                [] OTHER                   -> "OPERATIONAL"

StopPopped ==
    /\ pc = "Events" /\ Pop
    /\ Head(queue).type \in StopTypes
    /\ stop_requested' = stop_requested \cup {LevelOf(Head(queue).type)}
    /\ UNCHANGED <<pc, ioVars, stopped, motionVars, age, motorVars, historyVars>>

\* Mutant of ClearOperationalStop: a latched stop is no obstacle.
ClearEveryStop ==
    /\ stop_requested' = stop_requested \ {"OPERATIONAL", "LATCHED_SAFE"}
    /\ stopped' = stopped \ {"OPERATIONAL", "LATCHED_SAFE"}

\* StopController_ClearOperationalStop.
ClearOperationalStop ==
    IF stopped \cap Latches = {}
    THEN /\ stop_requested' = stop_requested \ {"OPERATIONAL"}
         /\ stopped' = stopped \ {"OPERATIONAL"}
    ELSE UNCHANGED stopVars

\* Mutant of RequestWheelVelocity: the timeout is not armed again.
RequestWithoutRearming(v) ==
    IF "EMERGENCY" \in stopped
    THEN UNCHANGED <<motionVars, age, stopVars>>
    ELSE /\ target' = v
         /\ age' = 0
         /\ has_received_first_command' = TRUE
         /\ UNCHANGED timeout_latched
         /\ ClearOperationalStop

\* MotionController_RequestWheelVelocity.
RequestWheelVelocity(v) ==
    IF "EMERGENCY" \in stopped
    THEN UNCHANGED <<motionVars, age, stopVars>>
    ELSE /\ target' = v
         /\ age' = 0
         /\ has_received_first_command' = TRUE
         /\ timeout_latched' = FALSE
         /\ ClearOperationalStop

VelocityPopped ==
    /\ pc = "Events" /\ Pop
    /\ IsVelocity(Head(queue))
    /\ RequestWheelVelocity(Head(queue).vel)
    /\ UNCHANGED <<pc, ioVars, motorVars, historyVars>>

EventsDone ==
    /\ pc = "Events" /\ queue = << >>
    /\ pc' = "Stop"
    /\ UNCHANGED <<queue, ioVars, stopVars, motionVars, age,
                   motorVars, historyVars>>

-----------------------------------------------------------------------------
(* StopController_Process. *)

StallSeen == stall_cause # "NONE" /\ "STALL" \notin stopped

\* Mutant of Granted: STOP is skipped as long as the drive is off.
GrantedWhileEnabled ==
    IF stop_requested \cap Latches # {} \/ enabled THEN stop_requested ELSE {}

\* Mutant of Granted: with a latched stop in force no other one is needed.
GrantedOnce ==
    IF stopped \cap Latches # {} THEN {}
    ELSE IF "EMERGENCY" \in stop_requested THEN {"EMERGENCY"}
    ELSE IF "LATCHED_SAFE" \in stop_requested THEN {"LATCHED_SAFE"}
    ELSE stop_requested

\* The highest level requested wins and discards the requests below it.
Granted == IF "EMERGENCY" \in stop_requested THEN {"EMERGENCY"}
           ELSE IF "LATCHED_SAFE" \in stop_requested THEN {"LATCHED_SAFE"}
           ELSE stop_requested

\* Mutant of BridgeHolds: the pins follow the pass that has just run.
BridgeFollowsRequest == "EMERGENCY" \notin stop_requested

\* Motor_EmergencyStop pulls the enable pins low and nothing pulls them up.
BridgeHolds == bridge /\ "EMERGENCY" \notin stop_requested

\* Motor_NormalStop and Motor_EmergencyStop both end in ResetSpeedController.
MotorOff == /\ enabled' = FALSE
            /\ requested' = Zero
            /\ limited' = Zero
            /\ driven' = FALSE

StopController_Process ==
    /\ pc = "Stop"
    /\ pc' = "Motion"
    /\ stopped' = stopped \cup Granted \cup (IF StallSeen THEN {"STALL"} ELSE {})
    /\ stop_requested' = {}
    /\ IF stop_requested # {} \/ StallSeen
       THEN MotorOff ELSE UNCHANGED <<enabled, requested, limited, driven>>
    /\ bridge' = BridgeHolds
    /\ UNCHANGED <<queue, ioVars, motionVars, age, stall_cause, historyVars>>

-----------------------------------------------------------------------------
(* MotionController_Process. *)

TimeoutDue == has_received_first_command /\ ~timeout_latched /\ age >= Timeout

CheckCommunicationTimeout ==
    IF TimeoutDue
    THEN timeout_latched' = TRUE /\ Push(StopEvent("COMMUNICATION_TIMEOUT"))
    ELSE UNCHANGED <<timeout_latched, queue>>

\* Mutant of MotionController_Process: the drive is enabled in every pass.
MotionAlwaysEnables ==
    /\ pc = "Motion"
    /\ pc' = "Motor"
    /\ CheckCommunicationTimeout
    /\ requested' = IF StopController_IsStopped THEN Zero ELSE target
    /\ enabled' = TRUE
    /\ UNCHANGED <<ioVars, stopVars, target,
                   has_received_first_command, age, limited, driven, bridge,
                   stall_cause, historyVars>>

MotionController_Process ==
    /\ pc = "Motion"
    /\ pc' = "Motor"
    /\ CheckCommunicationTimeout
    /\ IF StopController_IsStopped
       THEN requested' = Zero /\ UNCHANGED enabled
       ELSE requested' = target /\ enabled' = TRUE
    /\ UNCHANGED <<ioVars, stopVars, target,
                   has_received_first_command, age, limited, driven, bridge,
                   stall_cause, historyVars>>

-----------------------------------------------------------------------------
(* Motor_Process. *)

\* The speed profile holds, brakes to 0 or has come to the requested velocity.
Drive ==
    /\ IF enabled
       THEN limited' \in {limited, Zero, requested} /\ driven' \in BOOLEAN
       ELSE UNCHANGED limited /\ driven' = FALSE
    /\ UNCHANGED <<enabled, requested, stall_cause>>

\* Mutant of Stall: switching off is left to the next StopController_Process.
StallOnlyReported ==
    /\ enabled /\ driven /\ stall_cause = "NONE"
    /\ limited # Zero \/ requested # Zero
    /\ stall_cause' \in Cause
    /\ UNCHANGED <<enabled, requested, limited, driven>>

\* Motor_UpdateActualVelocity confirms a stall: a driven wheel does not turn.
Stall ==
    /\ enabled /\ driven /\ stall_cause = "NONE"
    /\ limited # Zero \/ requested # Zero
    /\ MotorOff
    /\ stall_cause' \in Cause

Motor_Process ==
    /\ pc = "Motor"
    /\ pc' = "Communication"
    /\ arrivals' = 0
    /\ Drive \/ Stall
    /\ UNCHANGED <<queue, rx, stopVars, motionVars, age, bridge,
                   historyVars>>

-----------------------------------------------------------------------------
MainLoop == \/ ReadCommand \/ ReadResetStall \/ ReadOther \/ CommunicationDone
            \/ StopPopped \/ VelocityPopped \/ EventsDone
            \/ StopController_Process
            \/ MotionController_Process
            \/ Motor_Process

Interrupt == B1Pressed \/ SysTick \/ \E l \in Line : UartLine(l)

Next == MainLoop \/ Interrupt \/ Reboot

Spec == Init /\ [][Next]_vars

\* The loop never waits for anything, and the clock never stops.
FairSpec == Spec /\ WF_vars(MainLoop) /\ WF_vars(SysTick)
-----------------------------------------------------------------------------
(* Properties. *)

FlagTypeOK ==
    /\ has_received_first_command \in BOOLEAN /\ timeout_latched \in BOOLEAN
    /\ enabled \in BOOLEAN /\ driven \in BOOLEAN /\ bridge \in BOOLEAN
    /\ commanded \in BOOLEAN

DataTypeOK ==
    /\ pc \in Calls
    /\ stop_requested \subseteq Level /\ stopped \subseteq Level \cup {"STALL"}
    /\ arrivals \in 0 .. MaxArrivals
    /\ rx \in Seq(Line)
    /\ age \in 0 .. Timeout
    /\ target \in Velocity /\ requested \in Velocity /\ limited \in Velocity
    /\ stall_cause \in Cause \cup {"NONE"}
    /\ lastInput \in {"NONE", "STOP", "SET_WHEEL_VEL"}

TypeOK == FlagTypeOK /\ DataTypeOK /\ QueueTypeOK

Still == ~enabled /\ ~driven /\ limited = Zero

\* While any of the four stops is in force no wheel is driven, whatever commands,
\* stalls, resets and interrupts arrive in between: the comments of
\* MotionController_Process and Motor_EnableSpeedControl rest on it.
StoppedMeansStill == StopController_IsStopped => Still

\* A stall that Motor has confirmed stops the cart at once, in the steps before
\* StopController polls it too, and is reflected by StopController exactly while
\* the cause stands: the two flags live in two modules and are cleared together.
StallMeansStill ==
    /\ stall_cause # "NONE" => Still
    /\ "STALL" \in stopped => stall_cause # "NONE"
    /\ stall_cause # "NONE" /\ "STALL" \notin stopped
          => pc \in {"Communication", "Events", "Stop"}

\* The timeout event is pushed only once and its result is ignored: even so the
\* stop it stands for is in the queue, requested or in force until a newer
\* velocity command is accepted.
TimeoutNotLost ==
    timeout_latched =>
        \/ \E t \in StopTypes : Pending(queue, t)
        \/ (stop_requested \cup stopped) \cap Level # {}

\* When the loop hands its target to the motor, a STOP queued after the last
\* SET_WHEEL_VEL is in force: coalescing may not move the velocity past it.
LastStopWins ==
    pc \in {"Motion", "Motor"} /\ lastInput = "STOP" => StopController_IsStopped

\* What the documents promise of RESET_STALL (motor/docs/serial_protocol.md:69,
\* motor.c:1093, motion_controller.h): after it the cart moves only for a
\* SET_WHEEL_VEL received later.
RestartNeedsNewCommand == limited # Zero => commanded

\* B1 and ESTOP hold until the next reboot: no command, reset or timeout ends them.
LatchedUntilReboot ==
    [][("LATCHED_SAFE" \in stopped => "LATCHED_SAFE" \in stopped') \/ Reboot]_vars

EmergencyUntilReboot ==
    [][("EMERGENCY" \in stopped => "EMERGENCY" \in stopped' /\ ~bridge') \/ Reboot]_vars

\* The drive as its callers see it.
Guard == INSTANCE DriveGuard WITH
            held    <- stopped \cup (IF stall_cause = "NONE" THEN {} ELSE {"STALL"}),
            moving  <- ~Still,
            powered <- bridge

\* The flags of three controllers, set in different calls with interrupts between
\* them, add up to one guard: no reason to stop is lifted by what may not lift it,
\* and no call starts the drive while another one still has a reason.
ImplementsGuard == Guard!GuardSpec

\* A queued ESTOP latches the emergency and a queued B1 the safe stop, however the
\* loop and the interrupts interleave and whichever stop is already in force.  Only
\* an emergency, which holds everything a safe stop holds, may stand in for B1.
StopServed ==
    /\ Pending(queue, "EMERGENCY_STOP") ~> ("EMERGENCY" \in stopped \/ Init)
    /\ Pending(queue, "LATCHED_SAFE_STOP") ~> (stopped \cap Latches # {} \/ Init)

\* Once a command has aged, the drive is switched off or a newer command is
\* accepted: a host that falls silent cannot leave the cart running.
SilenceStops ==
    has_received_first_command /\ age > 0 ~> (~enabled \/ age = 0)
=============================================================================
