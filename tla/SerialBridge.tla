---------------------------- MODULE SerialBridge ----------------------------
(***************************************************************************)
(* stm_serial_bridge: /cmd_vel in, SET_WHEEL_VEL lines out, FAULT lines in, *)
(* /stm/fault out.  One executor runs the callbacks, so each is a step.     *)
(* The first failure of the port ends the node; nothing restarts it but an  *)
(* operator.  Velocities are those that limit_wheel_rad_s lets pass.        *)
(***************************************************************************)
EXTENDS Naturals

CONSTANTS
    Velocity, Zero,
    Cause,       \* the wheels a FAULT line may name
    CmdTimeout   \* cmd_vel_timeout_sec, in clock ticks

VARIABLES
    running,   \* the node spins
    latest,    \* _latest_*_rad_s
    cmd_age,   \* time since _last_cmd_vel_time_sec, at most CmdTimeout
    fault      \* _fault_state, which /stm/fault repeats at every change

bridgeVars == <<running, latest, cmd_age, fault>>

Fault == Cause \cup {"NONE"}

\* A node that waits for its first /cmd_vel sends what one sends that timed out.
NodeReset == /\ latest' = Zero
             /\ cmd_age' = CmdTimeout
             /\ fault' = "NONE"

Init == running = FALSE /\ latest = Zero /\ cmd_age = CmdTimeout /\ fault = "NONE"

Start == ~running /\ running' = TRUE /\ NodeReset

\* Ctrl+C; _shutdown closes the port and sends nothing.
Interrupted == running /\ running' = FALSE /\ UNCHANGED <<latest, cmd_age, fault>>

\* _abort_on_serial_failure: the latch stops both timers, then main leaves its loop.
Abort == running /\ running' = FALSE /\ UNCHANGED <<latest, cmd_age, fault>>

\* _cmd_vel_callback of a finite velocity; any other changes nothing.
CmdVel(v) ==
    /\ running
    /\ latest' = v
    /\ cmd_age' = 0
    /\ UNCHANGED <<running, fault>>

\* Mutant of Selected: the age of the velocity is not asked.
SelectedLatest == latest

\* select_wheel_command: stale or missing commands mean standing still.
Selected == IF cmd_age < CmdTimeout THEN latest ELSE Zero

\* _tx_timer_callback when the write succeeds.
Tx == running /\ UNCHANGED bridgeVars

\* Mutant of Rx: the first fault stays.
RxFirstFault(cause) ==
    /\ running
    /\ fault' = IF fault = "NONE" THEN cause ELSE fault
    /\ UNCHANGED <<running, latest, cmd_age>>

\* _rx_timer_callback: the last FAULT or FAULT_CLEARED line that was read counts.
Rx(cause) ==
    /\ running
    /\ fault' = cause
    /\ UNCHANGED <<running, latest, cmd_age>>

Elapse == /\ cmd_age' = IF cmd_age < CmdTimeout THEN cmd_age + 1 ELSE cmd_age
          /\ UNCHANGED <<running, latest, fault>>

BridgeTypeOK == /\ running \in BOOLEAN /\ latest \in Velocity
                /\ cmd_age \in 0 .. CmdTimeout /\ fault \in Fault
=============================================================================
