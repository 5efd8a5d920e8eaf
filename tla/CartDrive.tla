----------------------------- MODULE CartDrive -----------------------------
(***************************************************************************)
(* From /cmd_vel to the motor: the serial bridge on the Jetson and the     *)
(* firmware, joined by the serial line.  Each side has a watchdog of its   *)
(* own; a shared clock says what they bound together.                      *)
(*                                                                         *)
(* The clock ticks when a full pass of the main loop has run and a bridge  *)
(* that runs has had its transmit timer: a tick is longer than both.       *)
(* RESET_STALL is not among the lines: the bridge never sends it.          *)
(***************************************************************************)
EXTENDS CartFirmware

CONSTANT CmdTimeout

ASSUME DriveAssumption == CmdTimeout \in Nat \ {0}

VARIABLES
    running, latest, cmd_age, fault,   \* SerialBridge
    spoiled,      \* the board's line buffer holds the beginning of a lost line
    fault_line,   \* the last fault line on the wire, or "NO_LINE"
    passed,       \* a full pass of App_Run since the last tick
    sent,         \* the transmit timer ran since the last tick
    quiet,        \* history: ticks since the last /cmd_vel
    witnessed     \* history: the stall in force was reported to this node

Bridge == INSTANCE SerialBridge

nodeVars  == <<running, latest, cmd_age, fault>>
clockVars == <<passed, sent, quiet>>
lineVars  == <<spoiled, fault_line, witnessed>>
\* What the two watchdogs leave: their times, and four ticks for a timeout that
\* runs out inside a tick, a line that finds the ring full, and the two passes
\* from the timeout to the motor.
Silence == CmdTimeout + Timeout + 4

driveVars == <<vars, nodeVars, lineVars, clockVars>>

DriveInit ==
    /\ Init /\ Bridge!Init
    /\ spoiled = FALSE /\ fault_line = "NO_LINE" /\ witnessed = FALSE
    /\ passed = FALSE /\ sent = FALSE /\ quiet = Silence

-----------------------------------------------------------------------------
(* The node. *)

NodeStarts ==
    /\ Bridge!Start
    /\ sent' = FALSE
    /\ UNCHANGED <<vars, lineVars, passed, quiet>>

\* What waits in the port is lost with the node that had it open.
NodeEnds ==
    /\ Bridge!Interrupted \/ Bridge!Abort
    /\ fault_line' = "NO_LINE" /\ witnessed' = FALSE
    /\ UNCHANGED <<vars, spoiled, clockVars>>

CmdVelArrives ==
    /\ \E v \in Velocity : Bridge!CmdVel(v)
    /\ quiet' = 0
    /\ UNCHANGED <<vars, lineVars, passed, sent>>

\* The line as the board assembles it.
Assembled(v) == IF spoiled THEN [cmd |-> "OTHER", vel |-> Zero]
                           ELSE [cmd |-> "SET_WHEEL_VEL", vel |-> v]

TxTimer ==
    /\ Bridge!Tx
    /\ UartLine(Assembled(Bridge!Selected))
    /\ spoiled' = FALSE
    /\ sent' = TRUE
    /\ UNCHANGED <<fault_line, witnessed, passed, quiet>>

\* A write that fails half way leaves a beginning that spoils the next line.
TxFailsHalfWay ==
    /\ Bridge!Abort
    /\ spoiled' = TRUE
    /\ fault_line' = "NO_LINE" /\ witnessed' = FALSE
    /\ UNCHANGED <<vars, clockVars>>

RxTimer ==
    /\ fault_line # "NO_LINE"
    /\ Bridge!Rx(fault_line)
    /\ fault_line' = "NO_LINE"
    /\ UNCHANGED <<vars, spoiled, witnessed, clockVars>>

-----------------------------------------------------------------------------
(* The board. *)

BoardReads ==
    /\ ReadCommand \/ ReadOther \/ CommunicationDone
         \/ StopPopped \/ VelocityPopped \/ EventsDone \/ MotionController_Process
    /\ UNCHANGED <<nodeVars, lineVars, clockVars>>

\* StatusReporter_SendStallFault, once for each stall; a closed port loses it.
BoardStops ==
    /\ StopController_Process
    /\ IF StallSeen /\ running
       THEN fault_line' = stall_cause /\ witnessed' = TRUE /\ UNCHANGED spoiled
       ELSE UNCHANGED lineVars
    /\ UNCHANGED <<nodeVars, clockVars>>

BoardDrives ==
    /\ Motor_Process
    /\ passed' = TRUE
    /\ UNCHANGED <<nodeVars, lineVars, sent, quiet>>

ButtonPressed ==
    /\ B1Pressed
    /\ UNCHANGED <<nodeVars, lineVars, clockVars>>

\* The node does not notice: the ST-Link keeps the port open.
BoardResets ==
    /\ Reboot
    /\ spoiled' = FALSE /\ witnessed' = FALSE
    /\ UNCHANGED <<nodeVars, fault_line, clockVars>>

-----------------------------------------------------------------------------
ClockTicks ==
    /\ passed /\ (running => sent)
    /\ SysTick \/ (age = Timeout /\ UNCHANGED vars)
    /\ Bridge!Elapse
    /\ quiet' = IF quiet < Silence THEN quiet + 1 ELSE quiet
    /\ passed' = FALSE /\ sent' = FALSE
    /\ UNCHANGED lineVars

DriveNext == \/ NodeStarts \/ NodeEnds \/ CmdVelArrives
             \/ TxTimer \/ TxFailsHalfWay \/ RxTimer
             \/ BoardReads \/ BoardStops \/ BoardDrives
             \/ ButtonPressed \/ BoardResets
             \/ ClockTicks

DriveSpec == DriveInit /\ [][DriveNext]_driveVars

-----------------------------------------------------------------------------
DriveTypeOK == /\ Bridge!BridgeTypeOK
               /\ fault_line \in Cause \cup {"NO_LINE"}
               /\ spoiled \in BOOLEAN /\ passed \in BOOLEAN /\ sent \in BOOLEAN
               /\ witnessed \in BOOLEAN
               /\ quiet \in 0 .. Silence

\* However the node dies, restarts or goes on sending, and whatever lines the
\* board loses: when /cmd_vel has been silent for the two timeouts and the time
\* the last line needs, the motor is asked to stand still.  The bridge may repeat a
\* velocity for CmdTimeout, die, and leave it to the board to notice.
SilenceStandsStill == quiet = Silence => requested = Zero

\* A stall reported to a node that still runs is on its way or shown, however many
\* stalls, resets of the board and restarts of the node came before.
StallIsShown ==
    witnessed => \/ fault_line = stall_cause
                 \/ fault_line = "NO_LINE" /\ fault = stall_cause
=============================================================================
