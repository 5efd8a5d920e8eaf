# Choll cart: TLA+ models, checks and proofs

Choll is a library cart that follows a librarian, or drives to a shelf on its own.
A Spring backend keeps the carts' sessions and tells each cart over MQTT what to do;
on the cart a Jetson with ROS 2 turns the commands into goals of Nav2 and velocities,
and an STM32 turns the velocities into wheel speeds and guards the motors.  This
directory holds models of those parts, the configurations that check them with TLC,
and theorems that TLAPS proves.  `PROJECT.json` names, for every definition, the lines
of the source it stands for.

## 1. The system

    frontend --REST--> backend --MQTT cmd/move/cart--> mqtt_bridge
                          ^                                | /cart/target_pose, /cart/cancel,
                          | status/nav-result              v /cart/follow_mode
                          +------------- MQTT ------- mqtt_bridge <--/cart/nav_status-- goal_forwarder
                                                                                          | action
    person_follow_robot --/cart/target_point-----------------------------> goal_forwarder v
    Nav2 --/cmd_vel--> stm_serial_bridge --UART lines--> STM32 firmware --PWM--> wheels
    camera --> tracker --> reid_node --> control_node --/cmd_vel--> stm_serial_bridge
    RFID readers and lamps (Raspberry Pi) <--MQTT--> backend (slots, tasks, zone of the cart)

### Components

| Component | State it keeps | Operations | What is hard | What makes it correct |
|---|---|---|---|---|
| Firmware: event queue (`app_event.c`) | ring, head, tail, count | push (also from interrupts), pop, coalesce | wrap, full queue, a newer velocity overwrites one that waits | a bounded FIFO, stops never pushed out by velocities |
| Firmware: main loop, stops, motion (`app.c`, `communication.c`, `stop_controller.c`, `motion_controller.c`) | requested and active stops, target, timeout latch, stall flag | one pass: lines, events, stop controller, motion controller, motor | interrupts between any two calls; RESET_STALL bypasses the queue; a timeout that is raised once | no drive under a stop; latches last; silence stops the cart |
| Firmware: wheel (`motor.c`) | speed profile, direction state, PI integral, stall timer per wheel | sample, output, stall, reset | reversal against a turning wheel; windup; a stall must be one unbroken strain | no output while a reversal waits; stalls are real, and found |
| Firmware: parser, reporter | line buffers | parse, format | a blocking transmission | (text; not modelled) |
| Goal forwarder (`goal_forwarder.py`) | goal handle, pending and cancel flags, status, follow flag | pose, point, cancel, follow mode, response, result, watchdog | answers cross commands; Nav2 crashes; goals preempt each other | no cancel lost; status and handle are those of the goal that is driven |
| MQTT bridge (`mqtt_bridge.py`) | command queue between threads, last and held status | MQTT message, 50 ms timer, status, connect | outage while the status changes | the backend ends up with the status of the cart |
| Backend sessions (`NavigationService`, `FollowControlService`, `CartOperationStatusReconciler`) | sessions in memory, operation status in the database | start, cancel, follow, pause, stop, result, restart, reconcile | statuses name no request; restart; requests before the reconciler ran | the backend knows of every drive; no orphan status |
| Serial bridge (`stm_serial_bridge_node.py`, `command_watchdog.py`, `serial_link.py`) | last velocity and its time, fatal latch, fault and link state | start, cmd_vel, transmit timer, receive timer, abort, shutdown | stale /cmd_vel; two watchdogs in a row; half-written lines; a stall is told once | a silent /cmd_vel stops the wheels, whichever part died; a reported stall is shown |
| Wheel odometry | encoder baseline, pose | ticks | totals restart with the board | no jump of the pose |
| Backend: cart connection (`CartConnectionService`, requests of `NavigationService`) | cart row, sessions, what the frontend was told | sign of life, last will, watchdog, start, cancel, complete; each read, worked on and committed or rolled back | the row is read and written whole and has no version; sessions, commands and events are not rolled back; a report ends whatever session there is | row, screen and sessions agree again after the next transaction that meets no other; a move that has left can be cancelled; silence shows |
| Backend: position telemetry (`CartPositionTelemetryService`, `StableZoneTracker`) | zone, candidate zone | position | the zone changes while books move | lamps follow the zone |
| Backend: slots and tasks (`SlotRfidEventService`, `SlotLedService`) | slot contents, copies, tasks | detected, removed, lamps | events of two readers out of order, lost, twice | a copy is in one slot, a task for each book on the cart, a book counts as shelved when it was taken out |
| RFID readers and lamps (`rfid_controller.py`, `led_controller.py`) | card seen last per reader, blinking slots | seen, not seen for the timeout, restart, lamp command | a restart forgets the cards; a card moves faster than the timeout | one event per change |
| AI: person following (`reid_node.py`, `tracker_node.py`, `control_node.py`) | state, target, memory bank, stabilizers; target message and its age | select, register, follow, recover, steer | identity lost and confused; nobody says that the target is lost | the target changes only to a confirmed track, a brief mistake leaves no trace, the cart does not drive on blind |
| Frontend, catalogue, video relay, SLAM filters, teleoperation, face mosaic, bench tools | | | | not modelled, section 7 |

The parts interact by MQTT messages (clean sessions: what is not delivered when a
connection breaks is dropped), ROS topics (depth of 1 and latched for the status, queued
for the rest, in no order between topics), the action protocol of Nav2, lines of text on
the UART, and, inside the firmware, the event queue and flags.

`PROJECT.json` lists the hazards, each at the line where it bites, and the properties that
would catch it.  Those without a property say why.

## 2. The modules and the code

| Module | Models | State and actions |
|---|---|---|
| `AppEvent` | `app_event.h` | the events |
| `EventQueue` | what `app_event.c` promises | a sequence; `Push`, `Pop` |
| `AppEventQueue` | `app_event.c` | `queue_buffer`, `queue_head`, `queue_tail`, `queue_count`; refines `EventQueue` |
| `CartFirmware` | `App_Run` and all it calls, the interrupts of the UART, B1 and SysTick, a reset | `pc` is the call that comes next; one action per call, per line and per event; built on `EventQueue` |
| `DriveGuard` | what the stop, motion and motor controllers promise together | `held` reasons to stop, `moving`, `powered`; `CartFirmware` refines it |
| `WheelDrive` | `motor.c` | the profile and the stall timer of each wheel, one action per sample (`Sample`) and per call in between (`Refresh`) |
| `SerialBridge` | `stm_serial_bridge_node.py`, `command_watchdog.py` | the node's life, the last velocity and its age, the fault; one action per callback |
| `CartDrive` | the serial bridge and `CartFirmware` over the line | the actions of each, half-written lines (`spoiled`), the fault line on its way, a clock for both |
| `NavigateAction` | Nav2 as the forwarder uses it (external) | the server's lifecycle, the running goal, messages either way |
| `GoalForwarder` | `goal_forwarder.py` | one action per callback; built on `NavigateAction` |
| `CartCommand` | the messages of cmd/move/cart | |
| `NavigationService` | `NavigationService`, `FollowControlService`, the reconciler | one action per request and per result, `Restart`, `Reconcile` |
| `MqttBridge` | `mqtt_bridge.py` | one action per callback, connection up and down |
| `CartMission` | the four above put together | the actions of each, the topics between them |
| `CartConnection` | `CartConnectionService`, and the requests and reports of `NavigationService` as transactions | `tx` is what each thread has read and where it is; `Read`, the work in between, `Commit`, `Rollback`; any number of request threads beside the MQTT thread and the watchdog |
| `SlotBoard` | `rfid_controller.py`, `led_controller.py`, `SlotRfidEventService`, `SlotLedService`, `CartPositionTelemetryService`, `StableZoneTracker` | books moved by hand, readers and lamps, events with QoS 1 and commands on their way, slots, tasks and zone; one action per card, event, command and position |
| `TargetLock` | `reid_node.py`, the stabilizers, the memory bank; `tracker_node.py` as whose picture goes under which number | one action per frame in each state, `Select`, restart, clock |
| `PersonFollow` | `TargetLock`, `control_node.py` and `SerialBridge` put together | the target message and its age, the control loop, nodes that die and start, one clock |
| `...Proofs` | theorems about the module of that name, section 6 | |
| `MC...` | values of constants for TLC | |

Abstractions, and why they do no harm:

* **Lines, not bytes** (`CartFirmware`).  The receive interrupt stores bytes and the loop
  assembles lines; only a complete line has an effect, so a line arrives in one step.  A
  ring that overflows loses a whole line here; that it may also damage one is not modelled.
* **One drive, not two wheels** (`CartFirmware`).  `limited`, `requested` and `driven` stand for
  both wheels.  Nothing in the controllers asks which wheel it is, but the cause of a
  stall, which is kept.  `Drive` allows every move of the profile that `WheelDrive` makes.
* **The line between bridge and board** (`CartDrive`).  A command arrives in the step that writes
  it, or half of it arrives and the node aborts; the board then joins the next line to the
  rest, and the parser refuses the result (it asks for the end of the line after the second
  number).  Of the lines of the board only FAULT is modelled: the last one wins.
  RESET_STALL, STOP and ESTOP are never sent by the bridge, so in `CartDrive` a stall lasts
  until the board resets.
* **One clock** (`CartDrive`).  The two watchdogs have clocks of their own that run at the same
  speed.  A tick of the model is longer than a full pass of the main loop and than the
  period of the transmit timer; both have happened before it ends.
* **/stm/connected** and the data topics are left out: no code of the repository reads
  the first to decide anything, and the others are copies of STATUS.
* **Velocities** are model values apart from the one that means standing still.
* **Units of the wheel** (`WheelDrive`).  A unit of velocity is the acceleration limit times
  the sample time; the thresholds for standing still are below one unit.  The plant
  follows the sign of the output by at most one unit per sample, may stick at 0, and may
  run down on its own.
* **Encoder, units of PWM, text, poses, TF** are left out; a target point has either moved
  by more than the threshold or not.
* **Navigations keep their numbers** across a restart of the backend (the code starts at 1
  again).  No code compares them; the model uses them to say which move a goal belongs to.
* **The cart is ONLINE** and there is one of it: sessions are per cart and share nothing.
* **A transaction** (`CartConnection`) reads the row in one step, together with the work on memory
  that follows at once; each publication that can be seen from outside is a step of its own; then it
  commits, writing the whole row it read with its own column changed, or is rolled back.  A thread
  is any request; the row has the two columns that are written by different threads.
* **Navigation twice.**  `CartConnection` has the requests of `NavigationService` in steps and
  overlapping; `NavigationService` has them whole, with follow sessions, restarts and the
  road to the cart.
* **Looks** (`TargetLock`).  The scores of the networks are choices of the environment: any track of a
  frame may be the nearest or be taken for the target, any picture may be unfit.
  A picture is the person on it.  The tracker may mix up its tracks in `MaxMixups` frames.
* **Frames have no rate** (`PersonFollow`): any number of them falls between two ticks.  A tick is
  longer than a period of the control loop.
* **The catalogue** (`SlotBoard`) is a fixed map of registered books to the zones of their shelves; a
  tag that is not in it is one more book.
* **Faults** (`SlotBoard`) are restarts of the Pi, breaks of the connection (an event is sent again
  or lost) and lost commands, `MaxFaults` in all.
* **Commands and reports** (`CartConnection`).  Of the commands to the cart only the last one that left is known
  (`ordered`).  Reports of the cart come at any time and end whatever session there is; which drive a
  report is about is in `CartMission`.
* **History variables** record what the properties need and guard nothing: `lastInput`, `commanded` and
  `blocked` in the firmware, `stopped_upto` and `crowded` in the forwarder, `lost`, `cancelled`, `overtaken`,
  `asked_by`, `forgotten`, `misled` and the tags `about`, `held`, `told`, `overheld` in the mission, `crossed`, `lone`, `robbed` and
  `orphaned` in the connection, `doubtful`, `missed`, `elsewhere`, `hopped`, `ghosts`, `repeated` and `taken` on the board, `streak`,
  `locked`, `trusted`, `mistaken` and `unseen` in the follower.  The tags say which navigation each status
  is about, which the status itself does not.  The counters of requests, outages, moves, faults and
  mix-ups are bounds.

## 3. The runs

| Run | Question | Bounds, and why they are enough |
|---|---|---|
| `Firmware` | do stops, stalls, the timeout and the latches hold under every interleaving, is `DriveGuard` implemented, is every B1 and ESTOP served, does silence stop the cart? | two velocities, two causes of a stall, a queue of 2, two inputs per pass and one line left over in the ring: a queue of 2 fills with the inputs of one pass, so each full-queue path is taken, and the three lines give velocity, stop, velocity in every order; a timeout of one tick expires between any two calls; the ring holds one line, so it overflows too |
| `FirmwareResetStall` | does a restart need a new command? (violated) | as `Firmware`, with three inputs per pass |
| `Drive` | does a silent /cmd_vel stop the wheels whatever dies, is a stall shown? | the queue and the ring as in `Firmware`, the causes of a stall interchangeable (symmetry), one input per pass, both timeouts one tick: the node may start, abort and be interrupted, the board reset, any number of times |
| `EventRing` | is the ring the queue? | three slots and three velocities: each head and tail, full and empty |
| `Wheel` | is the profile, the reversal and the stall logic right? | one wheel (wheels share only `enabled`, the gains and the stall), speeds -5..5, with PI gains 0 (the default) and 1; the way down takes two units per sample, as in `motor_config.h` twice the acceleration, so a reversal is in ZEROING for three samples, brings an integral to the hold, and the stall timer may start, go on and end there |
| `WheelReverse` | is a wheel only reversed from standstill? (violated) | as `Wheel` |
| `Forwarder` | are cancels and the status right? | four goals, three messages under way, three goals without a response at a time: a preempted goal, its successor and a goal sent after a cancel, and a cancel between the responses of several |
| `Mission` | does the backend know what the cart does? | two moves, two goals (both may be without a response), three requests of the frontend at any time, one outage, restart or failure of Nav2, two messages to Nav2 and two results under way: a move, its cancel and the next move are all on their way at once, and so are the results of both |
| `MissionEndLost` | does every end reach the session? (violated) | as `Mission`, with one goal without a response; the outage is that of Nav2 |
| `Connection` | what do overlapping and failing transactions leave wrong, for how long, can a move be cancelled, and does silence show? | two request threads beside the MQTT thread and the watchdog: two starts, or a start and a cancel, overlap with each other, with a report, a sign of life and the watchdog, all at once; every transaction may fail; nothing is counted, so sequences are of any length |
| `Slots` | are slots, tasks and lamps those of the books that are there? | two slots (interchangeable, symmetry), a book for each of two zones and a tag that is not in the catalogue, two events and one command on their way, five moves of a book, one fault, two samples: a book goes to the other slot and back, with another in its place, with an event lost or repeated |
| `Follow` | whom does the cart follow, and how long without seeing? | three tracks, two of one person, and a stranger; two frames to select, three to confirm, two features, a pause of two ticks, one mix-up, both timeouts two ticks: a wrong track is followed for less and for more than the pause, a bank is full, frames are interrupted when all but one have confirmed |

A passing run has no counterexample within its bounds; every property of a passing run also
has a mutant, a plausible bug written next to the definition it replaces, with which
TLC finds that property violated.

`CHECK_DEADLOCK FALSE` stands in the configurations of `CartMission` only: there the bounded
supply of requests and goals runs out.

**Requests at any time.**  Nothing holds the frontend of `Mission` back: a request is taken
whenever `NavigationService` and `FollowControlService` take it, also with results of the last move, a CANCEL or a MOVE
still on their way.  Where the code then goes wrong, the property names the case by a history
variable and holds for all others; section 5 lists what these cases are, each a violation of
the property without its exception.

**Fairness.**

* `CartFirmware`: weak fairness of the main loop, which never blocks or waits (the loop of
  `App_Run` has no call that waits but the transmission of a status line, which has a time
  limit), and of the clock.  None for inputs, the button or the reset.
* `WheelDrive`: weak fairness of the controllers' step, and strong fairness of `Sample`,
  because `Motor_Process` may find no sample due in any number of calls, but time passes.
* `CartConnection`: weak fairness of the watchdog for a cart that is silent (`@Scheduled`, its time is up
  some time), and strong fairness of the commits of the MQTT thread and of the watchdog: a
  transaction may fail, but not each time.  None for requests, nor for signs of life.
* `GoalForwarder`: weak fairness of the node's callbacks (an executor runs what is ready)
  and of Nav2's answers (not of the end of a drive, nor of a restart of Nav2).

## 4. What the passing runs show

*Firmware.*  While one of the four stops is in force, the drive is off, no wheel is driven
and the speed followed is 0 (`StoppedMeansStill`).  A stall that the motor has confirmed stops
the drive in the step that confirms it, and the flags of the two modules differ only until
the stop controller has run (`StallMeansStill`).  The timeout is raised once and its push may
fail; even so a stop is queued, requested or in force (`TimeoutNotLost`): the queue that was
full held stops, because velocities have all been taken from it when the timeout is
checked.  A STOP that came after the last velocity is in force when the target reaches the
motor (`LastStopWins`), although coalescing lets a newer velocity overtake older stops.  B1
and ESTOP last until a reset, ESTOP with the bridge switched off.  A button press
that waits in the queue leads to a safe stop or an emergency in force, and an ESTOP that waits to the
emergency itself, bridge cut, also when a safe stop is in force already (`StopServed`).  Silence stops the cart
(`SilenceStops`).

The three modules together implement `DriveGuard` (`ImplementsGuard`): the drive starts only
while nothing is held, a stop takes effect in one step with the drive off, and nothing lifts a
latched stop but a reset.

*Drive chain.*  `SilenceStandsStill`: when /cmd_vel has been silent for `CmdTimeout + Timeout + 4`
ticks, the motor is asked to stand still.  The bound is tight: the bridge may repeat a
velocity until its own timeout and die right after, and the board then waits for its timeout
from there.  Neither half-written lines, lines that meet a full ring nor restarts of either side
lengthen it; with 3 instead of 4 TLC finds a counterexample.  In the units of the code that is 0.5 s
(`cmd_vel_timeout_sec`) and 5 s (`MOTION_CONTROLLER_COMM_TIMEOUT_MS`), and a few passes and transmit
periods.  `StallIsShown`: a stall that was reported to a running node is on its way or shown,
as long as neither side restarts; afterwards nothing tells the bridge (a hazard of `PROJECT.json`).

*Ring.*  The ring refines the queue through `Contents`.

*Wheel.*  No output during the wait and the hold of a reversal; the velocity followed never
jumps over 0; a stall was one unbroken strain; no wheel is strained for ever; a
reversal comes to an end.

*Forwarder.*  A cancel reaches the goals sent before it, those that have no response yet too
(`CancelNotLost`), except one that was itself sent while another had none; status and handle are those
of the goal that is driven, whatever answers of others come in between (`DrivingIsReported`).
`CancelStops`: a cancel ends the drive unless a newer goal is sent, with the same exception.

*Mission.*  `DriveHasSession`: while the cart drives for a navigation that nobody cancelled, that
navigation is the session of the backend, or a restart wiped it out, or a status about another
drive ended it.  So a status that reaches the backend, however late, held over an outage or sent again, is
never about a drive that is still to end: of its own move it tells the truth.  `CancelReachesCart`: a CANCEL gets
through the queue of the bridge and the topics although a MOVE may be before it, behind it and around it,
and the cart then does not drive for that navigation; two races are excepted.  `StatusHasSession`: once the
reconciler has run, a status in the database has its session.  `StatusReachesBackend`: the
status told last is that of the cart, also after an outage, unless the bridge held one back when
the cart returned to the status before.

*Connection.*  The properties say what can go wrong by naming it (`crossed`) and that nothing else
does; the marks on the two columns are taken away by the next transaction of their kind that meets no
other.
`ShownIsStored`: a sign of life that overlaps with the watchdog may leave the frontend with "offline"
while the row says ONLINE, and so may a row that is written back by a request that read it before;
when the commit fails after "connected" was published, that stays on the screen.
`StatusIsSession`: a heartbeat writes back the operation status it read, so a move that starts or
ends meanwhile is undone in the row; of two requests one may find the session of the other between
its put and its publish; when the commit of a start fails, the session and the drive stay while the row
says IDLE.  `DriveCanBeCancelled` holds through all of that: a move that has left has a session, or a CANCEL
about to leave, unless its session was removed before it left or by a report of the cart since.  `SilenceShows`: the last will counts as a sign of life and
may come after the watchdog has seen the silence, yet a cart that stays silent ends up OFFLINE for good.

*Slots.*  `BoardIsTrue` and `TaskForEachBook`: when the readers have settled and their events are
handled, slots and tasks are those of the books on the cart, in whatever order books
changed places.  The exceptions are faults, each named: an event that was lost (until a book
of the catalogue comes or goes), a restart of the Pi with a book taken out meanwhile, a card that
went to another slot and back within the timeout of its reader.  The last one needs no fault of
any device.  `BookInSlotHasTask` holds through every fault.  `ShelvedWasTaken`: only a REMOVED that
is handled twice completes the task of a book that nobody took.  `BlinkIsTarget`: lamps blink at
books of this zone, unless the book went while the command was on its way.  (`FUNCTIONAL_SPEC.md:101`,
BE-TASK-06, has the lamps told of changed tasks too; the code tells them of changed zones
only, and the property is about the lamps that are on.)

*Follow.*  `SwitchIsConfirmed`, `BriefMistakeLeavesNoTrace`: a track is only followed instead of
the target after `recovery_confirm_frames` frames in a row, and what is followed by mistake for less than
the pause adds no picture to the bank, but for pictures that the tracker put under a wrong number.
`BlindDriveIsBounded`: without the target in a frame the cart stands still after
`TargetTimeout + CmdTimeout` ticks, whichever node before the bridge dies or restarts when; the bound is
tight, with one tick less TLC finds a counterexample.

## 5. Findings

Each is a run that TLC finds violated, of a sentence of the repository.

1. `FirmwareResetStall`: RESET_STALL is handled at once, a SET_WHEEL_VEL before it through the
   queue.  Sent in that order in one pass, the velocity is applied after the reset and the
   cart starts without a new command (`docs/serial_protocol.md:69`).
2. `WheelReverse`: a reversal is recognised by the speed that is followed.  A command of 0 in
   between brings that to 0 while the wheel turns; the reverse command is then an
   ordinary start (`motor_config.h:204`).
3. `MissionEndLost`: of two moves that end the same way the second publishes nothing
   (`NavigationService.java:39`).

More disagreements have no run of their own; each is a property of a passing run without the
exception under which it passes, and is violated within the bounds of that run:

* `CancelNotLost` without `crowded`.  `_goal_pending` is one flag for all unanswered goals, there so that no
  cancel is lost (`goal_forwarder.py:125`): a cancel booked for the second goal is dropped with the
  response of the first.  `CancelReachesCart` without `crowded` fails for the same reason.
* `DriveHasSession` without `misled`.  A status names no request, so that of another goal ends the
  session of a move still on its way, which then drives without a session and cannot be cancelled
  (`docs/specs/FUNCTIONAL_SPEC.md:135` has the request identified by its `requestId`).  A user who cancels and
  tries again, as `NavigationService.java:102` asks, runs into it: the CANCELED that acknowledges the cancel
  ends the session of the next move.
* `CancelReachesCart` without `overtaken`.  MOVE and CANCEL travel on two ROS topics, and the forwarder may read
  the CANCEL first; the cart then drives for a move that was cancelled
  (`docs/specs/FUNCTIONAL_SPEC.md:175`, EMB-NAV-05).
* `StatusReachesBackend` without `overheld`.  A status that changes and changes back during an outage is
  held (`mqtt_bridge.py:242`) and sent after it, as if it were the latest.
* `DriveCanBeCancelled` without `orphaned`.  A cancel that finds the session between its put and its publish
  (`NavigationService.java:115`) sends its CANCEL before the MOVE; what it leaves is a drive that the backend does not know of.

## 6. What is proved

Eight modules hold theorems, each about the specification as it is checked, for every value
of its constants.

`CartDriveProofs`, first part, about `CartFirmware`, from `QueueAssumption` (a queue of at least one slot; standing still is a
velocity) and `FirmwareAssumption` (the timeout is a positive number; the bounds are
numbers; `"NONE"` is no cause of a stall):

| Theorem | Property | Along which argument |
|---|---|---|
| `TypeCorrect` | `TypeOK` | inductive by itself; the queue's part rests on `PushedIsQueue`: a push leaves a sequence of events no longer than the buffer |
| `StopSafety` | `StoppedMeansStill` | not inductive alone: RESET_STALL lifts the stall of the stop controller, and the flag of the motor decides whether the drive may run.  `StillInv` joins it with `StallMeansStill` |
| `StallSafety` | `StallMeansStill` | the other half of `StillInv` |
| `TimeoutSafety` | `TimeoutNotLost` | needs to know what can be in the queue when the timeout is checked: `QueueAfterEvents` (after the event loop only B1 and the timeout add to it) and `RequestsServed` (requests exist only between the event loop and the stop controller).  Then a full queue holds a stop, so a push that fails is covered |
| `StopOrder` | `LastStopWins` | `StopOnItsWay`: while a STOP is the last accepted input, it waits in the queue with no velocity behind it, or no velocity is left and a stop is requested or in force.  `PushStopKeepsOrder` and `PopKeepsOrder` say that pushing and popping respect this; a velocity that is rejected by a full queue changes nothing, one that is accepted is the last input itself.  With `QueueAfterEvents` and `RequestsServed` the stop is in force when the motion controller runs |
| `LatchedHolds` | `LatchedUntilReboot` | `LatchStep`, one step per action |
| `EmergencyHolds` | `EmergencyUntilReboot` | `LatchStep` with `PowerCut` (an emergency stop has the bridge off) |
| `GuardRefinement` | `ImplementsGuard` | `GuardInv` joins `StillInv` with `OffMeansStill` (a drive that is off drives no wheel), which makes the mapped step of a motor pass a stutter; `GuardStep` maps each action to one of `DriveGuard` or to a stutter (`StutterOfGuard`) |

The second part, and the other seven modules:

| Module, from | Theorem | Property | Along which argument |
|---|---|---|---|
| `AppEventQueueProofs`, `QueueAssumption` | `RingRefinement`, `RingTypes` | `ImplementsQueue` | `RingInv`: tail is `queue_count` slots after head, and the slots between hold events; `OneWaits`: one of them at most is a velocity, so the slot that coalescing overwrites is the one the abstract queue replaces.  `Wrap`, `AroundApart` and `AroundNext` are the arithmetic of the modulus |
| `WheelDriveProofs`, `WheelAssumption` | `TypeCorrect`, `NoOutput`, `ZeroNotCrossed`, `StallProved` | `TypeOK`, `NoOutputWhileWaiting`, `NeverCrossesZero`, `StallIsReal` | `WheelInv`: types, `WaitsAtRest` (who waits or holds follows 0; the integral is any) and `TimerIsReal` (the stall timer never shows more than the strain that has lasted).  The arithmetic of the slew is in `TowardBetween` and `TowardKeepsSide` |
| `GoalForwarderProofs`, `GoalAssumption`, `ForwarderAssumption` | `TypeCorrect`, `DriveReported` | `TypeOK`, `DrivingIsReported` | `DriveInv`: goals are numbered in the order they wait, run and were answered (`Numbered`); the goal that runs is held by the node, or its acceptance is the last response under way (`Reported`).  For any number of goals without a response |
| | `CancelKept` | `CancelNotLost` | `CancelInv` adds `Alone` (a goal that is not crowded is the first of those without a response) and `Booked` (the node waits for its response, and a cancel that came since is booked, or a newer goal that will preempt it has no response either).  For any number of goals without a response |
| `CartMissionProofs`, `MoveAssumption`, `GoalAssumption`, `ForwarderAssumption`, `MissionAssumption` | `MissionTypeCorrect` | `MissionTypeOK` | inductive by itself.  `MissionStep`: for the forwarder every step of the composition is one of its own or a stutter, so what is proved of `[Step]_vars` in `GoalForwarderProofs` holds here |
| | `ForwarderInMission` | `DrivingIsReported` | `MissionStep` again: the node in the composition is that of `GoalForwarder`, so `DriveInv` holds of it |
| | `StatusOfSession` | `StatusHasSession` | `NumbersInv`: a session that exists has a number that was given out, and once reconciled the database says no more than the sessions do |
| | `StatusRelayed` | `StatusReachesBackend` | `RelayInv`: once the bridge has taken the status of the cart, it is the one it holds, or if it holds none the one published last, unless the cart returned to the latter while another was held (`overheld`).  Through any number of outages |
| | `DriveKnown` | `DriveHasSession` | `CourseInv`: every move is in one place of the road, once (`Lined`), becomes one goal at most (`GoalsOnce`), and goals are answered in the order they were sent (`Past`, `Gone`).  Hence what is over stays over (`Over` only grows), and every terminal status, in the node, held, published or on its way, is tagged with a navigation that is over or with none (`EndsOver`): a session that it ends is over, or `misled`.  `Known` follows |
| | `CancelArrives` | `CancelReachesCart` | `CancelsInv`: as long as MQTT dropped nothing, behind each MOVE of a cancelled navigation a CANCEL is under way, on every queue and topic, or its goal was sent before the last cancel the node took (`CancelComes`); `CancelInv` of the forwarder takes it from there |
| `CartConnectionProofs`, `ConnectionAssumption` | `DriveCancellable` | `DriveCanBeCancelled` | `Covered`: a move that has left has a session or a CANCEL about to leave, and one about to leave has a session, unless it is marked (`orphaned`, `robbed`): a report or a cancel took the session away |
| | `ShownStored` | `ShownIsStored` | `ConnOK`: what a sign of life or the watchdog will commit is what it has shown, unless it is marked as crossed; one that is alone (`lone`) clears the mark |
| | `StatusSession` | `StatusIsSession` | `OpOK`, the same for moves and sessions.  For any number of request threads |
| `CartDriveProofs`, second part, the assumptions of `CartFirmware` and `DriveAssumption` (`CmdTimeout` is a positive number) | `BoardIsFirmware` | | every step of the composition is one of `CartFirmware` or leaves the board alone (`BoardStep`): what the bridge writes is a line of its input alphabet.  So all that is proved of the firmware holds of the board in the chain |
| | `StallShown` | `StallIsShown` | `StallInv`: while the report counts (`witnessed`), the stall is in force and the node runs, so no second report can replace it |
| | `SilenceBound` | `SilenceStandsStill` | `SilenceInv` gives every place where a velocity can be its latest tick of silence: the bridge (`AgeInv`: it has counted the silence itself), the receive ring and the queue (`LinesInv`, `EventsInv`: `CmdTimeout + 1`), the target (`TargetInv`: the board's timer has counted the rest), the request of the motor (`RequestInv`).  `Due` counts one tick ahead until the loop has passed, which is what makes the bounds of the loop's steps inductive |
| `SlotBoardProofs`, `BoardAssumption` | `LoadedHasTask` | `BookInSlotHasTask` | a copy is in one slot at most, so completing a task when a slot is emptied leaves no other slot with that copy |
| | `BoardTrue` | `BoardIsTrue` | `ReaderInv`: the unhandled events of a slot continue each other from what the slot was told last to what the reader sees (`Tracks`), and two slots see the same card only while one of them has yet to notice (`OnePlace`, `Overtaken`).  `Shown` applies them to the board: the slot shows what the last handled event said.  Empty queues make the two ends meet |
| | `TasksTrue` | `TaskForEachBook` | `BookInv` ties reader, events and database in three ways: a copy in a slot is seen there or its REMOVED waits, a book with a task has a slot or its DETECTED waits, a book that is seen is in the slot or its DETECTED waits.  `Told` (a reader that has told of a book still sees it, or its REMOVED follows) carries this through each event |
| | `LampsTrue` | `BlinkIsTarget` | `LampInv`: a lamp that blinks and is no ghost is at a book of the catalogue; the last command under way is for the zone the cart is in, or none is and the lamps are those of that zone.  A card that leaves makes a ghost of each lamp that a command under way names |
| | `ShelvedTaken` | `ShelvedWasTaken` | `CreditInv` counts per book: times taken, plus one if it lies in a slot, are no fewer than the DETECTED that wait plus one if its task is held.  Completing a task spends one, so there is one to spend |
| `PersonFollowProofs`, `LockAssumption`, `FollowAssumption` | `BlindDrive` | `BlindDriveIsBounded` | the ages of the target message and of the velocity add up to no less than the time without the target, unless the bridge selects 0 |
| | `LockTypes`, `BriefMistake`, `SwitchConfirmed` | `BriefMistakeLeavesNoTrace`, `SwitchIsConfirmed` | a target that is not trusted was found less than the pause ago, so that the pause still runs; the stabilizer's count is never above the streak of the track it watches |

Each inductive invariant has its lemma for the initial states and one for the steps, with a
step per action; the temporal step is the last one.

No theorem assumes more of the constants than the modules do.  The bound `MaxRequests` of the forwarder guards an action of `Next` only and appears in no
theorem.

Only model-checked: every liveness property (`StopServed`, `SilenceStops`, `StrainEnds`,
`ReversalEnds`, `CancelStops`, `SilenceShows`), which is outside the prover's reach, like `ENABLED`.
Every invariant and every action property that a passing run checks has its theorem.

## 7. What is not modelled

* The parser and the reporter of the firmware, the line decoder and packet parser of the bridge, the
  conversion of a Twist to wheel speeds, the wheel odometry: pure functions of text and numbers.
  What follows from them alone is not in the models either: the blocking transmission of a
  status line, which may let the 16 bit encoder difference wrap (`motor.c:870`) and overflow the receive
  ring (a lost line is modelled, a damaged one is the parser's), and the jump of the pose
  when encoder totals restart with the board (`wheel_odometry.py:181`).
* Commands that the code admits to lose: a STOP that meets a full queue (`communication.c:153`; a line that
  finds no room in the ring is in the models, and the silence after it stops the cart), B1 with a
  full queue (`main.c:502`; `StopServed` speaks of those that got in), commands published while the bridge is
  away from its clean session (`mqtt_bridge.py:146`), the CANCEL that is not sent after a
  restart has wiped out the session (`NavigationService.java:161`; `DriveHasSession` excepts restarts).
* `motor.c`: the set-up of the timers and pins, the conversion of speed to duty.
* `_on_pose` of the MQTT bridge, the pose publisher, the SLAM filters: numbers without control.
* The bridge's `dry_run`, in which nothing is sent.
* Of the person follower: detector and camera (a frame in, a message out), `target_position_node` (geometry),
  `motor_node` (a second way to the motors, replaced by the bridge), `fe_bridge_node` (a relay),
  `search_behavior` (nothing calls it).  A SELECT is ignored once the target is tracked, as in the code.
* `rfid_mqtt.py`, an earlier program with the loop of `rfid_controller.py`; reads that fail for longer than the
  timeout while the card is there, which look like a card that went and came.
* The library catalogue, the WebSocket and video relay, the frontend, teleoperation, the face
  mosaic and the bench tools: no behaviour of their own beyond single transactions, fan-out,
  display or pure functions of an image.
* The self test of the firmware (`AppTest_Process`): `APP_MODE_CURRENT` is not
  `APP_MODE_SELF_TEST` unless the build says so.

Most lines of C under `src/embedded/motor` are the vendor's (CMSIS and the HAL of the STM32): the
models stand on the handful of its calls that the application makes (an interrupt per byte, a
tick, pins), and the map names the application's lines only.

## 8. Plan

Done: the firmware (queue, main loop, wheel), the serial bridge and the drive chain, the goal
forwarder, the MQTT bridge, the sessions and their composition, the cart's row and its
transactions, slots with readers and lamps, the person follower down to the velocity; the theorems
of section 6.

Next, in this order:

1. The follow sessions of the backend as transactions, in `CartConnection`.
2. `LineDecoder` and `WheelOdometry`: functions against reference definitions, bytes in any
   chunks, encoder totals that restart; then lines that are joined in the ring of the firmware.
