--------------------------- MODULE CartDriveProofs ---------------------------
(* Theorems about CartFirmware, and about CartDrive, which puts the serial *)
(* bridge before it; for every pair of timeouts, queue size, ring size,    *)
(* set of velocities and number of inputs per pass.                        *)
EXTENDS CartDrive, TLAPS

-----------------------------------------------------------------------------
(* The event queue. *)

\* A push leaves a queue of events that is no longer than the buffer.
LEMMA PushedIsQueue ==
    ASSUME NEW q \in Seq(Event), Len(q) <= QueueSize, NEW e \in Event
    PROVE  Pushed(q, e) \in Seq(Event) /\ Len(Pushed(q, e)) <= QueueSize
<1>1. CASE IsVelocity(e) /\ Pending(q, e.type)
    <2> DEFINE r == [i \in DOMAIN q |-> IF IsVelocity(q[i]) THEN e ELSE q[i]]
    <2>1. \A i \in 1 .. Len(q) : q[i] \in Event
        OBVIOUS
    <2>2. r \in [1 .. Len(q) -> Event]
        BY <2>1
    <2>3. Len(q) \in Nat
        OBVIOUS
    <2>4. r \in Seq(Event) /\ Len(r) = Len(q)
        BY <2>2, <2>3
    <2> QED BY <1>1, <2>4 DEF Pushed
<1>2. CASE ~(IsVelocity(e) /\ Pending(q, e.type))
    BY <1>2, QueueAssumption DEF Pushed
<1> QED BY <1>1, <1>2

\* A push loses no stop that waits, and moves none.
LEMMA PushedKeepsStops ==
    ASSUME NEW q \in Seq(Event), NEW e \in Event, NEW i \in DOMAIN q,
           q[i].type \in StopTypes
    PROVE  i \in DOMAIN Pushed(q, e) /\ Pushed(q, e)[i] = q[i]
<1>1. ~IsVelocity(q[i])
    BY DEF IsVelocity, StopTypes
<1> QED BY <1>1 DEF Pushed

\* An event that is appended is the last of the queue; another one joins no type.
LEMMA PushedStop ==
    ASSUME NEW q \in Seq(Event), NEW t \in StopTypes
    PROVE  Pushed(q, StopEvent(t)) =
             IF Len(q) < QueueSize THEN Append(q, StopEvent(t)) ELSE q
BY DEF Pushed, IsVelocity, StopEvent, StopTypes

LEMMA QueueUnchanged == QueueTypeOK /\ UNCHANGED queue => QueueTypeOK'
BY DEF QueueTypeOK

LEMMA QueuePopped == QueueTypeOK /\ Pop => QueueTypeOK'
BY QueueAssumption DEF QueueTypeOK, Pop

LEMMA QueuePushed == ASSUME QueueTypeOK, NEW e \in Event, Push(e) PROVE QueueTypeOK'
BY PushedIsQueue DEF QueueTypeOK, Push

LEMMA EventTypes ==
    ASSUME NEW e \in Event
    PROVE  e.type \in StopTypes \/ e.type = "SET_WHEEL_VELOCITY"
BY DEF Event

LEMMA StopEventIsEvent == \A t \in StopTypes : StopEvent(t) \in Event
BY DEF StopEvent, Event

LEMMA VelocityEventIsEvent == \A v \in Velocity : VelocityEvent(v) \in Event
BY DEF VelocityEvent, Event

-----------------------------------------------------------------------------
(* Type correctness. *)

LEMMA FlagsInductive == FlagTypeOK /\ [Next]_vars => FlagTypeOK'
<1> SUFFICES ASSUME FlagTypeOK, [Next]_vars PROVE FlagTypeOK'
  OBVIOUS
<1> USE DEF FlagTypeOK, motionVars, motorVars, historyVars
<1>1. CASE ReadCommand
  BY <1>1 DEF ReadCommand, QueueCommand
<1>2. CASE ReadResetStall
  BY <1>2 DEF ReadResetStall
<1>3. CASE ReadOther \/ CommunicationDone \/ EventsDone
  BY <1>3 DEF ReadOther, CommunicationDone, EventsDone
<1>4. CASE StopPopped
  BY <1>4 DEF StopPopped
<1>5. CASE VelocityPopped
  BY <1>5 DEF VelocityPopped, RequestWheelVelocity
<1>6. CASE StopController_Process
  BY <1>6 DEF BridgeHolds, StopController_Process, MotorOff
<1>7. CASE MotionController_Process
  BY <1>7 DEF MotionController_Process, CheckCommunicationTimeout
<1>8. CASE Motor_Process
  BY <1>8 DEF Motor_Process, Drive, Stall, MotorOff
<1>9. CASE Interrupt
  BY <1>9 DEF Interrupt, B1Pressed, SysTick, UartLine
<1>10. CASE Reboot
  BY <1>10 DEF Reboot
<1>11. CASE UNCHANGED vars
  BY <1>11 DEF vars
<1> QED BY <1>1, <1>2, <1>3, <1>4, <1>5, <1>6, <1>7, <1>8, <1>9, <1>10, <1>11
        DEF Next, MainLoop

LEMMA QueueInductive ==
    QueueTypeOK /\ DataTypeOK /\ [Next]_vars => QueueTypeOK'
<1> SUFFICES ASSUME QueueTypeOK, DataTypeOK, [Next]_vars PROVE QueueTypeOK'
  OBVIOUS
<1>1. CASE ReadCommand
  <2>1. Head(rx) \in Line
    BY <1>1 DEF ReadCommand, DataTypeOK
  <2>2. \E e \in Event : Push(e)
    BY <1>1, <2>1, StopEventIsEvent, VelocityEventIsEvent
    DEF ReadCommand, QueueCommand, Line, StopTypes
  <2> QED BY <2>2, QueuePushed
<1>2. CASE Pop
  BY <1>2, QueuePopped
<1>3. CASE UNCHANGED queue
  BY <1>3, QueueUnchanged
<1>4. CASE B1Pressed
  BY <1>4, QueuePushed, StopEventIsEvent DEF B1Pressed, StopTypes
<1>5. CASE MotionController_Process
  BY <1>5, QueueUnchanged, QueuePushed, StopEventIsEvent
  DEF MotionController_Process, CheckCommunicationTimeout, StopTypes
<1>6. CASE Reboot
  BY <1>6, QueueAssumption DEF Reboot, QueueTypeOK
<1>7. ReadResetStall \/ ReadOther \/ CommunicationDone \/ EventsDone
        \/ StopController_Process \/ Motor_Process \/ SysTick
        \/ (\E l \in Line : UartLine(l)) \/ UNCHANGED vars
        => UNCHANGED queue
  BY DEF ReadResetStall, ReadOther, CommunicationDone, EventsDone,
         StopController_Process, Motor_Process, SysTick, UartLine, vars
<1>8. StopPopped \/ VelocityPopped => Pop
  BY DEF StopPopped, VelocityPopped
<1> QED BY <1>1, <1>2, <1>3, <1>4, <1>5, <1>6, <1>7, <1>8 DEF Next, MainLoop, Interrupt

LEMMA DataInductive ==
    DataTypeOK /\ QueueTypeOK /\ [Next]_vars => DataTypeOK'
<1> SUFFICES ASSUME DataTypeOK, QueueTypeOK, [Next]_vars PROVE DataTypeOK'
  OBVIOUS
<1> USE QueueAssumption, FirmwareAssumption
    DEF DataTypeOK, ioVars, stopVars, motionVars, motorVars, historyVars, Calls, Level
<1>1. CASE ReadCommand
  BY <1>1 DEF ReadCommand, QueueCommand, Record
<1>2. CASE ReadOther
  BY <1>2 DEF ReadOther
<1>13. CASE ReadResetStall
  <2>1. stopped' \subseteq Level \cup {"STALL"} /\ stall_cause' \in Cause \cup {"NONE"}
          /\ target' \in Velocity
    BY <1>13 DEF ReadResetStall
  <2>2. Tail(rx) \in Seq(Line)
    BY <1>13 DEF ReadResetStall
  <2> QED BY <1>13, <2>1, <2>2 DEF ReadResetStall
<1>3. CASE CommunicationDone \/ EventsDone
  BY <1>3 DEF CommunicationDone, EventsDone
<1>12. CASE StopPopped
  <2>1. LevelOf(Head(queue).type) \in Level
    BY DEF LevelOf
  <2> QED BY <1>12, <2>1 DEF StopPopped
<1>4. CASE VelocityPopped
  <2>1. Head(queue) \in Event
    BY <1>4 DEF VelocityPopped, Pop, QueueTypeOK
  <2>2. Head(queue).vel \in Velocity
    BY <1>4, <2>1 DEF VelocityPopped, IsVelocity, Event, StopTypes
  <2>3. stop_requested' \subseteq Level /\ stopped' \subseteq Level \cup {"STALL"}
    BY <1>4 DEF VelocityPopped, RequestWheelVelocity, ClearOperationalStop
  <2>4. target' \in Velocity /\ age' \in 0 .. Timeout
    BY <1>4, <2>2 DEF VelocityPopped, RequestWheelVelocity
  <2> QED BY <1>4, <2>3, <2>4 DEF VelocityPopped
<1>5. CASE StopController_Process
  BY <1>5 DEF StopController_Process, MotorOff, Granted
<1>6. CASE MotionController_Process
  BY <1>6 DEF MotionController_Process
<1>7. CASE Motor_Process
  <2>1. limited' \in Velocity /\ requested' \in Velocity /\ stall_cause' \in Cause \cup {"NONE"}
    BY <1>7 DEF Motor_Process, Drive, Stall, MotorOff
  <2>2. pc' \in Calls /\ arrivals' \in 0 .. MaxArrivals
    BY <1>7 DEF Motor_Process
  <2>3. rx' \in Seq(Line) /\ age' \in 0 .. Timeout
    BY <1>7 DEF Motor_Process
  <2>4. stop_requested' \subseteq Level /\ stopped' \subseteq Level \cup {"STALL"}
          /\ target' \in Velocity /\ lastInput' \in {"NONE", "STOP", "SET_WHEEL_VEL"}
    BY <1>7 DEF Motor_Process
  <2> QED BY <2>1, <2>2, <2>3, <2>4
<1>8. CASE B1Pressed
  BY <1>8 DEF B1Pressed
<1>14. CASE SysTick
  BY <1>14 DEF SysTick
<1>9. ASSUME NEW l \in Line, UartLine(l) PROVE DataTypeOK'
  BY <1>9 DEF UartLine
<1>10. CASE Reboot
  BY <1>10 DEF Reboot
<1>11. CASE UNCHANGED vars
  BY <1>11 DEF vars
<1> QED BY <1>1, <1>2, <1>3, <1>4, <1>5, <1>6, <1>7, <1>8, <1>9, <1>10, <1>11, <1>12, <1>13, <1>14
        DEF Next, MainLoop, Interrupt

LEMMA TypeInit == Init => TypeOK
<1> SUFFICES ASSUME Init PROVE TypeOK
  OBVIOUS
<1>1. FlagTypeOK
  BY DEF Init, FlagTypeOK
<1>2. DataTypeOK
  BY QueueAssumption, FirmwareAssumption DEF Init, DataTypeOK, Calls
<1>3. QueueTypeOK
  BY QueueAssumption DEF Init, QueueInit, QueueTypeOK
<1> QED BY <1>1, <1>2, <1>3 DEF TypeOK

LEMMA TypeInductive == TypeOK /\ [Next]_vars => TypeOK'
BY FlagsInductive, DataInductive, QueueInductive DEF TypeOK

\* Every reachable state of the controller is well typed, and the event queue
\* never holds more than its buffer.
THEOREM TypeCorrect == Spec => []TypeOK
BY TypeInit, TypeInductive, PTL DEF Spec

-----------------------------------------------------------------------------
(* No wheel is driven while a stop is in force. *)

StillInv == StoppedMeansStill /\ StallMeansStill

LEMMA StillInductive == TypeOK /\ StillInv /\ [Next]_vars => StillInv'
<1> SUFFICES ASSUME TypeOK, StillInv, [Next]_vars PROVE StillInv'
  OBVIOUS
<1> USE DEF StillInv, StoppedMeansStill, StallMeansStill, Still,
            StopController_IsStopped, motorVars, stopVars
<1>1. CASE ReadCommand
  BY <1>1 DEF ReadCommand
<1>2. CASE ReadResetStall
  BY <1>2 DEF ReadResetStall
<1>3. CASE ReadOther \/ CommunicationDone
  BY <1>3 DEF ReadOther, CommunicationDone
<1>4. CASE StopPopped \/ EventsDone
  BY <1>4 DEF StopPopped, EventsDone
<1>5. CASE VelocityPopped
  <2>1. stopped' \subseteq stopped /\ ("STALL" \in stopped => "STALL" \in stopped')
    BY <1>5 DEF VelocityPopped, RequestWheelVelocity, ClearOperationalStop
  <2>2. UNCHANGED <<pc, motorVars>>
    BY <1>5 DEF VelocityPopped
  <2> QED BY <2>1, <2>2
<1>6. CASE StopController_Process
  <2>1. CASE stop_requested # {} \/ StallSeen
    <3>1. Still'
      BY <1>6, <2>1 DEF BridgeHolds, StopController_Process, MotorOff
    <3>2. "STALL" \in stopped' <=> stall_cause' # "NONE"
      BY <1>6 DEF StopController_Process, StallSeen, Granted, TypeOK, DataTypeOK, Level
    <3> QED BY <3>1, <3>2
  <2>2. CASE stop_requested = {} /\ ~StallSeen
    BY <1>6, <2>2 DEF StopController_Process, StallSeen, Granted
  <2> QED BY <2>1, <2>2
<1>7. CASE MotionController_Process
  BY <1>7 DEF MotionController_Process
<1>8. CASE Motor_Process
  <2>1. CASE Drive
    BY <1>8, <2>1 DEF Motor_Process, Drive
  <2>2. CASE Stall
    BY <1>8, <2>2 DEF Motor_Process, Stall, MotorOff
  <2> QED BY <1>8, <2>1, <2>2 DEF Motor_Process
<1>9. CASE Interrupt
  BY <1>9 DEF Interrupt, B1Pressed, SysTick, UartLine
<1>10. CASE Reboot
  BY <1>10 DEF Reboot
<1>11. CASE UNCHANGED vars
  BY <1>11 DEF vars
<1> QED BY <1>1, <1>2, <1>3, <1>4, <1>5, <1>6, <1>7, <1>8, <1>9, <1>10, <1>11
        DEF Next, MainLoop

LEMMA StillInit == Init => StillInv
BY DEF Init, StillInv, StoppedMeansStill, StallMeansStill, Still, StopController_IsStopped

\* Whatever the interleaving of commands, interrupts, stalls and resets, a stop
\* of any level in force keeps both wheels undriven.
THEOREM StopSafety == Spec => []StoppedMeansStill
<1>1. StillInv => StoppedMeansStill
  BY DEF StillInv
<1> QED BY <1>1, TypeCorrect, StillInit, StillInductive, PTL DEF Spec

\* A confirmed stall keeps the wheels undriven from the step that confirms it,
\* and StopController reflects it before MotionController runs again.
THEOREM StallSafety == Spec => []StallMeansStill
<1>1. StillInv => StallMeansStill
  BY DEF StillInv
<1> QED BY <1>1, TypeCorrect, StillInit, StillInductive, PTL DEF Spec

-----------------------------------------------------------------------------
(* Stops on their way from the queue to the motor. *)

\* After App_ProcessEvents only B1 and the timeout can add to the queue.
QueueAfterEvents ==
    pc \in {"Stop", "Motion", "Motor"} =>
        \A i \in DOMAIN queue :
            queue[i].type \in {"LATCHED_SAFE_STOP", "COMMUNICATION_TIMEOUT"}

RequestsServed == pc \notin {"Events", "Stop"} => stop_requested = {}

\* A STOP waits in q and no velocity waits behind it.
StopBehindVelocities(q) ==
    \E i \in DOMAIN q : /\ q[i].type = "OPERATIONAL_STOP"
                        /\ \A j \in DOMAIN q : j > i => ~IsVelocity(q[j])

NoVelocity(q) == \A j \in DOMAIN q : ~IsVelocity(q[j])

LevelActive == (stop_requested \cup stopped) \cap Level # {}

\* A STOP that came last waits behind every velocity, or was taken from the queue.
StopOnItsWay ==
    lastInput = "STOP" => \/ StopBehindVelocities(queue)
                          \/ NoVelocity(queue) /\ LevelActive

PowerCut == "EMERGENCY" \in stopped => ~bridge

LEMMA TailElements ==
    ASSUME NEW q \in Seq(Event), q # << >>
    PROVE  /\ Len(q) \in Nat \ {0} /\ DOMAIN q = 1 .. Len(q)
           /\ Head(q) = q[1]
           /\ DOMAIN Tail(q) = 1 .. (Len(q) - 1)
           /\ \A i \in DOMAIN Tail(q) : Tail(q)[i] = q[i + 1]
OBVIOUS

LEMMA AppendElements ==
    ASSUME NEW q \in Seq(Event), NEW e \in Event
    PROVE  /\ Len(q) \in Nat /\ DOMAIN q = 1 .. Len(q)
           /\ DOMAIN Append(q, e) = 1 .. (Len(q) + 1)
           /\ Append(q, e)[Len(q) + 1] = e
           /\ \A i \in DOMAIN q : Append(q, e)[i] = q[i]
OBVIOUS

\* Pushing a stop of one of two types leaves a queue that held only those.
LEMMA PushedOnly ==
    ASSUME NEW T \in SUBSET StopTypes, NEW t \in T, QueueTypeOK,
           \A i \in DOMAIN queue : queue[i].type \in T,
           Push(StopEvent(t))
    PROVE  \A i \in DOMAIN queue' : queue'[i].type \in T
<1>1. StopEvent(t) \in Event /\ StopEvent(t).type = t
  BY StopEventIsEvent DEF StopEvent
<1>2. queue' = IF Len(queue) < QueueSize THEN Append(queue, StopEvent(t)) ELSE queue
  BY PushedStop DEF Push, QueueTypeOK
<1>3. CASE Len(queue) < QueueSize
  BY <1>1, <1>2, <1>3, AppendElements DEF QueueTypeOK
<1>4. CASE ~(Len(queue) < QueueSize)
  BY <1>2, <1>4
<1> QED BY <1>3, <1>4

DeliveryInv == QueueAfterEvents /\ RequestsServed

LEMMA DeliveryInductive == TypeOK /\ DeliveryInv /\ [Next]_vars => DeliveryInv'
<1> SUFFICES ASSUME TypeOK, DeliveryInv, [Next]_vars PROVE DeliveryInv'
  OBVIOUS
<1> USE DEF DeliveryInv, QueueAfterEvents, RequestsServed, stopVars, TypeOK
<1>1. CASE ReadCommand
  BY <1>1 DEF ReadCommand
<1>2. CASE ReadResetStall \/ ReadOther \/ CommunicationDone
  BY <1>2 DEF ReadResetStall, ReadOther, CommunicationDone
<1>3. CASE StopPopped
  BY <1>3 DEF StopPopped
<1>4. CASE VelocityPopped
  BY <1>4 DEF VelocityPopped
<1>5. CASE EventsDone
  BY <1>5 DEF EventsDone
<1>6. CASE StopController_Process
  BY <1>6 DEF StopController_Process
<1>7. CASE MotionController_Process
  <2>1. QueueAfterEvents'
    <3>1. CASE TimeoutDue
      BY <1>7, <3>1, PushedOnly
      DEF MotionController_Process, CheckCommunicationTimeout, StopTypes
    <3>2. CASE ~TimeoutDue
      BY <1>7, <3>2 DEF MotionController_Process, CheckCommunicationTimeout
    <3> QED BY <3>1, <3>2
  <2> QED BY <1>7, <2>1 DEF MotionController_Process
<1>8. CASE Motor_Process
  BY <1>8 DEF Motor_Process
<1>9. CASE B1Pressed
  <2>1. pc \in {"Stop", "Motion", "Motor"} =>
          \A i \in DOMAIN queue' :
            queue'[i].type \in {"LATCHED_SAFE_STOP", "COMMUNICATION_TIMEOUT"}
    BY <1>9, PushedOnly DEF B1Pressed, StopTypes
  <2> QED BY <1>9, <2>1 DEF B1Pressed
<1>10. CASE SysTick \/ \E l \in Line : UartLine(l)
  BY <1>10 DEF SysTick, UartLine
<1>11. CASE Reboot
  BY <1>11 DEF Reboot
<1>12. CASE UNCHANGED vars
  BY <1>12 DEF vars
<1> QED BY <1>1, <1>2, <1>3, <1>4, <1>5, <1>6, <1>7, <1>8, <1>9, <1>10, <1>11, <1>12
        DEF Next, MainLoop, Interrupt

LEMMA DeliveryInit == Init => DeliveryInv
BY DEF Init, QueueInit, DeliveryInv, QueueAfterEvents, RequestsServed

-----------------------------------------------------------------------------
(* The timeout takes effect although its event may be dropped. *)

StopPending == \E t \in StopTypes : Pending(queue, t)

LEMMA PushKeepsPending ==
    ASSUME QueueTypeOK, StopPending, NEW e \in Event, Push(e)
    PROVE  StopPending'
<1>1. PICK i \in DOMAIN queue : queue[i].type \in StopTypes
  BY DEF StopPending, Pending
<1>2. i \in DOMAIN queue' /\ queue'[i] = queue[i]
  BY <1>1, PushedKeepsStops DEF Push, QueueTypeOK
<1> QED BY <1>1, <1>2 DEF StopPending, Pending

LEMMA PushMakesPending ==
    ASSUME QueueTypeOK, NEW t \in StopTypes, Push(StopEvent(t)),
           \A i \in DOMAIN queue : queue[i].type \in StopTypes
    PROVE  StopPending'
<1>1. StopEvent(t) \in Event /\ StopEvent(t).type = t
  BY StopEventIsEvent DEF StopEvent
<1>2. queue' = IF Len(queue) < QueueSize THEN Append(queue, StopEvent(t)) ELSE queue
  BY PushedStop DEF Push, QueueTypeOK
<1>3. CASE Len(queue) < QueueSize
  <2>1. Len(queue) + 1 \in DOMAIN queue' /\ queue'[Len(queue) + 1].type = t
    BY <1>1, <1>2, <1>3, AppendElements DEF QueueTypeOK
  <2> QED BY <2>1 DEF StopPending, Pending
<1>4. CASE ~(Len(queue) < QueueSize)
  <2>1. 1 \in DOMAIN queue /\ queue' = queue
    BY <1>2, <1>4, QueueAssumption DEF QueueTypeOK
  <2> QED BY <2>1 DEF StopPending, Pending
<1> QED BY <1>3, <1>4

LEMMA TimeoutInductive ==
    TypeOK /\ DeliveryInv /\ TimeoutNotLost /\ [Next]_vars => TimeoutNotLost'
<1> SUFFICES ASSUME TypeOK, DeliveryInv, TimeoutNotLost, [Next]_vars, timeout_latched'
             PROVE  StopPending' \/ LevelActive'
  BY DEF TimeoutNotLost, StopPending, LevelActive
<1>a. timeout_latched => StopPending \/ LevelActive
  BY DEF TimeoutNotLost, StopPending, LevelActive
<1>b. UNCHANGED <<queue, stopVars, timeout_latched>> => StopPending' \/ LevelActive'
  BY <1>a DEF StopPending, LevelActive, stopVars
<1> USE DEF TypeOK
<1>1. CASE ReadCommand
  <2>1. Head(rx) \in Line
    BY <1>1 DEF ReadCommand, DataTypeOK
  <2>2. PICK e \in Event : Push(e)
    BY <1>1, <2>1, StopEventIsEvent, VelocityEventIsEvent
    DEF ReadCommand, QueueCommand, Line, StopTypes
  <2>3. UNCHANGED <<stopVars, timeout_latched>>
    BY <1>1 DEF ReadCommand, motionVars
  <2> QED BY <1>a, <2>2, <2>3, PushKeepsPending DEF LevelActive, stopVars
<1>2. CASE ReadResetStall
  BY <1>2, <1>a DEF ReadResetStall, StopPending, LevelActive, Level
<1>3. CASE StopPopped
  <2>1. LevelOf(Head(queue).type) \in Level
    BY DEF LevelOf, Level
  <2> QED BY <1>3, <2>1 DEF StopPopped, LevelActive
<1>4. CASE VelocityPopped
  <2>1. "EMERGENCY" \in stopped /\ UNCHANGED stopVars
    BY <1>4 DEF VelocityPopped, RequestWheelVelocity
  <2> QED BY <2>1 DEF LevelActive, Level, stopVars
<1>5. CASE StopController_Process
  <2>1. LevelActive => LevelActive'
    BY <1>5 DEF StopController_Process, Granted, LevelActive, DataTypeOK, Level
  <2> QED BY <1>5, <1>a, <2>1 DEF StopController_Process, StopPending, motionVars
<1>6. CASE MotionController_Process
  <2>1. CASE TimeoutDue
    <3>1. \A i \in DOMAIN queue : queue[i].type \in StopTypes
      BY <1>6 DEF MotionController_Process, DeliveryInv, QueueAfterEvents, StopTypes
    <3> QED BY <1>6, <2>1, <3>1, PushMakesPending
            DEF MotionController_Process, CheckCommunicationTimeout, StopTypes
  <2>2. CASE ~TimeoutDue
    BY <1>6, <1>b, <2>2 DEF MotionController_Process, CheckCommunicationTimeout
  <2> QED BY <2>1, <2>2
<1>7. CASE B1Pressed
  <2>1. UNCHANGED <<stopVars, timeout_latched>> /\ Push(StopEvent("LATCHED_SAFE_STOP"))
    BY <1>7 DEF B1Pressed, motionVars
  <2>2. StopEvent("LATCHED_SAFE_STOP") \in Event
    BY StopEventIsEvent DEF StopTypes
  <2> QED BY <1>a, <2>1, <2>2, PushKeepsPending DEF LevelActive, stopVars
<1>8. CASE Reboot
  BY <1>8 DEF Reboot
<1>9. ReadOther \/ CommunicationDone \/ EventsDone \/ Motor_Process \/ SysTick
        \/ (\E l \in Line : UartLine(l)) \/ UNCHANGED vars
        => UNCHANGED <<queue, stopVars, timeout_latched>>
  BY DEF ReadOther, CommunicationDone, EventsDone, Motor_Process, SysTick, UartLine,
         vars, motionVars
<1> QED BY <1>b, <1>1, <1>2, <1>3, <1>4, <1>5, <1>6, <1>7, <1>8, <1>9
        DEF Next, MainLoop, Interrupt

\* The one-shot timeout is never lost: while it is latched a stop is queued,
\* requested or in force, even if its own event found the queue full.
THEOREM TimeoutSafety == Spec => []TimeoutNotLost
<1>1. Init => TimeoutNotLost
  BY DEF Init, TimeoutNotLost
<1> QED BY <1>1, TypeCorrect, DeliveryInit, DeliveryInductive, TimeoutInductive, PTL
        DEF Spec

-----------------------------------------------------------------------------
(* The last STOP wins over every velocity before it. *)

\* A stop that is pushed comes between no STOP and the velocities before it.
LEMMA PushStopKeepsOrder ==
    ASSUME QueueTypeOK, NEW t \in StopTypes, Push(StopEvent(t))
    PROVE  /\ StopBehindVelocities(queue) => StopBehindVelocities(queue')
           /\ NoVelocity(queue) => NoVelocity(queue')
           /\ t = "OPERATIONAL_STOP" /\ Accepted(queue, StopEvent(t))
                => StopBehindVelocities(queue')
           /\ ~Accepted(queue, StopEvent(t)) => queue' = queue
<1>1. StopEvent(t) \in Event /\ StopEvent(t).type = t /\ ~IsVelocity(StopEvent(t))
  BY StopEventIsEvent DEF StopEvent, IsVelocity, StopTypes
<1>2. queue' = IF Len(queue) < QueueSize THEN Append(queue, StopEvent(t)) ELSE queue
  BY PushedStop DEF Push, QueueTypeOK
<1>3. Accepted(queue, StopEvent(t)) <=> Len(queue) < QueueSize
  BY <1>1 DEF Accepted
<1>4. CASE Len(queue) < QueueSize
  <2> DEFINE n == Len(queue)
  <2>1. /\ n \in Nat /\ DOMAIN queue = 1 .. n /\ DOMAIN queue' = 1 .. (n + 1)
        /\ queue'[n + 1] = StopEvent(t)
        /\ \A i \in DOMAIN queue : queue'[i] = queue[i]
    BY <1>1, <1>2, <1>4, AppendElements DEF QueueTypeOK
  <2>2. StopBehindVelocities(queue) => StopBehindVelocities(queue')
    <3> SUFFICES ASSUME StopBehindVelocities(queue) PROVE StopBehindVelocities(queue')
      OBVIOUS
    <3>1. PICK i \in DOMAIN queue :
              /\ queue[i].type = "OPERATIONAL_STOP"
              /\ \A j \in DOMAIN queue : j > i => ~IsVelocity(queue[j])
      BY DEF StopBehindVelocities
    <3>2. \A j \in DOMAIN queue' : j \in DOMAIN queue \/ j = n + 1
      BY <2>1
    <3>3. i \in DOMAIN queue' /\ queue'[i].type = "OPERATIONAL_STOP"
      BY <2>1, <3>1
    <3>4. \A j \in DOMAIN queue' : j > i => ~IsVelocity(queue'[j])
      BY <1>1, <2>1, <3>1, <3>2
    <3> QED BY <3>3, <3>4 DEF StopBehindVelocities
  <2>3. NoVelocity(queue) => NoVelocity(queue')
    <3>1. \A j \in DOMAIN queue' : j \in DOMAIN queue \/ j = n + 1
      BY <2>1
    <3> QED BY <1>1, <2>1, <3>1 DEF NoVelocity
  <2>4. t = "OPERATIONAL_STOP" => StopBehindVelocities(queue')
    <3>1. n + 1 \in DOMAIN queue' /\ \A j \in DOMAIN queue' : ~(j > n + 1)
      BY <2>1
    <3> QED BY <1>1, <2>1, <3>1 DEF StopBehindVelocities
  <2> QED BY <1>3, <1>4, <2>2, <2>3, <2>4
<1>5. CASE ~(Len(queue) < QueueSize)
  BY <1>2, <1>3, <1>5
<1> QED BY <1>4, <1>5

\* What the head leaves behind: a STOP that was not the head still waits.
LEMMA PopKeepsOrder ==
    ASSUME QueueTypeOK, Pop
    PROVE  /\ NoVelocity(queue) => ~IsVelocity(Head(queue)) /\ NoVelocity(queue')
           /\ StopBehindVelocities(queue) =>
                \/ StopBehindVelocities(queue')
                \/ Head(queue).type = "OPERATIONAL_STOP" /\ NoVelocity(queue')
<1> DEFINE n == Len(queue)
<1>1. /\ n \in Nat \ {0} /\ DOMAIN queue = 1 .. n /\ Head(queue) = queue[1]
      /\ queue' = Tail(queue) /\ DOMAIN queue' = 1 .. (n - 1)
      /\ \A j \in DOMAIN queue' : queue'[j] = queue[j + 1]
  BY TailElements DEF Pop, QueueTypeOK
<1>2. \A j \in DOMAIN queue' : j \in Nat /\ j + 1 \in DOMAIN queue /\ j + 1 > 1
  BY <1>1
<1>3. NoVelocity(queue) => ~IsVelocity(Head(queue)) /\ NoVelocity(queue')
  <2>1. 1 \in DOMAIN queue
    BY <1>1
  <2> QED BY <1>1, <1>2, <2>1 DEF NoVelocity
<1>4. ASSUME StopBehindVelocities(queue)
      PROVE  \/ StopBehindVelocities(queue')
             \/ Head(queue).type = "OPERATIONAL_STOP" /\ NoVelocity(queue')
  <2>1. PICK i \in DOMAIN queue :
            /\ queue[i].type = "OPERATIONAL_STOP"
            /\ \A j \in DOMAIN queue : j > i => ~IsVelocity(queue[j])
    BY <1>4 DEF StopBehindVelocities
  <2>2. CASE i = 1
    BY <1>1, <1>2, <2>1, <2>2 DEF NoVelocity
  <2>3. CASE i # 1
    <3>1. i - 1 \in DOMAIN queue' /\ queue'[i - 1].type = "OPERATIONAL_STOP"
      <4>1. i - 1 \in DOMAIN queue' /\ (i - 1) + 1 = i
        BY <1>1, <2>3
      <4> QED BY <1>1, <2>1, <4>1
    <3>2. \A j \in DOMAIN queue' : j > i - 1 => j + 1 > i
      BY <1>1
    <3>3. \A j \in DOMAIN queue' : j > i - 1 => ~IsVelocity(queue'[j])
      BY <1>1, <1>2, <2>1, <3>2
    <3> QED BY <3>1, <3>3 DEF StopBehindVelocities
  <2> QED BY <2>2, <2>3
<1> QED BY <1>3, <1>4

LEMMA StopOnItsWayInductive ==
    TypeOK /\ StopOnItsWay /\ [Next]_vars => StopOnItsWay'
<1> SUFFICES ASSUME TypeOK, StopOnItsWay, [Next]_vars, lastInput' = "STOP"
             PROVE  \/ StopBehindVelocities(queue')
                    \/ NoVelocity(queue') /\ LevelActive'
  BY DEF StopOnItsWay
<1> USE DEF TypeOK
<1>a. lastInput = "STOP" => StopBehindVelocities(queue) \/ (NoVelocity(queue) /\ LevelActive)
  BY DEF StopOnItsWay
<1>b. ASSUME lastInput = "STOP", queue' = queue, LevelActive => LevelActive'
      PROVE  StopBehindVelocities(queue') \/ (NoVelocity(queue') /\ LevelActive')
  <2>1. StopBehindVelocities(queue) => StopBehindVelocities(queue')
    BY <1>b
  <2>2. NoVelocity(queue) => NoVelocity(queue')
    BY <1>b
  <2> QED BY <1>a, <1>b, <2>1, <2>2
<1>c. UNCHANGED stopVars => (LevelActive => LevelActive')
  BY DEF LevelActive, stopVars
<1>1. CASE ReadCommand
  <2>1. UNCHANGED stopVars
    BY <1>1 DEF ReadCommand
  <2>2. Head(rx) \in Line
    BY <1>1 DEF ReadCommand, DataTypeOK
  <2>3. CASE Head(rx).cmd = "SET_WHEEL_VEL"
    <3>1. ~Accepted(queue, VelocityEvent(Head(rx).vel)) /\ lastInput = "STOP"
      BY <1>1, <2>3 DEF ReadCommand, QueueCommand, Record
    <3>2. queue' = Pushed(queue, VelocityEvent(Head(rx).vel))
      BY <1>1, <2>3 DEF ReadCommand, QueueCommand, Push
    <3>3. queue' = queue
      BY <3>1, <3>2 DEF Accepted, Pushed
    <3> QED BY <1>b, <1>c, <2>1, <3>1, <3>3
  <2>4. CASE Head(rx).cmd = "STOP"
    <3>1. Push(StopEvent("OPERATIONAL_STOP"))
      BY <1>1, <2>4 DEF ReadCommand, QueueCommand
    <3>2. CASE Accepted(queue, StopEvent("OPERATIONAL_STOP"))
      BY <3>1, <3>2, PushStopKeepsOrder DEF StopTypes
    <3>3. CASE ~Accepted(queue, StopEvent("OPERATIONAL_STOP"))
      <4>1. lastInput = "STOP"
        BY <1>1, <2>4, <3>3 DEF ReadCommand, QueueCommand, Record
      <4>2. queue' = queue
        BY <3>1, <3>3, PushStopKeepsOrder DEF StopTypes
      <4> QED BY <1>b, <1>c, <2>1, <4>1, <4>2
    <3> QED BY <3>2, <3>3
  <2>5. CASE Head(rx).cmd = "ESTOP"
    <3>1. Push(StopEvent("EMERGENCY_STOP")) /\ lastInput = "STOP"
      BY <1>1, <2>5 DEF ReadCommand, QueueCommand, historyVars
    <3> QED BY <1>a, <1>c, <2>1, <3>1, PushStopKeepsOrder DEF StopTypes
  <2> QED BY <1>1, <2>3, <2>4, <2>5 DEF ReadCommand, QueueCommand
<1>2. CASE ReadResetStall
  <2>1. LevelActive => LevelActive'
    BY <1>2 DEF ReadResetStall, LevelActive, Level
  <2> QED BY <1>2, <1>b, <2>1 DEF ReadResetStall
<1>3. CASE StopPopped
  <2>1. Pop /\ lastInput = "STOP"
    BY <1>3 DEF StopPopped, historyVars
  <2>2. LevelActive'
    <3>1. LevelOf(Head(queue).type) \in Level
      BY DEF LevelOf, Level
    <3> QED BY <1>3, <3>1 DEF StopPopped, LevelActive
  <2> QED BY <1>a, <2>1, <2>2, PopKeepsOrder
<1>4. CASE VelocityPopped
  <2>1. Pop /\ lastInput = "STOP" /\ IsVelocity(Head(queue))
    BY <1>4 DEF VelocityPopped, historyVars
  <2>2. Head(queue).type # "OPERATIONAL_STOP"
    BY <2>1 DEF IsVelocity
  <2> QED BY <1>a, <2>1, <2>2, PopKeepsOrder
<1>5. CASE StopController_Process
  <2>1. LevelActive => LevelActive'
    BY <1>5 DEF StopController_Process, Granted, LevelActive, DataTypeOK, Level
  <2> QED BY <1>5, <1>b, <2>1 DEF StopController_Process, historyVars
<1>6. CASE MotionController_Process
  <2>1. UNCHANGED stopVars /\ lastInput = "STOP"
    BY <1>6 DEF MotionController_Process, historyVars
  <2>2. CASE TimeoutDue
    <3>1. Push(StopEvent("COMMUNICATION_TIMEOUT"))
      BY <1>6, <2>2 DEF MotionController_Process, CheckCommunicationTimeout
    <3> QED BY <1>a, <1>c, <2>1, <3>1, PushStopKeepsOrder DEF StopTypes
  <2>3. CASE ~TimeoutDue
    <3>1. queue' = queue
      BY <1>6, <2>3 DEF MotionController_Process, CheckCommunicationTimeout
    <3> QED BY <1>b, <1>c, <2>1, <3>1
  <2> QED BY <2>2, <2>3
<1>7. CASE B1Pressed
  <2>1. UNCHANGED stopVars /\ lastInput = "STOP" /\ Push(StopEvent("LATCHED_SAFE_STOP"))
    BY <1>7 DEF B1Pressed, historyVars
  <2> QED BY <1>a, <1>c, <2>1, PushStopKeepsOrder DEF StopTypes
<1>8. CASE Reboot
  BY <1>8 DEF Reboot
<1>9. CASE \/ ReadOther \/ CommunicationDone \/ EventsDone \/ Motor_Process \/ SysTick
           \/ (\E l \in Line : UartLine(l)) \/ UNCHANGED vars
  <2>1. queue' = queue /\ UNCHANGED stopVars /\ lastInput = "STOP"
    BY <1>9 DEF ReadOther, CommunicationDone, EventsDone, Motor_Process, SysTick,
                UartLine, vars, historyVars
  <2> QED BY <1>b, <1>c, <2>1
<1> QED BY <1>1, <1>2, <1>3, <1>4, <1>5, <1>6, <1>7, <1>8, <1>9
        DEF Next, MainLoop, Interrupt

\* When the target is handed to the motor, a STOP that was queued after the last
\* velocity is in force: the coalescing queue lets no older velocity past it.
THEOREM StopOrder == Spec => []LastStopWins
<1>1. Init => StopOnItsWay
  BY DEF Init, StopOnItsWay
<1>2. TypeOK /\ DeliveryInv /\ StopOnItsWay => LastStopWins
  <2> SUFFICES ASSUME TypeOK, DeliveryInv, StopOnItsWay, pc \in {"Motion", "Motor"},
                      lastInput = "STOP"
               PROVE  StopController_IsStopped
    BY DEF LastStopWins
  <2>1. \A i \in DOMAIN queue : queue[i].type # "OPERATIONAL_STOP"
    BY DEF DeliveryInv, QueueAfterEvents
  <2>2. LevelActive
    BY <2>1 DEF StopOnItsWay, StopBehindVelocities
  <2>3. stop_requested = {}
    BY DEF DeliveryInv, RequestsServed
  <2> QED BY <2>2, <2>3 DEF LevelActive, StopController_IsStopped
<1> QED BY <1>1, <1>2, TypeCorrect, DeliveryInit, DeliveryInductive,
           StopOnItsWayInductive, PTL DEF Spec

-----------------------------------------------------------------------------
(* The latches hold until a reboot. *)

LEMMA LatchStep ==
    ASSUME TypeOK, [Next]_vars, NEW k \in Latches, k \in stopped, ~Reboot
    PROVE  k \in stopped' /\ (PowerCut /\ k = "EMERGENCY" => ~bridge')
<1> USE DEF stopVars, motorVars, PowerCut, Latches
<1>1. CASE ReadCommand \/ ReadOther \/ CommunicationDone \/ EventsDone \/ StopPopped
  BY <1>1 DEF ReadCommand, ReadOther, CommunicationDone, EventsDone, StopPopped
<1>2. CASE ReadResetStall
  BY <1>2 DEF ReadResetStall
<1>3. CASE VelocityPopped
  BY <1>3 DEF VelocityPopped, RequestWheelVelocity, ClearOperationalStop
<1>4. CASE StopController_Process
  BY <1>4 DEF BridgeHolds, StopController_Process
<1>5. CASE MotionController_Process \/ Motor_Process
  BY <1>5 DEF MotionController_Process, Motor_Process
<1>6. CASE Interrupt
  BY <1>6 DEF Interrupt, B1Pressed, SysTick, UartLine
<1>7. CASE UNCHANGED vars
  BY <1>7 DEF vars
<1> QED BY <1>1, <1>2, <1>3, <1>4, <1>5, <1>6, <1>7 DEF Next, MainLoop

LEMMA PowerCutInductive == TypeOK /\ PowerCut /\ [Next]_vars => PowerCut'
<1> SUFFICES ASSUME TypeOK, PowerCut, [Next]_vars, "EMERGENCY" \in stopped' PROVE ~bridge'
  BY DEF PowerCut
<1>1. CASE "EMERGENCY" \in stopped /\ ~Reboot
  BY <1>1, LatchStep DEF Latches
<1>2. CASE Reboot
  BY <1>2 DEF Reboot
<1>3. CASE "EMERGENCY" \notin stopped /\ StopController_Process
  BY <1>3 DEF BridgeHolds, StopController_Process, Granted
<1>4. CASE "EMERGENCY" \notin stopped /\ ~StopController_Process /\ ~Reboot
  BY <1>4 DEF Next, MainLoop, Interrupt, ReadCommand, ReadResetStall, ReadOther,
     CommunicationDone, StopPopped, VelocityPopped, EventsDone, RequestWheelVelocity,
     ClearOperationalStop, MotionController_Process, Motor_Process, B1Pressed,
     SysTick, UartLine, vars, stopVars
<1> QED BY <1>1, <1>2, <1>3, <1>4

\* B1 holds the cart until it is rebooted: no sequence of commands, resets,
\* timeouts or later stops ends the latched safe stop.
THEOREM LatchedHolds == Spec => LatchedUntilReboot
<1>1. TypeOK /\ [Next]_vars =>
        [("LATCHED_SAFE" \in stopped => "LATCHED_SAFE" \in stopped') \/ Reboot]_vars
  BY LatchStep DEF Latches
<1> QED BY <1>1, TypeCorrect, PTL DEF Spec, LatchedUntilReboot

\* ESTOP holds, with the bridge powered down, until the cart is rebooted.
THEOREM EmergencyHolds == Spec => EmergencyUntilReboot
<1>1. Init => PowerCut
  BY DEF Init, PowerCut
<1>2. TypeOK /\ PowerCut /\ [Next]_vars =>
        [("EMERGENCY" \in stopped => "EMERGENCY" \in stopped' /\ ~bridge') \/ Reboot]_vars
  BY LatchStep DEF Latches
<1> QED BY <1>1, <1>2, TypeCorrect, PowerCutInductive, PTL DEF Spec, EmergencyUntilReboot

-----------------------------------------------------------------------------
(* CartFirmware implements DriveGuard. *)

\* A drive that is switched off drives no wheel.
OffMeansStill == ~enabled => ~driven /\ limited = Zero

LEMMA OffInductive == OffMeansStill /\ [Next]_vars => OffMeansStill'
<1> SUFFICES ASSUME OffMeansStill, [Next]_vars PROVE OffMeansStill'
  OBVIOUS
<1> USE DEF OffMeansStill, motorVars
<1>1. CASE ReadCommand \/ ReadResetStall \/ ReadOther \/ CommunicationDone
  BY <1>1 DEF ReadCommand, ReadResetStall, ReadOther, CommunicationDone
<1>2. CASE StopPopped \/ VelocityPopped \/ EventsDone
  BY <1>2 DEF StopPopped, VelocityPopped, EventsDone
<1>3. CASE StopController_Process
  BY <1>3 DEF StopController_Process, MotorOff
<1>4. CASE MotionController_Process
  BY <1>4 DEF MotionController_Process
<1>5. CASE Motor_Process
  BY <1>5 DEF Motor_Process, Drive, Stall, MotorOff
<1>6. CASE Interrupt
  BY <1>6 DEF Interrupt, B1Pressed, SysTick, UartLine
<1>7. CASE Reboot
  BY <1>7 DEF Reboot
<1>8. CASE UNCHANGED vars
  BY <1>8 DEF vars
<1> QED BY <1>1, <1>2, <1>3, <1>4, <1>5, <1>6, <1>7, <1>8 DEF Next, MainLoop

\* The reasons to stop as DriveGuard sees them.
Held == stopped \cup (IF stall_cause = "NONE" THEN {} ELSE {"STALL"})

GuardInv == TypeOK /\ StillInv /\ OffMeansStill

LEMMA StutterOfGuard ==
    ASSUME UNCHANGED <<stopped, stall_cause, enabled, limited, driven, bridge>>
    PROVE  UNCHANGED Guard!guardVars
BY DEF Guard!guardVars, Still

LEMMA GuardStep == GuardInv /\ [Next]_vars => [Guard!GuardNext]_(Guard!guardVars)
<1> SUFFICES ASSUME GuardInv, [Next]_vars
             PROVE  Guard!GuardNext \/ UNCHANGED Guard!guardVars
  OBVIOUS
<1> USE DEF GuardInv
<1>1. CASE ReadCommand \/ ReadOther \/ CommunicationDone \/ StopPopped \/ EventsDone
           \/ Interrupt
  <2>1. UNCHANGED <<stopped, stall_cause, enabled, limited, driven, bridge>>
    BY <1>1 DEF ReadCommand, ReadOther, CommunicationDone, StopPopped, EventsDone,
       Interrupt, B1Pressed, SysTick, UartLine, stopVars, motorVars
  <2> QED BY <2>1, StutterOfGuard
<1>2. CASE ReadResetStall
  <2>1. CASE StallResettable
    <3>1. Held \cap Latches = {} /\ Held' = Held \ {"STALL"}
      BY <1>2, <2>1 DEF ReadResetStall, StallResettable, Held, Latches
    <3>2. Still' = Still /\ bridge' = bridge
      BY <1>2 DEF ReadResetStall, Still
    <3>3. Guard!Lift("STALL")
      BY <3>1, <3>2 DEF Guard!Lift, Guard!UntilReset, Held, Latches
    <3> QED BY <3>3 DEF Guard!GuardNext, Guard!Liftable
  <2>2. CASE ~StallResettable
    BY <1>2, <2>2, StutterOfGuard DEF ReadResetStall
  <2> QED BY <2>1, <2>2
<1>3. CASE VelocityPopped
  <2>1. UNCHANGED <<stall_cause, enabled, limited, driven, bridge>>
    BY <1>3 DEF VelocityPopped, motorVars
  <2>2. CASE UNCHANGED stopped
    BY <2>1, <2>2, StutterOfGuard
  <2>3. CASE stopped \cap Latches = {} /\ stopped' = stopped \ {"OPERATIONAL"}
    <3>1. Held \cap Latches = {} /\ Held' = Held \ {"OPERATIONAL"}
      BY <2>1, <2>3 DEF Held, Latches
    <3>2. Guard!Lift("OPERATIONAL")
      BY <2>1, <3>1 DEF Guard!Lift, Guard!UntilReset, Held, Latches, Still
    <3> QED BY <3>2 DEF Guard!GuardNext, Guard!Liftable
  <2> QED BY <1>3, <2>2, <2>3
          DEF VelocityPopped, RequestWheelVelocity, ClearOperationalStop, stopVars
<1>4. CASE StopController_Process
  <2> DEFINE reasons == Granted \cup (IF StallSeen THEN {"STALL"} ELSE {})
  <2>1. CASE stop_requested # {} \/ StallSeen
    <3>1. reasons \in (SUBSET Guard!Reasons) \ {{}}
      BY <2>1 DEF Granted, TypeOK, DataTypeOK, Level, Guard!Reasons
    <3>2. Held' = Held \cup reasons
      BY <1>4 DEF StopController_Process, Held
    <3>3. Still'
      BY <1>4, <2>1 DEF StopController_Process, MotorOff, Still
    <3>4. bridge' = (bridge /\ "EMERGENCY" \notin reasons)
      BY <1>4 DEF StopController_Process, BridgeHolds, Granted
    <3>5. Guard!StopFor(reasons)
      BY <3>2, <3>3, <3>4 DEF Guard!StopFor, Held
    <3> QED BY <3>1, <3>5 DEF Guard!GuardNext
  <2>2. CASE stop_requested = {} /\ ~StallSeen
    <3>1. UNCHANGED <<stopped, stall_cause, enabled, limited, driven>>
      BY <1>4, <2>2 DEF StopController_Process, Granted
    <3>2. UNCHANGED bridge
      BY <1>4, <2>2 DEF StopController_Process, BridgeHolds, TypeOK, FlagTypeOK
    <3> QED BY <3>1, <3>2, StutterOfGuard
  <2> QED BY <2>1, <2>2
<1>5. CASE MotionController_Process
  <2>1. UNCHANGED <<stopped, stall_cause, limited, driven, bridge>>
    BY <1>5 DEF MotionController_Process, stopVars
  <2>2. CASE StopController_IsStopped
    BY <1>5, <2>1, <2>2, StutterOfGuard DEF MotionController_Process
  <2>3. CASE ~StopController_IsStopped
    <3>1. Held = {} /\ ~Still'
      BY <1>5, <2>3
      DEF MotionController_Process, StopController_IsStopped, Held, Still,
          StillInv, StallMeansStill
    <3>2. Guard!Start
      BY <2>1, <3>1 DEF Guard!Start, Held
    <3> QED BY <3>2 DEF Guard!GuardNext
  <2> QED BY <2>2, <2>3
<1>6. CASE Motor_Process
  <2>1. UNCHANGED <<stopped, bridge>>
    BY <1>6 DEF Motor_Process, stopVars
  <2>2. CASE Drive
    <3>1. UNCHANGED stall_cause /\ Still' = Still
      BY <2>2 DEF Drive, Still, OffMeansStill
    <3> QED BY <2>1, <3>1 DEF Guard!guardVars
  <2>3. CASE Stall
    <3>1. Held' = Held \cup {"STALL"} /\ Still'
      BY <2>1, <2>3, FirmwareAssumption DEF Stall, MotorOff, Held, Still
    <3>2. Guard!StopFor({"STALL"})
      BY <2>1, <3>1 DEF Guard!StopFor, Held, TypeOK, FlagTypeOK
    <3> QED BY <3>2 DEF Guard!GuardNext, Guard!Reasons
  <2> QED BY <1>6, <2>2, <2>3 DEF Motor_Process
<1>7. CASE Reboot
  <2>1. Guard!Reset
    BY <1>7 DEF Reboot, Guard!Reset, Still
  <2> QED BY <2>1 DEF Guard!GuardNext
<1>8. CASE UNCHANGED vars
  BY <1>8, StutterOfGuard DEF vars, stopVars, motorVars
<1> QED BY <1>1, <1>2, <1>3, <1>4, <1>5, <1>6, <1>7, <1>8 DEF Next, MainLoop

\* The flags of the stop, motion and motor controllers together behave as one
\* guard: the drive starts only when no reason to stop is in force anywhere, and
\* no reason is lifted by what may not lift it.
THEOREM GuardRefinement == Spec => ImplementsGuard
<1>1. Init => Guard!GuardInit /\ OffMeansStill
  BY DEF Init, Guard!GuardInit, OffMeansStill, Still
<1>2. TypeOK /\ StillInv /\ OffMeansStill /\ [Next]_vars
        => [Guard!GuardNext]_(Guard!guardVars)
  BY GuardStep DEF GuardInv
<1> QED BY <1>1, <1>2, TypeCorrect, StillInit, StillInductive, OffInductive, PTL
        DEF Spec, ImplementsGuard, Guard!GuardSpec

-----------------------------------------------------------------------------
(* The board of the composition is the board of CartFirmware. *)

LEMMA SelectedVelocity == Bridge!BridgeTypeOK => Bridge!Selected \in Velocity
BY QueueAssumption DEF Bridge!BridgeTypeOK, Bridge!Selected

LEMMA AssembledLine == \A v \in Velocity : Assembled(v) \in Line
BY DEF Assembled, Line

\* What the bridge sends is a line for the board, and whatever else happens to the
\* board is a step of its own: its loop, its interrupts, a reset, or nothing.
LEMMA BoardStep == Bridge!BridgeTypeOK /\ [DriveNext]_driveVars => [Next]_vars
<1> SUFFICES ASSUME Bridge!BridgeTypeOK, [DriveNext]_driveVars PROVE [Next]_vars
  OBVIOUS
<1>1. CASE TxTimer
  BY <1>1, SelectedVelocity, AssembledLine DEF TxTimer, Next, Interrupt
<1>2. CASE BoardReads \/ BoardStops \/ BoardDrives
  BY <1>2 DEF BoardReads, BoardStops, BoardDrives, Next, MainLoop
<1>3. CASE ButtonPressed \/ BoardResets
  BY <1>3 DEF ButtonPressed, BoardResets, Next, Interrupt
<1>4. CASE ClockTicks
  BY <1>4 DEF ClockTicks, Next, Interrupt
<1>5. NodeStarts \/ NodeEnds \/ (CmdVelArrives \/ TxFailsHalfWay \/ RxTimer)
        \/ UNCHANGED driveVars => UNCHANGED vars
  BY DEF NodeStarts, NodeEnds, CmdVelArrives, TxFailsHalfWay, RxTimer, driveVars
<1> QED BY <1>1, <1>2, <1>3, <1>4, <1>5 DEF DriveNext

DriveFlags == /\ running \in BOOLEAN /\ spoiled \in BOOLEAN /\ passed \in BOOLEAN
              /\ sent \in BOOLEAN /\ witnessed \in BOOLEAN

DriveData == /\ latest \in Velocity /\ cmd_age \in 0 .. CmdTimeout
             /\ fault \in Cause \cup {"NONE"} /\ fault_line \in Cause \cup {"NO_LINE"}
             /\ quiet \in 0 .. Silence

LEMMA DriveTypeSplit == /\ DriveTypeOK <=> DriveFlags /\ DriveData
                        /\ DriveTypeOK' <=> DriveFlags' /\ DriveData'
BY DEF DriveTypeOK, DriveFlags, DriveData, Bridge!BridgeTypeOK, Bridge!Fault

LEMMA DriveFlagsInductive == DriveFlags /\ [DriveNext]_driveVars => DriveFlags'
<1> SUFFICES ASSUME DriveFlags, [DriveNext]_driveVars PROVE DriveFlags'
  OBVIOUS
<1> USE DEF DriveFlags, nodeVars, lineVars, clockVars
<1>1. CASE NodeStarts
  BY <1>1 DEF NodeStarts, Bridge!Start
<1>2. CASE NodeEnds \/ TxFailsHalfWay
  BY <1>2 DEF NodeEnds, TxFailsHalfWay, Bridge!Interrupted, Bridge!Abort
<1>3. CASE CmdVelArrives
  BY <1>3 DEF CmdVelArrives, Bridge!CmdVel
<1>4. CASE TxTimer
  BY <1>4 DEF TxTimer, Bridge!Tx, Bridge!bridgeVars
<1>5. CASE RxTimer
  BY <1>5 DEF RxTimer, Bridge!Rx
<1>6. CASE BoardReads \/ BoardDrives \/ ButtonPressed \/ BoardResets
  BY <1>6 DEF BoardReads, BoardDrives, ButtonPressed, BoardResets
<1>7. CASE BoardStops
  BY <1>7 DEF BoardStops
<1>8. CASE ClockTicks
  BY <1>8 DEF ClockTicks, Bridge!Elapse
<1>9. CASE UNCHANGED driveVars
  BY <1>9 DEF driveVars
<1> QED BY <1>1, <1>2, <1>3, <1>4, <1>5, <1>6, <1>7, <1>8, <1>9 DEF DriveNext

LEMMA DriveDataInductive ==
    TypeOK /\ DriveData /\ [DriveNext]_driveVars => DriveData'
<1> SUFFICES ASSUME TypeOK, DriveData, [DriveNext]_driveVars PROVE DriveData'
  OBVIOUS
<1>0. CmdTimeout \in Nat /\ Timeout \in Nat /\ Zero \in Velocity
  BY QueueAssumption, DriveAssumption, FirmwareAssumption
<1> USE <1>0 DEF DriveData, nodeVars, lineVars, clockVars, Silence
<1>1. CASE NodeStarts
  BY <1>1 DEF NodeStarts, Bridge!Start, Bridge!NodeReset
<1>2. CASE NodeEnds \/ TxFailsHalfWay
  BY <1>2 DEF NodeEnds, TxFailsHalfWay, Bridge!Interrupted, Bridge!Abort
<1>3. CASE CmdVelArrives
  BY <1>3 DEF CmdVelArrives, Bridge!CmdVel
<1>4. CASE TxTimer
  BY <1>4 DEF TxTimer, Bridge!Tx, Bridge!bridgeVars
<1>5. CASE RxTimer
  BY <1>5 DEF RxTimer, Bridge!Rx
<1>6. CASE BoardReads \/ BoardDrives \/ ButtonPressed \/ BoardResets
  BY <1>6 DEF BoardReads, BoardDrives, ButtonPressed, BoardResets
<1>7. CASE BoardStops
  BY <1>7 DEF BoardStops, StallSeen, TypeOK, DataTypeOK
<1>8. CASE ClockTicks
  BY <1>8 DEF ClockTicks, Bridge!Elapse
<1>9. CASE UNCHANGED driveVars
  BY <1>9 DEF driveVars
<1> QED BY <1>1, <1>2, <1>3, <1>4, <1>5, <1>6, <1>7, <1>8, <1>9 DEF DriveNext

LEMMA DriveTypeInit == DriveInit => DriveTypeOK
<1>1. DriveInit => DriveFlags
  BY DEF DriveInit, DriveFlags, Bridge!Init
<1>2. DriveInit => DriveData
  <2>1. CmdTimeout \in Nat /\ Timeout \in Nat /\ Zero \in Velocity
    BY QueueAssumption, DriveAssumption, FirmwareAssumption
  <2> QED BY <2>1 DEF DriveInit, DriveData, Bridge!Init, Silence
<1> QED BY <1>1, <1>2, DriveTypeSplit

LEMMA DriveTypeCorrect == DriveSpec => [](TypeOK /\ DriveTypeOK)
<1>1. DriveInit => TypeOK /\ DriveTypeOK
  BY TypeInit, DriveTypeInit DEF DriveInit
<1>2. TypeOK /\ DriveTypeOK /\ [DriveNext]_driveVars => (TypeOK /\ DriveTypeOK)'
  <2>1. TypeOK /\ DriveTypeOK /\ [DriveNext]_driveVars => [Next]_vars
    BY BoardStep DEF DriveTypeOK
  <2> QED BY <2>1, DriveTypeSplit, DriveFlagsInductive, DriveDataInductive, TypeInductive
<1> QED BY <1>1, <1>2, PTL DEF DriveSpec

\* Joined to the bridge, the board does only what CartFirmware says of it, so that all
\* that is proved of the firmware with any input holds with the lines of this bridge.
THEOREM BoardIsFirmware == DriveSpec => Spec
<1>1. DriveInit => Init
  BY DEF DriveInit
<1>2. DriveTypeOK /\ [DriveNext]_driveVars => [Next]_vars
  BY BoardStep DEF DriveTypeOK
<1> QED BY <1>1, <1>2, DriveTypeCorrect, PTL DEF DriveSpec, Spec

-----------------------------------------------------------------------------
(* The stall the node was told of. *)

\* A reported stall is in force, and the node that was told of it still runs.
StallInv ==
    /\ StallIsShown
    /\ witnessed => running /\ "STALL" \in stopped /\ stall_cause # "NONE"

\* No step of the board's loop ends a stall: RESET_STALL is not sent.
LEMMA StallStays ==
    BoardReads => /\ UNCHANGED stall_cause
                  /\ "STALL" \in stopped => "STALL" \in stopped'
BY DEF BoardReads, ReadCommand, ReadOther, CommunicationDone, StopPopped, VelocityPopped,
       RequestWheelVelocity, ClearOperationalStop, EventsDone, MotionController_Process,
       motorVars, stopVars

LEMMA StallShownInductive == StallInv /\ [DriveNext]_driveVars => StallInv'
<1> SUFFICES ASSUME StallInv, [DriveNext]_driveVars PROVE StallInv'
  OBVIOUS
<1> USE DEF StallInv, StallIsShown, nodeVars, lineVars
<1>1. CASE NodeStarts \/ NodeEnds \/ TxFailsHalfWay
  BY <1>1 DEF NodeStarts, NodeEnds, TxFailsHalfWay, Bridge!Start
<1>2. CASE CmdVelArrives
  BY <1>2 DEF CmdVelArrives, Bridge!CmdVel, vars, stopVars, motorVars
<1>3. CASE TxTimer
  BY <1>3 DEF TxTimer, Bridge!Tx, Bridge!bridgeVars, UartLine, stopVars, motorVars
<1>4. CASE RxTimer
  BY <1>4 DEF RxTimer, Bridge!Rx, vars, stopVars, motorVars
<1>5. CASE BoardReads
  BY <1>5, StallStays DEF BoardReads
<1>6. CASE BoardStops
  BY <1>6 DEF BoardStops, StopController_Process, StallSeen
<1>7. CASE BoardDrives
  BY <1>7 DEF BoardDrives, Motor_Process, Drive, Stall, stopVars
<1>8. CASE ButtonPressed
  BY <1>8 DEF ButtonPressed, B1Pressed, stopVars, motorVars
<1>9. CASE BoardResets
  BY <1>9 DEF BoardResets
<1>10. CASE ClockTicks
  BY <1>10 DEF ClockTicks, SysTick, Bridge!Elapse, vars, stopVars, motorVars
<1>11. CASE UNCHANGED driveVars
  BY <1>11 DEF driveVars, vars, stopVars, motorVars
<1> QED BY <1>1, <1>2, <1>3, <1>4, <1>5, <1>6, <1>7, <1>8, <1>9, <1>10, <1>11 DEF DriveNext

\* Once a stall was reported to a node that runs, its FAULT line is in the port or the
\* fault that stm_serial_bridge_node.py publishes is that of the stall in force
\* (StatusReporter_SendStallFault): the report is sent once, and nothing the bridge
\* sends ends a stall.
THEOREM StallShown == DriveSpec => []StallIsShown
<1>1. DriveInit => StallInv
  BY DEF DriveInit, StallInv, StallIsShown
<1>2. StallInv => StallIsShown
  BY DEF StallInv
<1> QED BY <1>1, <1>2, StallShownInductive, PTL DEF DriveSpec

-----------------------------------------------------------------------------
(* What the bound on silence needs of the board alone. *)

\* Once App_ProcessEvents has run, a timeout that is latched is requested or in force.
TimeoutTaken ==
    timeout_latched => /\ pc = "Stop" => LevelActive
                       /\ pc = "Motion" => stopped \cap Level # {}

StoppedAsksZero == stopped # {} => requested = Zero

LEMMA TimeoutTakenInductive ==
    TypeOK /\ TimeoutNotLost /\ TimeoutTaken /\ [Next]_vars => TimeoutTaken'
<1> SUFFICES ASSUME TypeOK, TimeoutNotLost, TimeoutTaken, [Next]_vars PROVE TimeoutTaken'
  OBVIOUS
<1> USE DEF TimeoutTaken
<1>1. CASE ReadCommand \/ ReadResetStall \/ ReadOther
  BY <1>1 DEF ReadCommand, ReadResetStall, ReadOther
<1>2. CASE CommunicationDone
  BY <1>2 DEF CommunicationDone
<1>3. CASE StopPopped \/ VelocityPopped
  BY <1>3 DEF StopPopped, VelocityPopped
<1>4. CASE EventsDone
  <2>1. timeout_latched => LevelActive
    BY <1>4 DEF EventsDone, TimeoutNotLost, Pending, LevelActive
  <2> QED BY <1>4, <2>1 DEF EventsDone, LevelActive, motionVars, stopVars
<1>5. CASE StopController_Process
  <2>1. LevelActive => stopped' \cap Level # {}
    BY <1>5 DEF StopController_Process, Granted, LevelActive, TypeOK, DataTypeOK, Level
  <2> QED BY <1>5, <2>1 DEF StopController_Process, motionVars
<1>6. CASE MotionController_Process \/ Motor_Process \/ Reboot
  BY <1>6 DEF MotionController_Process, Motor_Process, Reboot
<1>7. CASE Interrupt
  BY <1>7 DEF Interrupt, B1Pressed, SysTick, UartLine, LevelActive, motionVars, stopVars
<1>8. CASE UNCHANGED vars
  BY <1>8 DEF vars, LevelActive, motionVars, stopVars
<1> QED BY <1>1, <1>2, <1>3, <1>4, <1>5, <1>6, <1>7, <1>8 DEF Next, MainLoop

LEMMA AsksZeroInductive == StoppedAsksZero /\ [Next]_vars => StoppedAsksZero'
<1> SUFFICES ASSUME StoppedAsksZero, [Next]_vars PROVE StoppedAsksZero'
  OBVIOUS
<1> USE DEF StoppedAsksZero, stopVars, motorVars
<1>1. CASE ReadCommand \/ ReadOther
  BY <1>1 DEF ReadCommand, ReadOther
<1>2. CASE ReadResetStall
  BY <1>2 DEF ReadResetStall
<1>3. CASE CommunicationDone \/ EventsDone \/ StopPopped
  BY <1>3 DEF CommunicationDone, EventsDone, StopPopped
<1>4. CASE VelocityPopped
  <2>1. stopped' \subseteq stopped
    BY <1>4 DEF VelocityPopped, RequestWheelVelocity, ClearOperationalStop
  <2> QED BY <1>4, <2>1 DEF VelocityPopped
<1>5. CASE StopController_Process
  BY <1>5 DEF StopController_Process, MotorOff, Granted
<1>6. CASE MotionController_Process
  BY <1>6 DEF MotionController_Process, StopController_IsStopped
<1>7. CASE Motor_Process
  BY <1>7 DEF Motor_Process, Drive, Stall, MotorOff
<1>8. CASE Interrupt
  BY <1>8 DEF Interrupt, B1Pressed, SysTick, UartLine
<1>9. CASE Reboot
  BY <1>9 DEF Reboot
<1>10. CASE UNCHANGED vars
  BY <1>10 DEF vars
<1> QED BY <1>1, <1>2, <1>3, <1>4, <1>5, <1>6, <1>7, <1>8, <1>9, <1>10 DEF Next, MainLoop

BoardInv == /\ TypeOK /\ DeliveryInv /\ TimeoutNotLost
            /\ TimeoutTaken /\ StoppedAsksZero

LEMMA BoardInvInductive == BoardInv /\ [Next]_vars => BoardInv'
BY TypeInductive, DeliveryInductive, TimeoutInductive, TimeoutTakenInductive,
   AsksZeroInductive DEF BoardInv

LEMMA BoardInvInit == Init => BoardInv
<1>1. Init => TimeoutNotLost /\ TimeoutTaken /\ StoppedAsksZero
  BY DEF Init, TimeoutNotLost, TimeoutTaken, StoppedAsksZero
<1> QED BY <1>1, TypeInit, DeliveryInit DEF BoardInv

\* Whatever is pushed, an event of the queue was there before or is the one pushed.
LEMMA PushedFrom ==
    ASSUME NEW q \in Seq(Event), NEW e \in Event, NEW i \in DOMAIN Pushed(q, e)
    PROVE  Pushed(q, e)[i] = e \/ (i \in DOMAIN q /\ Pushed(q, e)[i] = q[i])
<1>1. CASE IsVelocity(e) /\ Pending(q, e.type)
  BY <1>1 DEF Pushed
<1>2. CASE ~(IsVelocity(e) /\ Pending(q, e.type)) /\ Len(q) < QueueSize
  <2>1. Pushed(q, e) = Append(q, e)
    BY <1>2 DEF Pushed
  <2> QED BY <2>1, AppendElements
<1>3. CASE ~(IsVelocity(e) /\ Pending(q, e.type)) /\ ~(Len(q) < QueueSize)
  BY <1>3 DEF Pushed
<1> QED BY <1>1, <1>2, <1>3
-----------------------------------------------------------------------------
(* How long a velocity may live: in the bridge, in the line, in the queue, as the  *)
(* target of the loop and in the motor.                                            *)

\* The ticks of silence, with the one that may follow at once: a tick leaves it as it
\* is and a pass of the loop adds at most one.
Due == IF passed THEN quiet + 1 ELSE quiet

\* A bridge that may still send a velocity has counted the silence itself.
AgeInv == cmd_age < CmdTimeout => quiet = cmd_age

\* A velocity in the receive ring is read in the pass after the one it arrived in.
LinesInv ==
    \A i \in DOMAIN rx : rx[i].vel # Zero =>
        Due <= CmdTimeout + 1 /\ (pc # "Communication" => Due <= CmdTimeout)

EventsInv ==
    \A i \in DOMAIN queue : IsVelocity(queue[i]) /\ queue[i].vel # Zero => Due <= CmdTimeout + 1

\* A target is as old as the silence, until it has aged and the loop comes to see it.
TargetInv ==
    target # Zero =>
        /\ has_received_first_command
        /\ ~timeout_latched =>
              \/ age < Timeout /\ quiet <= CmdTimeout + 1 + age
              \/ age = Timeout /\ Due <= CmdTimeout + Timeout + 2
                   /\ (pc = "Motor" => Due <= CmdTimeout + Timeout + 1)

\* The motor keeps a request until the pass after the one that saw the timeout.
RequestInv ==
    requested # Zero =>
        /\ stopped = {}
        /\ target = Zero => pc \in {"Events", "Stop", "Motion"}
                             /\ Due <= CmdTimeout + Timeout + 3
        /\ target # Zero /\ timeout_latched =>
              /\ pc # "Motion" /\ Due <= CmdTimeout + Timeout + 3
              /\ pc = "Motor" => Due <= CmdTimeout + Timeout + 2

LEMMA Bounds == CmdTimeout \in Nat /\ CmdTimeout >= 1 /\ Timeout \in Nat /\ Timeout >= 1
BY DriveAssumption, FirmwareAssumption

LEMMA DueIsNat == DriveData => quiet \in Nat /\ Due \in Nat /\ quiet <= Due /\ Due <= quiet + 1
BY Bounds DEF DriveData, Due, Silence

\* How the steps move the clock.
LEMMA DueStands == UNCHANGED <<passed, quiet>> => Due' = Due
BY DEF Due

LEMMA DueOfCommand == DriveData /\ CmdVelArrives => quiet' = 0 /\ Due' \in 0 .. 1
BY DEF CmdVelArrives, Due

LEMMA DueOfPass == DriveData /\ BoardDrives => quiet' = quiet /\ Due' \in Nat /\ Due' <= Due + 1
<1> SUFFICES ASSUME DriveData, BoardDrives
             PROVE  quiet' = quiet /\ Due' \in Nat /\ Due' <= Due + 1
  OBVIOUS
<1>1. quiet' = quiet /\ passed' = TRUE
  BY DEF BoardDrives
<1>2. Due' = quiet + 1
  BY <1>1 DEF Due
<1> QED BY <1>1, <1>2, DueIsNat

LEMMA DueOfTick ==
    DriveData /\ ClockTicks =>
        quiet' \in Nat /\ quiet' <= quiet + 1 /\ Due' = quiet' /\ Due' <= Due
<1> SUFFICES ASSUME DriveData, ClockTicks
             PROVE  quiet' \in Nat /\ quiet' <= quiet + 1 /\ Due' = quiet' /\ Due' <= Due
  OBVIOUS
<1>1. Due = quiet + 1
  BY DEF ClockTicks, Due
<1>2. Due' = quiet'
  BY DEF ClockTicks, Due
<1>3. quiet' \in {quiet, quiet + 1}
  BY DEF ClockTicks
<1> QED BY <1>1, <1>2, <1>3, DueIsNat

LEMMA AgeInductive == DriveData /\ AgeInv /\ [DriveNext]_driveVars => AgeInv'
<1> SUFFICES ASSUME DriveData, AgeInv, [DriveNext]_driveVars PROVE AgeInv'
  OBVIOUS
<1> USE Bounds DEF AgeInv, DriveData, nodeVars, lineVars, clockVars
<1>1. CASE NodeStarts
  BY <1>1 DEF NodeStarts, Bridge!Start, Bridge!NodeReset
<1>2. CASE NodeEnds \/ TxFailsHalfWay
  BY <1>2 DEF NodeEnds, TxFailsHalfWay, Bridge!Interrupted, Bridge!Abort
<1>3. CASE CmdVelArrives
  BY <1>3 DEF CmdVelArrives, Bridge!CmdVel
<1>4. CASE TxTimer
  BY <1>4 DEF TxTimer, Bridge!Tx, Bridge!bridgeVars
<1>5. CASE RxTimer
  BY <1>5 DEF RxTimer, Bridge!Rx
<1>6. CASE BoardReads \/ BoardStops \/ BoardDrives \/ ButtonPressed \/ BoardResets
  BY <1>6 DEF BoardReads, BoardStops, BoardDrives, ButtonPressed, BoardResets
<1>7. CASE ClockTicks
  <2>1. cmd_age < CmdTimeout => quiet < Silence
    BY DEF Silence
  <2> QED BY <1>7, <2>1 DEF ClockTicks, Bridge!Elapse
<1>8. CASE UNCHANGED driveVars
  BY <1>8 DEF driveVars
<1> QED BY <1>1, <1>2, <1>3, <1>4, <1>5, <1>6, <1>7, <1>8 DEF DriveNext

LEMMA LinesInductive ==
    TypeOK /\ DriveData /\ AgeInv /\ LinesInv /\ [DriveNext]_driveVars => LinesInv'
<1> SUFFICES ASSUME TypeOK, DriveData, AgeInv, LinesInv, [DriveNext]_driveVars PROVE LinesInv'
  OBVIOUS
<1>0. rx \in Seq(Line) /\ quiet \in Nat /\ Due \in Nat /\ Due <= quiet + 1
  BY DueIsNat DEF TypeOK, DataTypeOK
<1>a. UNCHANGED <<rx, pc, passed, quiet>> => LinesInv'
  BY DueStands DEF LinesInv
<1>1. CASE NodeStarts \/ NodeEnds \/ TxFailsHalfWay \/ RxTimer
  BY <1>1, <1>a DEF NodeStarts, NodeEnds, TxFailsHalfWay, RxTimer, vars, ioVars, clockVars
<1>2. CASE CmdVelArrives
  <2>1. UNCHANGED <<rx, pc>>
    BY <1>2 DEF CmdVelArrives, vars, ioVars
  <2> QED BY <1>0, <1>2, <2>1, DueOfCommand, Bounds DEF LinesInv
<1>3. CASE TxTimer
  <2>1. UNCHANGED <<pc, passed, quiet>> /\ UartLine(Assembled(Bridge!Selected))
    BY <1>3 DEF TxTimer, UartLine
  <2>2. Assembled(Bridge!Selected).vel # Zero => Due <= CmdTimeout
    BY <1>0, Bounds DEF Assembled, Bridge!Selected, AgeInv, DriveData
  <2>3. \A i \in DOMAIN rx' : (i \in DOMAIN rx /\ rx'[i] = rx[i])
                                  \/ rx'[i] = Assembled(Bridge!Selected)
    <3>1. rx' = rx \/ rx' = Append(rx, Assembled(Bridge!Selected))
      BY <2>1 DEF UartLine
    <3> QED BY <1>0, <3>1
  <2> QED BY <1>0, <2>1, <2>2, <2>3, DueStands, Bounds DEF LinesInv
<1>4. CASE BoardReads
  <2>1. UNCHANGED <<passed, quiet>>
    BY <1>4 DEF BoardReads, clockVars
  <2>2. CASE ReadCommand \/ ReadOther
    <3>1. rx # << >> /\ rx' = Tail(rx) /\ UNCHANGED pc
      BY <2>2 DEF ReadCommand, ReadOther
    <3>2. \A i \in DOMAIN rx' : i + 1 \in DOMAIN rx /\ rx'[i] = rx[i + 1]
      BY <1>0, <3>1
    <3> QED BY <2>1, <3>1, <3>2, DueStands DEF LinesInv
  <2>3. CASE CommunicationDone
    BY <2>3 DEF CommunicationDone, ioVars, LinesInv
  <2>4. CASE StopPopped \/ VelocityPopped
    BY <2>1, <2>4, <1>a DEF StopPopped, VelocityPopped, ioVars
  <2>5. CASE EventsDone \/ MotionController_Process
    <3>1. UNCHANGED rx /\ pc # "Communication" /\ pc' # "Communication"
      BY <2>5 DEF EventsDone, MotionController_Process, ioVars
    <3> QED BY <2>1, <3>1, DueStands DEF LinesInv
  <2> QED BY <1>4, <2>2, <2>3, <2>4, <2>5 DEF BoardReads
<1>5. CASE BoardStops
  <2>1. UNCHANGED <<rx, passed, quiet>> /\ pc # "Communication" /\ pc' # "Communication"
    BY <1>5 DEF BoardStops, StopController_Process, ioVars, clockVars
  <2> QED BY <2>1, DueStands DEF LinesInv
<1>6. CASE BoardDrives
  <2>1. UNCHANGED rx /\ pc = "Motor" /\ pc' = "Communication"
    BY <1>6 DEF BoardDrives, Motor_Process
  <2> QED BY <1>0, <1>6, <2>1, DueOfPass, Bounds DEF LinesInv
<1>7. CASE ButtonPressed
  BY <1>7, <1>a DEF ButtonPressed, B1Pressed, clockVars
<1>8. CASE BoardResets
  BY <1>8 DEF BoardResets, Reboot, LinesInv
<1>9. CASE ClockTicks
  <2>1. UNCHANGED <<rx, pc>>
    BY <1>9 DEF ClockTicks, SysTick, vars, ioVars
  <2> QED BY <1>0, <1>9, <2>1, DueOfTick, Bounds DEF LinesInv
<1>10. CASE UNCHANGED driveVars
  BY <1>10, <1>a DEF driveVars, vars, ioVars, clockVars
<1> QED BY <1>1, <1>2, <1>3, <1>4, <1>5, <1>6, <1>7, <1>8, <1>9, <1>10 DEF DriveNext

LEMMA HeadOfQueue ==
    ASSUME TypeOK, EventsInv, queue # << >>
    PROVE  /\ Head(queue) \in Event
           /\ IsVelocity(Head(queue)) /\ Head(queue).vel # Zero => Due <= CmdTimeout + 1
<1>1. queue \in Seq(Event)
  BY DEF TypeOK, QueueTypeOK
<1>2. Head(queue) = queue[1] /\ 1 \in DOMAIN queue /\ queue[1] \in Event
  BY <1>1
<1> QED BY <1>2 DEF EventsInv

\* A push of a stop, or of a velocity that is still young, leaves a young queue.
LEMMA EventsPushed ==
    ASSUME TypeOK, EventsInv, NEW e \in Event, Push(e), UNCHANGED Due,
           IsVelocity(e) /\ e.vel # Zero => Due <= CmdTimeout + 1
    PROVE  EventsInv'
<1>1. queue \in Seq(Event) /\ queue' = Pushed(queue, e)
  BY DEF TypeOK, QueueTypeOK, Push
<1>2. \A i \in DOMAIN queue' : queue'[i] = e \/ (i \in DOMAIN queue /\ queue'[i] = queue[i])
  BY <1>1, PushedFrom
<1> QED BY <1>2 DEF EventsInv

LEMMA EventsInductive ==
    BoardInv /\ DriveData /\ LinesInv /\ EventsInv /\ [DriveNext]_driveVars => EventsInv'
<1> SUFFICES ASSUME BoardInv, DriveData, LinesInv, EventsInv, [DriveNext]_driveVars
             PROVE  EventsInv'
  OBVIOUS
<1>0. TypeOK /\ DeliveryInv /\ rx \in Seq(Line) /\ queue \in Seq(Event) /\ Due \in Nat
  BY DueIsNat DEF BoardInv, TypeOK, DataTypeOK, QueueTypeOK
<1>a. UNCHANGED <<queue, passed, quiet>> => EventsInv'
  BY DueStands DEF EventsInv
<1>b. Pop /\ UNCHANGED <<passed, quiet>> => EventsInv'
  <2> SUFFICES ASSUME Pop, UNCHANGED <<passed, quiet>> PROVE EventsInv'
    OBVIOUS
  <2>1. \A i \in DOMAIN queue' : i + 1 \in DOMAIN queue /\ queue'[i] = queue[i + 1]
    BY <1>0 DEF Pop
  <2> QED BY <2>1, DueStands DEF EventsInv
<1>c. \A t \in StopTypes : StopEvent(t) \in Event /\ ~IsVelocity(StopEvent(t))
  BY StopEventIsEvent DEF StopEvent, StopTypes, IsVelocity
<1>1. CASE NodeStarts \/ NodeEnds \/ TxFailsHalfWay \/ RxTimer
  BY <1>1, <1>a DEF NodeStarts, NodeEnds, TxFailsHalfWay, RxTimer, vars, clockVars
<1>2. CASE CmdVelArrives
  <2>1. UNCHANGED queue
    BY <1>2 DEF CmdVelArrives, vars
  <2> QED BY <1>0, <1>2, <2>1, DueOfCommand, Bounds DEF EventsInv
<1>3. CASE TxTimer
  BY <1>3, <1>a DEF TxTimer, UartLine
<1>4. CASE BoardReads
  <2>1. UNCHANGED <<passed, quiet>>
    BY <1>4 DEF BoardReads, clockVars
  <2>2. CASE ReadCommand
    <3>1. Head(rx) \in Line /\ (Head(rx).vel # Zero => Due <= CmdTimeout + 1)
      <4>1. rx # << >>
        BY <2>2 DEF ReadCommand
      <4>2. Head(rx) = rx[1] /\ 1 \in DOMAIN rx /\ rx[1] \in Line
        BY <1>0, <4>1
      <4> QED BY <4>2 DEF LinesInv
    <3>2. CASE Head(rx).cmd = "SET_WHEEL_VEL"
      <4>1. VelocityEvent(Head(rx).vel) \in Event
        BY <3>1, <3>2, VelocityEventIsEvent DEF Line
      <4>2. Push(VelocityEvent(Head(rx).vel))
        BY <2>2, <3>2 DEF ReadCommand, QueueCommand
      <4>3. VelocityEvent(Head(rx).vel).vel = Head(rx).vel
        BY DEF VelocityEvent
      <4> QED BY <1>0, <2>1, <3>1, <4>1, <4>2, <4>3, DueStands, EventsPushed
    <3>3. CASE Head(rx).cmd # "SET_WHEEL_VEL"
      <4>1. \E t \in StopTypes : Push(StopEvent(t))
        BY <2>2, <3>3 DEF ReadCommand, QueueCommand, StopTypes
      <4> QED BY <1>0, <1>c, <2>1, <4>1, DueStands, EventsPushed
    <3> QED BY <3>2, <3>3
  <2>3. CASE ReadOther \/ CommunicationDone \/ EventsDone
    BY <1>a, <2>1, <2>3 DEF ReadOther, CommunicationDone, EventsDone
  <2>4. CASE StopPopped \/ VelocityPopped
    BY <1>b, <2>1, <2>4 DEF StopPopped, VelocityPopped
  <2>5. CASE MotionController_Process
    <3>1. UNCHANGED queue \/ Push(StopEvent("COMMUNICATION_TIMEOUT"))
      BY <2>5 DEF MotionController_Process, CheckCommunicationTimeout
    <3>2. "COMMUNICATION_TIMEOUT" \in StopTypes
      BY DEF StopTypes
    <3> QED BY <1>0, <1>a, <1>c, <2>1, <3>1, <3>2, DueStands, EventsPushed
  <2> QED BY <1>4, <2>2, <2>3, <2>4, <2>5 DEF BoardReads
<1>5. CASE BoardStops
  BY <1>5, <1>a DEF BoardStops, StopController_Process, clockVars
<1>6. CASE BoardDrives
  <2>1. UNCHANGED queue /\ pc = "Motor"
    BY <1>6 DEF BoardDrives, Motor_Process
  <2>2. \A i \in DOMAIN queue : ~IsVelocity(queue[i])
    BY <1>0, <2>1 DEF DeliveryInv, QueueAfterEvents, IsVelocity
  <2> QED BY <2>1, <2>2 DEF EventsInv
<1>7. CASE ButtonPressed
  <2>1. Push(StopEvent("LATCHED_SAFE_STOP")) /\ UNCHANGED <<passed, quiet>>
    BY <1>7 DEF ButtonPressed, B1Pressed, clockVars
  <2>2. "LATCHED_SAFE_STOP" \in StopTypes
    BY DEF StopTypes
  <2> QED BY <1>0, <1>c, <2>1, <2>2, DueStands, EventsPushed
<1>8. CASE BoardResets
  BY <1>8 DEF BoardResets, Reboot, EventsInv
<1>9. CASE ClockTicks
  <2>1. UNCHANGED queue
    BY <1>9 DEF ClockTicks, SysTick, vars
  <2> QED BY <1>0, <1>9, <2>1, DueOfTick, Bounds DEF EventsInv
<1>10. CASE UNCHANGED driveVars
  BY <1>10, <1>a DEF driveVars, vars, clockVars
<1> QED BY <1>1, <1>2, <1>3, <1>4, <1>5, <1>6, <1>7, <1>8, <1>9, <1>10 DEF DriveNext

LEMMA TargetInductive ==
    BoardInv /\ DriveData /\ EventsInv /\ TargetInv /\ [DriveNext]_driveVars => TargetInv'
<1> SUFFICES ASSUME BoardInv, DriveData, EventsInv, TargetInv, [DriveNext]_driveVars
             PROVE  TargetInv'
  OBVIOUS
<1>0. quiet \in Nat /\ Due \in Nat /\ quiet <= Due /\ Due <= quiet + 1 /\ age \in 0 .. Timeout
  BY DueIsNat DEF BoardInv, TypeOK, DataTypeOK
<1>a. UNCHANGED <<motionVars, age, pc, passed, quiet>> => TargetInv'
  BY DueStands DEF TargetInv, motionVars
<1> USE DEF motionVars
<1>1. CASE NodeStarts \/ NodeEnds \/ TxFailsHalfWay \/ RxTimer
  BY <1>1, <1>a DEF NodeStarts, NodeEnds, TxFailsHalfWay, RxTimer, vars, clockVars
<1>2. CASE CmdVelArrives
  <2>1. UNCHANGED <<motionVars, age, pc>>
    BY <1>2 DEF CmdVelArrives, vars
  <2>2. quiet' = 0 /\ Due' \in 0 .. 1
    BY <1>2, DueOfCommand
  <2> QED BY <1>0, <2>1, <2>2, Bounds DEF TargetInv
<1>3. CASE TxTimer
  BY <1>3, <1>a DEF TxTimer, UartLine
<1>4. CASE BoardReads
  <2>1. UNCHANGED <<passed, quiet>>
    BY <1>4 DEF BoardReads, clockVars
  <2>2. CASE ReadCommand \/ ReadOther \/ StopPopped
    BY <1>a, <2>1, <2>2 DEF ReadCommand, ReadOther, StopPopped
  <2>3. CASE CommunicationDone \/ EventsDone
    <3>1. pc # "Motor" /\ pc' # "Motor" /\ UNCHANGED <<motionVars, age>>
      BY <2>3 DEF CommunicationDone, EventsDone
    <3> QED BY <2>1, <3>1, DueStands DEF TargetInv
  <2>4. CASE VelocityPopped
    <3>1. queue # << >> /\ IsVelocity(Head(queue)) /\ UNCHANGED pc
            /\ RequestWheelVelocity(Head(queue).vel)
      BY <2>4 DEF VelocityPopped, Pop
    <3>2. Head(queue).vel # Zero => Due <= CmdTimeout + 1
      BY <3>1, HeadOfQueue DEF BoardInv
    <3>3. CASE "EMERGENCY" \in stopped
      BY <1>a, <2>1, <3>1, <3>3 DEF RequestWheelVelocity
    <3>4. CASE "EMERGENCY" \notin stopped
      <4>1. target' = Head(queue).vel /\ age' = 0 /\ has_received_first_command' = TRUE
        BY <3>1, <3>4 DEF RequestWheelVelocity
      <4>2. target' # Zero => age' < Timeout /\ quiet' <= CmdTimeout + 1 + age'
        BY <1>0, <2>1, <3>2, <4>1, Bounds
      <4> QED BY <4>1, <4>2 DEF TargetInv
    <3> QED BY <3>3, <3>4
  <2>5. CASE MotionController_Process
    <3>1. UNCHANGED <<target, has_received_first_command, age>>
      BY <2>5 DEF MotionController_Process
    <3>2. TimeoutDue => timeout_latched'
      BY <2>5 DEF MotionController_Process, CheckCommunicationTimeout
    <3>3. ~TimeoutDue => UNCHANGED timeout_latched
      BY <2>5 DEF MotionController_Process, CheckCommunicationTimeout
    <3>4. CASE TimeoutDue
      BY <3>1, <3>2, <3>4 DEF TargetInv
    <3>5. CASE ~TimeoutDue
      <4>1. target # Zero /\ ~timeout_latched => age < Timeout /\ quiet <= CmdTimeout + 1 + age
        BY <1>0, <3>5, Bounds DEF TimeoutDue, TargetInv
      <4> QED BY <2>1, <3>1, <3>3, <3>5, <4>1 DEF TargetInv
    <3> QED BY <3>4, <3>5
  <2> QED BY <1>4, <2>2, <2>3, <2>4, <2>5 DEF BoardReads
<1>5. CASE BoardStops
  <2>1. pc # "Motor" /\ pc' # "Motor" /\ UNCHANGED <<motionVars, age, passed, quiet>>
    BY <1>5 DEF BoardStops, StopController_Process, clockVars
  <2> QED BY <2>1, DueStands DEF TargetInv
<1>6. CASE BoardDrives
  <2>1. pc = "Motor" /\ pc' = "Communication" /\ UNCHANGED <<motionVars, age>>
    BY <1>6 DEF BoardDrives, Motor_Process
  <2>2. quiet' = quiet /\ Due' \in Nat /\ Due' <= Due + 1
    BY <1>6, DueOfPass
  <2> QED BY <1>0, <2>1, <2>2, Bounds DEF TargetInv
<1>7. CASE ButtonPressed
  BY <1>7, <1>a DEF ButtonPressed, B1Pressed, clockVars
<1>8. CASE BoardResets
  BY <1>8 DEF BoardResets, Reboot, TargetInv
<1>9. CASE ClockTicks
  <2>1. UNCHANGED <<target, has_received_first_command, timeout_latched, pc>>
    BY <1>9 DEF ClockTicks, SysTick, vars
  <2>2. (age < Timeout /\ age' = age + 1) \/ (age = Timeout /\ age' = age)
    BY <1>9 DEF ClockTicks, SysTick, vars
  <2>3. quiet' \in Nat /\ quiet' <= quiet + 1 /\ Due' = quiet' /\ Due' <= Due
    BY <1>9, DueOfTick
  <2> QED BY <1>0, <2>1, <2>2, <2>3, Bounds DEF TargetInv
<1>10. CASE UNCHANGED driveVars
  BY <1>10, <1>a DEF driveVars, vars, clockVars
<1> QED BY <1>1, <1>2, <1>3, <1>4, <1>5, <1>6, <1>7, <1>8, <1>9, <1>10 DEF DriveNext

\* A target that the board still follows is young enough for the motor to keep it
\* for one pass more.
LEMMA FollowedIsYoung ==
    ASSUME DriveData, TypeOK, TargetInv, target # Zero, ~timeout_latched
    PROVE  /\ Due <= CmdTimeout + Timeout + 2
           /\ pc = "Motor" /\ age = Timeout => Due <= CmdTimeout + Timeout + 1
<1>1. quiet \in Nat /\ Due \in Nat /\ Due <= quiet + 1 /\ age \in 0 .. Timeout
  BY DueIsNat DEF TypeOK, DataTypeOK
<1> QED BY <1>1, Bounds DEF TargetInv

LEMMA RequestInductive ==
    BoardInv /\ DriveData /\ TargetInv /\ RequestInv /\ [DriveNext]_driveVars => RequestInv'
<1> SUFFICES ASSUME BoardInv, DriveData, TargetInv, RequestInv, [DriveNext]_driveVars,
                    requested' # Zero
             PROVE  RequestInv'
  BY DEF RequestInv
<1>0. TypeOK /\ StoppedAsksZero /\ TimeoutTaken /\ Due \in Nat /\ quiet <= Due
  BY DueIsNat DEF BoardInv
<1>a. UNCHANGED <<requested, target, timeout_latched, stopped, pc>>
        /\ Due' \in Nat /\ Due' <= Due => RequestInv'
  BY <1>0, Bounds DEF RequestInv
<1> USE DEF motionVars, motorVars, stopVars
<1>1. CASE NodeStarts \/ NodeEnds \/ TxFailsHalfWay \/ RxTimer
  <2>1. Due' = Due
    BY <1>1, DueStands DEF NodeStarts, NodeEnds, TxFailsHalfWay, RxTimer, clockVars
  <2>2. UNCHANGED vars
    BY <1>1 DEF NodeStarts, NodeEnds, TxFailsHalfWay, RxTimer
  <2> QED BY <1>0, <1>a, <2>1, <2>2 DEF vars
<1>2. CASE CmdVelArrives
  <2>1. UNCHANGED vars /\ Due' \in 0 .. 1
    BY <1>2, DueOfCommand DEF CmdVelArrives
  <2> QED BY <2>1, Bounds DEF RequestInv, vars
<1>3. CASE TxTimer
  <2>1. Due' = Due
    BY <1>3, DueStands DEF TxTimer
  <2> QED BY <1>0, <1>3, <1>a, <2>1 DEF TxTimer, UartLine
<1>4. CASE BoardReads
  <2>1. Due' = Due
    BY <1>4, DueStands DEF BoardReads, clockVars
  <2>2. CASE ReadCommand \/ ReadOther \/ StopPopped
    BY <1>0, <1>a, <2>1, <2>2 DEF ReadCommand, ReadOther, StopPopped
  <2>3. CASE CommunicationDone \/ EventsDone
    <3>1. /\ pc # "Motor" /\ pc' \in {"Events", "Stop"}
          /\ UNCHANGED <<requested, target, timeout_latched, stopped>>
      BY <2>3 DEF CommunicationDone, EventsDone
    <3> QED BY <2>1, <3>1 DEF RequestInv
  <2>4. CASE VelocityPopped
    <3>1. UNCHANGED <<requested, pc>> /\ pc = "Events" /\ stopped = {}
            /\ RequestWheelVelocity(Head(queue).vel)
      BY <2>4, <1>0 DEF VelocityPopped, StoppedAsksZero
    <3>2. target' = Head(queue).vel /\ timeout_latched' = FALSE /\ stopped' = {}
      BY <3>1 DEF RequestWheelVelocity, ClearOperationalStop
    <3>3. Due <= CmdTimeout + Timeout + 3
      <4>1. CASE target = Zero \/ timeout_latched
        BY <3>1, <4>1 DEF RequestInv
      <4>2. CASE target # Zero /\ ~timeout_latched
        BY <1>0, <4>2, FollowedIsYoung, Bounds
      <4> QED BY <4>1, <4>2
    <3> QED BY <2>1, <3>1, <3>2, <3>3 DEF RequestInv
  <2>5. CASE MotionController_Process
    <3>1. stopped = {} /\ requested' = target /\ pc = "Motion" /\ pc' = "Motor"
            /\ UNCHANGED <<target, stopped>>
      BY <2>5 DEF MotionController_Process, StopController_IsStopped
    <3>2. ~timeout_latched
      BY <1>0, <3>1 DEF TimeoutTaken
    <3> QED BY <1>0, <2>1, <3>1, <3>2, FollowedIsYoung, Bounds DEF RequestInv
  <2> QED BY <1>4, <2>2, <2>3, <2>4, <2>5 DEF BoardReads
<1>5. CASE BoardStops
  <2>1. StopController_Process /\ UNCHANGED <<passed, quiet>>
    BY <1>5 DEF BoardStops, clockVars
  <2>2. stop_requested = {} /\ ~StallSeen /\ requested' = requested
    BY <2>1 DEF StopController_Process, MotorOff
  <2>3. stopped = {} /\ stopped' = {}
    BY <1>0, <2>1, <2>2 DEF StopController_Process, Granted, StoppedAsksZero
  <2>4. pc = "Stop" /\ pc' = "Motion" /\ UNCHANGED <<target, timeout_latched>>
    BY <2>1 DEF StopController_Process
  <2>5. ~timeout_latched
    BY <1>0, <2>2, <2>3, <2>4 DEF TimeoutTaken, LevelActive
  <2> QED BY <2>1, <2>2, <2>3, <2>4, <2>5, DueStands DEF RequestInv
<1>6. CASE BoardDrives
  <2>1. pc = "Motor" /\ pc' = "Communication"
          /\ UNCHANGED <<requested, target, timeout_latched, stopped>>
    BY <1>6 DEF BoardDrives, Motor_Process, Drive, Stall, MotorOff
  <2>2. Due' \in Nat /\ Due' <= Due + 1
    BY <1>6, DueOfPass
  <2> QED BY <1>0, <2>1, <2>2, Bounds DEF RequestInv
<1>7. CASE ButtonPressed
  <2>1. Due' = Due
    BY <1>7, DueStands DEF ButtonPressed, clockVars
  <2> QED BY <1>0, <1>7, <1>a, <2>1 DEF ButtonPressed, B1Pressed
<1>8. CASE BoardResets
  BY <1>8 DEF BoardResets, Reboot
<1>9. CASE ClockTicks
  <2>1. UNCHANGED <<requested, target, timeout_latched, stopped, pc>>
    BY <1>9 DEF ClockTicks, SysTick, vars
  <2>2. Due' \in Nat /\ Due' <= Due
    BY <1>9, DueOfTick
  <2> QED BY <1>a, <2>1, <2>2
<1>10. CASE UNCHANGED driveVars
  <2>1. Due' = Due
    BY <1>10, DueStands DEF driveVars, clockVars
  <2> QED BY <1>0, <1>10, <1>a, <2>1 DEF driveVars, vars
<1> QED BY <1>1, <1>2, <1>3, <1>4, <1>5, <1>6, <1>7, <1>8, <1>9, <1>10 DEF DriveNext

SilenceInv == /\ BoardInv /\ DriveTypeOK
              /\ AgeInv /\ LinesInv /\ EventsInv /\ TargetInv /\ RequestInv

LEMMA SilenceInit == DriveInit => SilenceInv
<1> SUFFICES ASSUME DriveInit PROVE SilenceInv
  OBVIOUS
<1>1. BoardInv /\ DriveTypeOK
  BY BoardInvInit, DriveTypeInit DEF DriveInit
<1>2. AgeInv
  BY Bounds DEF DriveInit, AgeInv, Bridge!Init
<1>3. LinesInv /\ EventsInv
  BY DEF DriveInit, Init, QueueInit, LinesInv, EventsInv
<1>4. TargetInv /\ RequestInv
  BY DEF DriveInit, Init, TargetInv, RequestInv
<1> QED BY <1>1, <1>2, <1>3, <1>4 DEF SilenceInv

LEMMA SilenceInductive == SilenceInv /\ [DriveNext]_driveVars => SilenceInv'
<1> SUFFICES ASSUME SilenceInv, [DriveNext]_driveVars PROVE SilenceInv'
  OBVIOUS
<1>1. TypeOK /\ DriveTypeOK /\ DriveFlags /\ DriveData /\ [Next]_vars
  BY BoardStep, DriveTypeSplit DEF SilenceInv, BoardInv, DriveTypeOK
<1>2. BoardInv' /\ DriveTypeOK'
  BY <1>1, BoardInvInductive, DriveFlagsInductive, DriveDataInductive, DriveTypeSplit
  DEF SilenceInv
<1>3. AgeInv' /\ LinesInv' /\ EventsInv' /\ TargetInv' /\ RequestInv'
  BY <1>1, AgeInductive, LinesInductive, EventsInductive, TargetInductive, RequestInductive
  DEF SilenceInv
<1> QED BY <1>2, <1>3 DEF SilenceInv

LEMMA SilenceEnough == SilenceInv => SilenceStandsStill
<1> SUFFICES ASSUME SilenceInv, requested # Zero PROVE quiet # Silence
  BY DEF SilenceStandsStill
<1>1. TypeOK /\ DriveData /\ TargetInv /\ RequestInv
  BY DriveTypeSplit DEF SilenceInv, BoardInv
<1>2. quiet \in Nat /\ Due \in Nat /\ quiet <= Due
  BY <1>1, DueIsNat
<1>3. Due <= CmdTimeout + Timeout + 3
  <2>1. CASE target = Zero \/ timeout_latched
    BY <1>1, <2>1 DEF RequestInv
  <2>2. CASE target # Zero /\ ~timeout_latched
    BY <1>1, <1>2, <2>2, FollowedIsYoung, Bounds
  <2> QED BY <2>1, <2>2
<1> QED BY <1>2, <1>3, Bounds DEF Silence

\* The two watchdogs together (command_watchdog.py and MotionController_Process): when
\* /cmd_vel has been silent for both timeouts and four ticks, the motor is asked to stand
\* still, for every value of the timeouts, whoever died, restarted or lost a line.
THEOREM SilenceBound == DriveSpec => []SilenceStandsStill
BY SilenceInit, SilenceInductive, SilenceEnough, PTL DEF DriveSpec

=============================================================================
