----------------------------- MODULE AppEvent -----------------------------
(* The events of Application/App/app_event.h, by which every input reaches *)
(* the controllers.                                                        *)
EXTENDS Naturals, Sequences

CONSTANTS
    QueueSize,   \* APP_EVENT_QUEUE_SIZE (16 in the code)
    Velocity,    \* the (left, right) wheel velocities a command can carry
    Zero         \* the command to stand still

ASSUME QueueAssumption == /\ QueueSize \in Nat \ {0}
                          /\ Zero \in Velocity

StopTypes == {"LATCHED_SAFE_STOP", "EMERGENCY_STOP", "OPERATIONAL_STOP",
              "COMMUNICATION_TIMEOUT"}

StopEvent(t)     == [type |-> t, vel |-> Zero]
VelocityEvent(v) == [type |-> "SET_WHEEL_VELOCITY", vel |-> v]

Event == [type : StopTypes, vel : {Zero}]
           \cup [type : {"SET_WHEEL_VELOCITY"}, vel : Velocity]

IsVelocity(e) == e.type = "SET_WHEEL_VELOCITY"
=============================================================================
