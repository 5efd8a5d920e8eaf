----------------------------- MODULE WheelDrive -----------------------------
(***************************************************************************)
(* The wheels of Application/Motor/motor.c: speed profile, direction       *)
(* change protection, PI control, PWM output and stall detection.          *)
(*                                                                         *)
(* Integers stand for floats.  A unit of velocity is what the acceleration *)
(* limit allows in one sample (0.4 rad/s in 100 ms), so one unit is above  *)
(* every threshold of motor_config.h and below one unit is 0.  Time is     *)
(* counted in samples (MOTOR_SAMPLE_PERIOD_MS).                            *)
(***************************************************************************)
EXTENDS Integers

CONSTANTS
    Wheels,         \* LEFT and RIGHT
    MaxSpeed,       \* bound on the velocities requested and measured
    Targets,        \* the velocities a command may ask of a wheel
    Gains,          \* (kp, ki) pairs SET_PI_GAINS may set, within the limits
    ZeroingStep,    \* MOTOR_DIRECTION_CHANGE_DECEL_RAD_S2, per sample
    HoldSamples,    \* MOTOR_DIRECTION_CHANGE_HOLD_MS
    StallSamples,   \* MOTOR_STALL_DURATION_MS
    StallPwm,       \* MOTOR_STALL_PWM_THRESHOLD
    PwmMax,         \* MOTOR_PWM_MAX
    IntegralLimit   \* MOTOR_PI_INTEGRAL_PWM_LIMIT

ASSUME WheelAssumption ==
    /\ {MaxSpeed, ZeroingStep, HoldSamples, StallSamples, StallPwm, PwmMax,
        IntegralLimit} \subseteq Nat \ {0}
    /\ Targets \subseteq -MaxSpeed .. MaxSpeed
    /\ Gains \subseteq [kp : Nat, ki : Nat]

VARIABLES
    pc,           \* of the main loop: the other controllers, or Motor_Process
    enabled,      \* motor_speed_control_enabled
    gains,        \* motor_pi_kp, motor_pi_ki
    stall_cause,  \* the wheels found stalled (MotorStallCause_t is a bit set)
    requested, limited, integral, dir_state,
    hold,         \* samples since dir_hold_start_tick
    stall_timer,  \* 0, or 1 + the samples since stall_start_tick
    last_pwm,
    actual,       \* measured velocity of the wheel
    blocked       \* history: samples in a row the driven wheel did not turn

profileVars == <<requested, limited, integral, dir_state, hold>>
vars == <<pc, enabled, gains, stall_cause, profileVars, stall_timer, last_pwm,
          actual, blocked>>

DirStates == {"NORMAL", "ZEROING", "ZEROED_WAITING", "HOLDING"}
Driving   == {"NORMAL", "ZEROING"}

Abs(x) == IF x < 0 THEN -x ELSE x
Sign(x) == IF x < 0 THEN -1 ELSE IF x > 0 THEN 1 ELSE 0
Clamp(x, bound) == IF x > bound THEN bound ELSE IF x < -bound THEN -bound ELSE x

-----------------------------------------------------------------------------
Init ==
    /\ pc = "Control"
    /\ enabled = FALSE /\ gains \in Gains /\ stall_cause = {}
    /\ requested = [w \in Wheels |-> 0] /\ limited = [w \in Wheels |-> 0]
    /\ integral = [w \in Wheels |-> 0]
    /\ dir_state = [w \in Wheels |-> "NORMAL"] /\ hold = [w \in Wheels |-> 0]
    /\ stall_timer = [w \in Wheels |-> 0]
    /\ last_pwm = [w \in Wheels |-> 0] /\ actual = [w \in Wheels |-> 0]
    /\ blocked = [w \in Wheels |-> 0]

\* Motor_ResetSpeedController: neither the stall timers nor last_pwm.
ResetSpeedController ==
    /\ enabled' = FALSE
    /\ requested' = [w \in Wheels |-> 0] /\ limited' = [w \in Wheels |-> 0]
    /\ integral' = [w \in Wheels |-> 0]
    /\ dir_state' = [w \in Wheels |-> "NORMAL"] /\ hold' = [w \in Wheels |-> 0]

\* A pass of the loop in which no stop is in force: MotionController enables the
\* drive and hands on its target.
Drive(target) ==
    /\ pc = "Control" /\ pc' = "Motor"
    /\ stall_cause = {}
    /\ enabled' = TRUE
    /\ requested' = target
    /\ UNCHANGED <<gains, stall_cause, limited, integral, dir_state, hold,
                   stall_timer, last_pwm, actual, blocked>>

\* A pass in which a stop is in force: Motor_NormalStop, or its state kept.
Stop ==
    /\ pc = "Control" /\ pc' = "Motor"
    /\ ResetSpeedController
    /\ UNCHANGED <<gains, stall_cause, stall_timer, last_pwm, actual, blocked>>

\* Commands of the host, handled before the controllers run.
Motor_SetPiGains(g) ==
    /\ pc = "Control"
    /\ gains' = g
    /\ integral' = [w \in Wheels |-> 0]
    /\ UNCHANGED <<pc, enabled, stall_cause, requested, limited, dir_state, hold,
                   stall_timer, last_pwm, actual, blocked>>

Motor_ClearStall ==
    /\ pc = "Control" /\ stall_cause # {}
    /\ stall_cause' = {}
    /\ stall_timer' = [w \in Wheels |-> 0]
    /\ UNCHANGED <<pc, enabled, gains, profileVars, last_pwm, actual, blocked>>

-----------------------------------------------------------------------------
(* The speed profile of a wheel: state, limited velocity, integral, hold. *)

\* Mutant of Toward: the last step overshoots.
TowardUnclamped(from, to, step) == from + step * Sign(to - from)

Toward(from, to, step) == from + Clamp(to - from, step)

\* Ordinary slew: the acceleration and the deceleration limit are equal.
Slew(p, request) == [p EXCEPT !.limited = Toward(@, request, 1)]

Wait(p, a) == IF a = 0 THEN [p EXCEPT !.dir = "HOLDING", !.hold = 0]
                       ELSE [p EXCEPT !.dir = "ZEROED_WAITING"]

Zeroing(p, a) ==
    LET slowed == [p EXCEPT !.dir = "ZEROING",
                            !.limited = Toward(@, 0, ZeroingStep)]
    IN  IF slowed.limited = 0 THEN Wait(slowed, a) ELSE slowed

Reverses(p, request) == p.dir = "NORMAL" /\ p.limited * request < 0

\* Motor_AdvanceSpeedProfile, for the velocity a measured in this sample.
AdvanceSpeedProfile(p, request, a) ==
    CASE Reverses(p, request)        -> Zeroing([p EXCEPT !.integral = 0], a)
      [] p.dir = "ZEROING"           -> Zeroing(p, a)
      [] p.dir = "ZEROED_WAITING"    -> Wait(p, a)
      [] p.dir = "HOLDING" /\ p.hold + 1 < HoldSamples
                                     -> [p EXCEPT !.hold = @ + 1]
      [] OTHER                       -> Slew([p EXCEPT !.dir = "NORMAL"], request)

\* Mutant of Accumulate: no anti-windup.
AccumulateUnclamped(p, a) ==
    IF p.dir \in Driving
    THEN [p EXCEPT !.integral = @ + gains.ki * (p.limited - a)]
    ELSE p

Accumulate(p, a) ==
    IF p.dir \in Driving
    THEN [p EXCEPT !.integral =
              Clamp(@ + gains.ki * (p.limited - a), IntegralLimit)]
    ELSE p

Profile(w) == [dir |-> dir_state[w], limited |-> limited[w],
               integral |-> integral[w], hold |-> hold[w]]

Advanced(w, a) ==
    IF enabled
    THEN Accumulate(AdvanceSpeedProfile(Profile(w), requested[w], a), a)
    ELSE Profile(w)

\* Mutant of Pwm: the PI correction goes on while a direction change waits.
PwmInEveryState(on, p, a) ==
    IF on THEN Clamp(p.limited + gains.kp * (p.limited - a) + p.integral, PwmMax)
          ELSE 0

\* Feedforward (one PWM step per unit) and PI correction, saturated.
Pwm(on, p, a) ==
    IF on /\ p.dir \in Driving
    THEN Clamp(p.limited + gains.kp * (p.limited - a) + p.integral, PwmMax)
    ELSE 0

-----------------------------------------------------------------------------
(* Motor_Process. *)

\* In a sample a wheel gains at most a unit toward the sign of its PWM, or runs
\* down by one (by load, or without power); any wheel may be blocked.
CanTurn(w, a) ==
    \/ a = 0
    \/ /\ Abs(a - actual[w]) <= 1
       /\ \/ (a - actual[w]) * last_pwm[w] > 0
          \/ Abs(a) < Abs(actual[w])
          \/ a = actual[w] /\ last_pwm[w] # 0

\* Mutant of Strained: only forward output counts.
StrainedForward(w, p, a) ==
    /\ enabled /\ p.dir \in Driving
    /\ last_pwm[w] >= StallPwm
    /\ p.limited # 0
    /\ a = 0

\* The three conditions of a stall, on the profile p of this sample.
Strained(w, p, a) ==
    /\ enabled /\ p.dir \in Driving
    /\ Abs(last_pwm[w]) >= StallPwm
    /\ p.limited # 0
    /\ a = 0

\* Mutant of StallTimer: the time of broken runs adds up.
StallTimerAddsUp(w, p, a) ==
    IF ~Strained(w, p, a) \/ stall_timer[w] > StallSamples
    THEN stall_timer[w] ELSE stall_timer[w] + 1

\* Motor_UpdateStallTimer: only an unbroken run of samples counts.
StallTimer(w, p, a) ==
    IF ~Strained(w, p, a) THEN 0
    ELSE IF stall_timer[w] > StallSamples THEN stall_timer[w] ELSE stall_timer[w] + 1

StalledNow(p, a) ==
    IF stall_cause # {} THEN {}
    ELSE {w \in Wheels : Strained(w, p[w], a[w]) /\ stall_timer[w] >= StallSamples}

\* A call of Motor_Process in which a sample is due, having measured a.
Sample(a) ==
    LET p == [w \in Wheels |-> Advanced(w, a[w])]
        stalled == StalledNow(p, a)
    IN  /\ pc = "Motor" /\ pc' = "Control"
        /\ actual' = a
        /\ blocked' = [w \in Wheels |->
                         IF a[w] = 0 /\ last_pwm[w] # 0
                         THEN Clamp(blocked[w] + 1, StallSamples) ELSE 0]
        /\ stall_timer' = IF stall_cause = {}
                          THEN [w \in Wheels |-> StallTimer(w, p[w], a[w])]
                          ELSE stall_timer
        /\ IF stalled # {}
           THEN /\ ResetSpeedController
                /\ stall_cause' = stalled
                /\ last_pwm' = [w \in Wheels |-> 0]
           ELSE /\ limited' = [w \in Wheels |-> p[w].limited]
                /\ integral' = [w \in Wheels |-> p[w].integral]
                /\ dir_state' = [w \in Wheels |-> p[w].dir]
                /\ hold' = [w \in Wheels |-> p[w].hold]
                /\ last_pwm' = [w \in Wheels |-> Pwm(enabled, p[w], a[w])]
                /\ UNCHANGED <<enabled, requested, stall_cause>>
        /\ UNCHANGED gains

\* A call between two samples only refreshes the output.
Refresh ==
    /\ pc = "Motor" /\ pc' = "Control"
    /\ last_pwm' = [w \in Wheels |-> Pwm(enabled, Profile(w), actual[w])]
    /\ UNCHANGED <<enabled, gains, stall_cause, profileVars, stall_timer,
                   actual, blocked>>

Measurement == {a \in [Wheels -> -MaxSpeed .. MaxSpeed] :
                    \A w \in Wheels : CanTurn(w, a[w])}

Motor_Process == Refresh \/ \E a \in Measurement : Sample(a)

Next == \/ \E target \in [Wheels -> Targets] : Drive(target)
        \/ Stop
        \/ \E g \in Gains : Motor_SetPiGains(g)
        \/ Motor_ClearStall
        \/ Motor_Process

Spec == Init /\ [][Next]_vars

\* The loop goes round, and again and again a pass finds a sample due.
FairSpec == /\ Spec
            /\ WF_vars(Stop \/ \E target \in [Wheels -> Targets] : Drive(target))
            /\ SF_vars(\E a \in Measurement : Sample(a))

-----------------------------------------------------------------------------
(* Properties. *)

TypeOK ==
    /\ pc \in {"Control", "Motor"}
    /\ enabled \in BOOLEAN /\ gains \in Gains /\ stall_cause \subseteq Wheels
    /\ requested \in [Wheels -> Targets \cup {0}]
    /\ limited \in [Wheels -> -MaxSpeed .. MaxSpeed]
    /\ integral \in [Wheels -> -IntegralLimit .. IntegralLimit]
    /\ dir_state \in [Wheels -> DirStates]
    /\ hold \in [Wheels -> 0 .. HoldSamples]
    /\ stall_timer \in [Wheels -> 0 .. StallSamples + 1]
    /\ last_pwm \in [Wheels -> -PwmMax .. PwmMax]
    /\ actual \in [Wheels -> -MaxSpeed .. MaxSpeed]

\* While a direction change waits for the wheel to stop, and during the hold, no
\* PI correction leaks into the output (motor.c, comment on the states).
NoOutputWhileWaiting ==
    \A w \in Wheels : dir_state[w] \notin Driving /\ pc = "Control"
                            => limited[w] = 0 /\ last_pwm[w] = 0

\* The velocity that is followed never changes its sign without resting at 0.
NeverCrossesZero == [][\A w \in Wheels : limited[w] * limited'[w] >= 0]_vars

\* A stall is confirmed only for a wheel that was driven and did not turn through
\* the whole of MOTOR_STALL_DURATION_MS: a passing load is no stall.
StallIsReal ==
    [][\A w \in stall_cause' \ stall_cause : blocked'[w] >= StallSamples]_vars

Straining(w) == /\ enabled /\ dir_state[w] \in Driving
                /\ Abs(last_pwm[w]) >= StallPwm /\ limited[w] # 0 /\ actual[w] = 0

\* No wheel is pushed against an obstacle for ever.
StrainEnds == \A w \in Wheels : ~<>[]Straining(w)

\* A direction change that began comes to its end, so requests are heeded again.
ReversalEnds == \A w \in Wheels : dir_state[w] # "NORMAL" ~> dir_state[w] = "NORMAL"

\* What motor_config.h:204 calls the core of the protection: a limited velocity
\* of 0 is not enough, the measured velocity must be near 0 too, before a wheel is
\* driven the other way.
ReverseOnlyFromStandstill ==
    [][\A w \in Wheels : limited[w] = 0 => limited'[w] * actual'[w] >= 0]_vars
=============================================================================
