-------------------------- MODULE WheelDriveProofs --------------------------
(* Theorems about WheelDrive, for any number of wheels, and every speed,   *)
(* gain, duration and limit.                                               *)
EXTENDS WheelDrive, TLAPS

Speed == -MaxSpeed .. MaxSpeed

\* The profile of a wheel, between two passes and within one.
ProfileRec == [dir : DirStates, limited : Speed,
               integral : -IntegralLimit .. IntegralLimit, hold : 0 .. HoldSamples]

LEMMA Parameters ==
    /\ MaxSpeed \in Nat \ {0} /\ ZeroingStep \in Nat \ {0} /\ HoldSamples \in Nat \ {0}
    /\ StallSamples \in Nat \ {0} /\ StallPwm \in Nat \ {0} /\ PwmMax \in Nat \ {0}
    /\ IntegralLimit \in Nat \ {0} /\ 0 \in Speed /\ Targets \cup {0} \subseteq Speed
    /\ \A g \in Gains : g.kp \in Nat /\ g.ki \in Nat
BY WheelAssumption DEF Speed

-----------------------------------------------------------------------------
(* Arithmetic. *)

LEMMA Clamped ==
    ASSUME NEW x \in Int, NEW bound \in Nat
    PROVE  Clamp(x, bound) \in -bound .. bound
BY DEF Clamp

\* A step of the slew stays between where it is and where it goes.
LEMMA TowardBetween ==
    ASSUME NEW from \in Int, NEW to \in Int, NEW step \in Nat
    PROVE  /\ Toward(from, to, step) \in Int
           /\ \/ from <= Toward(from, to, step) /\ Toward(from, to, step) <= to
              \/ to <= Toward(from, to, step) /\ Toward(from, to, step) <= from
BY DEF Toward, Clamp

LEMMA TowardSpeed ==
    ASSUME NEW from \in Speed, NEW to \in Speed, NEW step \in Nat
    PROVE  Toward(from, to, step) \in Speed
<1>1. from \in Int /\ to \in Int /\ MaxSpeed \in Nat
  BY Parameters DEF Speed
<1>2. /\ Toward(from, to, step) \in Int
      /\ \/ from <= Toward(from, to, step) /\ Toward(from, to, step) <= to
         \/ to <= Toward(from, to, step) /\ Toward(from, to, step) <= from
  BY <1>1, TowardBetween
<1> QED BY <1>1, <1>2 DEF Speed

\* Between two velocities of one sign it has that sign.
LEMMA TowardKeepsSide ==
    ASSUME NEW from \in Int, NEW to \in Int, NEW step \in Nat,
           (0 <= from /\ 0 <= to) \/ (from <= 0 /\ to <= 0)
    PROVE  /\ Toward(from, to, step) \in Int
           /\ \/ 0 <= from /\ 0 <= Toward(from, to, step)
              \/ from <= 0 /\ Toward(from, to, step) <= 0
BY DEF Toward, Clamp

LEMMA SameSign ==
    ASSUME NEW x \in Int, NEW y \in Int,
           (0 <= x /\ 0 <= y) \/ (x <= 0 /\ y <= 0)
    PROVE  x * y >= 0
OBVIOUS

LEMMA OppositeSign ==
    ASSUME NEW x \in Int, NEW y \in Int,
           (0 < x /\ y < 0) \/ (x < 0 /\ 0 < y)
    PROVE  x * y < 0
OBVIOUS

-----------------------------------------------------------------------------
(* The speed profile. *)

\* What a step of the profile does to the velocity that is followed, and where it
\* leaves it while a direction change waits.
Follows(p, q) ==
    /\ q \in ProfileRec
    /\ p.limited * q.limited >= 0
    /\ q.dir \notin Driving => q.limited = 0

LEMMA WaitFollows ==
    ASSUME NEW p \in ProfileRec, NEW a \in Speed, p.limited = 0
    PROVE  Wait(p, a) \in ProfileRec /\ Wait(p, a).limited = 0
<1>1. 0 \in 0 .. HoldSamples /\ {"HOLDING", "ZEROED_WAITING"} \subseteq DirStates
  BY Parameters DEF DirStates
<1>2. /\ [p EXCEPT !.dir = "HOLDING", !.hold = 0] \in ProfileRec
      /\ [p EXCEPT !.dir = "HOLDING", !.hold = 0].limited = p.limited
  BY <1>1 DEF ProfileRec
<1>3. /\ [p EXCEPT !.dir = "ZEROED_WAITING"] \in ProfileRec
      /\ [p EXCEPT !.dir = "ZEROED_WAITING"].limited = p.limited
  BY <1>1 DEF ProfileRec
<1> QED BY <1>2, <1>3 DEF Wait

LEMMA ZeroingFollows ==
    ASSUME NEW p \in ProfileRec, NEW a \in Speed
    PROVE  Follows(p, Zeroing(p, a))
<1> DEFINE slowed == [p EXCEPT !.dir = "ZEROING", !.limited = Toward(@, 0, ZeroingStep)]
<1>1. p.limited \in Int /\ 0 \in Speed /\ ZeroingStep \in Nat /\ p.limited \in Speed
  BY Parameters DEF ProfileRec, Speed
<1>2. /\ slowed \in ProfileRec
      /\ slowed.dir = "ZEROING"
      /\ slowed.limited = Toward(p.limited, 0, ZeroingStep)
  BY <1>1, TowardSpeed DEF ProfileRec, DirStates
<1>3. p.limited * slowed.limited >= 0
  <2>1. /\ Toward(p.limited, 0, ZeroingStep) \in Int
        /\ \/ 0 <= p.limited /\ 0 <= Toward(p.limited, 0, ZeroingStep)
           \/ p.limited <= 0 /\ Toward(p.limited, 0, ZeroingStep) <= 0
    <3>1. /\ 0 \in Int
          /\ (0 <= p.limited /\ 0 <= 0) \/ (p.limited <= 0 /\ 0 <= 0)
      BY <1>1
    <3> QED BY <1>1, <3>1, TowardKeepsSide, Zenon
  <2> QED BY <1>1, <1>2, <2>1, SameSign
<1>4. CASE slowed.limited = 0
  <2>1. Zeroing(p, a) = Wait(slowed, a)
    BY <1>4 DEF Zeroing
  <2>2. Wait(slowed, a) \in ProfileRec /\ Wait(slowed, a).limited = 0
    BY <1>2, <1>4, WaitFollows
  <2> QED BY <1>1, <2>1, <2>2 DEF Follows
<1>5. CASE slowed.limited # 0
  <2>1. Zeroing(p, a) = slowed
    BY <1>5 DEF Zeroing
  <2> QED BY <1>2, <1>3, <2>1 DEF Follows, Driving
<1> QED BY <1>4, <1>5

LEMMA SlewFollows ==
    ASSUME NEW p \in ProfileRec, NEW request \in Speed, ~(p.limited * request < 0)
    PROVE  Follows(p, Slew([p EXCEPT !.dir = "NORMAL"], request))
<1>1. p.limited \in Int /\ request \in Int /\ p.limited \in Speed
  BY Parameters DEF ProfileRec, Speed
<1>2. Slew([p EXCEPT !.dir = "NORMAL"], request)
        = [p EXCEPT !.dir = "NORMAL", !.limited = Toward(p.limited, request, 1)]
  BY DEF Slew, ProfileRec
<1>3. Toward(p.limited, request, 1) \in Speed
  BY <1>1, TowardSpeed
<1>4. \/ 0 <= p.limited /\ 0 <= request
      \/ p.limited <= 0 /\ request <= 0
  BY <1>1, OppositeSign
<1>5. p.limited * Toward(p.limited, request, 1) >= 0
  <2>1. /\ Toward(p.limited, request, 1) \in Int
        /\ \/ 0 <= p.limited /\ 0 <= Toward(p.limited, request, 1)
           \/ p.limited <= 0 /\ Toward(p.limited, request, 1) <= 0
    BY <1>1, <1>4, TowardKeepsSide
  <2> QED BY <1>1, <2>1, SameSign
<1> QED BY <1>2, <1>3, <1>5 DEF Follows, ProfileRec, DirStates, Driving

\* Every step of the profile, whatever is requested and measured.
LEMMA AdvanceFollows ==
    ASSUME NEW p \in ProfileRec, NEW request \in Speed, NEW a \in Speed,
           p.dir \notin Driving => p.limited = 0
    PROVE  Follows(p, AdvanceSpeedProfile(p, request, a))
<1> DEFINE q == AdvanceSpeedProfile(p, request, a)
<1>1. /\ p.limited \in Int /\ request \in Int /\ p.dir \in DirStates
      /\ p.hold \in 0 .. HoldSamples /\ HoldSamples \in Nat /\ 0 * 0 = 0 /\ 0 * request = 0
      /\ 0 \in -IntegralLimit .. IntegralLimit
  BY Parameters DEF ProfileRec, Speed
<1>2. CASE Reverses(p, request)
  <2> DEFINE r == [p EXCEPT !.integral = 0]
  <2>1. r \in ProfileRec /\ r.limited = p.limited
    BY <1>1 DEF ProfileRec
  <2>2. q = Zeroing(r, a)
    <3>1. p.dir = "NORMAL"
      BY <1>2 DEF Reverses
    <3> QED BY <1>2, <3>1 DEF AdvanceSpeedProfile
  <2>3. Follows(r, Zeroing(r, a))
    BY <2>1, ZeroingFollows
  <2> QED BY <2>1, <2>2, <2>3 DEF Follows
<1>3. CASE ~Reverses(p, request) /\ p.dir = "ZEROING"
  <2>1. q = Zeroing(p, a)
    BY <1>3 DEF AdvanceSpeedProfile
  <2> QED BY <2>1, ZeroingFollows
<1>4. CASE ~Reverses(p, request) /\ p.dir = "ZEROED_WAITING"
  <2>1. q = Wait(p, a)
    BY <1>4 DEF AdvanceSpeedProfile
  <2>2. p.limited = 0
    BY <1>4 DEF Driving
  <2>3. Wait(p, a) \in ProfileRec /\ Wait(p, a).limited = 0
    BY <2>2, WaitFollows
  <2> QED BY <1>1, <2>1, <2>2, <2>3 DEF Follows
<1>5. CASE ~Reverses(p, request) /\ p.dir = "HOLDING" /\ p.hold + 1 < HoldSamples
  <2>1. q = [p EXCEPT !.hold = @ + 1]
    BY <1>5 DEF AdvanceSpeedProfile
  <2>2. p.limited = 0
    BY <1>5 DEF Driving
  <2>3. p.hold + 1 \in 0 .. HoldSamples
    BY <1>1, <1>5
  <2>4. q \in ProfileRec /\ q.limited = 0
    BY <2>1, <2>2, <2>3 DEF ProfileRec
  <2> QED BY <1>1, <2>2, <2>4 DEF Follows
<1>6. CASE ~Reverses(p, request) /\ p.dir \in {"NORMAL", "HOLDING"}
             /\ ~(p.dir = "HOLDING" /\ p.hold + 1 < HoldSamples)
  <2>1. q = Slew([p EXCEPT !.dir = "NORMAL"], request)
    <3>1. p.dir # "ZEROING" /\ p.dir # "ZEROED_WAITING"
      BY <1>6
    <3> QED BY <1>6, <3>1, Zenon DEF AdvanceSpeedProfile
  <2>2. ~(p.limited * request < 0)
    BY <1>1, <1>6 DEF Reverses, Driving
  <2> QED BY <2>1, <2>2, SlewFollows
<1> QED BY <1>1, <1>2, <1>3, <1>4, <1>5, <1>6 DEF DirStates

\* The integral is all that the PI control changes.
LEMMA AccumulateFollows ==
    ASSUME gains.ki \in Nat, NEW p \in ProfileRec, NEW a \in Speed
    PROVE  /\ Accumulate(p, a) \in ProfileRec
           /\ Accumulate(p, a).dir = p.dir /\ Accumulate(p, a).limited = p.limited
<1> DEFINE sum == p.integral + gains.ki * (p.limited - a)
<1>1. sum \in Int /\ IntegralLimit \in Nat
  <2>1. p.limited - a \in Int /\ p.integral \in Int /\ IntegralLimit \in Nat
    BY Parameters DEF ProfileRec, Speed
  <2>2. gains.ki * (p.limited - a) \in Int
    BY <2>1
  <2> QED BY <2>1, <2>2
<1>2. Clamp(sum, IntegralLimit) \in -IntegralLimit .. IntegralLimit
  BY <1>1, Clamped
<1>3. Accumulate(p, a) = IF p.dir \in Driving
                         THEN [p EXCEPT !.integral = Clamp(sum, IntegralLimit)] ELSE p
  BY DEF Accumulate
<1> HIDE DEF sum
<1> QED BY <1>2, <1>3 DEF ProfileRec

-----------------------------------------------------------------------------
(* The invariant. *)

\* A wheel that waits in a direction change is asked to stand still.
WaitsAtRest ==
    \A w \in Wheels : dir_state[w] \notin Driving
        => limited[w] = 0 /\ (pc = "Control" => last_pwm[w] = 0)

\* The stall timer has run no longer than the wheel has not turned.
TimerIsReal ==
    /\ blocked \in [Wheels -> 0 .. StallSamples]
    /\ stall_cause = {} =>
         \A w \in Wheels : stall_timer[w] <= blocked[w] \/ blocked[w] = StallSamples

WheelInv == TypeOK /\ WaitsAtRest /\ TimerIsReal

LEMMA ProfileTyped ==
    ASSUME TypeOK, WaitsAtRest, NEW w \in Wheels
    PROVE  /\ Profile(w) \in ProfileRec
           /\ Profile(w).limited = limited[w] /\ Profile(w).dir = dir_state[w]
           /\ Profile(w).dir \notin Driving => Profile(w).limited = 0
BY DEF TypeOK, WaitsAtRest, Profile, ProfileRec, Speed

LEMMA AdvancedFollows ==
    ASSUME TypeOK, WaitsAtRest, NEW w \in Wheels, NEW a \in Speed
    PROVE  Follows(Profile(w), Advanced(w, a))
<1> DEFINE p == Profile(w)
           q == AdvanceSpeedProfile(p, requested[w], a)
<1>1. /\ p \in ProfileRec /\ requested[w] \in Speed /\ gains.ki \in Nat
      /\ p.dir \notin Driving => p.limited = 0
  BY ProfileTyped, Parameters DEF TypeOK
<1>2. CASE enabled
  <2>1. Follows(p, q)
    BY <1>1, AdvanceFollows
  <2>2. /\ Accumulate(q, a) \in ProfileRec
        /\ Accumulate(q, a).dir = q.dir /\ Accumulate(q, a).limited = q.limited
    BY <1>1, <2>1, AccumulateFollows DEF Follows
  <2>3. Advanced(w, a) = Accumulate(q, a)
    BY <1>2 DEF Advanced
  <2> HIDE DEF p, q
  <2> QED BY <2>1, <2>2, <2>3 DEF Follows, p
<1>3. CASE ~enabled
  <2>1. Advanced(w, a) = p
    BY <1>3 DEF Advanced
  <2>2. p.limited \in Int
    BY <1>1, Parameters DEF ProfileRec, Speed
  <2>3. p.limited * p.limited >= 0
    BY <2>2, SameSign
  <2> HIDE DEF p
  <2> QED BY <1>1, <2>1, <2>3 DEF Follows, p
<1> QED BY <1>2, <1>3

\* The output is within its limits, and 0 for a wheel that waits.
LEMMA PwmTyped ==
    ASSUME TypeOK, NEW p \in ProfileRec, NEW a \in Speed
    PROVE  /\ Pwm(enabled, p, a) \in -PwmMax .. PwmMax
           /\ p.dir \notin Driving => Pwm(enabled, p, a) = 0
<1> DEFINE sum == p.limited + gains.kp * (p.limited - a) + p.integral
<1>1. sum \in Int /\ PwmMax \in Nat
  <2>1. /\ p.limited \in Int /\ p.limited - a \in Int /\ p.integral \in Int
        /\ gains.kp \in Nat /\ PwmMax \in Nat
    BY Parameters DEF ProfileRec, Speed, TypeOK
  <2>2. gains.kp * (p.limited - a) \in Int
    BY <2>1
  <2> QED BY <2>1, <2>2
<1>2. Clamp(sum, PwmMax) \in -PwmMax .. PwmMax /\ 0 \in -PwmMax .. PwmMax
  BY <1>1, Clamped
<1>3. Pwm(enabled, p, a) = IF enabled /\ p.dir \in Driving THEN Clamp(sum, PwmMax) ELSE 0
  BY DEF Pwm
<1> HIDE DEF sum
<1> QED BY <1>2, <1>3

-----------------------------------------------------------------------------
(* One step. *)

\* What the action properties ask of a step.
NoCrossing == \A w \in Wheels : limited[w] * limited'[w] >= 0
RealStalls == \A w \in stall_cause' \ stall_cause : blocked'[w] >= StallSamples

LEMMA Squares == TypeOK => \A w \in Wheels : /\ limited[w] * limited[w] >= 0
                                             /\ limited[w] * 0 >= 0
<1> SUFFICES ASSUME TypeOK, NEW w \in Wheels
             PROVE  limited[w] * limited[w] >= 0 /\ limited[w] * 0 >= 0
  OBVIOUS
<1>1. limited[w] \in Int
  BY Parameters DEF TypeOK, Speed
<1> QED BY <1>1, SameSign

LEMMA Zeros ==
    /\ 0 \in -MaxSpeed .. MaxSpeed /\ 0 \in -IntegralLimit .. IntegralLimit
    /\ 0 \in -PwmMax .. PwmMax /\ 0 \in 0 .. HoldSamples
    /\ 0 \in 0 .. StallSamples /\ 0 \in 0 .. StallSamples + 1
BY Parameters

LEMMA ResetTyped ==
    ResetSpeedController =>
        /\ enabled' \in BOOLEAN /\ requested' \in [Wheels -> Targets \cup {0}]
        /\ limited' \in [Wheels -> -MaxSpeed .. MaxSpeed]
        /\ integral' \in [Wheels -> -IntegralLimit .. IntegralLimit]
        /\ dir_state' \in [Wheels -> DirStates]
        /\ hold' \in [Wheels -> 0 .. HoldSamples]
BY Zeros DEF ResetSpeedController, DirStates

LEMMA WheelInit == Init => WheelInv
<1> SUFFICES ASSUME Init PROVE WheelInv
  OBVIOUS
<1>1. TypeOK
  BY Zeros DEF Init, TypeOK, DirStates
<1>2. WaitsAtRest /\ TimerIsReal
  BY Zeros DEF Init, WaitsAtRest, TimerIsReal, Driving
<1> QED BY <1>1, <1>2 DEF WheelInv

\* Everything off, and the loop at its motors.
LEMMA StopKeeps == WheelInv /\ Stop => WheelInv' /\ NoCrossing /\ RealStalls
<1> SUFFICES ASSUME WheelInv, Stop PROVE WheelInv' /\ NoCrossing /\ RealStalls
  OBVIOUS
<1> USE DEF WheelInv, Stop
<1>1. TypeOK'
  BY ResetTyped DEF TypeOK
<1>2. WaitsAtRest' /\ TimerIsReal'
  BY DEF ResetSpeedController, WaitsAtRest, TimerIsReal, Driving
<1>3. NoCrossing /\ RealStalls
  BY Squares DEF ResetSpeedController, NoCrossing, RealStalls
<1> QED BY <1>1, <1>2, <1>3

\* The steps that leave the profiles alone, but for what is requested and the integral.
LEMMA ControlKeeps ==
    ASSUME WheelInv,
           \/ \E target \in [Wheels -> Targets] : Drive(target)
           \/ \E g \in Gains : Motor_SetPiGains(g)
           \/ Motor_ClearStall
           \/ UNCHANGED vars
    PROVE  WheelInv' /\ NoCrossing /\ RealStalls
<1> USE DEF WheelInv
<1>1. CASE \E target \in [Wheels -> Targets] : Drive(target)
  <2>1. TypeOK'
    BY <1>1 DEF Drive, TypeOK
  <2>2. WaitsAtRest' /\ TimerIsReal' /\ NoCrossing /\ RealStalls
    BY <1>1, Squares DEF Drive, WaitsAtRest, TimerIsReal, NoCrossing, RealStalls
  <2> QED BY <2>1, <2>2
<1>2. CASE \E g \in Gains : Motor_SetPiGains(g)
  <2>1. TypeOK'
    BY <1>2, Parameters DEF Motor_SetPiGains, TypeOK
  <2>2. WaitsAtRest' /\ TimerIsReal' /\ NoCrossing /\ RealStalls
    BY <1>2, Squares DEF Motor_SetPiGains, WaitsAtRest, TimerIsReal, NoCrossing, RealStalls
  <2> QED BY <2>1, <2>2
<1>3. CASE Motor_ClearStall
  <2>1. TypeOK'
    BY <1>3, Parameters DEF Motor_ClearStall, profileVars, TypeOK
  <2>2. WaitsAtRest' /\ NoCrossing /\ RealStalls
    BY <1>3, Squares DEF Motor_ClearStall, profileVars, WaitsAtRest, NoCrossing, RealStalls
  <2>3. TimerIsReal'
    BY <1>3, Parameters DEF Motor_ClearStall, TimerIsReal
  <2> QED BY <2>1, <2>2, <2>3
<1>4. CASE UNCHANGED vars
  BY <1>4, Squares DEF vars, profileVars, TypeOK, WaitsAtRest, TimerIsReal, NoCrossing,
                       RealStalls
<1> QED BY <1>1, <1>2, <1>3, <1>4

LEMMA RefreshKeeps == WheelInv /\ Refresh => WheelInv' /\ NoCrossing /\ RealStalls
<1> SUFFICES ASSUME WheelInv, Refresh PROVE WheelInv' /\ NoCrossing /\ RealStalls
  OBVIOUS
<1>1. \A w \in Wheels : /\ last_pwm'[w] \in -PwmMax .. PwmMax
                        /\ dir_state[w] \notin Driving => last_pwm'[w] = 0
  <2> SUFFICES ASSUME NEW w \in Wheels
               PROVE  /\ last_pwm'[w] \in -PwmMax .. PwmMax
                      /\ dir_state[w] \notin Driving => last_pwm'[w] = 0
    OBVIOUS
  <2>1. Profile(w) \in ProfileRec /\ Profile(w).dir = dir_state[w] /\ actual[w] \in Speed
    BY ProfileTyped DEF WheelInv, TypeOK, Speed
  <2>2. last_pwm'[w] = Pwm(enabled, Profile(w), actual[w])
    BY DEF Refresh
  <2> QED BY <2>1, <2>2, PwmTyped DEF WheelInv
<1>2. TypeOK'
  BY <1>1 DEF Refresh, profileVars, WheelInv, TypeOK
<1>3. WaitsAtRest' /\ TimerIsReal' /\ NoCrossing /\ RealStalls
  BY <1>1, Squares DEF Refresh, profileVars, WheelInv, WaitsAtRest, TimerIsReal, NoCrossing,
                       RealStalls
<1> QED BY <1>2, <1>3 DEF WheelInv

\* The stall timer against the time that the wheel has not turned.
LEMMA TimerStep ==
    ASSUME WheelInv, NEW a \in Measurement, Sample(a), NEW p, NEW w \in Wheels
    PROVE  /\ StallTimer(w, p, a[w]) \in 0 .. StallSamples + 1
           /\ blocked'[w] \in 0 .. StallSamples
           /\ Strained(w, p, a[w]) => blocked'[w] = Clamp(blocked[w] + 1, StallSamples)
<1>1. /\ stall_timer[w] \in 0 .. StallSamples + 1 /\ blocked[w] \in 0 .. StallSamples
      /\ StallSamples \in Nat \ {0} /\ StallPwm \in Nat \ {0} /\ last_pwm[w] \in Int
      /\ blocked'[w] = IF a[w] = 0 /\ last_pwm[w] # 0
                       THEN Clamp(blocked[w] + 1, StallSamples) ELSE 0
  BY Parameters DEF WheelInv, TypeOK, TimerIsReal, Sample
<1>2. StallTimer(w, p, a[w]) \in 0 .. StallSamples + 1
  BY <1>1 DEF StallTimer
<1>3. blocked'[w] \in 0 .. StallSamples
  BY <1>1 DEF Clamp
<1>4. Strained(w, p, a[w]) => last_pwm[w] # 0 /\ a[w] = 0
  BY <1>1 DEF Strained, Abs
<1> QED BY <1>1, <1>2, <1>3, <1>4

LEMMA SampleKeeps ==
    ASSUME WheelInv, NEW a \in Measurement, Sample(a)
    PROVE  WheelInv' /\ NoCrossing /\ RealStalls
<1> DEFINE p == [w \in Wheels |-> Advanced(w, a[w])]
           stalled == StalledNow(p, a)
<1>1. /\ a \in [Wheels -> Speed] /\ StallSamples \in Nat \ {0}
      /\ \A w \in Wheels : p[w] = Advanced(w, a[w])
  BY Parameters DEF Measurement, Speed
<1>2. \A w \in Wheels : Follows(Profile(w), p[w]) /\ p[w] \in ProfileRec
  BY <1>1, AdvancedFollows DEF WheelInv, Follows
<1>3. \A w \in Wheels : /\ limited[w] * p[w].limited >= 0
                        /\ p[w].dir \notin Driving => p[w].limited = 0
  BY <1>2, ProfileTyped DEF WheelInv, Follows
<1>4. \A w \in Wheels : /\ Pwm(enabled, p[w], a[w]) \in -PwmMax .. PwmMax
                        /\ p[w].dir \notin Driving => Pwm(enabled, p[w], a[w]) = 0
  BY <1>1, <1>2, PwmTyped DEF WheelInv
<1>5. /\ pc' = "Control" /\ actual' = a /\ gains' = gains
      /\ stall_timer' = IF stall_cause = {}
                        THEN [w \in Wheels |-> StallTimer(w, p[w], a[w])] ELSE stall_timer
      /\ blocked' \in [Wheels -> 0 .. StallSamples]
      /\ stall_timer' \in [Wheels -> 0 .. StallSamples + 1]
  <2>1. \A w \in Wheels : /\ StallTimer(w, p[w], a[w]) \in 0 .. StallSamples + 1
                          /\ blocked'[w] \in 0 .. StallSamples
    BY TimerStep
  <2>2. stall_timer \in [Wheels -> 0 .. StallSamples + 1]
    BY DEF WheelInv, TypeOK
  <2> QED BY <2>1, <2>2 DEF Sample
<1>6. ASSUME stall_cause = {}, NEW w \in Wheels
      PROVE  /\ stall_timer'[w] <= blocked'[w] \/ blocked'[w] = StallSamples
             /\ w \in stalled => blocked'[w] >= StallSamples
  <2>1. /\ stall_timer[w] \in 0 .. StallSamples + 1 /\ blocked[w] \in 0 .. StallSamples
        /\ stall_timer[w] <= blocked[w] \/ blocked[w] = StallSamples
        /\ stall_timer'[w] = StallTimer(w, p[w], a[w])
    BY <1>5, <1>6 DEF WheelInv, TypeOK, TimerIsReal
  <2>2. /\ blocked'[w] \in 0 .. StallSamples
        /\ Strained(w, p[w], a[w]) => blocked'[w] = Clamp(blocked[w] + 1, StallSamples)
    BY TimerStep
  <2>3. CASE Strained(w, p[w], a[w])
    BY <1>1, <2>1, <2>2, <2>3 DEF StallTimer, Clamp, StalledNow
  <2>4. CASE ~Strained(w, p[w], a[w])
    BY <1>1, <2>1, <2>2, <2>4 DEF StallTimer, StalledNow
  <2> QED BY <2>3, <2>4
<1>7. CASE stalled # {}
  <2>1. /\ ResetSpeedController /\ stall_cause' = stalled
        /\ last_pwm' = [w \in Wheels |-> 0]
    BY <1>7 DEF Sample
  <2>2. stall_cause = {} /\ stalled \subseteq Wheels
    BY <1>7 DEF StalledNow
  <2> HIDE DEF p, stalled
  <2>3. TypeOK'
    <3>1. last_pwm' \in [Wheels -> -PwmMax .. PwmMax]
      BY <2>1, Zeros
    <3> QED BY <1>1, <1>5, <2>1, <2>2, <3>1, ResetTyped DEF WheelInv, TypeOK, Speed
  <2>4. WaitsAtRest' /\ NoCrossing
    BY <2>1, Squares DEF WheelInv, ResetSpeedController, WaitsAtRest, Driving, NoCrossing
  <2>5. TimerIsReal' /\ RealStalls
    BY <1>5, <1>6, <1>7, <2>1, <2>2 DEF TimerIsReal, RealStalls
  <2> QED BY <2>3, <2>4, <2>5 DEF WheelInv
<1>8. CASE stalled = {}
  <2>1. /\ limited' = [w \in Wheels |-> p[w].limited]
        /\ integral' = [w \in Wheels |-> p[w].integral]
        /\ dir_state' = [w \in Wheels |-> p[w].dir]
        /\ hold' = [w \in Wheels |-> p[w].hold]
        /\ last_pwm' = [w \in Wheels |-> Pwm(enabled, p[w], a[w])]
        /\ UNCHANGED <<enabled, requested, stall_cause>>
    BY <1>8 DEF Sample
  <2> HIDE DEF p, stalled
  <2>2. TypeOK'
    BY <1>1, <1>2, <1>4, <1>5, <2>1 DEF WheelInv, TypeOK, ProfileRec, Speed
  <2>3. WaitsAtRest' /\ NoCrossing
    BY <1>3, <1>4, <2>1 DEF WaitsAtRest, NoCrossing
  <2>4. TimerIsReal' /\ RealStalls
    BY <1>5, <1>6, <2>1 DEF TimerIsReal, RealStalls
  <2> QED BY <2>2, <2>3, <2>4 DEF WheelInv
<1> QED BY <1>7, <1>8

LEMMA WheelStep == WheelInv /\ [Next]_vars => WheelInv' /\ NoCrossing /\ RealStalls
BY StopKeeps, ControlKeeps, RefreshKeeps, SampleKeeps DEF Next, Motor_Process

-----------------------------------------------------------------------------
(* The theorems. *)

LEMMA WheelInvariant == Spec => []WheelInv
<1>1. WheelInv /\ [Next]_vars => WheelInv'
  BY WheelStep
<1> QED BY <1>1, WheelInit, PTL DEF Spec

\* Type correctness: the integral, the output and the velocity that is followed keep
\* their limits, with any gains.
THEOREM TypeCorrect == Spec => []TypeOK
<1>1. WheelInv => TypeOK
  BY DEF WheelInv
<1> QED BY <1>1, WheelInvariant, PTL

\* While a direction change waits, the wheel gets no output (motor.c, comment on the
\* states), with any gains and whatever the integral has become.
THEOREM NoOutput == Spec => []NoOutputWhileWaiting
<1>1. WheelInv => NoOutputWhileWaiting
  BY DEF WheelInv, WaitsAtRest, NoOutputWhileWaiting
<1> QED BY <1>1, WheelInvariant, PTL

\* The velocity that is followed rests at 0 before it changes its sign, whatever the
\* steps of the slew and of the zeroing.
THEOREM ZeroNotCrossed == Spec => NeverCrossesZero
<1>1. WheelInv /\ [Next]_vars => [NoCrossing]_vars
  BY WheelStep
<1> QED BY <1>1, WheelInvariant, PTL DEF Spec, NeverCrossesZero, NoCrossing

\* A confirmed stall was an unbroken MOTOR_STALL_DURATION_MS of a driven wheel that
\* did not turn.
THEOREM StallProved == Spec => StallIsReal
<1>1. WheelInv /\ [Next]_vars => [RealStalls]_vars
  BY WheelStep
<1> QED BY <1>1, WheelInvariant, PTL DEF Spec, StallIsReal, RealStalls
=============================================================================
