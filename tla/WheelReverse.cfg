CONSTANTS
    Wheels = {"LEFT"}
    MaxSpeed = 5
    Targets <- MCTargets
    Gains <- MCGains
    ZeroingStep = 2
    HoldSamples = 2
    StallSamples = 3
    StallPwm = 2
    PwmMax = 5
    IntegralLimit = 2
SPECIFICATION Spec
PROPERTIES ReverseOnlyFromStandstill
