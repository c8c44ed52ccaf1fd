\* Four days of three minutes, over both reset days, with settings changed and changed back.
SPECIFICATION Spec
CONSTANTS
    DayMinutes = 3
    DefaultReset = 1
    Settings <- ThreeSettings
    None = None
    Window = 4
    MaxStacks = 2
    Horizon = 4
    MaxToggles = 2
    MaxChanges = 2
INVARIANTS
    ReopensAtReset
    KeptUntilReset
    CountdownEndsPeriod
    RechargeOnTime
    WebCountsTheSame
CHECK_DEADLOCK FALSE
