\* The overlay with its watcher in the application, from start to end.
SPECIFICATION AppSpec
CONSTANTS
    Bounds = {b1, b2}
    None = None
    Win32 = TRUE
    MaxClicks = 1
    MainStates = {m1, m2}
INVARIANTS
    OnlyEnabled
    HidesOffTheGame
PROPERTIES
    FallsBackToManual
    CloseEndsTheApp
CHECK_DEADLOCK FALSE
