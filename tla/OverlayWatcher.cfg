\* The overlay over the game while its watcher runs.
SPECIFICATION Spec
CONSTANTS
    Bounds = {b1}
    None = None
    Win32 = TRUE
    MaxClicks = 0
INVARIANTS
    ShownOverTheGame
CHECK_DEADLOCK FALSE
