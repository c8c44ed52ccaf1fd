\* The build score page of two characters, two presets, two calls at a time.
SPECIFICATION ScoreSpec
CONSTANTS
    Chars = {c1, c2}
    Contents = {d, x}
    Default = d
    PresetIds = {p1, p2}
    MaxCalls = 2
    None = None
SYMMETRY Symmetry
INVARIANTS
    PresetsForTheChosen
    SavedIsStored
CHECK_DEADLOCK FALSE
