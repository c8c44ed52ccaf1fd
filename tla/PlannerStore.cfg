\* The database as it runs: foreign keys are off once it was exported.
SPECIFICATION Spec
CONSTANTS
    CharIds = {c1}
    TmplIds = {t1, t2}
    Keys = {a}
    Periods = {today}
    MaxRecords = 3
    MaxExports = 1
    None = None
    PragmaSurvivesExport = FALSE
SYMMETRY Symmetry
INVARIANTS
    EveryTemplateAssigned
PROPERTIES
    NoCompletionForTheDeleted
    UndoTakesTheLatest
    ImportRestores
CHECK_DEADLOCK FALSE
