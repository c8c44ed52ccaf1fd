\* The foreign keys of the schema against the database as it runs.
SPECIFICATION Spec
CONSTANTS
    CharIds = {c1}
    TmplIds = {t1}
    Keys = {a}
    Periods = {today}
    MaxRecords = 1
    MaxExports = 0
    None = None
    PragmaSurvivesExport = FALSE
SYMMETRY Symmetry
INVARIANTS
    NoOrphans
CHECK_DEADLOCK FALSE
