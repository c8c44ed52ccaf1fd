\* Edits, failures and an exit at every point of the runs, and what the runs get to.
SPECIFICATION FairSpec
CONSTANTS
    n1 = n1
    u1 = u1
    Sources = {"NOTICE", "UPDATE"}
    Articles = {n1, u1}
    SourceOf <- TwoBoards
    Contents = {a, b}
    Callers = {c1}
    None = None
    MaxEdits = 2
    MaxFailures = 1
    MaxExits = 1
INVARIANTS
    SkippedIsStored
    DiffsLinkSnapshots
PROPERTIES
    SuccessIsCurrent
    SyncNowReturns
    CaughtUp
