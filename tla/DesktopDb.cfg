CONSTANTS
    Handlers = {h1, h2, h3}
    Syncs = {s1}
    Boot = boot
    ReadMayFail = FALSE
SPECIFICATION FairSpec
INVARIANT AckedIsDurable
INVARIANT FileIsEarlierState
PROPERTY NoRollback
PROPERTY OneCallerPerFailure
PROPERTY ImplementsDurableStore
PROPERTY EverySaveSettles
