\* The logbook and the price book, two items and two names, three
\* records of which two may be in the backup.
SPECIFICATION LedgerSpec
CONSTANTS
    CharIds = {c1}
    ItemIds = {i1, i2}
    Names = {n1, n2}
    Servers = {s1}
    Prices <- MCPrices
    Times <- MCTimes
    Rules <- MCRules
    MaxLines = 1
    MaxRecords = 3
    MaxRuns = 1
    MaxPrices = 2
    MaxWatches = 1
    None = None
SYMMETRY Symmetry
INVARIANTS
    RunsWhole
    NoAlertWithoutPrice
PROPERTIES
    ListedWatchesFire
    ValueFollowsPrices
    ImportRestores
CHECK_DEADLOCK FALSE
