\* Two runs of the command that overlap and fail, over articles that are edited.
SPECIFICATION Spec
CONSTANTS
    n1 = n1
    u1 = u1
    v1 = v1
    v2 = v2
    r1 = r1
    r2 = r2
    Runners <- TwoRunners
    Sources = {"NOTICE", "UPDATE"}
    Articles = {n1, u1}
    SourceOf <- TwoBoards
    Contents <- TwoContents
    None = None
    MaxEdits = 3
    MaxFailures = 1
SYMMETRY Symmetry
INVARIANTS
    OnlyTornMisses
PROPERTY
    EndIsCurrent
