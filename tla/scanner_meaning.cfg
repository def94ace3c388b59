CONSTANTS
    Documents <- MeaningDocs
    SkipDoctype = FALSE
    AfterFailure = {}
    MaxResets = 0
SPECIFICATION FairSpec
INVARIANTS
    TypeOK
    ReportsMeaning
    VerdictSound
    RunsCompleted
    CharactersWhole
PROPERTIES
    CallsReturn
CHECK_DEADLOCK FALSE
