CONSTANTS
    Documents <- RefusedDocs
    SkipDoctype = TRUE
    AfterFailure = {"close"}
    MaxResets = 1
SPECIFICATION Spec
INVARIANTS
    EventOrder
    StacksAgree
    VerdictSound
    ReportsMeaning
CHECK_DEADLOCK FALSE
