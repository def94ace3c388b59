SPECIFICATION Spec
CONSTANTS
    Names = {"a", "b"}
    MaxChildren = 5
    NoModel = NoModel
    Matches <- MatchContent
INVARIANTS
    MatchesLanguage
CHECK_DEADLOCK FALSE
