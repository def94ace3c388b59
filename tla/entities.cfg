CONSTANTS
    Name <- Names
    Documents <- MCDocuments
    Others <- MCOthers
SPECIFICATION MCSpec
INVARIANTS
    ReplacedAsMeant
    VerdictExact
    BoundariesNest
    CachesFaithful
CHECK_DEADLOCK FALSE
