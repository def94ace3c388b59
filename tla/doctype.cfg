SPECIFICATION MCSpec
CONSTANTS
    Name <- Names
    Param <- Params
    Documents <- MCDocuments
INVARIANTS
    DeclaredAsMeant VerdictExact NestingHeard
PROPERTIES
    CallsReturn
CHECK_DEADLOCK FALSE
