SPECIFICATION MCSpec
CONSTANTS
    Name <- Names
    Param <- Params
    Documents <- SkippedDocuments
INVARIANT SkippingIsResumed
CHECK_DEADLOCK FALSE
