CONSTANTS
    Documents <- LongStreams
    LaterDocuments = {}
    AfterFailure = {}
    MaxResets = 0
SPECIFICATION Spec
INVARIANTS
    DecodedInOneShot
CHECK_DEADLOCK FALSE
