CONSTANTS
    Documents <- Streams
    LaterDocuments <- StreamsAfterReset
    AfterFailure = {"receive", "close"}
    MaxResets = 1
SPECIFICATION Spec
INVARIANTS
    TypeOK
    FedIsMeaning
    VerdictExact
    SettingsAreDeclared
CHECK_DEADLOCK FALSE
