CONSTANTS
    Prefix <- Prefixes
    Uri <- Uris
    Malformed <- BadLocal
    ElementNames <- FewElements
    AttributeNames <- FewAttributes
    Values <- FewValues
    Versions <- TwoVersions
    NamespacePrefixes = FALSE
    Lenient = TRUE
    MaxDepth = 2
    MaxAttributes = 2
    MaxResets = 1
SPECIFICATION Spec
INVARIANTS
    RootScopeKept
    ReportedTagsLegal
    ScopesAgree
PROPERTIES
    DriftsOnlyByReset
CHECK_DEADLOCK FALSE
