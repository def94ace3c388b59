CONSTANTS
    Prefix <- Prefixes
    Uri <- Uris
    Malformed <- BadLocal
    ElementNames <- AllElements
    AttributeNames <- AllAttributes
    Values <- Uris
    Versions <- AllVersions
    NamespacePrefixes = TRUE
    Lenient = FALSE
    MaxDepth = 2
    MaxAttributes = 2
    MaxResets = 0
SPECIFICATION FamilySpec
INVARIANTS
    TypeOK
    VerdictExact
    HeardAsWritten
PROPERTIES
    LexicalScoping
CHECK_DEADLOCK FALSE
