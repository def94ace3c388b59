SPECIFICATION Spec
CONSTANTS
    Matches <- MatchContent
    NoModel = NoModel
    NoDoctype = NoDoctype
    NoDefault = NoDefault
    Doctypes <- MCDoctypes
    NameTokens <- Names
    Nmtokens <- MCNmtokens
    ColonTokens <- MCColonTokens
    SpaceAttribute = "xml:space"
    SpaceTokens <- MCSpaceTokens
    MaxResets = 1
INVARIANTS
    ContentJudged
    AttributesHeard
    IdentitiesJudged
    DeclarationsHeardOnce
    StandaloneKept
CHECK_DEADLOCK FALSE
