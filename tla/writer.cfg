CONSTANTS
    Threshold = 8
    Bom <- MCBom
    Unmappable <- MCUnmappable
    Piece <- MCPiece
    Outcomes = {"taken", "refused"}
    MaxCalls <- MCMaxCalls
    MaxDepth = 3
SPECIFICATION MCSpec
INVARIANTS BindingsWritten ReadBack NamesAsAsked TextLeftAlone
CHECK_DEADLOCK FALSE
