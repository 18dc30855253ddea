SPECIFICATION Spec
CONSTANTS
    Width <- WidthMC
    CR = "CR"
    LF = "LF"
    Piece <- PieceMC
    MaxLen = 4
    MaxBytes = 8
    MaxChanges = 2
    MaxLine = 1
    MaxColumn = 3
INVARIANTS OffsetsAreBoundaries InSync PositionsAgree
