\* Small words, pieces, packets and texts.
SPECIFICATION Spec
CONSTANTS
    WORD = 54
    MaxRequest = 6
    MaxBody = 3
    Piece = 3
    MaxSent = 12
    MaxPacket = 19
    MaxQuestions = 2
    MaxDepth = 2
    MaxLabel = 3
    Names = {n1, n2}
    NoName = NoName
    Signals = {1, 2}
    MaxLines = 5
    MaxTokens = 8
    Levels = {a, sys}
    Dollar = {sys}
    MaxLevels = 3
INVARIANTS ReadsInside RequestVerdict  GrammarAccepted RingsIfCovered
PROPERTIES Finishes
CHECK_DEADLOCK FALSE
