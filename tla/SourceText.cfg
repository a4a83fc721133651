\* Every byte past the sixteenth and every symbol past the eleventh is cut; the
\* first three symbols tell HTML.
SPECIFICATION Spec
CHECK_DEADLOCK FALSE
CONSTANTS
    Letters <- MCLetters
    BytesOf <- MCBytesOf
    QUOTE_MIN = 3
    QUOTE_CAP = 7
    HEAD_CAP = 3
    BODY_BYTES_CAP = 16
    TEXT_CAP = 11
    Responses <- MCResponses
    Readings <- MCReadings
    MAX_QUOTES = 2
    NOTE_CAP = 3
INVARIANTS
    OnlyMarkupIsRemoved
    TruncationIsDeclared
    CutPageIsDecoded
    KeptQuoteIsOnePassage
    KeptFindingPassesGate
    LongQuoteIsSalvaged
