\* Interruptions, lost answers, and panels that may disagree or surprise.
SPECIFICATION FairSpec
CHECK_DEADLOCK FALSE
CONSTANTS
    Disagreement = TRUE
    Surprises = TRUE
    Attempts = 2
    MaxRestarts = 2
    MaxLost = 1
    TornWrites = TRUE
INVARIANTS ResendsAreAbsorbed RecheckedReceiptIsRecorded FinishedRunHappened
PROPERTIES RunEnds
