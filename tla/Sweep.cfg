\* Three threads share four mutations, and may raise.
SPECIFICATION FairSpec
CHECK_DEADLOCK FALSE
CONSTANTS
    Nobody = "nobody"
    Workers = {"w1", "w2", "w3"}
    N = 4
    Pinned = {1, 2, 4}
    MissingAnchors = 0
    ThreadsMayRaise = TRUE
INVARIANTS EachTriedOnce ResultsAreOfTheirMutation
PROPERTIES SweepEnds
