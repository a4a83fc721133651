\* The docstring of mutation_check.py, against threads that raise.
SPECIFICATION Spec
CHECK_DEADLOCK FALSE
CONSTANTS
    Nobody = "nobody"
    Workers = {"w1"}
    N = 2
    Pinned = {1, 2}
    MissingAnchors = 0
    ThreadsMayRaise = TRUE
INVARIANTS GreenSweepPinsEveryGuard
