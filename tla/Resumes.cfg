\* The comment of live_run.py on resuming, against a stop inside policy().
SPECIFICATION Spec
CHECK_DEADLOCK FALSE
CONSTANTS
    Disagreement = FALSE
    Surprises = FALSE
    Attempts = 2
    MaxRestarts = 1
    MaxLost = 0
    TornWrites = FALSE
INVARIANTS InterruptedRunResumes
