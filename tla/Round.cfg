\* One faulty node of three, a rotation, honest nodes that may see different pages.
SPECIFICATION FairSpec
CHECK_DEADLOCK FALSE
CONSTANTS
    n1 = n1
    n2 = n2
    n3 = n3
    statement = statement
    notice = notice
    correction = correction
    page = page
    edited = edited
    c1 = c1
    c2 = c2
    other = other
    NoBody = NoBody
    Blanks = {NoBody, other}
    Nodes = {n1, n2, n3}
    Faulty = {n1}
    Components = {c1, c2}
    Passages = {statement, notice, correction}
    Bodies = {page, edited}
    DatesIn <- MCDatesIn
    TextOf <- MCTextOf
    MarkersOf <- MCMarkersOf
    Contexts <- MCContexts
    Sources <- TwoPages
    Answers <- Split
    Payloads <- MCPayloads
    ModelFails = TRUE
    MaxRotations = 2
INVARIANTS ReceiptReflectsHonestReading StoredRecordAgreed FailureIsShared SameReadingAgrees
PROPERTIES AgreementIsReached
