\* Sources, policies and answers, one reading at a time.
SPECIFICATION Spec
CHECK_DEADLOCK FALSE
CONSTANTS
    title = title
    notice = notice
    absent = absent
    clean = clean
    marked = marked
    optional = optional
    binary = binary
    NoBody = NoBody
    Blanks = {NoBody, binary}
    Components = {c1, optional}
    Passages = {title, notice, absent}
    Bodies = {clean, marked}
    DatesIn <- MCDatesIn
    TextOf <- MCTextOf
    MarkersOf <- MCMarkersOf
    Contexts <- MCContexts
    Sources <- AllSources
    Answers <- MCAnswers
INVARIANTS VerdictMatchesTable HonestPayloadPasses SupportIsShown
