\* Four hundred years of days; policies, URLs and texts of every kind.
SPECIFICATION Spec
CHECK_DEADLOCK FALSE
CONSTANTS
    HOURS = 2
    SIXTY = 2
    Urls <- MCUrls
    Texts <- MCTexts
    Policies <- MCPolicies
    Idents <- MCIdents
    UpperOf <- MCUpperOf
    URL_CAP = 9
    DOMAIN_CAP = 6
    CLAIM_CAP = 3
    CONTEXT_CAP = 3
    MAX_DOMAINS = 2
    MAX_COMPONENTS = 2
    Nothing = Nothing
    Refused = Refused
    LastYear = 2371
INVARIANTS
    DatesFollowTheCalendar
    StampsRoundTrip
    SourceIsUnderListedDomain
    OnlyEncodingVaries
    SubjectsStayApart
PROPERTIES AdviceIsRight
