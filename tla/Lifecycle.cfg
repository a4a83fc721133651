\* Two requests of one question in two spellings, through every event.
SPECIFICATION Spec
CONSTANTS
    alice = alice
    bob = bob
    register = register
    blog = blog
    Wallets = {alice, bob}
    Claims <- TwoSpellings
    NormWs <- OneQuestion
    Urls = {register}
    Definitions <- OnePolicy
    FinalResults = {"SUPPORTED", "NOT_SUPPORTED"}
    MAX_OPEN_PER_REQUESTER = 1
    MaxPolicies = 1
    MaxRequests = 2
    Horizon = 6
SYMMETRY WalletSymmetry
INVARIANTS TypeOK HistoryPartition VersionsMatchHistory OneRecheckPerEvent ViewsTellOneStory OpenKeysExact
PROPERTIES ReceiptsAreFinal FinalityRespectsDelay ImplementsLedger
