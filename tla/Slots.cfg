\* Two requests of two questions contend for one slot per wallet; permissionless
\* finalize and expire_request close whatever was opened.
SPECIFICATION FairSpec
CONSTANTS
    alice = alice
    bob = bob
    register = register
    blog = blog
    Wallets = {alice, bob}
    Claims <- TwoClaims
    NormWs <- TwoQuestions
    Urls = {register}
    Definitions <- OnePolicy
    FinalResults = {"SUPPORTED"}
    MAX_OPEN_PER_REQUESTER = 1
    MaxPolicies = 1
    MaxRequests = 2
    Horizon = 5
INVARIANTS OpenCountsExact
PROPERTIES OpenRequestsClose
