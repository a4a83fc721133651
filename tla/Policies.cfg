\* Superseding and retiring policies while a request of the first is in progress.
SPECIFICATION Spec
CONSTANTS
    alice = alice
    bob = bob
    register = register
    blog = blog
    Wallets = {alice, bob}
    Claims <- TwoSpellings
    NormWs <- OneQuestion
    Urls = {register, blog}
    Definitions <- PolicyChain
    FinalResults = {"SUPPORTED"}
    MAX_OPEN_PER_REQUESTER = 1
    MaxPolicies = 3
    MaxRequests = 1
    Horizon = 5
SYMMETRY WalletSymmetry
INVARIANTS PolicyLineage ViewMatchesWrites
