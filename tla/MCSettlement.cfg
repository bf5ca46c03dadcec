\* Settlement of every action: Send's bisection, Swap's iteration, returned
\* messages, one change of the chain.  A refused or settled attempt stops.
SPECIFICATION Spec
CONSTANTS
    Address <- MCAddress
    Orders <- MCOrders
    Chains <- MCChains
    BPS_DENOMINATOR = 10
    LAMPORTS_PER_SOL = 10
    FEE_BPS = 3
    BUFFER_BPS = 1
    CAP_USD_MICROS = 3
    UNIT = 4
    TOKEN_PRICE = 5
    SOL_PRICE = 7
    PRIORITY_FEE = 3
    MINIMUM_PAYOUT = 1
    MAXIMUM_NETWORK_FEE = 5
    MAXIMUM_SPONSORED_COST = 8
    ATA_RENT = 2
    WALLET_LAMPORTS = 0
    BASE_FEE = 1
    MAX_ACCOUNTS = 2
    FIRST_GUESS_FEE = 3
    ROUTE_DRIFT = 2
    MAX_STABILIZATION_ATTEMPTS = 3
INVARIANTS SponsorMadeWhole WalletKeepsItsPromise LandedReconciles MaxIsMaximal NothingOfferedIsRefused
CHECK_DEADLOCK FALSE
