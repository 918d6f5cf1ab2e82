SPECIFICATION Spec
CONSTANTS
    Parts = {"visitor"}
    Visitors = {"v1", "v2"}
    Amounts = {1, 2}
    Minute = 2
    Hour = 2
    Day = 4
    MaxTime = 6
    PerVisitor = 2
    PerDay = 3
    UsdPerDay = 4
    AiPerDay = 2
    ChatPerMinute = 2
    ChatKeys = 1
    WindowCap = 2
    MaxActive = 2
    DraftCap = 1
    DraftLife = 2
    Gap = 1
    Readers = {"r1", "r2"}
    Resources = {"policies", "quote", "market", "places"}
    Ttl <- MCTtl
    MaxVersion = 3
    Horizon = 3
    Oracles = 2
    MaxAssets = 8
    MaxKeys = 2
    MaxCrashes = 1
    Requests = {"p1", "p2"}
    MaxRestarts = 1
    Inputs <- MCInputs
    FirstCount = 2
    LastCount = 3
    MaxAsks = 2
    OpIds = {"o1", "o2"}
    MaxOutages = 1
    Serials = {1, 2}
    MaxMoves = 4
    MaxAsked = 2
    Sepolia = "sepolia"
    Router = "router"
    Manager = "manager"
    Permit2 = "permit2"
    ITS = "its"
    Native = "native"
    Weth = "weth"
    Usdc = "usdc"
    Bridged = "bridged"
    Self = "self"
    WeiPerTinybar = 10
INVARIANTS ReservedStaysTracked
CHECK_DEADLOCK FALSE
