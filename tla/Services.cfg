SPECIFICATION ServicesSpec
SYMMETRY MCSymmetry
CONSTANTS
    Sessions = {e1, e2, e3}
    PoolTasks = {c1, c2}
    MinPoolSize = 1
    MaxPoolSize = 2
    MaxPoolEvents = 3
    PlanCallers = {c1, c2}
    PlanIds = {g1}
    StepCap = 3
    ChainSizes = {3, 4}
    HybridSizes = {2}
    CustomPlans <- MCCustomPlans
    Subs = {i1, i2}
    BusClients = {c1, c2}
    Segments = {"a", "b", "#"}
    Patterns <- MCPatterns
    Topics <- MCTopics
    MaxPublished = 2
    StoreAgents = {a1}
    StoreClients = {c1, c2}
    StoreStates = {"Registered", "Idle", "Working"}
    MaxCommands = 4
    MaxRestarts = 1
    Streams = {c1, c2}
    Mandates = {m1}
    Tokens = {eth, erc}
    Ether = eth
    StreamAmounts = {3}
    MandateLimits = {2}
    PayAmounts = {1}
    StreamDurations = {2}
    MandateValidities = {1}
    PayHorizon = 3
    MaxStrayed = 1
    Schedules = {c1, c2}
    Beneficiaries = {b1, b2}
    VestAmounts = {3}
    VestDelays = {0, 1}
    VestDurations = {0, 1, 3}
    VestHorizon = 4
    MaxDeposited = 6
    Deals = {c1, c2}
    DealTokens = {eth, erc}
    Native = eth
    DealPrices = {0, 40}
    EscrowFees = {0, 500}
    InitialFee = 500
    SellerAmounts = {0, 20, 39}
    DealLifetimes = {1}
    DealHorizon = 1
    TaskIds = {c1, c2}
    NoTask = NoTask
    MaxGatewayTasks = 2
    MaxInstances = 2
    MaxAsked = 3
    MaxMishaps = 1
INVARIANTS
    TypeOK
    SessionsAccounted
    PlansAccounted
    PublishReachesAll
    LegalHistory
    RecoveredIsReplay
    StreamsAccounted
    SchedulesCovered
    
    AgentAccounted
CHECK_DEADLOCK FALSE
