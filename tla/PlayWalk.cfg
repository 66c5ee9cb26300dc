SPECIFICATION FairSpec
CONSTANTS
    p1 = p1
    p2 = p2
    r1 = r1
    r2 = r2
    Providers = {p1, p2}
    EngineUsers = {p2}
    Guarded = {p1}
    Engine = engine
    Unknown = unknown
    Orders <- MCOrders
    MaxAttempts = 2
    Requests = {r1, r2}
    Presses <- MCPresses
    Background = background
    Window = 3
    MinSamples = 2
    Elsewhere = {p2}
    MaxSamples = 2
INVARIANTS EveryPlayAttested HealthIsEarned AnswerIsTheWalks
PROPERTIES DeadClientOnlyInTheReset WedgeIsReset
