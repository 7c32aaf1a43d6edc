SPECIFICATION Spec
CONSTANTS
    long = long
    short = short
    acc = acc
    drain = drain
    t1 = t1
    Keys = {long, short}
    Accounts = {acc}
    AccountOf <- MCAccountOf
    Sign <- MCSign
    Drain = drain
    Tasks = {t1}
    Paths = {"queue", "task"}
    QueueMax = 2
    MaxFills = 3
    MaxCrashes = 1
    strategy = strategy
    uncategorized = uncategorized
    loss = loss
    gain = gain
    other = other
    Strategies = {strategy, uncategorized}
    First = strategy
    Events = {loss, gain, other}
    StrategyOf <- MCStrategyOf
    Amount <- MCAmount
    Copies = 2
    Budget = 2
    LastDay = 2
    MaxResets = 1
    MaxRestarts = 1
    FaultSets <- MCFaultSets
CHECK_DEADLOCK FALSE
INVARIANTS
    IndexSettles
    ShadowInStepOrHalted
    BalanceIsSum
    OneWindow
PROPERTIES
    
    QueueDrains
    
