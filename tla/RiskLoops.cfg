SPECIFICATION Spec
CONSTANTS
    A = A
    B = B
    a = a
    b = b
    Exchanges = {A, B}
    Keys = {a, b}
    ExchangeOf <- MCExchangeOf
    MayStrand = {b}
    MaxFailures = 1
    Flaky = FALSE
    MaxChanges = 4
    s1 = s1
    s2 = s2
    Traders = {s1, s2}
    LossLimit = 2
    TestWins = 2
    Cooldown = 1
    HaltTicks = 2
    MaxHalts = 2
    MaxTasks = 2
    MaxTrades = 1
CHECK_DEADLOCK FALSE
INVARIANTS
    EscalatesSecondSighting
PROPERTIES
    
    ClosesAfterTest
    HaltedLetInAgain
