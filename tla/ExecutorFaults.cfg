SPECIFICATION Spec
CONSTANTS
    A = A
    B = B
    entry = entry
    counter = counter
    exit = exit
    basis = basis
    Executions = {entry, exit}
    Exchanges = {A, B}
    Venue <- MCVenue
    Side <- MCSide
    Closing <- MCClosing
    Split <- MCSplit
    DedupKey <- MCDedupKey
    Amount <- MCAmount
    Price <- MCPrice
    Budget = 10
    HaltUsd = 4
    Opening <- MCOpening
    LotSteps = {0}
    MinNotional = 1
    FillGrid = {0, 2, 4}
INVARIANTS
    SuccessIsHedged
    KnownFillUnwoundOrRegistered
    HalfExitRegistered
    
