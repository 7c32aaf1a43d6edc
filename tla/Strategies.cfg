SPECIFICATION Spec
CONSTANTS
    btc = btc
    eth = eth
    Symbols = {btc, eth}
    Ids = {1, 2}
    Slots = 1
    MaxConcurrent = 1
    MaxPositions = 2
    Scenes <- MCScenes
CHECK_DEADLOCK FALSE
INVARIANTS
    
    TrackedIsHeld
    WithinLimit
    
    
PROPERTY
    
    SettlesOnMarket
