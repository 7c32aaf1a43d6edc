SPECIFICATION Spec
CONSTANTS
    entry = entry
    exit = exit
    bad = bad
    pair = pair
    Requests = {entry, exit, bad}
    Exits = {exit}
    TradeKey <- MCTradeKey
    Malformed = {bad}
    Buses = {"redis", "memory"}
    MaxLen = 2
    BatchSize = 2
    MaxHalts = 2
    MaxRestarts = 2
    triangle = triangle
    single = single
    Calls = {triangle, single}
    LegCount <- MCLegCount
    Tolerated = 1
    o1 = o1
    o2 = o2
    Orders = {o1, o2}
    MaxSockets = 3
    MaxDrops = 1
    A = A
    B = B
    e1 = e1
    x1 = x1
    old = old
    Venues = {A, B}
    ListsOrders = {A}
    Entries = {e1}
    ExitTasks = {x1}
    Leftovers = {old}
    VenueOf <- MCVenueOf
    Retries = 3
    AutoCloses = {TRUE, FALSE}
CHECK_DEADLOCK FALSE
INVARIANTS
    ExecutedInOrder
    
    ReportsOwnFill
    LeavesNothingBehind
PROPERTIES
    StreamDrains
    StartsFlatOrHalted
