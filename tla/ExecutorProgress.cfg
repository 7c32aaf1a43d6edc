SPECIFICATION Spec
CONSTANTS
    A = A
    B = B
    entry = entry
    counter = counter
    exit = exit
    basis = basis
    Executions = {entry, counter}
    Exchanges = {A, B}
    Venue <- MCVenue
    Side <- MCSide
    Closing <- MCClosing
    Split <- MCSplit
    DedupKey <- MCDedupKey
    Amount <- MCAmount
    Price <- MCPrice
    Budget = 15
    HaltUsd = 4
    Opening <- MCOpening
    LotSteps = {0}
    MinNotional = 1
    FillGrid = {}
PROPERTIES
    HaltStopsQueued
    Termination
