SPECIFICATION FairSpec
CONSTANTS
    Clients = {a, b, c}
    Delays = {3, 4}
    MaxPass = 2
INVARIANTS StrongestPromiseWins PromisesKeptInTime AcknowledgedBeforeOwnDelayEnds
PROPERTY RestartHappens
