SPECIFICATION FairSpec
CONSTANTS
    e1 = e1
    d1 = d1
    Deliveries <- MCDeliveries
    Kinds <- MCThrowing
    Drains <- MCDrains
    Recovery = Recovery
    None = None
    MaxRetries = 2
    MaxCrashes = 2
    MaxFaults = 1
    MaxOverruns = 1
INVARIANTS OneOwner NothingLost LiveSendNotReplayed
PROPERTY ImplementsDurableDelivery
