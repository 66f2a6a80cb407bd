SPECIFICATION Spec
CONSTANTS
    e1 = e1
    d1 = d1
    Deliveries <- MCDeliveries
    Kinds <- MCDurable
    Drains <- MCDrains
    Recovery = Recovery
    None = None
    MaxRetries = 2
    MaxCrashes = 1
    MaxFaults = 0
    MaxOverruns = 0
INVARIANT NeverDuplicated
