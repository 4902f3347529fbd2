CONSTANTS
    Hour = 2
    MaxTime = 5
    Admins = {a1}
    MaxAdmin = 0
    MaxRestarts = 1
    Faults = {}
    MaxFaults = 1
    NFiles = 1
    NoTime = NoTime
    BadTime = BadTime
SPECIFICATION Spec
INVARIANT ActiveSaleHasItems
