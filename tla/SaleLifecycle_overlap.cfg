CONSTANTS
    Hour = 2
    MaxTime = 5
    Admins = {a1}
    MaxAdmin = 1
    MaxRestarts = 0
    Faults = {"get_active"}
    MaxFaults = 1
    NFiles = 1
    NoTime = NoTime
    BadTime = BadTime
SPECIFICATION Spec
INVARIANT AtMostOneActive
