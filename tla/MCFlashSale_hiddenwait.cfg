CONSTANTS
    u1 = u1
    u2 = u2
    c1 = c1
    c2 = c2
    Users <- MCUsers
    i1 = i1
    i2 = i2
    Items <- MCItems
    BloomPositions <- MCBloomPositions
    Codes = {c1, c2, c3, c4}
    Procs = {p1, p2}
    MaxUserItems = 2
    MaxSaleItems = 3
    MaxRequests = 4
    Faults = {"bloom_read"}
    MaxFaults = 1
    NoUser = NoUser
    NoItem = NoItem
    NoCode = NoCode
    NoProc = NoProc
    NoTx = NoTx
    NoResult = NoResult
SPECIFICATION Spec
SYMMETRY MCSymmetry
INVARIANT NoHiddenWait
