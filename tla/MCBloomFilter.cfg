CONSTANTS
    e1 = e1
    e2 = e2
    Elems <- MCElems
    Hash1 <- MCHash1
    Hash2 <- MCHash2
    LocalHash <- MCLocalHash
    M = 5
    K = 3
    W = 4
    Size = 4
    Clients = {k1, k2}
    MaxOps = 4
    NoElem = NoElem
SPECIFICATION Spec
INVARIANT TypeOK NoFalseNegative
