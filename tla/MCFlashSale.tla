---------------------------- MODULE MCFlashSale ----------------------------
(* Model-checking instance of FlashSale: model values for the sets and the *)
(* sentinels are given in the .cfg files.  Users, items and request        *)
(* handlers are interchangeable; codes are not, since a new code is the    *)
(* first fresh one (CHOOSE), which already picks one representative.       *)
EXTENDS FlashSale, TLC

CONSTANTS i1, i2, u1, u2, c1, c2

MCItems == {i1, i2}
MCUsers == {u1, u2}

\* RedisBloomFilter's bit positions for the two items, from 4-bit hash
\* words, m = 5 and k = 3.  With MCBloomPositions the items share no bit,
\* so the filter reports exactly the items added (i2's third hash wraps
\* past 2^4).  With MCCollidingPositions i2's SHA-256 prefix is 0, so its
\* three positions coincide, on a bit of i1's: once i1 is added, i2 is
\* reported too.
BloomWith(h1, h2) == INSTANCE BloomFilter WITH Elems <- MCItems, M <- 5, K <- 3, W <- 4,
    Hash1 <- h1, Hash2 <- h2, Size <- 1, LocalHash <- [x \in MCItems |-> [s \in 0..2 |-> 0]],
    Clients <- {}, MaxOps <- 0, NoElem <- NoItem,
    bits <- {}, cl <- <<>>, addedOK <- {}, lbits <- {}, laddedOK <- {}, nops <- 0

MCBloomPositions ==
    [i \in MCItems |-> BloomWith(i1 :> 13 @@ i2 :> 2, i1 :> 7 @@ i2 :> 8)!Positions(i)]

MCCollidingPositions ==
    [i \in MCItems |-> BloomWith(i1 :> 13 @@ i2 :> 9, i1 :> 7 @@ i2 :> 0)!Positions(i)]

\* The state after four checkouts: u1 checked out i1 then i2 under code c1,
\* u2 checked out i2 then i1 under c2.  Two purchases of c1 and c2 then
\* mark the items in opposite orders, which PostgreSQL can only resolve by
\* aborting one of them as a deadlock victim.
OppositeOrderInit ==
    /\ soldTo = [i \in Items |-> NoUser] /\ saleSold = 0
    /\ results = [c \in Codes |-> NoResult] /\ txs = [t \in TxIds |-> NoTx]
    /\ saleCount = 0 /\ userCount = [u \in Users |-> 0]
    /\ coAttempts = [c \in Codes |-> IF c \in {c1, c2} THEN 1 ELSE 0]
    /\ coItems = [c \in Codes |->
                    CASE c = c1 -> <<[row |-> 1, item |-> i1], [row |-> 1, item |-> i2]>>
                      [] c = c2 -> <<[row |-> 1, item |-> i2], [row |-> 1, item |-> i1]>>
                      [] OTHER  -> <<>>]
    /\ ckCount = [u \in Users |-> 2]
    /\ userCode = (u1 :> c1 @@ u2 :> c2)
    /\ codeKey = [c \in Codes |-> c \in {c1, c2}]
    /\ checked = [u \in Users |-> {i1, i2}]
    /\ bloom = {} /\ lock = [c \in Codes |-> NoProc]
    /\ pc = [p \in Procs |-> "idle"] /\ req = [p \in Procs |-> NoReq]
    /\ issued = {c1, c2}
    /\ owner = [c \in Codes |-> CASE c = c1 -> u1 [] c = c2 -> u2 [] OTHER -> NoUser]
    /\ soldVia = [i \in Items |-> NoCode]
    /\ nreq = 4
    /\ faults = 0

OppositeOrderSpec == OppositeOrderInit /\ [][Next]_vars /\ Fairness

MCSymmetry == Permutations(Users) \cup Permutations(Items) \cup Permutations(Procs)
=============================================================================
