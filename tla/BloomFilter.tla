----------------------------- MODULE BloomFilter -----------------------------
(***************************************************************************)
(* The sold-items filters.  RedisBloomFilter (postgres/connection.go) keeps *)
(* its bitset in Redis and reaches it through pipelines: Add sends k SETBIT *)
(* and Contains k GETBIT commands, which Redis executes one at a time,      *)
(* interleaved with other clients' commands, and a failed Exec may leave   *)
(* any prefix of them applied.  Bit positions come from double hashing     *)
(* h1 + i*h2 in W-bit unsigned arithmetic, reduced mod m.  BloomFilter     *)
(* (pkg/bloom/bloom.go) is the in-process variant behind a mutex.          *)
(* The hash functions (FNV-64a, SHA-256) are constants: Hash1 and Hash2    *)
(* give each element's two hashes, LocalHash its seeded FNV hashes.        *)
(***************************************************************************)
EXTENDS Naturals, FiniteSets

CONSTANTS
    Elems,        \* item ids
    M,            \* bf.m: bits in the Redis bitset
    K,            \* bf.k: hash functions
    W,            \* width of the hash words (64 in the code)
    Hash1,        \* element -> hash1 (FNV-64a), a W-bit word
    Hash2,        \* element -> hash2 (first 8 bytes of SHA-256), a W-bit word
    Size,         \* bf.size of the in-process filter
    LocalHash,    \* element -> seed -> fnv64a(item ++ byte(seed))
    Clients,      \* concurrent callers of the Redis filter
    MaxOps,       \* bound: filter calls in one behaviour
    NoElem

Word == 2^W
Seeds == 0..(K - 1)

ASSUME /\ M \in Nat \ {0} /\ K \in Nat \ {0} /\ Size \in Nat \ {0}
       /\ Hash1 \in [Elems -> 0..(Word - 1)] /\ Hash2 \in [Elems -> 0..(Word - 1)]
       /\ LocalHash \in [Elems -> [Seeds -> 0..(Word - 1)]]

-----------------------------------------------------------------------------
(* RedisBloomFilter *)

\* getHashes: hashes[i] = h1 + i*h2, both operations wrapping at 2^W.
GetHashes(x) == [i \in Seeds |-> (Hash1[x] + ((i * Hash2[x]) % Word)) % Word]

\* Mutant: the bit loop of Contains runs i from 1 to k.
ReadPosPastEnd(x, i) == ((Hash1[x] + (((i + 1) * Hash2[x]) % Word)) % Word) % M

\* Mutant: SETBIT at the raw hash, without % bf.m.
BitPosNoMod(x, i) == GetHashes(x)[i]

\* The bit Add sets for element x's i-th hash: hashes[i] % bf.m.
BitPos(x, i) == GetHashes(x)[i] % M

\* The bit Contains reads for element x's i-th hash.
ReadPos(x, i) == BitPos(x, i)

\* Every bit that represents x.
Positions(x) == {BitPos(x, i) : i \in Seeds}

VARIABLES
    bits,       \* the Redis string bloom:sold_items, as the set of its 1 bits
    cl,         \* each client's call in progress
    addedOK,    \* elements some Add returned nil for
    lbits,      \* the in-process bitset, as the set of its true positions
    laddedOK,   \* elements added to the in-process filter since its last Clear
    nops

vars == <<bits, cl, addedOK, lbits, laddedOK, nops>>

Idle == [op |-> "idle", elem |-> NoElem, i |-> 0, seen |-> TRUE,
         after |-> FALSE, result |-> FALSE]

Init ==
    /\ bits = {} /\ lbits = {}
    /\ cl = [c \in Clients |-> Idle]
    /\ addedOK = {} /\ laddedOK = {}
    /\ nops = 0

\* Add(ctx, x) or Contains(ctx, x) is called and builds its pipeline.
\* after: some Add of x had returned nil before this Contains began.
Call(c, op, x) ==
    /\ cl[c].op = "idle" /\ nops < MaxOps
    /\ nops' = nops + 1
    /\ cl' = [cl EXCEPT ![c] = [Idle EXCEPT !.op = op, !.elem = x,
                                            !.after = (x \in addedOK)]]
    /\ UNCHANGED <<bits, addedOK, lbits, laddedOK>>

\* Redis executes the next SETBIT of an Add; after the k-th, Exec returns nil.
AddBit(c) ==
    LET x == cl[c].elem
        i == cl[c].i
    IN
    /\ cl[c].op = "add"
    /\ bits' = bits \cup {BitPos(x, i)}
    /\ IF i + 1 = K
       THEN cl' = [cl EXCEPT ![c] = Idle] /\ addedOK' = addedOK \cup {x}
       ELSE cl' = [cl EXCEPT ![c].i = i + 1] /\ UNCHANGED addedOK
    /\ UNCHANGED <<lbits, laddedOK, nops>>

\* Redis executes the next GETBIT of a Contains; after the k-th, Contains
\* returns false if any bit read was 0.
ContainsBit(c) ==
    LET x == cl[c].elem
        i == cl[c].i
        seen == cl[c].seen /\ ReadPos(x, i) \in bits
    IN
    /\ cl[c].op = "contains"
    /\ IF i + 1 = K
       THEN cl' = [cl EXCEPT ![c].op = "done", ![c].result = seen]
       ELSE cl' = [cl EXCEPT ![c].i = i + 1, ![c].seen = seen]
    /\ UNCHANGED <<bits, addedOK, lbits, laddedOK, nops>>

\* Exec fails (the connection drops): the commands already executed stay
\* applied, and the call returns its error.  The caller logs it.
ExecFail(c) ==
    /\ cl[c].op \in {"add", "contains"}
    /\ cl' = [cl EXCEPT ![c] = Idle]
    /\ UNCHANGED <<bits, addedOK, lbits, laddedOK, nops>>

\* The caller takes the answer of a completed Contains.
Answer(c) ==
    /\ cl[c].op = "done"
    /\ cl' = [cl EXCEPT ![c] = Idle]
    /\ UNCHANGED <<bits, addedOK, lbits, laddedOK, nops>>

-----------------------------------------------------------------------------
(* pkg/bloom BloomFilter: every method holds the mutex, so each is one step *)

\* hash(item, seed): fnv64a(item ++ byte(seed)) % size.
LocalPos(x, seed) == LocalHash[x][seed] % Size

\* Contains: false at the first unset position.
LocalContains(x) == \A seed \in Seeds : LocalPos(x, seed) \in lbits

LocalAdd(x) ==
    /\ nops < MaxOps /\ nops' = nops + 1
    /\ lbits' = lbits \cup {LocalPos(x, seed) : seed \in Seeds}
    /\ laddedOK' = laddedOK \cup {x}
    /\ UNCHANGED <<bits, cl, addedOK>>

\* Clear: a fresh bitset of the same size.
LocalClear ==
    /\ nops < MaxOps /\ nops' = nops + 1
    /\ lbits' = {} /\ laddedOK' = {}
    /\ UNCHANGED <<bits, cl, addedOK>>

-----------------------------------------------------------------------------
Done ==
    /\ nops = MaxOps /\ \A c \in Clients : cl[c].op = "idle"
    /\ UNCHANGED vars

Next ==
    \/ \E c \in Clients :
          \/ \E op \in {"add", "contains"}, x \in Elems : Call(c, op, x)
          \/ AddBit(c) \/ ContainsBit(c) \/ ExecFail(c) \/ Answer(c)
    \/ \E x \in Elems : LocalAdd(x)
    \/ LocalClear
    \/ Done

Spec == Init /\ [][Next]_vars

-----------------------------------------------------------------------------
(* Properties *)

TypeOK ==
    /\ bits \subseteq 0..(M - 1) /\ lbits \subseteq 0..(Size - 1)
    /\ cl \in [Clients -> [op: {"idle", "add", "contains", "done"},
                           elem: Elems \cup {NoElem}, i: Seeds, seen: BOOLEAN,
                           after: BOOLEAN, result: BOOLEAN]]
    /\ addedOK \subseteq Elems /\ laddedOK \subseteq Elems
    /\ nops \in 0..MaxOps

\* Filter soundness (spec 6, "Contains(x) = false => x was never Add-ed"),
\* for both filters: a Contains of x that began after an Add of x had
\* returned nil answers true, whatever other pipelines ran in between,
\* failed half-way, or wrapped around 2^W in getHashes; and the in-process
\* filter contains everything added since its last Clear.
NoFalseNegative ==
    /\ \A c \in Clients : cl[c].op = "done" /\ cl[c].after => cl[c].result
    /\ \A x \in laddedOK : LocalContains(x)

=============================================================================
