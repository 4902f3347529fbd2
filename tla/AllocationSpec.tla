---------------------------- MODULE AllocationSpec ----------------------------
(***************************************************************************)
(* What the allocation engine promises, with no requests, caches or        *)
(* transactions: checkout codes are handed to users, and a purchase of a   *)
(* code happens at most once, atomically selling a set of still-unsold     *)
(* items to the code's user and freezing that set as the code's result     *)
(* (spec 8.1 no double sell, 8.2 sale cap, 8.4 idempotent purchase).       *)
(* FlashSale is checked to implement it through a refinement mapping.      *)
(***************************************************************************)
EXTENDS Naturals, FiniteSets

CONSTANTS Users, Items, Codes, MaxUserItems, MaxSaleItems, NoUser, NoResult

VARIABLES
    sold,     \* item -> user it was sold to, or NoUser
    result,   \* code -> frozen set of items its purchase sold, or NoResult
    holder    \* code -> user the code was handed to, or NoUser

vars == <<sold, result, holder>>

Free == {i \in Items : sold[i] = NoUser}

Init ==
    /\ sold = [i \in Items |-> NoUser]
    /\ result = [c \in Codes |-> NoResult]
    /\ holder = [c \in Codes |-> NoUser]

\* A fresh code is handed to user u.
Issue(c, u) ==
    /\ holder[c] = NoUser
    /\ holder' = [holder EXCEPT ![c] = u]
    /\ UNCHANGED <<sold, result>>

\* The one purchase of code c sells the free items S to the code's user:
\* no more than a user may buy at once, and within the sale's inventory.
Purchase(c, S) ==
    /\ holder[c] # NoUser /\ result[c] = NoResult
    /\ S \subseteq Free
    /\ Cardinality(S) <= MaxUserItems
    /\ Cardinality(Items \ Free) + Cardinality(S) <= MaxSaleItems
    /\ sold' = [i \in Items |-> IF i \in S THEN holder[c] ELSE sold[i]]
    /\ result' = [result EXCEPT ![c] = S]
    /\ UNCHANGED holder

Next ==
    \/ \E c \in Codes, u \in Users : Issue(c, u)
    \/ \E c \in Codes, S \in SUBSET Items : Purchase(c, S)

Spec == Init /\ [][Next]_vars

=============================================================================
