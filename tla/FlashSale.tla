------------------------------ MODULE FlashSale ------------------------------
(***************************************************************************)
(* The two-phase allocation engine of the flash-sale service: the checkout *)
(* handler (commands/checkout_command.go) and the purchase use case        *)
(* (use_cases/purchase_use_case.go), running as concurrent requests over   *)
(* the durable store (PostgreSQL, postgres/*.go) and the coordination      *)
(* store (Redis, monitoring/middleware.go Cache and postgres/connection.go *)
(* RedisBloomFilter).  One sale is active throughout; SaleLifecycle.tla    *)
(* models how sales start and end.                                         *)
(*                                                                         *)
(* Every call a handler makes to a store is a point where another request  *)
(* may run; a step below groups calls only where no other request can     *)
(* observe the difference (see README.md).                                 *)
(***************************************************************************)
EXTENDS Naturals, Sequences, FiniteSets, SequencesExt, Relation

CONSTANTS
    Users,          \* user ids sent by clients
    Items,          \* the items of the active sale
    Codes,          \* checkout codes the code generator can return
    Procs,          \* request handlers running concurrently
    MaxUserItems,   \* maxItemsPerUser / maxItemsLimit (10 in the code)
    MaxSaleItems,   \* maxItemsPerSale (10000 in the code)
    MaxRequests,    \* bound: requests started in one behaviour
    Faults,         \* the kinds of fault this model lets happen
    MaxFaults,      \* bound: faults in one behaviour
    BloomPositions, \* item -> the bits of bloom:sold_items that represent it
    NoUser, NoItem, NoCode, NoProc, NoTx, NoResult

FaultKinds ==
    {"counter_write",   \* IncrementCounters fails (error only logged)
     "commit",          \* COMMIT fails with a serialization failure
     "lock_ttl",        \* the 3 s purchase lock expires under its holder
     "bloom_read",      \* ItemExistsInBloomFilter fails (error only logged)
     "slots_read"}      \* GetAvailableCheckoutSlots fails (error only logged)

ASSUME Faults \subseteq FaultKinds /\ MaxFaults \in Nat /\ MaxRequests \in Nat
ASSUME BloomPositions \in [Items -> SUBSET Nat]

\* GenerateCheckoutCode returns a fresh code for every request that asks.
ASSUME Cardinality(Codes) >= MaxRequests

\* retryAttempts in NewPurchaseUseCase
RetryAttempts == 2

(* Errors (domain/errors/errors.go) and what a client is told of them. *)

\* The HTTP status errorMappings gives each domain error.
ErrorMappings ==
    [SaleNotFound |-> 404, SaleNotActive |-> 400, SaleOutOfStock |-> 400,
     SaleLimitExceeded |-> 400, NoItemsToPurchase |-> 400, ItemNotFound |-> 404,
     ItemAlreadySold |-> 409, ItemNotInSale |-> 400, AllItemsSold |-> 409,
     CheckoutNotFound |-> 404, CheckoutExpired |-> 400, ItemAlreadyInCheckout |-> 400,
     UserAlreadyCheckedOutItem |-> 400, UserLimitExceeded |-> 400,
     CheckoutAlreadyProcessed |-> 409, TransactionFailed |-> 500]

\* An error value: the domain error at the bottom of its %w chain ("other"
\* when there is none), and whether fmt.Errorf wrapped it.
ErrVals == [is: DOMAIN ErrorMappings \cup {"none", "other"}, wrapped: BOOLEAN]
Err(k)   == [is |-> k, wrapped |-> FALSE]
Wrap(k)  == [is |-> k, wrapped |-> TRUE]
OtherErr == Err("other")
NoErr    == Err("none")

\* isBusinessLogicError compares with ==, so a wrapped error is never one.
IsBusinessLogicError(e) ==
    ~e.wrapped /\ e.is \in {"CheckoutNotFound", "SaleNotFound", "UserLimitExceeded",
                            "CheckoutAlreadyProcessed"}

\* MapDomainError: the status of the first mapping errors.Is matches; no
\* chain holds two domain errors, so the map's iteration order is moot.
MapDomainError(e) ==
    IF e.is \in DOMAIN ErrorMappings THEN ErrorMappings[e.is] ELSE 500

\* Mutant: TotalPurchased counts the attempted items.
CalculatePurchaseResultAttempted(items, succ) ==
    [success |-> succ # {}, total |-> Len(items),
     failed |-> Len(items) - Cardinality(succ),
     items |-> [k \in DOMAIN items |-> [id |-> items[k], sold |-> items[k] \in succ]]]

\* PurchaseService.CalculatePurchaseResult over the attempted item ids and
\* the successful ones (a list without repeats: a repeated id is skipped
\* by the filter, or finds its row already sold).
CalculatePurchaseResult(items, succ) ==
    [success |-> succ # {}, total |-> Cardinality(succ),
     failed |-> Len(items) - Cardinality(succ),
     items |-> [k \in DOMAIN items |-> [id |-> items[k], sold |-> items[k] \in succ]]]

VARIABLES
    \* durable store
    soldTo,       \* items.sold / items.sold_to_user_id, committed
    saleSold,     \* sales.items_sold of the active sale, committed
    results,      \* purchase_results: code -> set of items reported sold
    coAttempts,   \* code -> number of checkout_attempts rows with that code
    coItems,      \* code -> checkout_items rows [row, item] in added_at order
    txs,          \* open serializable transactions, <<proc, attempt>> -> record
    \* coordination store
    saleCount,    \* sale:{S}:items_sold
    userCount,    \* user:{U}:sale:{S}:count
    ckCount,      \* user:{U}:sale:{S}:checkout_count
    userCode,     \* user:{U}:sale:{S}:checkout
    codeKey,      \* checkout:{code} exists
    checked,      \* user:{U}:sale:{S}:checked_items
    bloom,        \* items added to bloom:sold_items
    lock,         \* lock:purchase:{code} -> request that set it
    \* requests
    pc, req,
    \* history and bounds
    issued,       \* codes generated so far
    owner,        \* code -> user it was generated for
    soldVia,      \* item -> code of the committed purchase that sold it
    nreq, faults

db    == <<soldTo, saleSold, results, coAttempts, coItems, txs>>
redis == <<saleCount, userCount, ckCount, userCode, codeKey, checked, bloom, lock>>
ghost == <<issued, owner, soldVia, nreq, faults>>
vars  == <<db, redis, pc, req, ghost>>

TxIds == Procs \X (1..RetryAttempts)

TxRec == [code: Codes, snapSold: SUBSET Items, snapSale: Nat,
          marked: SUBSET Items, saleRow: BOOLEAN, saleValue: Nat,
          result: BOOLEAN, aborted: BOOLEAN]

ReqRec == [kind: {"none", "checkout", "purchase"}, user: Users \cup {NoUser},
           item: Items \cup {NoItem}, code: Codes \cup {NoCode},
           create: BOOLEAN, items: Seq(Items), todo: Seq(Items),
           succ: SUBSET Items, attempt: 0..RetryAttempts,
           err: ErrVals, committed: BOOLEAN]

NoReq == [kind |-> "none", user |-> NoUser, item |-> NoItem, code |-> NoCode,
          create |-> FALSE, items |-> <<>>, todo |-> <<>>, succ |-> {},
          attempt |-> 0, err |-> NoErr, committed |-> FALSE]

PCs == {"idle",
        "ck_validate", "ck_code", "ck_newcode", "ck_load", "ck_write", "ck_count",
        "p_load", "p_lock", "p_pre", "p_tx", "p_bloom", "p_mark", "p_incr", "p_update",
        "p_save", "p_commit", "p_cleanup", "p_release", "reply"}

-----------------------------------------------------------------------------
(* Store helpers *)

SoldItems == {i \in Items : soldTo[i] # NoUser}

\* GetCheckoutByCode: the item ids of every checkout_items row joined to a
\* checkout_attempts row with this code, in added_at order.
CheckoutItemIDs(c) == [k \in DOMAIN coItems[c] |-> coItems[c][k].item]

\* GetPurchaseResult: the code's purchase_results row, or none.
GetPurchaseResult(c) == results[c]

\* GetSaleByID: the items_sold of the active sale's row.
GetSaleByID == saleSold

\* LogCheckoutAttempt for each id in turn: a new checkout_attempts row with
\* the code, holding one checkout_items row with the id.
LogCheckoutAttempt(c, ids) ==
    /\ coAttempts' = [coAttempts EXCEPT ![c] = @ + Len(ids)]
    /\ coItems' = [coItems EXCEPT ![c] =
                     @ \o [k \in DOMAIN ids |-> [row |-> coAttempts[c] + k, item |-> ids[k]]]]

\* DeleteCheckout: DELETE FROM checkout_attempts WHERE checkout_code = code;
\* the checkout_items rows go with them (ON DELETE CASCADE).
DeleteCheckout(c) ==
    /\ coAttempts' = [coAttempts EXCEPT ![c] = 0]
    /\ coItems' = [coItems EXCEPT ![c] = <<>>]

\* ItemExistsInBloomFilter: RedisBloomFilter.Contains over the bits that the
\* Adds of the items in bloom set (BloomFilter.tla gives the positions); an
\* item whose bits other items set is reported too.
BloomContains(i) == BloomPositions[i] \subseteq UNION {BloomPositions[j] : j \in bloom}

(* Redis Cache (monitoring/middleware.go): one operator per method the
   flows call.  A missing key reads as 0 or as no code. *)

GetUserItemCount(u) == userCount[u]
GetUserCheckoutCount(u) == ckCount[u]
GetSaleItemCount == saleCount
GetUserCheckoutCode(u) == userCode[u]
HasUserCheckedOutItem(u, i) == i \in checked[u]

\* maxItems minus the purchased and the checked-out counts, read one after
\* the other.
GetAvailableCheckoutSlots(u) ==
    MaxUserItems - GetUserItemCount(u) - GetUserCheckoutCount(u)

\* The writes, as relations between the old and the new key values.
SetUserCheckoutCode(u, c) == userCode' = [userCode EXCEPT ![u] = c]
SetCheckoutCode(c) == codeKey' = [codeKey EXCEPT ![c] = TRUE]
RemoveCheckoutCode(c) == codeKey' = [codeKey EXCEPT ![c] = FALSE]
IncrementUserCheckoutCount(u) == ckCount' = [ckCount EXCEPT ![u] = @ + 1]
AddUserCheckedOutItem(u, i) == checked' = [checked EXCEPT ![u] = @ \cup {i}]
\* ReleaseLock: DEL lock:{key}, with no check of who set it.
ReleaseLock(c) == lock' = [lock EXCEPT ![c] = NoProc]

\* One pipeline deleting the code key and the checkout-count key.
RemoveUserCheckoutCode(u) ==
    /\ userCode' = [userCode EXCEPT ![u] = NoCode]
    /\ ckCount' = [ckCount EXCEPT ![u] = 0]

\* The Lua script INCRBYs the sale and the user counter by k, atomically.
IncrementCounters(u, k) ==
    /\ saleCount' = saleCount + k
    /\ userCount' = [userCount EXCEPT ![u] = @ + k]

\* Checkout.AddItem refuses an item already among the checkout's items.
CheckoutHasItem(c, i) == i \in ToSet(CheckoutItemIDs(c))

Tx(p) == <<p, req[p].attempt>>
OpenTxs == {t \in TxIds : txs[t] # NoTx}
TxsOf(p) == {t \in OpenTxs : t[1] = p}

\* Transactions holding the row lock that a write by t would wait for.
ItemLockers(t, i) == {s \in OpenTxs \ {t} : i \in txs[s].marked}
SaleLockers(t)    == {s \in OpenTxs \ {t} : txs[s].saleRow}
ResultLockers(t, c) == {s \in OpenTxs \ {t} : txs[s].result /\ txs[s].code = c}

\* Mutant: MarkItemAsSold without "AND sold = FALSE" in its WHERE clause.
MarkOutcomeUnguarded(t, i) ==
    CASE txs[t].aborted         -> "error"
      [] i \in txs[t].marked    -> "sold"
      [] ItemLockers(t, i) # {} -> "wait"
      [] OTHER                  -> "sold"

\* Outcome of MarkItemAsSold(i) in t: UPDATE items SET sold = TRUE ...
\* WHERE id = i AND sold = FALSE under SERIALIZABLE isolation.
MarkOutcome(t, i) ==
    LET tx == txs[t] IN
    CASE tx.aborted             -> "error"   \* current transaction is aborted
      [] i \in tx.marked        -> "none"    \* own write visible: no row matches
      [] i \in tx.snapSold      -> "none"    \* sold before the snapshot
      [] ItemLockers(t, i) # {} -> "wait"    \* row locked by an open writer
      [] soldTo[i] # NoUser     -> "error"   \* concurrent update: serialization failure
      [] OTHER                  -> "sold"

\* The transactions the current statement of p waits for.
WaitingOn(p) ==
    LET t == Tx(p) IN
    CASE pc[p] = "p_mark" /\ MarkOutcome(t, Head(req[p].todo)) = "wait"
              -> ItemLockers(t, Head(req[p].todo))
      [] pc[p] = "p_update" /\ req[p].succ # {} /\ ~txs[t].aborted
              -> SaleLockers(t)
      [] pc[p] = "p_save" /\ ~txs[t].aborted
              -> ResultLockers(t, req[p].code)
      [] OTHER -> {}

\* PostgreSQL's deadlock detector aborts a statement whose wait closes a cycle.
WaitsFor == [x, y \in TxIds |-> \E p \in Procs : Tx(p) = x /\ pc[p] # "idle"
                                        /\ y \in WaitingOn(p)]
InDeadlock(p) == Tx(p) \in TxIds /\ TransitiveClosure(WaitsFor, TxIds)[Tx(p), Tx(p)]

Fault(k) == /\ k \in Faults /\ faults < MaxFaults
            /\ faults' = faults + 1

Goto(p, l) == pc' = [pc EXCEPT ![p] = l]

\* The handler's call returns error e (NoErr: success); the HTTP handler
\* writes the reply next.
Respond(p, e) == /\ pc' = [pc EXCEPT ![p] = "reply"]
                 /\ req' = [req EXCEPT ![p].err = e]

\* The request is over.
Return(p) == /\ pc' = [pc EXCEPT ![p] = "idle"]
             /\ req' = [req EXCEPT ![p] = NoReq]

-----------------------------------------------------------------------------
Init ==
    /\ soldTo = [i \in Items |-> NoUser]
    /\ saleSold = 0
    /\ results = [c \in Codes |-> NoResult]
    /\ coAttempts = [c \in Codes |-> 0]
    /\ coItems = [c \in Codes |-> <<>>]
    /\ txs = [t \in TxIds |-> NoTx]
    /\ saleCount = 0
    /\ userCount = [u \in Users |-> 0]
    /\ ckCount = [u \in Users |-> 0]
    /\ userCode = [u \in Users |-> NoCode]
    /\ codeKey = [c \in Codes |-> FALSE]
    /\ checked = [u \in Users |-> {}]
    /\ bloom = {}
    /\ lock = [c \in Codes |-> NoProc]
    /\ pc = [p \in Procs |-> "idle"]
    /\ req = [p \in Procs |-> NoReq]
    /\ issued = {}
    /\ owner = [c \in Codes |-> NoUser]
    /\ soldVia = [i \in Items |-> NoCode]
    /\ nreq = 0
    /\ faults = 0

\* A client sends POST /checkout?user_id=u&item_id=i.
StartCheckout(p, u, i) ==
    /\ pc[p] = "idle" /\ nreq < MaxRequests
    /\ nreq' = nreq + 1
    /\ Goto(p, "ck_validate")
    /\ req' = [req EXCEPT ![p] = [NoReq EXCEPT !.kind = "checkout",
                                  !.user = u, !.item = i]]
    /\ UNCHANGED <<db, redis, issued, owner, soldVia, faults>>

\* A client sends POST /purchase?code=c for a code the service handed out.
StartPurchase(p, c) ==
    /\ pc[p] = "idle" /\ nreq < MaxRequests /\ c \in issued
    /\ nreq' = nreq + 1
    /\ Goto(p, "p_load")
    /\ req' = [req EXCEPT ![p] = [NoReq EXCEPT !.kind = "purchase", !.code = c]]
    /\ UNCHANGED <<db, redis, issued, owner, soldVia, faults>>

-----------------------------------------------------------------------------
(* Checkout handler: CheckoutHandler.Handle *)

\* Active-sale check, bloom filter, slot count, checked-items set and the
\* item row, in the order the handler consults them; each failure returns.
\* A failed read of the bloom filter or of the slot count is only logged
\* and the handler goes on as if the check had passed; the model lets a
\* read fail only where that changes the outcome.
CkValidate(p) ==
    LET u == req[p].user
        i == req[p].item
        full == GetAvailableCheckoutSlots(u) <= 0
    IN
    /\ pc[p] = "ck_validate"
    /\ \E failed \in SUBSET ({"bloom_read", "slots_read"} \cap Faults) :
          /\ "bloom_read" \in failed => BloomContains(i)
          /\ "slots_read" \in failed => full
          /\ faults + Cardinality(failed) <= MaxFaults
          /\ faults' = faults + Cardinality(failed)
          /\ CASE BloomContains(i) /\ "bloom_read" \notin failed ->
                    Respond(p, Err("ItemAlreadySold")) /\ UNCHANGED bloom
               [] full /\ "slots_read" \notin failed ->
                    Respond(p, Err("UserLimitExceeded")) /\ UNCHANGED bloom
               [] HasUserCheckedOutItem(u, i) ->
                    Respond(p, Err("UserAlreadyCheckedOutItem")) /\ UNCHANGED bloom
               [] soldTo[i] # NoUser ->
                    bloom' = bloom \cup {i} /\ Respond(p, Err("ItemAlreadySold"))
               [] OTHER ->
                    Goto(p, "ck_code") /\ UNCHANGED <<bloom, req>>
    /\ UNCHANGED <<db, saleCount, userCount, ckCount, userCode, codeKey,
                   checked, lock, issued, owner, soldVia, nreq>>

\* GetUserCheckoutCode: reuse the user's code if the key is set.
CkCode(p) ==
    LET u == req[p].user IN
    /\ pc[p] = "ck_code"
    /\ IF GetUserCheckoutCode(u) # NoCode
       THEN /\ req' = [req EXCEPT ![p].code = GetUserCheckoutCode(u)]
            /\ Goto(p, "ck_load")
       ELSE /\ Goto(p, "ck_newcode") /\ UNCHANGED req
    /\ UNCHANGED <<db, redis, ghost>>

\* Mutant: a code made from the sale id alone, without the random part.
GenerateCheckoutCodeNoRandom == CHOOSE x \in Codes : TRUE

\* CodeGenerator.GenerateCheckoutCode: CHK-{sale}-{8 random bytes}, a code
\* never handed out before.
GenerateCheckoutCode == CHOOSE x \in Codes \ issued : TRUE

\* GenerateCheckoutCode, SetUserCheckoutCode, SetCheckoutCode.
CkNewCode(p) ==
    LET u == req[p].user IN
    /\ pc[p] = "ck_newcode"
    /\ LET c == GenerateCheckoutCode IN
          /\ issued' = issued \cup {c}
          /\ owner' = [owner EXCEPT ![c] = u]
          /\ SetUserCheckoutCode(u, c)
          /\ SetCheckoutCode(c)
          /\ req' = [req EXCEPT ![p].code = c]
    /\ Goto(p, "ck_load")
    /\ UNCHANGED <<db, saleCount, userCount, ckCount, checked, bloom, lock,
                   soldVia, nreq, faults>>

\* GetCheckoutByCode, then NewCheckout or Checkout.AddItem in memory.
CkLoad(p) ==
    LET c == req[p].code IN
    /\ pc[p] = "ck_load"
    /\ \/ /\ coAttempts[c] = 0
          /\ req' = [req EXCEPT ![p].create = TRUE]
          /\ Goto(p, "ck_write")
       \/ /\ coAttempts[c] > 0
          /\ CheckoutHasItem(c, req[p].item)
          /\ Respond(p, Err("UserAlreadyCheckedOutItem"))
       \/ /\ coAttempts[c] > 0
          /\ ~CheckoutHasItem(c, req[p].item)
          /\ Goto(p, "ck_write") /\ UNCHANGED req
    /\ UNCHANGED <<db, redis, ghost>>

\* CreateCheckout inserts a new checkout_attempts row with its item;
\* AddItemToCheckout takes the id of some row with the code (the query has
\* no ORDER BY), checks that row's items and inserts into it.
CkWrite(p) ==
    LET c == req[p].code
        i == req[p].item
    IN
    /\ pc[p] = "ck_write"
    /\ \/ /\ req[p].create
          /\ coAttempts' = [coAttempts EXCEPT ![c] = @ + 1]
          /\ coItems' = [coItems EXCEPT ![c] = Append(@, [row |-> coAttempts[c] + 1,
                                                           item |-> i])]
          /\ Goto(p, "ck_count") /\ UNCHANGED req
       \/ /\ ~req[p].create /\ coAttempts[c] = 0
          /\ Respond(p, Err("CheckoutNotFound")) /\ UNCHANGED <<coAttempts, coItems>>
       \/ /\ ~req[p].create
          /\ \E k \in 1..coAttempts[c] :
                IF [row |-> k, item |-> i] \in ToSet(coItems[c])
                THEN /\ Respond(p, Err("ItemAlreadyInCheckout"))
                     /\ UNCHANGED coItems
                ELSE /\ coItems' = [coItems EXCEPT ![c] = Append(@, [row |-> k,
                                                                     item |-> i])]
                     /\ Goto(p, "ck_count") /\ UNCHANGED req
          /\ UNCHANGED coAttempts
    /\ UNCHANGED <<soldTo, saleSold, results, txs, redis, ghost>>

\* IncrementUserCheckoutCount, AddUserCheckedOutItem; respond with the code.
CkCount(p) ==
    LET u == req[p].user IN
    /\ pc[p] = "ck_count"
    /\ IncrementUserCheckoutCount(u)
    /\ AddUserCheckedOutItem(u, req[p].item)
    /\ Respond(p, NoErr)
    /\ UNCHANGED <<db, saleCount, userCount, userCode, codeKey, bloom, lock, ghost>>

-----------------------------------------------------------------------------
(* Purchase use case: PurchaseUseCase.ExecutePurchase and attemptPurchase *)

\* Mutant: the retry loop runs while attempt <= retryAttempts.
FailOffByOne(p, r, e) ==
    IF IsBusinessLogicError(e) \/ r.attempt = RetryAttempts + 1
    THEN Goto(p, "p_release") /\ req' = [req EXCEPT ![p] = [r EXCEPT !.err = e]]
    ELSE /\ req' = [req EXCEPT ![p] = [r EXCEPT !.attempt = @ + 1]]
         /\ Goto(p, "p_pre")

\* attemptPurchase returns error e, with the request's locals now r: a
\* business-logic error, or the last attempt, leaves the retry loop with
\* e; any other error starts the next attempt.  The transaction of the
\* failed attempt is not rolled back: the deferred rollback tests an err
\* that later statements shadow.
Fail(p, r, e) ==
    IF IsBusinessLogicError(e) \/ r.attempt = RetryAttempts
    THEN Goto(p, "p_release") /\ req' = [req EXCEPT ![p] = [r EXCEPT !.err = e]]
    ELSE /\ req' = [req EXCEPT ![p] = [r EXCEPT !.attempt = @ + 1]]
         /\ Goto(p, "p_pre")

\* CheckoutCodeExists, GetCheckoutByCode, and SetCheckoutCode when the key
\* was missing.
PLoad(p) ==
    LET c == req[p].code IN
    /\ pc[p] = "p_load"
    /\ \/ /\ coAttempts[c] = 0
          /\ Respond(p, Err("CheckoutNotFound")) /\ UNCHANGED codeKey
       \/ /\ coAttempts[c] > 0
          /\ SetCheckoutCode(c)
          /\ req' = [req EXCEPT ![p].user = owner[c],
                                ![p].items = CheckoutItemIDs(c)]
          /\ Goto(p, "p_lock")
    /\ UNCHANGED <<db, saleCount, userCount, ckCount, userCode, checked, bloom,
                   lock, ghost>>

\* DistributedLock: SET lock:purchase:{code} NX with a 3 s TTL.
PLock(p) ==
    LET c == req[p].code IN
    /\ pc[p] = "p_lock"
    /\ \/ /\ lock[c] # NoProc                \* "another purchase is in progress"
          /\ Respond(p, OtherErr) /\ UNCHANGED lock
       \/ /\ lock[c] = NoProc
          /\ lock' = [lock EXCEPT ![c] = p]
          /\ req' = [req EXCEPT ![p].attempt = 1]
          /\ Goto(p, "p_pre")
    /\ UNCHANGED <<db, saleCount, userCount, ckCount, userCode, codeKey,
                   checked, bloom, ghost>>

\* LogCheckoutAttempt for every item id (each a new checkout_attempts row
\* with the same code), then the advisory limit checks against Redis.
PPre(p) ==
    LET n == Len(req[p].items) IN
    /\ pc[p] = "p_pre"
    /\ LogCheckoutAttempt(req[p].code, req[p].items)
    /\ CASE GetSaleItemCount + n > MaxSaleItems ->
              Fail(p, req[p], Err("SaleLimitExceeded"))
         [] GetUserItemCount(req[p].user) + n > MaxUserItems ->
              Fail(p, req[p], Err("UserLimitExceeded"))
         [] OTHER -> Goto(p, "p_tx") /\ UNCHANGED req
    /\ UNCHANGED <<soldTo, saleSold, results, txs, redis, ghost>>

\* PurchaseService.ValidatePurchase for n items of the active sale, whose
\* items_sold is itemsSold, with CurrentItemCount = 0 as attemptPurchase
\* passes it.  The sale is active and the items belong to it throughout.
ValidatePurchase(itemsSold, n) ==
    CASE n = 0                          -> "NoItemsToPurchase"
      [] itemsSold + n > MaxSaleItems   -> "SaleLimitExceeded"
      [] 0 + n > MaxUserItems           -> "UserLimitExceeded"
      [] OTHER                          -> "ok"

\* BeginTx (SERIALIZABLE), GetPurchaseResult, GetSaleByID, GetItemByID for
\* each id, ValidatePurchase with CurrentItemCount = 0.  Validation errors
\* are wrapped with %w, so isBusinessLogicError does not recognise them.
PTx(p) ==
    LET c == req[p].code
        n == Len(req[p].items)
    IN
    /\ pc[p] = "p_tx"
    /\ CASE GetPurchaseResult(c) # NoResult ->
              Fail(p, req[p], Err("CheckoutAlreadyProcessed")) /\ UNCHANGED txs
         [] ValidatePurchase(GetSaleByID, n) # "ok" ->
              Fail(p, req[p], Wrap(ValidatePurchase(GetSaleByID, n))) /\ UNCHANGED txs
         [] OTHER ->
              /\ txs' = [txs EXCEPT ![Tx(p)] =
                           [code |-> c, snapSold |-> SoldItems, snapSale |-> GetSaleByID,
                            marked |-> {}, saleRow |-> FALSE, saleValue |-> 0,
                            result |-> FALSE, aborted |-> FALSE]]
              /\ req' = [req EXCEPT ![p].todo = req[p].items, ![p].succ = {}]
              /\ Goto(p, "p_bloom")
    /\ UNCHANGED <<soldTo, saleSold, results, coAttempts, coItems, redis, ghost>>

\* The loop over items, first half: ItemExistsInBloomFilter; an item the
\* filter reports is skipped.  A failed read is only logged and reports
\* nothing.
PBloom(p) ==
    LET i == Head(req[p].todo)
        rest == IF Len(req[p].todo) = 1 THEN "p_incr" ELSE "p_bloom"
    IN
    /\ pc[p] = "p_bloom"
    /\ \/ /\ BloomContains(i)
          /\ req' = [req EXCEPT ![p].todo = Tail(@)]
          /\ Goto(p, rest) /\ UNCHANGED faults
       \/ /\ ~BloomContains(i)
          /\ Goto(p, "p_mark") /\ UNCHANGED <<req, faults>>
       \/ /\ BloomContains(i) /\ Fault("bloom_read")
          /\ Goto(p, "p_mark") /\ UNCHANGED req
    /\ UNCHANGED <<db, redis, issued, owner, soldVia, nreq>>

\* Second half: MarkItemAsSold; every item that reached the UPDATE and did
\* not fail is added to the bloom filter.  A statement error is logged and
\* the loop continues; it leaves the transaction aborted.  The statement
\* blocks while another open transaction holds the row.
PMark(p) ==
    LET t == Tx(p)
        i == Head(req[p].todo)
        rest == IF Len(req[p].todo) = 1 THEN "p_incr" ELSE "p_bloom"
        outcome == MarkOutcome(t, i)
    IN
    /\ pc[p] = "p_mark"
    /\ outcome \in {"error", "none", "sold"} \/ InDeadlock(p)
    /\ CASE outcome = "sold" ->
              /\ txs' = [txs EXCEPT ![t].marked = @ \cup {i}]
              /\ bloom' = bloom \cup {i}
              /\ req' = [req EXCEPT ![p].todo = Tail(@), ![p].succ = @ \cup {i}]
         [] outcome = "none" ->
              /\ bloom' = bloom \cup {i}
              /\ req' = [req EXCEPT ![p].todo = Tail(@)]
              /\ UNCHANGED txs
         [] OTHER ->                                  \* error, or deadlock victim
              /\ txs' = [txs EXCEPT ![t].aborted = TRUE]
              /\ req' = [req EXCEPT ![p].todo = Tail(@)]
              /\ UNCHANGED bloom
    /\ Goto(p, rest)
    /\ UNCHANGED <<soldTo, saleSold, results, coAttempts, coItems, saleCount,
                   userCount, ckCount, userCode, codeKey, checked, lock, ghost>>

\* CalculatePurchaseResult, then IncrementCounters on Redis (outside the
\* transaction, before it commits); its failure is only logged.
PIncr(p) ==
    LET k == Cardinality(req[p].succ)
        u == req[p].user
    IN
    /\ pc[p] = "p_incr"
    /\ \/ /\ k > 0
          /\ IncrementCounters(u, k)
          /\ UNCHANGED faults
       \/ /\ k > 0 /\ Fault("counter_write")
          /\ UNCHANGED <<saleCount, userCount>>
       \/ /\ k = 0
          /\ UNCHANGED <<saleCount, userCount, faults>>
    /\ Goto(p, "p_update")
    /\ UNCHANGED <<db, ckCount, userCode, codeKey, checked, bloom, lock, req,
                   issued, owner, soldVia, nreq>>

\* Mutant: UpdateSale under READ COMMITTED, a blind write that never fails.
UpdateSaleBlind(t) == SaleLockers(t) = {}

\* UPDATE sales SET items_sold = $5 WHERE id = $1 in a serializable
\* transaction: it fails when a transaction that committed after the
\* snapshot changed the row (first updater wins).
UpdateSaleSucceeds(t) == SaleLockers(t) = {} /\ saleSold = txs[t].snapSale

\* UpdateSale with items_sold = snapshot value + |successful|, when any item
\* was sold.  An update of a row changed since the snapshot fails.
PUpdate(p) ==
    LET t == Tx(p)
        tx == txs[t]
    IN
    /\ pc[p] = "p_update"
    /\ \/ /\ req[p].succ = {}
          /\ Goto(p, "p_save") /\ UNCHANGED <<txs, req>>
       \/ /\ req[p].succ # {} /\ tx.aborted
          /\ Fail(p, req[p], OtherErr) /\ UNCHANGED txs
       \/ /\ req[p].succ # {} /\ ~tx.aborted
          /\ SaleLockers(t) = {} \/ InDeadlock(p)
          /\ IF UpdateSaleSucceeds(t)
             THEN /\ txs' = [txs EXCEPT ![t].saleRow = TRUE,
                                        ![t].saleValue = tx.snapSale
                                                         + Cardinality(req[p].succ)]
                  /\ Goto(p, "p_save") /\ UNCHANGED req
             ELSE /\ txs' = [txs EXCEPT ![t].aborted = TRUE]
                  /\ Fail(p, req[p], OtherErr)
    /\ UNCHANGED <<soldTo, saleSold, results, coAttempts, coItems, redis, ghost>>

\* SavePurchaseResult: INSERT ... ON CONFLICT (checkout_code) DO NOTHING.
\* A key committed by a transaction the snapshot does not see is a
\* serialization failure.
PSave(p) ==
    LET t == Tx(p)
        c == req[p].code
    IN
    /\ pc[p] = "p_save"
    /\ \/ /\ txs[t].aborted
          /\ Fail(p, req[p], OtherErr) /\ UNCHANGED txs
       \/ /\ ~txs[t].aborted
          /\ ResultLockers(t, c) = {} \/ InDeadlock(p)
          /\ IF ResultLockers(t, c) = {} /\ results[c] = NoResult
             THEN /\ txs' = [txs EXCEPT ![t].result = TRUE]
                  /\ Goto(p, "p_commit") /\ UNCHANGED req
             ELSE /\ txs' = [txs EXCEPT ![t].aborted = TRUE]
                  /\ Fail(p, req[p], OtherErr)
    /\ UNCHANGED <<soldTo, saleSold, results, coAttempts, coItems, redis, ghost>>

\* CommitTx.  With nothing sold the attempt returns ErrAllItemsSold, which
\* is not a business-logic error, after the commit.
PCommit(p) ==
    LET t == Tx(p)
        tx == txs[t]
        c == req[p].code
        u == req[p].user
    IN
    /\ pc[p] = "p_commit"
    /\ txs' = [txs EXCEPT ![t] = NoTx]
    /\ \/ /\ Fault("commit")                          \* rolled back
          /\ Fail(p, req[p], OtherErr)
          /\ UNCHANGED <<soldTo, saleSold, results, soldVia>>
       \/ /\ soldTo' = [i \in Items |-> IF i \in tx.marked THEN u ELSE soldTo[i]]
          /\ soldVia' = [i \in Items |-> IF i \in tx.marked THEN c ELSE soldVia[i]]
          /\ saleSold' = IF tx.saleRow THEN tx.saleValue ELSE saleSold
          /\ results' = [results EXCEPT ![c] = req[p].succ]
          /\ UNCHANGED faults
          /\ IF req[p].succ = {}
             THEN Fail(p, [req[p] EXCEPT !.committed = TRUE], Err("AllItemsSold"))
             ELSE Goto(p, "p_cleanup") /\ UNCHANGED req
    /\ UNCHANGED <<coAttempts, coItems, redis, issued, owner, nreq>>

\* cleanupCheckout: RemoveUserCheckoutCode (also drops the checkout count),
\* RemoveCheckoutCode, DeleteCheckout.
PCleanup(p) ==
    LET c == req[p].code
        u == req[p].user
    IN
    /\ pc[p] = "p_cleanup"
    /\ RemoveUserCheckoutCode(u)
    /\ RemoveCheckoutCode(c)
    /\ DeleteCheckout(c)
    /\ Goto(p, "p_release")
    /\ UNCHANGED <<soldTo, saleSold, results, txs, saleCount, userCount,
                   checked, bloom, lock, req, ghost>>

\* Mutant: the request returns without its transactions being rolled back.
PReleaseKeepTx(p) ==
    /\ pc[p] = "p_release"
    /\ ReleaseLock(req[p].code)
    /\ Goto(p, "reply")
    /\ UNCHANGED <<db, saleCount, userCount, ckCount, userCode, codeKey,
                   checked, bloom, req, ghost>>

\* The deferred ReleaseLock deletes the key whoever set it; when the
\* handler returns, the request context is cancelled and database/sql rolls
\* back the transactions the attempts left open.
PRelease(p) ==
    /\ pc[p] = "p_release"
    /\ ReleaseLock(req[p].code)
    /\ txs' = [t \in TxIds |-> IF t[1] = p THEN NoTx ELSE txs[t]]
    /\ Goto(p, "reply")
    /\ UNCHANGED <<soldTo, saleSold, results, coAttempts, coItems, saleCount,
                   userCount, ckCount, userCode, codeKey, checked, bloom, req, ghost>>

\* The status and body HandleCheckout or HandlePurchase writes for the
\* error the call returned: WriteDomainError, or WriteSuccess with the
\* checkout code or the PurchaseResponse.
Status(p) == IF req[p].err = NoErr THEN 200 ELSE MapDomainError(req[p].err)
PurchaseResponse(p) == CalculatePurchaseResult(req[p].items, req[p].succ)

\* The HTTP handler writes the reply and the request is over.
Reply(p) ==
    /\ pc[p] = "reply"
    /\ Return(p)
    /\ UNCHANGED <<db, redis, ghost>>

\* Requests whose current statement waits for a transaction of another
\* request (or of an earlier attempt of its own).  A transaction left open by
\* a failed attempt is released only when its request returns, so a cycle
\* of such waits is invisible to PostgreSQL's deadlock detector.
\* A request is stuck when its waits lead, through other waiting requests,
\* back to itself or to a transaction whose request has returned.
ProcWaits == [x, y \in Procs |-> \E t \in WaitingOn(x) : t[1] = y]
Stuck(p) ==
    LET R == TransitiveClosure(ProcWaits, Procs) IN
    \E q \in Procs : (p = q \/ R[p, q]) /\ (R[q, q] \/ (R[p, q] /\ pc[q] = "idle"))

\* http.TimeoutHandler cancels the context of a request that cannot proceed
\* (after 90 s): its transactions roll back, every later call fails, and
\* the ReleaseLock on the cancelled context fails too.
Timeout(p) ==
    /\ Stuck(p)
    /\ \A q \in Procs : pc[q] # "idle" => ~InDeadlock(q)
    /\ txs' = [t \in TxIds |-> IF t[1] = p THEN NoTx ELSE txs[t]]
    /\ Return(p)
    /\ UNCHANGED <<soldTo, saleSold, results, coAttempts, coItems, redis, ghost>>

\* The TTL of lock:purchase:{code} runs out: after a failed release, or
\* (a fault) while its holder is still working.
LockExpire(c) ==
    /\ lock[c] # NoProc
    /\ IF pc[lock[c]] = "idle" \/ req[lock[c]].code # c
       THEN UNCHANGED faults
       ELSE Fault("lock_ttl")
    /\ lock' = [lock EXCEPT ![c] = NoProc]
    /\ UNCHANGED <<db, saleCount, userCount, ckCount, userCode, codeKey,
                   checked, bloom, pc, req, issued, owner, soldVia, nreq>>

\* Every request has returned and no more may start.
Finished ==
    /\ nreq = MaxRequests
    /\ \A p \in Procs : pc[p] = "idle"
    /\ \A c \in Codes : lock[c] = NoProc
    /\ UNCHANGED vars

Next ==
    \/ \E p \in Procs :
          \/ \E u \in Users, i \in Items : StartCheckout(p, u, i)
          \/ \E c \in Codes : StartPurchase(p, c)
          \/ CkValidate(p) \/ CkCode(p) \/ CkNewCode(p) \/ CkLoad(p)
          \/ CkWrite(p) \/ CkCount(p)
          \/ PLoad(p) \/ PLock(p) \/ PPre(p) \/ PTx(p) \/ PBloom(p) \/ PMark(p) \/ PIncr(p)
          \/ PUpdate(p) \/ PSave(p) \/ PCommit(p) \/ PCleanup(p) \/ PRelease(p)
          \/ Reply(p) \/ Timeout(p)
    \/ \E c \in Codes : LockExpire(c)
    \/ Finished

Spec == Init /\ [][Next]_vars

\* The steps a running request takes by itself.
Handler(p) ==
    \/ CkValidate(p) \/ CkCode(p) \/ CkNewCode(p) \/ CkLoad(p) \/ CkWrite(p) \/ CkCount(p)
    \/ PLoad(p) \/ PLock(p) \/ PPre(p) \/ PTx(p) \/ PBloom(p) \/ PMark(p) \/ PIncr(p)
    \/ PUpdate(p) \/ PSave(p) \/ PCommit(p) \/ PCleanup(p) \/ PRelease(p)
    \/ Reply(p)

\* A request that can take its next step does so: its goroutine runs, and
\* a statement not blocked on a row lock returns (PostgreSQL's deadlock
\* detector ends a blocked cycle it sees).  The 90 s handler timeout and
\* the 3 s lock TTL fire once they are due.  Clients are not obliged to
\* send requests.
Fairness ==
    /\ \A p \in Procs : WF_vars(Handler(p)) /\ WF_vars(Timeout(p))
    /\ \A c \in Codes : WF_vars(LockExpire(c))

FairSpec == Spec /\ Fairness

\* The refinement mapping: the committed item rows, the purchase_results
\* rows and the user each code was generated for.
Alloc == INSTANCE AllocationSpec WITH sold <- soldTo, result <- results, holder <- owner

-----------------------------------------------------------------------------
(* Properties *)

\* No request is running: the state a client sees between requests.
Quiescent == \A p \in Procs : pc[p] = "idle"

TypeOK ==
    /\ soldTo \in [Items -> Users \cup {NoUser}]
    /\ saleSold \in Nat
    /\ results \in [Codes -> SUBSET Items \cup {NoResult}]
    /\ coAttempts \in [Codes -> Nat]
    /\ coItems \in [Codes -> Seq([row: Nat \ {0}, item: Items])]
    /\ txs \in [TxIds -> TxRec \cup {NoTx}]
    /\ saleCount \in Nat
    /\ userCount \in [Users -> Nat]
    /\ ckCount \in [Users -> Nat]
    /\ userCode \in [Users -> Codes \cup {NoCode}]
    /\ codeKey \in [Codes -> BOOLEAN]
    /\ checked \in [Users -> SUBSET Items]
    /\ bloom \in SUBSET Items
    /\ lock \in [Codes -> Procs \cup {NoProc}]
    /\ pc \in [Procs -> PCs]
    /\ req \in [Procs -> ReqRec]
    /\ issued \in SUBSET Codes
    /\ owner \in [Codes -> Users \cup {NoUser}]
    /\ soldVia \in [Items -> Codes \cup {NoCode}]
    /\ nreq \in 0..MaxRequests
    /\ faults \in 0..MaxFaults

\* No double sell and idempotent purchase (spec 8.1, 8.4): the frozen
\* purchase_results row of a code lists exactly the items that the
\* committed purchase of that code sold, every sold item was sold by the
\* committed purchase of one code, and to that code's user.  Breaking it
\* takes two purchases racing for an item, or a second purchase of a code.
ResultsMatchItems ==
    /\ \A c \in Codes : results[c] # NoResult =>
          results[c] = {i \in Items : soldVia[i] = c}
    /\ \A i \in Items : soldTo[i] # NoUser <=>
          (soldVia[i] # NoCode /\ results[soldVia[i]] # NoResult)
    /\ \A i \in Items : soldVia[i] # NoCode => soldTo[i] = owner[soldVia[i]]

\* Sale cap (spec 8.2): sales.items_sold equals the number of items sold,
\* however the read-modify-write UpdateSale of concurrent purchases
\* interleave.
SaleCountMatches == saleSold = Cardinality(SoldItems)

\* The Redis counters that gate admission are not ahead of the durable
\* store once no request is running (spec 5: the delta is applied once per
\* attempt that commits).  IncrementCounters runs before UpdateSale, the
\* result insert and the commit, any of which may still fail and retry.
CountersNotAhead ==
    Quiescent =>
    /\ saleCount <= Cardinality(SoldItems)
    /\ \A u \in Users : userCount[u] <= Cardinality({i \in Items : soldTo[i] = u})

\* User cap (spec 8.3): no user owns more than MaxUserItems items.
UserCap == \A u \in Users : Cardinality({i \in Items : soldTo[i] = u}) <= MaxUserItems

\* A request never waits on a row lock that only its own return can free:
\* the transaction of a failed attempt stays open (attemptPurchase's
\* deferred rollback tests a shadowed err) until ExecutePurchase returns,
\* and a wait on it, directly or through other requests, is not a cycle
\* PostgreSQL's deadlock detector sees, so it lasts until the 90 s timeout.
NoHiddenWait == \A p \in Procs : ~Stuck(p)

\* An item a user has checked out stays obtainable by that user once no
\* request is running: it is sold, or known sold to the filter, or in a
\* checkout of the user's that a purchase would load and could still buy:
\* not yet processed, and within what ValidatePurchase accepts.
\* CheckoutHandler records the item in the checked-items set, which then
\* refuses it to the user for the rest of the sale.  Three steps of the code
\* can strand it: cleanupCheckout deletes every row of the code, including
\* an item a concurrent checkout added after the purchase had loaded the
\* checkout; a code whose purchase ended in ErrAllItemsSold stays the
\* user's, and later checkouts add to it; and LogCheckoutAttempt repeats
\* every item of the checkout in new rows with the same code, which the next
\* purchase loads.
CheckedItemsObtainable ==
    Quiescent =>
    \A u \in Users : \A i \in checked[u] :
        \/ soldTo[i] # NoUser
        \/ BloomContains(i)
        \/ \E c \in Codes : /\ owner[c] = u /\ results[c] = NoResult
                           /\ i \in ToSet(CheckoutItemIDs(c))
                           /\ Len(CheckoutItemIDs(c)) <= MaxUserItems

\* The engine implements the abstract allocation (AllocationSpec): every
\* step either leaves the items, results and code owners alone or is one
\* abstract step, so an item is sold once, to the user of the one code
\* whose purchase committed, and no commit takes the sale past
\* maxItemsPerSale.  The sale cap is guarded twice, by the Redis counter in
\* attemptPurchase and by ValidatePurchase on the row read in the
\* transaction; a lost counter increment leaves only the second.
AllocationRefined == Alloc!Spec

\* Every transaction attemptPurchase opens is eventually closed, and with
\* it the pooled connection it holds.  A failed attempt's transaction is
\* not closed by its deferred rollback (the err it tests is shadowed); it
\* stays open, holding its row locks, until ExecutePurchase returns and the
\* request context's cancellation makes database/sql roll it back.
TxsEventuallyClosed == \A t \in TxIds : txs[t] # NoTx ~> txs[t] = NoTx

\* Spec 4.2/4.3 step 2: a filter positive may be false and is confirmed
\* against items.sold before checkout fails with ItemAlreadySold.  A
\* checkout answered 409 ItemAlreadySold is about a sold item.
\* CheckoutHandler returns ErrItemAlreadySold on the filter's answer
\* alone, so an unsold item is refused when its bits collide with a sold
\* item's, or when attemptPurchase added it before a commit that has not
\* happened, or never will.
CheckoutRefusesOnlySold ==
    \A p \in Procs :
        pc[p] = "reply" /\ req[p].kind = "checkout" /\ req[p].err = Err("ItemAlreadySold")
            => soldTo[req[p].item] # NoUser

\* What a purchase reply tells the client is what happened (spec 4.2, 7):
\* a 200 reports as purchased exactly the items of the code's frozen
\* purchase_results row, all sold to the code's user, and counts them in
\* total_purchased.  A retry reuses the request's locals, the lock TTL lets
\* two purchases of a code overlap, and the reply is built from the last
\* attempt only.
PurchaseReplyTruthful ==
    \A p \in Procs :
        pc[p] = "reply" /\ req[p].kind = "purchase" /\ Status(p) = 200 =>
        LET c == req[p].code
            r == PurchaseResponse(p)
        IN
        /\ results[c] # NoResult
        /\ {r.items[k].id : k \in {k \in DOMAIN r.items : r.items[k].sold}} = results[c]
        /\ r.total = Cardinality(results[c])
        /\ \A i \in results[c] : soldTo[i] = owner[c]

\* Spec 4.2 step 16 and example E3: a purchase whose items were all sold
\* by others returns AllItemsSold; CheckoutAlreadyProcessed is the answer
\* to a second invocation (E4), never to the one that committed the
\* code's result.  attemptPurchase commits the empty result before it
\* returns ErrAllItemsSold, which isBusinessLogicError does not list, so
\* the retry finds the result row.
PurchaseReplyAsSpecified ==
    \A p \in Procs :
        pc[p] = "reply" /\ req[p].kind = "purchase"
        /\ req[p].err = Err("CheckoutAlreadyProcessed") => ~req[p].committed

=============================================================================
