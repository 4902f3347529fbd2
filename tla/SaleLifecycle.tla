---------------------------- MODULE SaleLifecycle ----------------------------
(***************************************************************************)
(* How sales come to exist: the hourly SaleScheduler (unnamed/part_001),   *)
(* the POST /admin/sales handler (AdminHandler.HandleCreateSale), and the  *)
(* sales table they both write through SaleRepository.GetActiveSale,       *)
(* CreateSale and CreateItems.  Time is a discrete wall clock of Hour      *)
(* ticks per hour; the process may crash or be restarted at any moment,    *)
(* and the sales table survives it.  Each start of the process first runs  *)
(* RunMigrations (persistence/postgres/migrations.go) and only then starts *)
(* the scheduler and the HTTP server, as main does.                        *)
(***************************************************************************)
EXTENDS Naturals, Sequences, SequencesExt

CONSTANTS
    Hour,          \* clock ticks in time.Hour
    MaxTime,       \* bound: the last instant of the clock
    Admins,        \* concurrent POST /admin/sales handlers
    MaxAdmin,      \* bound: admin requests in one behaviour
    MaxRestarts,   \* bound: process restarts in one behaviour
    Faults,        \* the kinds of store error this model lets happen
    MaxFaults,     \* bound: store errors in one behaviour
    NFiles,        \* the number of *.up.sql files in the migrations directory
    NoTime,        \* an absent started_at / ended_at field; the ticker not yet made
    BadTime        \* a started_at / ended_at that is not RFC3339

FaultKinds ==
    {"get_active",     \* GetActiveSale returns an error other than ErrSaleNotFound
     "create_sale",    \* the INSERT INTO sales fails
     "create_items",   \* the items transaction fails and rolls back
     "migrate",        \* a statement of RunMigrations before COMMIT fails
     "migrate_commit"} \* COMMIT of a migration returns an error; it may have committed

ASSUME Hour \in Nat \ {0} /\ MaxTime \in Nat /\ Faults \subseteq FaultKinds

Times == 0..MaxTime

\* The *.up.sql files in sort.Strings order: 001_..., 002_..., named by
\* their numeric prefix.
Files == [i \in 1..NFiles |-> i]

VARIABLES
    now,        \* time.Now()
    sales,      \* rows of sales in insertion order: [start, end, items, by]
    ticker,     \* when time.NewTicker(time.Hour) was made, or NoTime
    tickDue,    \* a tick is buffered in the ticker's channel (capacity 1)
    sched,      \* the scheduler goroutine's position
    sk,         \* index in sales of the row the scheduler is creating
    serr,       \* the scheduler's GetActiveSale returned an error other than ErrSaleNotFound
    apc,        \* admin handler positions
    areq,       \* admin handler locals: the window and the row index
    nadmin, restarts, faults,
    schema,     \* the migrations whose tables and indexes exist
    migRows,    \* rows of the migrations table, in insertion order
    boot,       \* main: "list" / "apply" in RunMigrations, "up" serving, "down" exited
    mtodo       \* RunMigrations' files not in appliedMigrations, still to apply

vars == <<now, sales, ticker, tickDue, sched, sk, serr, apc, areq, nadmin, restarts, faults,
          schema, migRows, boot, mtodo>>
mig == <<schema, migRows, boot, mtodo>>

\* A row of sales: its window, whether its items exist, who inserted it, and
\* (history only, no column) whether the insert followed a GetActiveSale error.
SaleRec == [start: Nat, end: Nat, items: BOOLEAN, by: {"scheduler", "admin"}, blind: BOOLEAN]

-----------------------------------------------------------------------------
(* Store helpers *)

\* The WHERE clause of GetActiveSale: started_at <= NOW() AND ended_at > NOW().
Active(k, t) == sales[k].start <= t /\ t < sales[k].end

\* Mutant: GetActiveSale with started_at < NOW(), as Sale.IsActive tests.
GetActiveSaleStrict(t) == {k \in DOMAIN sales : sales[k].start < t /\ t < sales[k].end}

\* SaleRepository.GetActiveSale: the rows active at t (the query returns
\* the latest-starting one, or ErrSaleNotFound when there is none).
GetActiveSale(t) == {k \in DOMAIN sales : Active(k, t)}

\* time.Date(now.Year(), ..., now.Hour(), 0, 0, 0, UTC): the hour now is in.
HourStart(t) == t - (t % Hour)

\* SaleRepository.CreateSale: INSERT INTO sales, items_sold = 0.
CreateSale(start, end, by, blind) ==
    sales' = Append(sales, [start |-> start, end |-> end, items |-> FALSE, by |-> by,
                            blind |-> blind])

\* SaleRepository.CreateItems: all totalItems rows in one transaction.
CreateItems(k) == sales' = [sales EXCEPT ![k].items = TRUE]

Fault(k) == /\ k \in Faults /\ faults < MaxFaults
            /\ faults' = faults + 1

-----------------------------------------------------------------------------
Init ==
    /\ now \in 0..(Hour - 1)
    /\ sales = <<>>
    /\ ticker = NoTime
    /\ tickDue = FALSE
    /\ sched = "off"
    /\ sk = 0
    /\ serr = FALSE
    /\ apc = [a \in Admins |-> "idle"]
    /\ areq = [a \in Admins |-> [start |-> 0, end |-> 0, k |-> 0]]
    /\ nadmin = 0
    /\ restarts = 0
    /\ faults = 0
    /\ schema \in {{}, ToSet(Files)}
    /\ migRows = <<>>
    /\ boot = "list"
    /\ mtodo = <<>>

\* The wall clock advances; the ticker, once made, fires every Hour after
\* it was made, and a tick finding the channel full is dropped.
Tick ==
    /\ now < MaxTime
    /\ now' = now + 1
    /\ tickDue' = (tickDue \/ (ticker # NoTime /\ (now + 1 - ticker) % Hour = 0))
    /\ UNCHANGED <<sales, ticker, sched, sk, serr, apc, areq, nadmin, restarts, faults, mig>>

-----------------------------------------------------------------------------
(* SaleScheduler.Start and createSaleIfNeeded *)

\* createSaleIfNeeded returns; in Start's first call the ticker is made next.
SchedReturn == /\ sched' = "wait"
               /\ ticker' = IF ticker = NoTime THEN now ELSE ticker

\* GetActiveSale: an active sale ends the call.  Only err == nil with a sale
\* ends it: on a store error the scheduler goes on to create a sale.
SGet ==
    /\ sched = "get"
    /\ \/ GetActiveSale(now) # {} /\ SchedReturn /\ serr' = FALSE /\ UNCHANGED faults
       \/ GetActiveSale(now) = {} /\ sched' = "create" /\ serr' = FALSE
          /\ UNCHANGED <<ticker, faults>>
       \/ GetActiveSale(now) # {} /\ Fault("get_active")
          /\ sched' = "create" /\ serr' = TRUE /\ UNCHANGED ticker
    /\ UNCHANGED <<now, sales, tickDue, sk, apc, areq, nadmin, restarts, mig>>

\* Mutant: the scheduler keeps the index of the row before the new one.
SCreateLastRow ==
    /\ sched = "create"
    /\ \/ /\ CreateSale(HourStart(now), HourStart(now) + Hour, "scheduler", serr)
          /\ sk' = Len(sales)
          /\ sched' = "items" /\ UNCHANGED <<ticker, faults>>
       \/ Fault("create_sale") /\ SchedReturn /\ UNCHANGED <<sales, sk>>
    /\ UNCHANGED <<now, tickDue, apc, areq, nadmin, restarts, serr, mig>>

\* A sale for the current clock hour; a failed insert ends the call.
SCreate ==
    /\ sched = "create"
    /\ \/ /\ CreateSale(HourStart(now), HourStart(now) + Hour, "scheduler", serr)
          /\ sk' = Len(sales) + 1
          /\ sched' = "items" /\ UNCHANGED <<ticker, faults>>
       \/ Fault("create_sale") /\ SchedReturn /\ UNCHANGED <<sales, sk>>
    /\ UNCHANGED <<now, tickDue, apc, areq, nadmin, restarts, serr, mig>>

\* CreateItems for the new sale; its error is returned and only logged.
SItems ==
    /\ sched = "items"
    /\ \/ CreateItems(sk) /\ UNCHANGED faults
       \/ Fault("create_items") /\ UNCHANGED sales
    /\ SchedReturn
    /\ UNCHANGED <<now, tickDue, sk, serr, apc, areq, nadmin, restarts, mig>>

\* The select loop takes a buffered tick and calls createSaleIfNeeded.
STick ==
    /\ sched = "wait" /\ tickDue
    /\ tickDue' = FALSE
    /\ sched' = "get"
    /\ UNCHANGED <<now, sales, ticker, sk, serr, apc, areq, nadmin, restarts, faults, mig>>

-----------------------------------------------------------------------------
(* AdminHandler.HandleCreateSale *)

\* The request body's checks: total_items > 0, both times RFC3339, and
\* started_at not after ended_at.  Absent times default to the current
\* clock hour.
AdminWindow(st, en) ==
    LET start == IF st = NoTime THEN HourStart(now) ELSE st
        end   == IF en = NoTime THEN start + Hour ELSE en
    IN [start |-> start, end |-> end]

AdminValid(st, en, total) ==
    /\ total > 0
    /\ st # BadTime /\ en # BadTime
    /\ ~(AdminWindow(st, en).start > AdminWindow(st, en).end)

\* A request arrives at the listening server; a failed validation answers 400.
AStart(a, st, en, total) ==
    /\ boot = "up"
    /\ apc[a] = "idle" /\ nadmin < MaxAdmin
    /\ nadmin' = nadmin + 1
    /\ IF AdminValid(st, en, total)
       THEN /\ apc' = [apc EXCEPT ![a] = "get"]
            /\ areq' = [areq EXCEPT ![a] = [start |-> AdminWindow(st, en).start,
                                            end |-> AdminWindow(st, en).end, k |-> 0]]
       ELSE UNCHANGED <<apc, areq>>
    /\ UNCHANGED <<now, sales, ticker, tickDue, sched, sk, serr, restarts, faults, mig>>

\* GetActiveSale: a store error answers 500, an active sale 409.
AGet(a) ==
    /\ apc[a] = "get"
    /\ \/ GetActiveSale(now) = {} /\ apc' = [apc EXCEPT ![a] = "create"]
          /\ UNCHANGED faults
       \/ GetActiveSale(now) # {} /\ apc' = [apc EXCEPT ![a] = "idle"]
          /\ UNCHANGED faults
       \/ GetActiveSale(now) = {} /\ Fault("get_active")
          /\ apc' = [apc EXCEPT ![a] = "idle"]
    /\ UNCHANGED <<now, sales, ticker, tickDue, sched, sk, serr, areq, nadmin, restarts, mig>>

\* CreateSale with the request's window; its error answers 500.
ACreate(a) ==
    /\ apc[a] = "create"
    /\ \/ /\ CreateSale(areq[a].start, areq[a].end, "admin", FALSE)
          /\ areq' = [areq EXCEPT ![a].k = Len(sales) + 1]
          /\ apc' = [apc EXCEPT ![a] = "items"] /\ UNCHANGED faults
       \/ /\ Fault("create_sale")
          /\ apc' = [apc EXCEPT ![a] = "idle"] /\ UNCHANGED <<sales, areq>>
    /\ UNCHANGED <<now, ticker, tickDue, sched, sk, serr, nadmin, restarts, mig>>

\* CreateItems; its error answers 500 and leaves the sale without items.
AItems(a) ==
    /\ apc[a] = "items"
    /\ \/ CreateItems(areq[a].k) /\ UNCHANGED faults
       \/ Fault("create_items") /\ UNCHANGED sales
    /\ apc' = [apc EXCEPT ![a] = "idle"]
    /\ UNCHANGED <<now, ticker, tickDue, sched, sk, serr, areq, nadmin, restarts, mig>>

-----------------------------------------------------------------------------
(* RunMigrations and the start of main *)

\* Mutant: every file is applied again, appliedMigrations ignored.
MListAll ==
    /\ boot = "list"
    /\ mtodo' = Files
    /\ boot' = "apply"
    /\ UNCHANGED <<schema, migRows, faults>>

\* CREATE TABLE IF NOT EXISTS migrations, SELECT name FROM migrations, and
\* the sorted *.up.sql files: those not listed are to be applied.
MList ==
    /\ boot = "list"
    /\ mtodo' = SelectSeq(Files, LAMBDA f : f \notin ToSet(migRows))
    /\ boot' = "apply"
    /\ UNCHANGED <<schema, migRows, faults>>

\* One file in its own transaction: its SQL, then INSERT INTO migrations,
\* then COMMIT.  Every statement of the schema file is IF NOT EXISTS, so it
\* succeeds on tables that are already there.
MApply ==
    /\ boot = "apply" /\ mtodo # <<>>
    /\ schema' = schema \cup {Head(mtodo)}
    /\ migRows' = Append(migRows, Head(mtodo))
    /\ mtodo' = Tail(mtodo)
    /\ UNCHANGED <<boot, faults>>

\* COMMIT returns an error (the connection broke after it was sent, say):
\* the transaction may or may not have committed.  RunMigrations returns
\* the error and main exits through log.Fatal.
MCommitFails ==
    /\ boot = "apply" /\ mtodo # <<>>
    /\ Fault("migrate_commit")
    /\ \/ schema' = schema \cup {Head(mtodo)} /\ migRows' = Append(migRows, Head(mtodo))
       \/ UNCHANGED <<schema, migRows>>
    /\ boot' = "down" /\ mtodo' = <<>>

\* Ping, CREATE TABLE, SELECT, ReadDir, ReadFile, Begin, the file's SQL or
\* the INSERT fails: the open transaction rolls back and main exits.
MFail ==
    /\ \/ boot = "list"
       \/ boot = "apply" /\ mtodo # <<>>
    /\ Fault("migrate")
    /\ boot' = "down" /\ mtodo' = <<>>
    /\ UNCHANGED <<schema, migRows>>

\* Mutant: the loop stops one file early.
MDoneSkipLast ==
    /\ boot = "apply" /\ Len(mtodo) <= 1
    /\ boot' = "up" /\ sched' = "get"
    /\ UNCHANGED <<now, sales, ticker, tickDue, sk, serr, apc, areq, nadmin, restarts,
                   faults, schema, migRows, mtodo>>

\* RunMigrations returns nil; main opens Redis, starts the scheduler
\* goroutine and the HTTP server.
MDone ==
    /\ boot = "apply" /\ mtodo = <<>>
    /\ boot' = "up" /\ sched' = "get"
    /\ UNCHANGED <<now, sales, ticker, tickDue, sk, serr, apc, areq, nadmin, restarts,
                   faults, schema, migRows, mtodo>>

Migrate ==
    /\ MList \/ MApply \/ MCommitFails \/ MFail
    /\ UNCHANGED <<now, sales, ticker, tickDue, sched, sk, serr, apc, areq, nadmin, restarts>>

-----------------------------------------------------------------------------
(* The process *)

\* The process stops (a crash, log.Fatal, or a signal: Stop closes stopChan
\* and the HTTP server drains) and main runs again: in-flight requests and
\* an uncommitted migration are gone, and RunMigrations runs first.
Restart ==
    /\ restarts < MaxRestarts
    /\ restarts' = restarts + 1
    /\ boot' = "list" /\ mtodo' = <<>>
    /\ sched' = "off" /\ ticker' = NoTime /\ tickDue' = FALSE
    /\ apc' = [a \in Admins |-> "idle"]
    /\ serr' = FALSE
    /\ UNCHANGED <<now, sales, sk, areq, nadmin, faults, schema, migRows>>

\* The clock has reached its bound and nothing is left to do.
\* With the process down, only a restart would do anything.
TimeUp ==
    /\ now = MaxTime
    /\ \/ boot = "down"
       \/ sched = "wait" /\ ~tickDue /\ \A a \in Admins : apc[a] = "idle"
    /\ UNCHANGED vars

Next ==
    \/ Tick
    \/ SGet \/ SCreate \/ SItems \/ STick
    \/ \E a \in Admins :
          \/ \E st, en \in {NoTime, BadTime} \cup Times, total \in {0, 1} :
                AStart(a, st, en, total)
          \/ AGet(a) \/ ACreate(a) \/ AItems(a)
    \/ Migrate \/ MDone
    \/ Restart
    \/ TimeUp

Spec == Init /\ [][Next]_vars

-----------------------------------------------------------------------------
(* Properties *)

TypeOK ==
    /\ now \in Times
    /\ sales \in Seq(SaleRec)
    /\ ticker \in Times \cup {NoTime}
    /\ tickDue \in BOOLEAN
    /\ sched \in {"off", "get", "create", "items", "wait"}
    /\ sk \in 0..Len(sales)
    /\ serr \in BOOLEAN
    /\ sched = "items" => sk \in DOMAIN sales
    /\ apc \in [Admins -> {"idle", "get", "create", "items"}]
    /\ nadmin \in 0..MaxAdmin /\ restarts \in 0..MaxRestarts /\ faults \in 0..MaxFaults
    /\ schema \subseteq ToSet(Files) /\ migRows \in Seq(ToSet(Files))
    /\ boot \in {"list", "apply", "up", "down"} /\ mtodo \in Seq(ToSet(Files))

\* Two sales of the scheduler overlap only when one of them was inserted
\* after GetActiveSale returned an error: createSaleIfNeeded goes on to
\* CreateSale on any error (part_001:69), but when the query answers, a
\* sale the scheduler created earlier for this hour is active, so neither
\* restarts, nor the ticker's phase, nor an admin's sales make it insert a
\* second one for an hour it already covers.
SchedulerSalesDisjoint ==
    \A k1, k2 \in DOMAIN sales :
        /\ k1 # k2
        /\ sales[k1].by = "scheduler" /\ sales[k2].by = "scheduler"
        /\ ~sales[k1].blind /\ ~sales[k2].blind
        => sales[k1].end <= sales[k2].start \/ sales[k2].end <= sales[k1].start

\* Spec, sales: at most one sale is active at any wall-clock instant.
AtMostOneActive ==
    \A k1, k2 \in GetActiveSale(now) : k1 = k2

\* A row being created: inserted, its items not yet written.
InCreation(k) ==
    \/ sched = "items" /\ sk = k
    \/ \E a \in Admins : apc[a] = "items" /\ areq[a].k = k

\* Spec, lifecycle: items are created in bulk with the sale.  An active sale
\* whose creation is over has its items; CreateSale and CreateItems are two
\* transactions, and a scheduler that finds the sale active does not
\* create its items again.
ActiveSaleHasItems ==
    \A k \in GetActiveSale(now) : sales[k].items \/ InCreation(k)

\* The migrations table never lists a file twice and lists only files whose
\* tables exist, across any number of runs of RunMigrations, including one
\* whose COMMIT reported an error after committing, and a database whose
\* schema the container entrypoint applied without recording it.  The
\* table has no UNIQUE constraint on name: only the appliedMigrations
\* check keeps a file from being recorded again.
MigrationsRecordedOnce ==
    /\ IsInjective(migRows)
    /\ ToSet(migRows) \subseteq schema

\* Neither the scheduler nor an HTTP handler ever runs against a database
\* that lacks a migration, or whose migrations table does not record every
\* file: main starts them only after RunMigrations has returned nil, in
\* every run of the process.
MigratedBeforeServing ==
    (sched # "off" \/ \E a \in Admins : apc[a] # "idle")
        => schema = ToSet(Files) /\ ToSet(migRows) = ToSet(Files)

=============================================================================
