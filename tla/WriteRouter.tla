----------------------------- MODULE WriteRouter -----------------------------
(***************************************************************************)
(* How rows reach the year databases (internal/storage, the writer leases  *)
(* of internal/controlplane and the backfill's stores).  The router of a   *)
(* scraper instance splits a batch by year, acquires the year's writer     *)
(* lease if it has a lease manager, finds or opens the year's store, and   *)
(* inserts; a backfill opens a store of its own for every year of its      *)
(* window, without a lease, inserts and closes it.  The store creates a    *)
(* missing table under a mutex of its own.  Writers are the goroutines     *)
(* that insert the rows of one stream; a year stands for the domain, the   *)
(* store key and the table of that stream in that year.                    *)
(***************************************************************************)
EXTENDS Naturals, FiniteSets

CONSTANTS Writers,    \* goroutines that insert
          Instances,  \* scraper processes
          InstanceOf, \* the process of each writer
          Setups,     \* which writers there are, which of them are backfills, and which
                      \* processes have a lease manager
          Years,
          Stores,     \* pool of store handles: at most this many are ever opened
          None,
          Budget      \* bound on disturbances: failed calls, lapsed leases, Close()

ASSUME WriteRouterAssumption ==
  /\ InstanceOf \in [Writers -> Instances]
  /\ Setups \subseteq [writers : SUBSET Writers, leased : SUBSET Instances,
                    backfills : SUBSET Writers]
  /\ None \notin Stores \cup Instances \cup Years \cup Writers
  /\ Budget \in Nat

VARIABLES
  setup,   \* what runs, and r.leaseManager of the instances: set once at start
  stores,  \* r.stores of each instance: the store registered for each year, or None
  handle,  \* each store handle: "unused", "open" or "closed"
  closed,  \* the instances whose main() has called Close()
  holder,  \* control plane: the instance that holds each year's lease, or None
  locks,   \* ts.tableLocks: who holds the mutex of a store's table, or None
  tables,  \* databases: the years whose table exists
  rows,    \* databases: <<w, y>>: year y's part of w's current batch is in the table
  writer,  \* the writers
  lapsed,  \* history: the writers whose lease ran out after they acquired it
  budget   \* disturbances left

vars == <<setup, stores, handle, closed, holder, locks, tables, rows, writer, lapsed, budget>>

InStore  == {"insert", "lock", "retry", "create", "finalInsert"}
Locked   == {"retry", "create", "finalInsert"}
Steps    == {"idle", "take", "lookup", "open", "register", "close"} \cup InStore

\* A writer: the years of its batch, those still to take, the one in hand, its store.
\* Between two calls, batch is what the last one acknowledged.
Idle == [at |-> "idle", todo |-> {}, batch |-> {}, year |-> None, store |-> None]

TypeOK ==
  /\ setup \in Setups
  /\ stores \in [Instances -> [Years -> Stores \cup {None}]]
  /\ handle \in [Stores -> {"unused", "open", "closed"}]
  /\ closed \subseteq Instances
  /\ holder \in [Years -> Instances \cup {None}]
  /\ locks \in [Stores -> Writers \cup {None}]
  /\ tables \subseteq Years
  /\ rows \subseteq Writers \X Years
  /\ writer \in [Writers -> [at : Steps, todo : SUBSET Years, batch : SUBSET Years,
                             year : Years \cup {None}, store : Stores \cup {None}]]
  /\ lapsed \subseteq Writers
  /\ budget \in 0..Budget

Init ==
  /\ setup \in Setups
  /\ stores = [i \in Instances |-> [y \in Years |-> None]]
  /\ handle = [s \in Stores |-> "unused"]
  /\ closed = {}
  /\ holder = [y \in Years |-> None]
  /\ locks = [s \in Stores |-> None]
  /\ tables = {} /\ rows = {}
  /\ writer = [w \in Writers |-> Idle]
  /\ lapsed = {}
  /\ budget = Budget

-----------------------------------------------------------------------------
\* Helpers

Disturb == budget > 0 /\ budget' = budget - 1

At(w, step) == writer[w].at = step

Step(w, step) == writer' = [writer EXCEPT ![w].at = step]

Registered(w) == stores[InstanceOf[w]][writer[w].year]

\* Its rows reach the year through the router of its process, or a store of its own.
Routed(w) == w \notin setup.backfills

\* The router of its process has a lease manager.
Leased(w) == Routed(w) /\ InstanceOf[w] \in setup.leased

\* An error ends the call: what other years' groups inserted stays.
GiveUp(w) == writer' = [writer EXCEPT ![w] = Idle]

\* The group is inserted: the next one, if there is one.
NextGroup(w) ==
  writer' = [writer EXCEPT
    ![w] = IF @.todo = {} THEN [Idle EXCEPT !.batch = writer[w].batch]
           ELSE [@ EXCEPT !.at = "take", !.year = None, !.store = None]]

\* The store's insert has returned nil, or an error: a backfill closes its store first.
Succeed(w) == IF Routed(w) THEN NextGroup(w) ELSE Step(w, "close")

Fail(w) ==
  IF Routed(w) THEN GiveUp(w)
  ELSE writer' = [writer EXCEPT ![w].at = "close", ![w].todo = {}, ![w].batch = {}]

\* The store can execute the statement: it is open, and the table is there.
CanInsert(w) == handle[writer[w].store] = "open" /\ writer[w].year \in tables

-----------------------------------------------------------------------------
\* The control plane's leases, and main()

\* A lease lapses: the instance did not renew it in time.
LeaseLapses(y) ==
  /\ holder[y] # None /\ Disturb
  /\ holder' = [holder EXCEPT ![y] = None]
  /\ lapsed' = lapsed \cup {w \in Writers : writer[w].year = y /\ Leased(w)
                                            /\ InstanceOf[w] = holder[y]}
  /\ UNCHANGED <<setup, stores, handle, closed, locks, tables, rows, writer>>

\* Close: every registered store is closed and forgotten.
Close(i) ==
  /\ i \notin closed /\ Disturb
  /\ closed' = closed \cup {i}
  /\ handle' = [s \in Stores |-> IF \E y \in Years : stores[i][y] = s THEN "closed" ELSE handle[s]]
  /\ stores' = [stores EXCEPT ![i] = [y \in Years |-> None]]
  /\ UNCHANGED <<setup, holder, locks, tables, rows, writer, lapsed>>

-----------------------------------------------------------------------------
\* The router

Begin(w, batch) ==
  /\ At(w, "idle") /\ w \in setup.writers
  /\ writer' = [writer EXCEPT ![w] = [Idle EXCEPT !.at = "take", !.todo = batch, !.batch = batch]]
  /\ rows' = {r \in rows : r[1] # w}
  /\ UNCHANGED <<setup, stores, handle, closed, holder, locks, tables, lapsed, budget>>

\* Mutant: the answer's status is not looked at.
GrantedAlways(w, y) == TRUE

\* The control plane grants or renews the lease unless another instance holds it.
Granted(w, y) == holder[y] \in {None, InstanceOf[w]}

AcquireLease(w) ==
  /\ At(w, "take") /\ Leased(w)
  /\ \E y \in writer[w].todo :
       /\ IF Granted(w, y)
          THEN /\ holder' = [holder EXCEPT ![y] = IF @ = None THEN InstanceOf[w] ELSE @]
               /\ writer' = [writer EXCEPT ![w].at = "lookup", ![w].year = y,
                                           ![w].todo = @ \ {y}]
          ELSE GiveUp(w) /\ UNCHANGED holder
       /\ lapsed' = lapsed \ {w}
  /\ UNCHANGED <<setup, stores, handle, closed, locks, tables, rows, budget>>

\* The call fails; the control plane may have granted the lease all the same.
AcquireLeaseFails(w) ==
  /\ At(w, "take") /\ Leased(w) /\ Disturb
  /\ \E y \in writer[w].todo :
       holder' \in {holder} \cup
                   IF Granted(w, y) THEN {[holder EXCEPT ![y] = InstanceOf[w]]} ELSE {}
  /\ GiveUp(w)
  /\ UNCHANGED <<setup, stores, handle, closed, locks, tables, rows, lapsed>>

\* acquireLease without a lease manager (the control plane is disabled): nobody is asked.
GoUnleased(w) ==
  /\ At(w, "take") /\ Routed(w) /\ ~Leased(w)
  /\ \E y \in writer[w].todo :
       writer' = [writer EXCEPT ![w].at = "lookup", ![w].year = y, ![w].todo = @ \ {y}]
  /\ UNCHANGED <<setup, stores, handle, closed, holder, locks, tables, rows, lapsed, budget>>

\* storeFor, under r.mu.
Lookup(w) ==
  /\ At(w, "lookup")
  /\ writer' = [writer EXCEPT ![w].store = Registered(w),
                              ![w].at = IF Registered(w) = None THEN "open" ELSE "insert"]
  /\ UNCHANGED <<setup, stores, handle, closed, holder, locks, tables, rows, lapsed, budget>>

\* The factory connects and migrates: s is the new store.
Opened(s) ==
  LET unused == {t \in Stores : handle[t] = "unused"}
  IN  /\ unused # {} /\ s = CHOOSE t \in unused : TRUE
      /\ handle' = [handle EXCEPT ![s] = "open"]

\* storeFor, without r.mu.
Open(w) ==
  /\ At(w, "open")
  /\ \E s \in Stores :
       Opened(s) /\ writer' = [writer EXCEPT ![w].store = s, ![w].at = "register"]
  /\ UNCHANGED <<setup, stores, closed, holder, locks, tables, rows, lapsed, budget>>

OpenFails(w) ==
  /\ At(w, "open") /\ Disturb
  /\ GiveUp(w)
  /\ UNCHANGED <<setup, stores, handle, closed, holder, locks, tables, rows, lapsed>>

\* Mutant: the second check is missing; the last one to open is registered.
RegisterUnchecked(w) ==
  /\ At(w, "register")
  /\ stores' = [stores EXCEPT ![InstanceOf[w]][writer[w].year] = writer[w].store]
  /\ Step(w, "insert")
  /\ UNCHANGED <<setup, handle, closed, holder, locks, tables, rows, lapsed, budget>>

\* storeFor, under r.mu again: whoever comes second closes its store.
Register(w) ==
  /\ At(w, "register")
  /\ IF Registered(w) = None
     THEN /\ stores' = [stores EXCEPT ![InstanceOf[w]][writer[w].year] = writer[w].store]
          /\ Step(w, "insert")
          /\ UNCHANGED handle
     ELSE /\ handle' = [handle EXCEPT ![writer[w].store] = "closed"]
          /\ writer' = [writer EXCEPT ![w].store = Registered(w), ![w].at = "insert"]
          /\ UNCHANGED stores
  /\ UNCHANGED <<setup, closed, holder, locks, tables, rows, lapsed, budget>>

-----------------------------------------------------------------------------
\* The backfill's stores

\* RunKlineRequest opens and migrates a store for a year's part of the window.
OpenOwn(w) ==
  /\ At(w, "take") /\ ~Routed(w)
  /\ \E y \in writer[w].todo, s \in Stores :
       /\ Opened(s)
       /\ writer' = [writer EXCEPT ![w].at = "insert", ![w].year = y, ![w].store = s,
                                   ![w].todo = @ \ {y}]
  /\ UNCHANGED <<setup, stores, closed, holder, locks, tables, rows, lapsed, budget>>

\* What InitSchema fails on is closed again.
OpenOwnFails(w) ==
  /\ At(w, "take") /\ ~Routed(w) /\ Disturb
  /\ GiveUp(w)
  /\ UNCHANGED <<setup, stores, handle, closed, holder, locks, tables, rows, lapsed>>

\* Nobody else knows the store: its place in the pool is free again.
CloseOwn(w) ==
  /\ At(w, "close")
  /\ handle' = [handle EXCEPT ![writer[w].store] = "unused"]
  /\ \/ NextGroup(w) /\ UNCHANGED budget
     \/ GiveUp(w) /\ Disturb
  /\ UNCHANGED <<setup, stores, closed, holder, locks, tables, rows, lapsed>>

-----------------------------------------------------------------------------
\* optimisticInsertWithLazyCreate

Stored(w) == rows' = rows \cup {<<w, writer[w].year>>}

Insert(w) ==
  /\ At(w, "insert") /\ CanInsert(w)
  /\ Stored(w) /\ Succeed(w)
  /\ UNCHANGED <<setup, stores, handle, closed, holder, locks, tables, lapsed, budget>>

\* Mutant: the first insert's error is taken for a duplicate row.
InsertFailsIgnored(w) ==
  /\ At(w, "insert")
  /\ IF CanInsert(w) THEN Disturb ELSE UNCHANGED budget
  /\ Succeed(w)
  /\ UNCHANGED <<setup, stores, handle, closed, holder, locks, tables, rows, lapsed>>

\* Whatever the error is, the insert is tried again under the mutex.
InsertFails(w) ==
  /\ At(w, "insert")
  /\ IF CanInsert(w) THEN Disturb ELSE UNCHANGED budget
  /\ Step(w, "lock")
  /\ UNCHANGED <<setup, stores, handle, closed, holder, locks, tables, rows, lapsed>>

Lock(w) ==
  /\ At(w, "lock") /\ locks[writer[w].store] = None
  /\ locks' = [locks EXCEPT ![writer[w].store] = w]
  /\ Step(w, "retry")
  /\ UNCHANGED <<setup, stores, handle, closed, holder, tables, rows, lapsed, budget>>

Unlock(w) == locks' = [s \in Stores |-> IF locks[s] = w THEN None ELSE locks[s]]

InsertLocked(w) ==
  /\ writer[w].at \in {"retry", "finalInsert"} /\ CanInsert(w)
  /\ Stored(w) /\ Succeed(w) /\ Unlock(w)
  /\ UNCHANGED <<setup, stores, handle, closed, holder, tables, lapsed, budget>>

RetryFails(w) ==
  /\ At(w, "retry")
  /\ IF CanInsert(w) THEN Disturb ELSE UNCHANGED budget
  /\ Step(w, "create")
  /\ UNCHANGED <<setup, stores, handle, closed, holder, locks, tables, rows, lapsed>>

\* CREATE TABLE IF NOT EXISTS
Create(w) ==
  /\ At(w, "create") /\ handle[writer[w].store] = "open"
  /\ tables' = tables \cup {writer[w].year}
  /\ Step(w, "finalInsert")
  /\ UNCHANGED <<setup, stores, handle, closed, holder, locks, rows, lapsed, budget>>

CreateFails(w) ==
  /\ At(w, "create")
  /\ IF handle[writer[w].store] = "open" THEN Disturb ELSE UNCHANGED budget
  /\ Fail(w) /\ Unlock(w)
  /\ UNCHANGED <<setup, stores, handle, closed, holder, tables, rows, lapsed>>

FinalInsertFails(w) ==
  /\ At(w, "finalInsert")
  /\ IF CanInsert(w) THEN Disturb ELSE UNCHANGED budget
  /\ Fail(w) /\ Unlock(w)
  /\ UNCHANGED <<setup, stores, handle, closed, holder, tables, rows, lapsed>>

-----------------------------------------------------------------------------
Route(w) ==
  \/ AcquireLease(w) \/ AcquireLeaseFails(w) \/ GoUnleased(w)
  \/ Lookup(w) \/ Open(w) \/ OpenFails(w) \/ Register(w)
  \/ OpenOwn(w) \/ OpenOwnFails(w) \/ CloseOwn(w)
  \/ Insert(w) \/ InsertFails(w)
  \/ Lock(w) \/ InsertLocked(w) \/ RetryFails(w)
  \/ Create(w) \/ CreateFails(w) \/ FinalInsertFails(w)

Next ==
  \/ \E y \in Years : LeaseLapses(y)
  \/ \E i \in Instances : Close(i)
  \/ \E w \in Writers : Route(w) \/ \E batch \in SUBSET Years \ {{}} : Begin(w, batch)

Spec == Init /\ [][Next]_vars

-----------------------------------------------------------------------------
\* Safety

Inserting(w) == writer[w].at \in InStore

\* An insert that returned without an error has stored the rows of every year of its
\* batch, whichever group came first and whoever created the tables.
AckedIsStored ==
  \A w \in Writers :
    At(w, "idle") => \A y \in writer[w].batch : <<w, y>> \in rows

\* As long as the router is not closed, the writers that go through it use one store for
\* a year: the registered one, and it is open.
OneStore ==
  \A w \in Writers :
    Inserting(w) /\ Routed(w) /\ InstanceOf[w] \notin closed =>
      writer[w].store = Registered(w) /\ handle[writer[w].store] = "open"

\* The store is the writer's alone: it will register or close it, or is a backfill.
Owns(w) == At(w, "register") \/ (~Routed(w) /\ (Inserting(w) \/ At(w, "close")))

\* An open store is registered, or one writer's own: no connection pool is forgotten.
OpenIsHeld ==
  \A s \in Stores :
    handle[s] = "open" =>
      \/ \E i \in Instances, y \in Years : stores[i][y] = s
      \/ \E w \in Writers : Owns(w) /\ writer[w].store = s

\* Goroutines that race to open a year's store end up with one, and the others are
\* closed; a backfill that fails anywhere closes its own.
StoresAreKept == OneStore /\ OpenIsHeld

\* It holds the lease of the year that it writes to.
Protected(w) == Leased(w) /\ w \notin lapsed

\* Writers of two processes insert into one year at a time only if one of them has no
\* lease: it lapsed since it was acquired, or it was never asked for, by a router
\* without a lease manager or by a backfill.  The README's claim that writer leases
\* protect the ownership of writes goes no further than this.
OverlapIsUnleased ==
  \A v, w \in Writers :
    /\ Inserting(v) /\ Inserting(w)
    /\ InstanceOf[v] # InstanceOf[w] /\ writer[v].year = writer[w].year
    => ~Protected(v) \/ ~Protected(w)

=============================================================================
