----------------------------- MODULE Migrations -----------------------------
(***************************************************************************)
(* Who brings one year database to its schema, and how they keep out of    *)
(* each other's way: routed stores (newRoutedStore, opened by the first    *)
(* row of a year), backfills (RunKlineRequest, which create the database   *)
(* when it is missing) and the ensure-scraper-db tool.  All serialize on   *)
(* one advisory lock.  A store or a backfill takes it for a transaction    *)
(* that runs every missing file; the tool takes it for its session and     *)
(* commits file by file.  A client may die, or its connection break,       *)
(* anywhere: the server undoes the open transaction and frees the lock,    *)
(* but maybe only later.  Files are numbered in the order of their names.  *)
(***************************************************************************)
EXTENDS Naturals

CONSTANTS Stores,      \* routed stores of scraper processes
          Backfills,   \* K-line backfills
          Tools,       \* runs of ensure-scraper-db
          Files,       \* the migration files there are: 1 .. Files
          FilesOf,     \* how many of them the release of a process has
          Nobody, Ghost,
          Budget       \* bound on disturbances: broken calls, crashes

Runtimes == Stores \cup Backfills
Procs    == Runtimes \cup Tools
File     == 1..Files

ASSUME MigrationsAssumption ==
  /\ Files \in Nat /\ Budget \in Nat
  /\ FilesOf \in [Procs -> 0..Files]
  /\ Runtimes \cap Tools = {}
  /\ Nobody # Ghost /\ Nobody \notin Procs /\ Ghost \notin Procs

VARIABLES
  dbExists,  \* the year database is in pg_database
  ledger,    \* schema_migrations: the files recorded
  schema,    \* how often the statements of each file were committed
  holder,    \* whose session holds the advisory lock; Ghost when its client is gone
  pc,        \* where each process is
  next,      \* the file it comes to next
  tx,        \* the files its open transaction has run and recorded
  budget     \* disturbances left

vars == <<dbExists, ledger, schema, holder, pc, next, tx, budget>>

Steps == {"start", "create", "open", "lock", "apply", "commit", "ready", "failed"}

TypeOK ==
  /\ dbExists \in BOOLEAN
  /\ ledger \in SUBSET File
  /\ schema \in [File -> Nat]
  /\ holder \in Procs \cup {Nobody, Ghost}
  /\ pc \in [Procs -> Steps]
  /\ next \in [Procs -> 1..(Files + 1)]
  /\ tx \in [Procs -> SUBSET File]
  /\ budget \in 0..Budget

Init ==
  /\ dbExists = FALSE
  /\ ledger = {}
  /\ schema = [f \in File |-> 0]
  /\ holder = Nobody
  /\ pc = [p \in Procs |-> "start"]
  /\ next = [p \in Procs |-> 1]
  /\ tx = [p \in Procs |-> {}]
  /\ budget = Budget

-----------------------------------------------------------------------------
\* Helpers

GoTo(p, where) == pc' = [pc EXCEPT ![p] = where]

Disturb == budget > 0 /\ budget' = budget - 1

\* The files p's transaction ran reach the schema and the ledger together.
Commits(p) ==
  /\ ledger' = ledger \cup tx[p]
  /\ schema' = [f \in File |-> IF f \in tx[p] THEN schema[f] + 1 ELSE schema[f]]

Undone(p) == tx' = [tx EXCEPT ![p] = {}]

-----------------------------------------------------------------------------
\* The database

\* Only the backfill and the tool look for the database and create it.
CheckDatabase(p) ==
  /\ pc[p] = "start"
  /\ GoTo(p, IF p \in Stores \/ dbExists THEN "open" ELSE "create")
  /\ UNCHANGED <<dbExists, ledger, schema, holder, next, tx, budget>>

\* Somebody may have created it since the check.  The backfill goes on when the error
\* says "already exists"; a collision of two CREATEs is reported in other words.
CreateDatabase(p) ==
  /\ pc[p] = "create"
  /\ dbExists' = TRUE
  /\ IF ~dbExists THEN GoTo(p, "open")
     ELSE (p \in Backfills /\ GoTo(p, "open")) \/ GoTo(p, "failed")
  /\ UNCHANGED <<ledger, schema, holder, next, tx, budget>>

\* NewTimescaleDB's ping, BeginTx; the tool's ping and Conn.
Open(p) ==
  /\ pc[p] = "open"
  /\ GoTo(p, IF dbExists THEN "lock" ELSE "failed")
  /\ UNCHANGED <<dbExists, ledger, schema, holder, next, tx, budget>>

-----------------------------------------------------------------------------
\* The migrations

\* Mutant: the lock was taken on another connection of the pool.
TakesNoLock(p) ==
  /\ pc[p] = "lock"
  /\ next' = [next EXCEPT ![p] = 1]
  /\ GoTo(p, "apply")
  /\ UNCHANGED <<dbExists, ledger, schema, holder, tx, budget>>

\* pg_advisory_xact_lock, or the tool's pg_advisory_lock: the same key.
TakesLock(p) ==
  /\ pc[p] = "lock" /\ holder = Nobody
  /\ holder' = p
  /\ next' = [next EXCEPT ![p] = 1]
  /\ GoTo(p, "apply")
  /\ UNCHANGED <<dbExists, ledger, schema, tx, budget>>

\* The context of a routed store's opener expires after ten seconds of waiting.
WaitsTooLong(p) ==
  /\ p \in Stores /\ pc[p] = "lock" /\ holder # Nobody
  /\ GoTo(p, "failed")
  /\ UNCHANGED <<dbExists, ledger, schema, holder, next, tx, budget>>

AlreadyApplied(p) == next[p] \in ledger \cup tx[p]

\* Mutant: a file that was applied ends the loop.
StopsAtApplied(p) ==
  /\ pc[p] = "apply" /\ next[p] <= FilesOf[p] /\ AlreadyApplied(p)
  /\ next' = [next EXCEPT ![p] = FilesOf[p] + 1]
  /\ UNCHANGED <<dbExists, ledger, schema, holder, pc, tx, budget>>

SkipsFile(p) ==
  /\ pc[p] = "apply" /\ next[p] <= FilesOf[p] /\ AlreadyApplied(p)
  /\ next' = [next EXCEPT ![p] = @ + 1]
  /\ UNCHANGED <<dbExists, ledger, schema, holder, pc, tx, budget>>

\* The file is run and recorded in the open transaction; the tool commits it now.
AppliesFile(p) ==
  /\ pc[p] = "apply" /\ next[p] <= FilesOf[p] /\ ~AlreadyApplied(p)
  /\ tx' = [tx EXCEPT ![p] = @ \cup {next[p]}]
  /\ next' = [next EXCEPT ![p] = @ + 1]
  /\ IF p \in Tools THEN GoTo(p, "commit") ELSE UNCHANGED pc
  /\ UNCHANGED <<dbExists, ledger, schema, holder, budget>>

ToolCommits(p) ==
  /\ p \in Tools /\ pc[p] = "commit"
  /\ Commits(p) /\ Undone(p)
  /\ GoTo(p, "apply")
  /\ UNCHANGED <<dbExists, holder, next, budget>>

\* Mutant: the lock belongs to the session, which goes back to the store's pool.
KeepsLock(p) ==
  /\ p \in Runtimes /\ pc[p] = "apply" /\ next[p] > FilesOf[p]
  /\ Commits(p) /\ Undone(p)
  /\ GoTo(p, "ready")
  /\ UNCHANGED <<dbExists, holder, next, budget>>

\* tx.Commit() also frees the lock.
RuntimeCommits(p) ==
  /\ p \in Runtimes /\ pc[p] = "apply" /\ next[p] > FilesOf[p]
  /\ Commits(p) /\ Undone(p)
  /\ holder' = Nobody
  /\ GoTo(p, "ready")
  /\ UNCHANGED <<dbExists, next, budget>>

\* The tool's deferred pg_advisory_unlock.
ToolUnlocks(p) ==
  /\ p \in Tools /\ pc[p] = "apply" /\ next[p] > FilesOf[p]
  /\ holder' = Nobody
  /\ GoTo(p, "ready")
  /\ UNCHANGED <<dbExists, ledger, schema, next, tx, budget>>

-----------------------------------------------------------------------------
\* Failures

\* A statement fails, the context ends, the connection breaks or the process dies.  An
\* orderly error rolls back and unlocks; else the server's session may stay for a while,
\* and one that was still waiting may yet get the lock.
Breaks(p) ==
  /\ pc[p] \in {"create", "open", "lock", "apply", "commit"}
  /\ Disturb
  /\ holder' \in IF holder = p \/ (pc[p] = "lock" /\ holder = Nobody)
                 THEN {Nobody, Ghost} ELSE {holder}
  /\ dbExists' \in IF pc[p] = "create" THEN {dbExists, TRUE} ELSE {dbExists}
  /\ Undone(p)
  /\ GoTo(p, "failed")
  /\ UNCHANGED <<ledger, schema, next>>

\* The commit took place, but its answer is lost.
CommitAnswerLost(p) ==
  /\ pc[p] = "commit" \/ (p \in Runtimes /\ pc[p] = "apply" /\ next[p] > FilesOf[p])
  /\ Disturb
  /\ Commits(p) /\ Undone(p)
  /\ holder' \in IF p \in Runtimes THEN {Nobody} ELSE {Nobody, Ghost}
  /\ GoTo(p, "failed")
  /\ UNCHANGED <<dbExists, next>>

\* The server notices that the client is gone.
GhostLeaves ==
  /\ holder = Ghost
  /\ holder' = Nobody
  /\ UNCHANGED <<dbExists, ledger, schema, pc, next, tx, budget>>

\* The store is opened again by the next row, the backfill by the request's next attempt.
Retry(p) ==
  /\ p \in Runtimes /\ pc[p] = "failed"
  /\ GoTo(p, "start")
  /\ UNCHANGED <<dbExists, ledger, schema, holder, next, tx, budget>>

\* A process that had its store restarts; a tool is run again.
Restart(p) ==
  /\ pc[p] = "ready" \/ (p \in Tools /\ pc[p] = "failed")
  /\ Disturb
  /\ GoTo(p, "start")
  /\ UNCHANGED <<dbExists, ledger, schema, holder, next, tx>>

-----------------------------------------------------------------------------
Step(p) ==
  \/ CheckDatabase(p) \/ CreateDatabase(p) \/ Open(p)
  \/ TakesLock(p) \/ SkipsFile(p) \/ AppliesFile(p)
  \/ ToolCommits(p) \/ RuntimeCommits(p) \/ ToolUnlocks(p)
  \/ Retry(p)

\* Every process has ended.
Quiet == /\ \A p \in Procs : pc[p] \in {"ready", "failed"}
         /\ UNCHANGED vars

Next ==
  \/ \E p \in Procs : Step(p) \/ WaitsTooLong(p) \/ Breaks(p) \/ CommitAnswerLost(p)
                      \/ Restart(p)
  \/ GhostLeaves
  \/ Quiet

Spec == Init /\ [][Next]_vars

-----------------------------------------------------------------------------
\* Safety

\* In every state another session can see, the schema is what the first files make of
\* it, each run once, and schema_migrations says so: whoever migrates at the same time,
\* and wherever one of them died.
SchemaIsAPrefix ==
  /\ \A f \in ledger : \A g \in 1..f : g \in ledger
  /\ \A f \in File : schema[f] = IF f \in ledger THEN 1 ELSE 0

\* A store that was opened, and a tool that reported OK, left every file of its release
\* applied, also those that it skipped as another's work.
ReadyIsMigrated ==
  \A p \in Procs : pc[p] = "ready" => dbExists /\ 1..FilesOf[p] \subseteq ledger

-----------------------------------------------------------------------------
\* Liveness

(***************************************************************************)
(* Every process is scheduled and its statements end, a row or a request   *)
(* comes again after a failure, and the server finds out about a client    *)
(* that is gone (TCP keepalive).  A wait for the lock may be granted.      *)
(***************************************************************************)
FairSpec == /\ Spec
            /\ \A p \in Procs : WF_vars(Step(p))
            /\ WF_vars(GhostLeaves)

\* The lock is never lost: every tool ends, every backfill opens the database, and so
\* does every routed store once it exists, however often it gave up waiting.
EveryoneEnds ==
  /\ \A p \in Tools : <>(pc[p] \in {"ready", "failed"})
  /\ \A p \in Backfills : <>(pc[p] = "ready")
  /\ \A p \in Stores : dbExists ~> pc[p] = "ready"

=============================================================================
