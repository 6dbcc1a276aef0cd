-------------------------- MODULE MigrationsProofs --------------------------
(***************************************************************************)
(* Theorems about Migrations, for any number of stores, backfills, tools,  *)
(* files, releases and disturbances: the schema is always what the first   *)
(* files make of it, each run once, and a store that was opened has all of *)
(* its release.                                                            *)
(***************************************************************************)
EXTENDS Migrations, TLAPS

-----------------------------------------------------------------------------
\* The inductive invariant

Active(q) == pc[q] \in {"apply", "commit"}

\* Who is at work holds the lock; what it has not committed is new, and with the ledger
\* it makes up the files it went through.
WorkInv(q) ==
  Active(q) => /\ holder = q
               /\ \A f \in tx[q] : f \notin ledger /\ f < next[q]
               /\ \A f \in File : f < next[q] => f \in ledger \cup tx[q]

\* Nothing is open outside the work, nor between two files of the tool.
OpenInv(q) == ~Active(q) \/ (q \in Tools /\ pc[q] = "apply") => tx[q] = {}

DatabaseInv(q) == pc[q] \in {"lock", "apply", "commit", "ready"} => dbExists

ReadyInv(q) == pc[q] = "ready" => 1..FilesOf[q] \subseteq ledger

ProcInv(q) == WorkInv(q) /\ OpenInv(q) /\ DatabaseInv(q) /\ ReadyInv(q)

IInv == TypeOK /\ SchemaIsAPrefix /\ \A q \in Procs : ProcInv(q)

-----------------------------------------------------------------------------
\* Lemmas

\* A step of p disturbs no other process, as long as only a holder changes the ledger
\* and no other's lock is taken away.
LEMMA OthersKeep ==
  ASSUME IInv, NEW p \in Procs, NEW q \in Procs, q # p,
         pc'[q] = pc[q], next'[q] = next[q], tx'[q] = tx[q],
         dbExists => dbExists', ledger \subseteq ledger',
         ledger' # ledger => holder = p,
         holder = q => holder' = q
  PROVE  ProcInv(q)'
<1>1. ProcInv(q)
  BY DEF IInv
<1>2. WorkInv(q)'
  BY <1>1 DEF ProcInv, WorkInv, Active
<1>3. OpenInv(q)'
  BY <1>1 DEF ProcInv, OpenInv, Active
<1>4. DatabaseInv(q)' /\ ReadyInv(q)'
  BY <1>1 DEF ProcInv, DatabaseInv, ReadyInv
<1>5. QED
  BY <1>2, <1>3, <1>4 DEF ProcInv

\* What the holder commits is new and closes the gap.
LEMMA CommitsKeepPrefix ==
  ASSUME IInv, NEW p \in Procs, Active(p), Commits(p)
  PROVE  /\ SchemaIsAPrefix'
         /\ ledger' \in SUBSET File /\ schema' \in [File -> Nat]
         /\ ledger \subseteq ledger' /\ holder = p
         /\ \A f \in File : f < next[p] => f \in ledger'
<1> USE MigrationsAssumption DEF File
<1>1. WorkInv(p) /\ TypeOK /\ SchemaIsAPrefix
  BY DEF IInv, ProcInv
<1>2. /\ tx[p] \in SUBSET File /\ next[p] \in Nat
      /\ ledger' = ledger \cup tx[p]
  BY <1>1 DEF TypeOK, Commits
<1>3. ASSUME NEW f \in ledger', NEW g \in 1..f PROVE g \in ledger'
  <2>1. CASE f \in ledger
    BY <1>1, <1>2, <2>1 DEF SchemaIsAPrefix
  <2>2. CASE f \in tx[p]
    <3>1. f \in File /\ f < next[p] /\ g \in File /\ g < next[p]
      BY <1>1, <1>2, <2>2 DEF WorkInv
    <3>2. QED
      BY <1>1, <1>2, <3>1 DEF WorkInv
  <2>3. QED
    BY <1>2, <2>1, <2>2
<1>4. schema' \in [File -> Nat]
  BY <1>1 DEF TypeOK, Commits
<1>5. ASSUME NEW f \in File PROVE schema'[f] = IF f \in ledger' THEN 1 ELSE 0
  <2>1. f \in tx[p] => f \notin ledger
    BY <1>1 DEF WorkInv
  <2>2. schema[f] = IF f \in ledger THEN 1 ELSE 0
    BY <1>1 DEF SchemaIsAPrefix
  <2>3. schema'[f] = IF f \in tx[p] THEN schema[f] + 1 ELSE schema[f]
    BY DEF Commits
  <2>4. QED
    BY <1>2, <2>1, <2>2, <2>3
<1>6. QED
  BY <1>1, <1>2, <1>3, <1>4, <1>5 DEF SchemaIsAPrefix, TypeOK, WorkInv

-----------------------------------------------------------------------------
\* The invariant is inductive

LEMMA InitInv == Init => IInv
<1> SUFFICES ASSUME Init PROVE IInv
  OBVIOUS
<1> USE MigrationsAssumption DEF Init
<1>1. TypeOK
  <2>1. dbExists \in BOOLEAN
    OBVIOUS
  <2>2. /\ ledger \in SUBSET File /\ schema \in [File -> Nat]
        /\ holder \in Procs \cup {Nobody, Ghost}
    OBVIOUS
  <2>3. pc \in [Procs -> Steps] /\ tx \in [Procs -> SUBSET File]
    BY DEF Steps
  <2>4. next \in [Procs -> 1..(Files + 1)] /\ budget \in 0..Budget
    OBVIOUS
  <2>5. QED
    BY <2>1, <2>2, <2>3, <2>4 DEF TypeOK
<1>2. SchemaIsAPrefix
  BY DEF SchemaIsAPrefix
<1>3. ASSUME NEW q \in Procs PROVE ProcInv(q)
  BY DEF ProcInv, WorkInv, OpenInv, DatabaseInv, ReadyInv, Active
<1>4. QED
  BY <1>1, <1>2, <1>3 DEF IInv

\* What every step of one process has to show.
Kept(p) ==
  /\ TypeOK' /\ SchemaIsAPrefix' /\ ProcInv(p)'
  /\ dbExists => dbExists'
  /\ ledger \subseteq ledger'
  /\ ledger' # ledger => holder = p
  /\ \A q \in Procs : q # p => /\ pc'[q] = pc[q] /\ next'[q] = next[q] /\ tx'[q] = tx[q]
                               /\ holder = q => holder' = q

LEMMA KeptIsEnough ==
  ASSUME IInv, NEW p \in Procs, Kept(p) PROVE IInv'
<1>1. ASSUME NEW q \in Procs PROVE ProcInv(q)'
  <2>1. CASE q = p
    BY <2>1 DEF Kept
  <2>2. CASE q # p
    BY <2>2, OthersKeep DEF Kept
  <2>3. QED
    BY <2>1, <2>2
<1>2. QED
  BY <1>1 DEF IInv, Kept

\* Steps that neither touch the ledger nor begin or end the work.
LEMMA OutsideSteps ==
  ASSUME IInv, NEW p \in Procs,
         \/ CheckDatabase(p) \/ CreateDatabase(p) \/ Open(p)
         \/ WaitsTooLong(p) \/ Retry(p) \/ Restart(p)
  PROVE  Kept(p)
<1> USE MigrationsAssumption DEF File
<1>1. /\ TypeOK /\ SchemaIsAPrefix /\ ProcInv(p)
      /\ UNCHANGED <<ledger, schema, holder, next, tx>>
      /\ ~Active(p)
      /\ dbExists' \in BOOLEAN /\ (dbExists => dbExists')
      /\ budget' \in 0..Budget
  <2>1. TypeOK /\ SchemaIsAPrefix /\ ProcInv(p)
    BY DEF IInv
  <2>2. UNCHANGED <<ledger, schema, holder, next, tx>> /\ ~Active(p)
    BY DEF CheckDatabase, CreateDatabase, Open, WaitsTooLong, Retry, Restart, Active
  <2>3. dbExists' = dbExists \/ dbExists' = TRUE
    BY DEF CheckDatabase, CreateDatabase, Open, WaitsTooLong, Retry, Restart
  <2>4. dbExists' \in BOOLEAN /\ (dbExists => dbExists')
    BY <2>1, <2>3, Zenon DEF TypeOK
  <2>5. UNCHANGED budget \/ Disturb
    BY DEF CheckDatabase, CreateDatabase, Open, WaitsTooLong, Retry, Restart
  <2>6. budget' \in 0..Budget
    BY <2>1, <2>5 DEF TypeOK, Disturb
  <2>7. QED
    BY <2>1, <2>2, <2>4, <2>6
<1>2. PICK s \in {"start", "create", "open", "lock", "failed"} :
        /\ GoTo(p, s)
        /\ s = "lock" => dbExists'
  BY DEF CheckDatabase, CreateDatabase, Open, WaitsTooLong, Retry, Restart
<1>3. pc' \in [Procs -> Steps] /\ pc'[p] = s /\ \A q \in Procs : q # p => pc'[q] = pc[q]
  BY <1>1, <1>2 DEF GoTo, TypeOK, Steps
<1>4. TypeOK'
  BY <1>1, <1>3 DEF TypeOK
<1>5. SchemaIsAPrefix'
  BY <1>1 DEF SchemaIsAPrefix
<1>6. ProcInv(p)'
  BY <1>1, <1>2, <1>3 DEF ProcInv, WorkInv, OpenInv, DatabaseInv, ReadyInv, Active
<1>7. QED
  BY <1>1, <1>3, <1>4, <1>5, <1>6 DEF Kept

LEMMA TakesLockStep ==
  ASSUME IInv, NEW p \in Procs, TakesLock(p)
  PROVE  Kept(p)
<1> USE MigrationsAssumption DEF File
<1>1. /\ TypeOK /\ SchemaIsAPrefix /\ ProcInv(p) /\ pc[p] = "lock"
      /\ UNCHANGED <<dbExists, ledger, schema, tx, budget>>
      /\ holder' = p /\ holder = Nobody
  BY DEF IInv, TakesLock
<1>2. /\ pc' \in [Procs -> Steps] /\ pc'[p] = "apply"
      /\ next' \in [Procs -> 1..(Files + 1)] /\ next'[p] = 1
      /\ \A q \in Procs : q # p => pc'[q] = pc[q] /\ next'[q] = next[q]
  BY <1>1 DEF TakesLock, GoTo, TypeOK, Steps
<1>3. TypeOK' /\ SchemaIsAPrefix'
  BY <1>1, <1>2 DEF TypeOK, SchemaIsAPrefix
<1>4. tx'[p] = {} /\ dbExists'
  BY <1>1 DEF ProcInv, OpenInv, DatabaseInv, Active
<1>5. ProcInv(p)'
  BY <1>1, <1>2, <1>4 DEF ProcInv, WorkInv, OpenInv, DatabaseInv, ReadyInv, Active
<1>6. QED
  BY <1>1, <1>2, <1>3, <1>5 DEF Kept

LEMMA SkipsFileStep ==
  ASSUME IInv, NEW p \in Procs, SkipsFile(p)
  PROVE  Kept(p)
<1> USE MigrationsAssumption DEF File
<1>1. /\ TypeOK /\ SchemaIsAPrefix /\ ProcInv(p) /\ pc[p] = "apply"
      /\ UNCHANGED <<dbExists, ledger, schema, holder, pc, tx, budget>>
      /\ next[p] \in ledger \cup tx[p] /\ next[p] <= FilesOf[p]
  BY DEF IInv, SkipsFile, AlreadyApplied
<1>2. FilesOf[p] \in 0..Files /\ next[p] \in 1..(Files + 1)
  BY <1>1 DEF TypeOK
<1>3. /\ next' \in [Procs -> 1..(Files + 1)] /\ next'[p] = next[p] + 1
      /\ \A q \in Procs : q # p => next'[q] = next[q]
  BY <1>1, <1>2 DEF SkipsFile, TypeOK
<1>4. TypeOK' /\ SchemaIsAPrefix'
  BY <1>1, <1>3 DEF TypeOK, SchemaIsAPrefix
<1>5. WorkInv(p)'
  <2>1. WorkInv(p) /\ Active(p)
    BY <1>1 DEF ProcInv, Active
  <2>2. \A f \in File : f < next'[p] => f < next[p] \/ f = next[p]
    BY <1>2, <1>3
  <2>3. \A f \in tx[p] : f \in File
    BY <1>1 DEF TypeOK
  <2>4. QED
    BY <1>1, <1>2, <1>3, <2>1, <2>2, <2>3 DEF WorkInv
<1>6. ProcInv(p)'
  BY <1>1, <1>5 DEF ProcInv, OpenInv, DatabaseInv, ReadyInv, Active
<1>7. QED
  BY <1>1, <1>3, <1>4, <1>6 DEF Kept

LEMMA AppliesFileStep ==
  ASSUME IInv, NEW p \in Procs, AppliesFile(p)
  PROVE  Kept(p)
<1> USE MigrationsAssumption DEF File
<1>1. /\ TypeOK /\ SchemaIsAPrefix /\ ProcInv(p) /\ pc[p] = "apply"
      /\ UNCHANGED <<dbExists, ledger, schema, holder, budget>>
      /\ next[p] \notin ledger \cup tx[p] /\ next[p] <= FilesOf[p]
  BY DEF IInv, AppliesFile, AlreadyApplied
<1>2. FilesOf[p] \in 0..Files /\ next[p] \in 1..(Files + 1) /\ next[p] \in File
  BY <1>1 DEF TypeOK
<1>3. /\ next' \in [Procs -> 1..(Files + 1)] /\ next'[p] = next[p] + 1
      /\ tx' \in [Procs -> SUBSET File] /\ tx'[p] = tx[p] \cup {next[p]}
      /\ \A q \in Procs : q # p => next'[q] = next[q] /\ tx'[q] = tx[q]
  BY <1>1, <1>2 DEF AppliesFile, TypeOK
<1>4. /\ pc' \in [Procs -> Steps]
      /\ pc'[p] = IF p \in Tools THEN "commit" ELSE "apply"
      /\ \A q \in Procs : q # p => pc'[q] = pc[q]
  BY <1>1 DEF AppliesFile, GoTo, TypeOK, Steps
<1>5. TypeOK' /\ SchemaIsAPrefix'
  BY <1>1, <1>3, <1>4 DEF TypeOK, SchemaIsAPrefix
<1>6. WorkInv(p)'
  <2>1. WorkInv(p) /\ Active(p)
    BY <1>1 DEF ProcInv, Active
  <2>2. \A f \in File : f < next'[p] => f < next[p] \/ f = next[p]
    BY <1>2, <1>3
  <2>3. \A f \in tx[p] : f \in File
    BY <1>1 DEF TypeOK
  <2>4. QED
    BY <1>1, <1>2, <1>3, <2>1, <2>2, <2>3 DEF WorkInv
<1>7. ProcInv(p)'
  BY <1>1, <1>4, <1>6 DEF ProcInv, OpenInv, DatabaseInv, ReadyInv, Active
<1>8. QED
  BY <1>1, <1>3, <1>4, <1>5, <1>7 DEF Kept

\* Every commit, whether or not its answer arrives.
LEMMA CommitSteps ==
  ASSUME IInv, NEW p \in Procs,
         ToolCommits(p) \/ RuntimeCommits(p) \/ CommitAnswerLost(p)
  PROVE  Kept(p)
<1> USE MigrationsAssumption DEF File
<1>1. /\ TypeOK /\ ProcInv(p) /\ Active(p) /\ Commits(p) /\ Undone(p)
      /\ UNCHANGED <<dbExists, next>>
      /\ budget' \in 0..Budget
  BY DEF IInv, TypeOK, ToolCommits, RuntimeCommits, CommitAnswerLost, Disturb, Active
<1>2. /\ SchemaIsAPrefix'
      /\ ledger' \in SUBSET File /\ schema' \in [File -> Nat]
      /\ ledger \subseteq ledger' /\ holder = p
      /\ \A f \in File : f < next[p] => f \in ledger'
  BY <1>1, CommitsKeepPrefix
<1>3. PICK s \in {"apply", "ready", "failed"} :
        /\ GoTo(p, s)
        /\ s = "apply" => p \in Tools /\ holder' = holder
        /\ s = "ready" => next[p] > FilesOf[p]
        /\ holder' \in {holder, Nobody, Ghost}
  BY DEF ToolCommits, RuntimeCommits, CommitAnswerLost
<1>4. /\ pc' \in [Procs -> Steps] /\ pc'[p] = s
      /\ tx' \in [Procs -> SUBSET File] /\ tx'[p] = {}
      /\ \A q \in Procs : q # p => pc'[q] = pc[q] /\ tx'[q] = tx[q]
  BY <1>1, <1>3 DEF GoTo, Undone, TypeOK, Steps
<1>5. TypeOK'
  BY <1>1, <1>2, <1>3, <1>4 DEF TypeOK
<1>6. WorkInv(p)'
  BY <1>1, <1>2, <1>3, <1>4 DEF WorkInv, Active
<1>7. ReadyInv(p)'
  <2>1. s = "ready" => \A f \in 1..FilesOf[p] : f \in File /\ f < next[p]
    <3>1. FilesOf[p] \in 0..Files /\ next[p] \in 1..(Files + 1)
      BY <1>1 DEF TypeOK
    <3>2. QED
      BY <1>3, <3>1
  <2>2. QED
    BY <1>2, <1>4, <2>1 DEF ReadyInv
<1>8. ProcInv(p)'
  BY <1>1, <1>4, <1>6, <1>7 DEF ProcInv, OpenInv, DatabaseInv, Active
<1>9. QED
  BY <1>1, <1>2, <1>4, <1>5, <1>8 DEF Kept

LEMMA ToolUnlocksStep ==
  ASSUME IInv, NEW p \in Procs, ToolUnlocks(p)
  PROVE  Kept(p)
<1> USE MigrationsAssumption DEF File
<1>1. /\ TypeOK /\ SchemaIsAPrefix /\ ProcInv(p) /\ pc[p] = "apply" /\ p \in Tools
      /\ UNCHANGED <<dbExists, ledger, schema, next, tx, budget>>
      /\ holder' = Nobody /\ next[p] > FilesOf[p]
  BY DEF IInv, ToolUnlocks
<1>2. /\ pc' \in [Procs -> Steps] /\ pc'[p] = "ready"
      /\ \A q \in Procs : q # p => pc'[q] = pc[q]
  BY <1>1 DEF ToolUnlocks, GoTo, TypeOK, Steps
<1>3. TypeOK' /\ SchemaIsAPrefix'
  BY <1>1, <1>2 DEF TypeOK, SchemaIsAPrefix
<1>4. holder = p /\ tx[p] = {} /\ \A f \in File : f < next[p] => f \in ledger
  BY <1>1 DEF ProcInv, WorkInv, OpenInv, Active
<1>5. ReadyInv(p)'
  <2>1. FilesOf[p] \in 0..Files /\ next[p] \in 1..(Files + 1)
    BY <1>1 DEF TypeOK
  <2>2. \A f \in 1..FilesOf[p] : f \in File /\ f < next[p]
    BY <1>1, <2>1
  <2>3. QED
    BY <1>1, <1>4, <2>2 DEF ReadyInv
<1>6. ProcInv(p)'
  BY <1>1, <1>2, <1>4, <1>5 DEF ProcInv, WorkInv, OpenInv, DatabaseInv, Active
<1>7. QED
  BY <1>1, <1>2, <1>3, <1>4, <1>6 DEF Kept

LEMMA BreaksStep ==
  ASSUME IInv, NEW p \in Procs, Breaks(p)
  PROVE  Kept(p)
<1> USE MigrationsAssumption DEF File
<1>1. /\ TypeOK /\ SchemaIsAPrefix /\ ProcInv(p)
      /\ UNCHANGED <<ledger, schema, next>>
      /\ dbExists' \in BOOLEAN /\ (dbExists => dbExists')
      /\ budget' \in 0..Budget
  <2>1. TypeOK /\ SchemaIsAPrefix /\ ProcInv(p)
    BY DEF IInv
  <2>2. UNCHANGED <<ledger, schema, next>>
    BY DEF Breaks
  <2>3. dbExists' = dbExists \/ dbExists' = TRUE
    BY Zenon DEF Breaks
  <2>4. dbExists' \in BOOLEAN /\ (dbExists => dbExists')
    BY <2>1, <2>3, Zenon DEF TypeOK
  <2>5. budget' \in 0..Budget
    BY <2>1 DEF TypeOK, Breaks, Disturb
  <2>6. QED
    BY <2>1, <2>2, <2>4, <2>5
<1>2. /\ holder' \in Procs \cup {Nobody, Ghost}
      /\ \A q \in Procs : q # p /\ holder = q => holder' = q
  BY <1>1 DEF Breaks, TypeOK
<1>3. /\ pc' \in [Procs -> Steps] /\ pc'[p] = "failed"
      /\ tx' \in [Procs -> SUBSET File] /\ tx'[p] = {}
      /\ \A q \in Procs : q # p => pc'[q] = pc[q] /\ tx'[q] = tx[q]
  BY <1>1 DEF Breaks, GoTo, Undone, TypeOK, Steps
<1>4. TypeOK' /\ SchemaIsAPrefix'
  BY <1>1, <1>2, <1>3 DEF TypeOK, SchemaIsAPrefix
<1>5. ProcInv(p)'
  BY <1>3 DEF ProcInv, WorkInv, OpenInv, DatabaseInv, ReadyInv, Active
<1>6. QED
  BY <1>1, <1>2, <1>3, <1>4, <1>5 DEF Kept

LEMMA GhostStep ==
  ASSUME IInv, GhostLeaves
  PROVE  IInv'
<1> USE MigrationsAssumption
<1>1. TypeOK' /\ SchemaIsAPrefix'
  BY DEF IInv, GhostLeaves, TypeOK, SchemaIsAPrefix
<1>2. ASSUME NEW q \in Procs PROVE ProcInv(q)'
  BY DEF IInv, GhostLeaves, ProcInv, WorkInv, OpenInv, DatabaseInv, ReadyInv, Active
<1>3. QED
  BY <1>1, <1>2 DEF IInv

LEMMA StutterStep ==
  ASSUME IInv, UNCHANGED vars
  PROVE  IInv'
BY DEF IInv, vars, TypeOK, SchemaIsAPrefix, ProcInv, WorkInv, OpenInv, DatabaseInv,
       ReadyInv, Active

LEMMA NextInv == IInv /\ [Next]_vars => IInv'
<1> SUFFICES ASSUME IInv, [Next]_vars PROVE IInv'
  OBVIOUS
<1>1. ASSUME NEW p \in Procs,
             Step(p) \/ WaitsTooLong(p) \/ Breaks(p) \/ CommitAnswerLost(p) \/ Restart(p)
      PROVE  IInv'
  <2>1. Kept(p)
    BY <1>1, OutsideSteps, TakesLockStep, SkipsFileStep, AppliesFileStep, CommitSteps,
       ToolUnlocksStep, BreaksStep DEF Step
  <2>2. QED
    BY <2>1, KeptIsEnough
<1>2. CASE GhostLeaves
  BY <1>2, GhostStep
<1>3. CASE Quiet \/ UNCHANGED vars
  BY <1>3, StutterStep DEF Quiet
<1>4. QED
  BY <1>1, <1>2, <1>3 DEF Next

LEMMA Invariant == Spec => []IInv
<1>1. QED
  BY InitInv, NextInv, PTL DEF Spec

-----------------------------------------------------------------------------
\* The theorems

\* Every variable of Migrations has its type.
THEOREM TypeCorrect == Spec => []TypeOK
<1>1. IInv => TypeOK
  BY DEF IInv
<1>2. QED
  BY <1>1, Invariant, PTL

\* Whoever migrates at the same time, and wherever one of them dies: the files that were
\* committed are the first ones, none was run twice, and the ledger says so
\* (runMigrations, applyMigrationsToDB).
THEOREM SchemaPrefix == Spec => []SchemaIsAPrefix
<1>1. IInv => SchemaIsAPrefix
  BY DEF IInv
<1>2. QED
  BY <1>1, Invariant, PTL

\* A store whose InitSchema succeeded, and a tool that reported OK, have the whole schema
\* of their release.
THEOREM ReadyMigrated == Spec => []ReadyIsMigrated
<1>1. IInv => ReadyIsMigrated
  BY DEF IInv, ProcInv, DatabaseInv, ReadyInv, ReadyIsMigrated
<1>2. QED
  BY <1>1, Invariant, PTL

=============================================================================
