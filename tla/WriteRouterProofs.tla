-------------------------- MODULE WriteRouterProofs --------------------------
(***************************************************************************)
(* Theorems about the write router, for any writers, processes, years and  *)
(* number of disturbances: its types, that what it acknowledged is stored, *)
(* that the writers of a process end up with one store for a year and      *)
(* forget none, and that two processes write to one year at a time only    *)
(* when one of them has no lease of it.                                    *)
(***************************************************************************)
EXTENDS WriteRouter, TLAPS

Writer == [at : Steps, todo : SUBSET Years, batch : SUBSET Years,
           year : Years \cup {None}, store : Stores \cup {None}]

\* A writer without a lease, and without a year in hand.
Free == {"idle", "take"}

-----------------------------------------------------------------------------
\* The inductive invariant

\* A writer has a year when it asked for its lease, a store when it has found one.
WriterInv ==
  \A w \in Writers :
    /\ writer[w].at \in Free <=> writer[w].year = None
    /\ writer[w].at = "idle" => writer[w].todo = {}
    /\ writer[w].at \in InStore \cup {"register", "close"} => writer[w].store # None

\* What goes through the router has no store of its own to close, and a backfill has.
RoleInv ==
  \A w \in Writers :
    /\ writer[w].at \in {"lookup", "open", "register"} => Routed(w)
    /\ writer[w].at = "close" => ~Routed(w)

\* A year of the batch is still to come, in hand, or in the table.
AckInv ==
  \A w \in Writers : \A y \in writer[w].batch :
    \/ y \in writer[w].todo
    \/ y = writer[w].year /\ writer[w].at # "close"
    \/ <<w, y>> \in rows

\* A registered store is open, and registered once.
RegisteredInv ==
  \A i \in Instances, y \in Years : stores[i][y] # None =>
    /\ handle[stores[i][y]] = "open"
    /\ \A j \in Instances, z \in Years : stores[j][z] = stores[i][y] => j = i /\ z = y

\* A writer's own store is open, and nobody else's.
OwnStoreInv ==
  \A w \in Writers : Owns(w) =>
    /\ handle[writer[w].store] = "open"
    /\ \A i \in Instances, y \in Years : stores[i][y] # writer[w].store
    /\ \A v \in Writers : Owns(v) /\ writer[v].store = writer[w].store => v = w

\* A routed writer that inserts uses the registered store, unless its router was closed.
InsertInv ==
  \A w \in Writers :
    writer[w].at \in InStore /\ Routed(w) /\ InstanceOf[w] \notin closed =>
      writer[w].store = stores[InstanceOf[w]][writer[w].year]

\* The process of a writer under leases holds the one of its year, unless it lapsed.
LeaseInv ==
  \A w \in Writers : Leased(w) /\ writer[w].at \notin Free /\ w \notin lapsed =>
    holder[writer[w].year] = InstanceOf[w]

IInv == /\ TypeOK /\ WriterInv /\ RoleInv /\ AckInv /\ RegisteredInv /\ OwnStoreInv
        /\ InsertInv /\ LeaseInv /\ OpenIsHeld

-----------------------------------------------------------------------------
\* What a step does to its writer

LEMMA IdleIsWriter == Idle \in Writer
BY DEF Idle, Writer, Steps

\* Only writer w changes.
Others(w) == \A v \in Writers \ {w} : writer'[v] = writer[v]

LEMMA StepWriter ==
  ASSUME writer \in [Writers -> Writer], NEW w \in Writers, NEW step \in Steps, Step(w, step)
  PROVE  /\ writer' \in [Writers -> Writer] /\ Others(w)
         /\ writer'[w].at = step /\ writer'[w].todo = writer[w].todo
         /\ writer'[w].batch = writer[w].batch /\ writer'[w].year = writer[w].year
         /\ writer'[w].store = writer[w].store
BY DEF Step, Writer, Others

LEMMA GiveUpWriter ==
  ASSUME writer \in [Writers -> Writer], NEW w \in Writers, GiveUp(w)
  PROVE  writer' \in [Writers -> Writer] /\ Others(w) /\ writer'[w] = Idle
BY IdleIsWriter DEF GiveUp, Others

LEMMA NextGroupWriter ==
  ASSUME writer \in [Writers -> Writer], NEW w \in Writers, NextGroup(w)
  PROVE  /\ writer' \in [Writers -> Writer] /\ Others(w)
         /\ writer'[w].at = IF writer[w].todo = {} THEN "idle" ELSE "take"
         /\ writer'[w].todo = writer[w].todo
         /\ writer'[w].batch = writer[w].batch /\ writer'[w].year = None
<1> DEFINE r == IF writer[w].todo = {} THEN [Idle EXCEPT !.batch = writer[w].batch]
                ELSE [writer[w] EXCEPT !.at = "take", !.year = None, !.store = None]
<1>1. writer[w] \in Writer
  OBVIOUS
<1>2. /\ r \in Writer /\ r.todo = writer[w].todo /\ r.batch = writer[w].batch /\ r.year = None
      /\ r.at = IF writer[w].todo = {} THEN "idle" ELSE "take"
  BY <1>1 DEF Writer, Idle, Steps
<1>3. writer' = [writer EXCEPT ![w] = r]
  BY DEF NextGroup
<1> HIDE DEF r
<1> QED
  BY <1>2, <1>3 DEF Others

-----------------------------------------------------------------------------
LEMMA IInit == Init => IInv
<1> SUFFICES ASSUME Init PROVE IInv
  OBVIOUS
<1> USE WriteRouterAssumption
<1>1. TypeOK
  BY IdleIsWriter DEF Init, TypeOK, Writer
<1>2. \A w \in Writers : writer[w] = Idle
  BY DEF Init
<1>3. WriterInv /\ RoleInv /\ AckInv /\ OwnStoreInv /\ InsertInv /\ LeaseInv
  BY <1>2 DEF WriterInv, RoleInv, AckInv, OwnStoreInv, Owns, InsertInv, LeaseInv, Idle, Free,
     InStore, At, Inserting
<1>4. RegisteredInv /\ OpenIsHeld
  BY DEF Init, RegisteredInv, OpenIsHeld
<1> QED
  BY <1>1, <1>3, <1>4 DEF IInv

\* A step that leaves the stores, and who owns which, alone.
LEMMA SameOwners ==
  ASSUME IInv, NEW w \in Writers, Others(w), UNCHANGED <<setup, stores, handle>>,
         Owns(w)' <=> Owns(w),
         Owns(w) => writer'[w].store = writer[w].store
  PROVE  RegisteredInv' /\ OwnStoreInv' /\ OpenIsHeld'
<1>1. \A v \in Writers :
        /\ Owns(v)' <=> Owns(v)
        /\ Owns(v) => writer'[v].store = writer[v].store
  BY DEF Others, Owns, Routed, At, Inserting
<1>2. RegisteredInv'
  BY DEF IInv, RegisteredInv
<1>3. OwnStoreInv'
  BY <1>1 DEF IInv, OwnStoreInv
<1>4. OpenIsHeld'
  BY <1>1 DEF IInv, OpenIsHeld
<1> QED
  BY <1>2, <1>3, <1>4

\* A step that gives w a store that was unused.
LEMMA FreshStore ==
  ASSUME IInv, NEW w \in Writers, NEW s \in Stores, handle[s] = "unused",
         handle' = [handle EXCEPT ![s] = "open"], Others(w), UNCHANGED <<setup, stores>>,
         ~Owns(w), Owns(w)', writer'[w].store = s
  PROVE  RegisteredInv' /\ OwnStoreInv' /\ OpenIsHeld'
<1> USE WriteRouterAssumption
<1>0. /\ RegisteredInv /\ OwnStoreInv /\ OpenIsHeld
      /\ stores \in [Instances -> [Years -> Stores \cup {None}]]
      /\ handle \in [Stores -> {"unused", "open", "closed"}]
      /\ \A v \in Writers : Owns(v) => writer[v].store \in Stores
  BY DEF IInv, TypeOK, WriterInv, Owns, At, Inserting
<1>1. handle'[s] = "open" /\ \A t \in Stores \ {s} : handle'[t] = handle[t]
  BY <1>0
<1>2. s # None /\ \A i \in Instances, y \in Years : stores[i][y] # s
  BY <1>0 DEF RegisteredInv
<1>3. \A v \in Writers : Owns(v) => writer[v].store # s
  BY <1>0 DEF OwnStoreInv
<1>4. \A v \in Writers \ {w} : writer'[v] = writer[v] /\ (Owns(v)' <=> Owns(v))
  BY DEF Others, Owns, Routed, At, Inserting
<1>5. RegisteredInv'
  <2>1. \A i \in Instances, y \in Years : stores[i][y] # None =>
          handle'[stores[i][y]] = handle[stores[i][y]]
    BY <1>0, <1>1, <1>2
  <2> QED
    BY <1>0, <2>1 DEF RegisteredInv
<1>6. OwnStoreInv'
  <2> SUFFICES ASSUME NEW v \in Writers, Owns(v)'
               PROVE  /\ handle'[writer'[v].store] = "open"
                      /\ \A i \in Instances, y \in Years : stores[i][y] # writer'[v].store
                      /\ \A x \in Writers : Owns(x)'
                           /\ writer'[x].store = writer'[v].store => x = v
    BY DEF OwnStoreInv
  <2>1. CASE v = w
    BY <1>1, <1>2, <1>3, <1>4, <2>1
  <2>2. CASE v # w
    <3>1. writer'[v] = writer[v] /\ Owns(v)
      BY <1>4, <2>2
    <3>2. /\ handle[writer[v].store] = "open" /\ writer[v].store \in Stores \ {s}
          /\ \A i \in Instances, y \in Years : stores[i][y] # writer[v].store
          /\ \A x \in Writers : Owns(x) /\ writer[x].store = writer[v].store => x = v
      BY <1>0, <1>3, <3>1 DEF OwnStoreInv
    <3>3. ASSUME NEW x \in Writers, Owns(x)', writer'[x].store = writer'[v].store
          PROVE  x = v
      <4>1. x # w
        BY <3>1, <3>2, <3>3
      <4> QED
        BY <1>4, <3>1, <3>2, <3>3, <4>1
    <3> QED
      BY <1>1, <3>1, <3>2, <3>3
  <2> QED
    BY <2>1, <2>2
<1>7. OpenIsHeld'
  <2> SUFFICES ASSUME NEW t \in Stores, handle'[t] = "open"
               PROVE  \/ \E i \in Instances, y \in Years : stores[i][y] = t
                      \/ \E v \in Writers : Owns(v)' /\ writer'[v].store = t
    BY DEF OpenIsHeld
  <2>1. CASE t = s
    BY <2>1
  <2>2. CASE t # s
    <3>1. \/ \E i \in Instances, y \in Years : stores[i][y] = t
          \/ \E v \in Writers : Owns(v) /\ writer[v].store = t
      BY <1>0, <1>1, <2>2 DEF OpenIsHeld
    <3>2. \A v \in Writers : Owns(v) => v # w
      OBVIOUS
    <3> QED
      BY <1>4, <3>1, <3>2
  <2> QED
    BY <2>1, <2>2
<1> QED
  BY <1>5, <1>6, <1>7

\* A step in which w closes its own store, and has none any more.
LEMMA StoreGoes ==
  ASSUME IInv, NEW w \in Writers, NEW how \in {"unused", "closed"},
         handle' = [handle EXCEPT ![writer[w].store] = how], Others(w),
         UNCHANGED <<setup, stores>>, Owns(w), ~Owns(w)'
  PROVE  RegisteredInv' /\ OwnStoreInv' /\ OpenIsHeld'
<1> DEFINE own == writer[w].store
<1>0. /\ RegisteredInv /\ OwnStoreInv /\ OpenIsHeld
      /\ stores \in [Instances -> [Years -> Stores \cup {None}]]
      /\ handle \in [Stores -> {"unused", "open", "closed"}]
      /\ \A v \in Writers : Owns(v) => writer[v].store \in Stores
  BY DEF IInv, TypeOK, WriterInv, Owns, At, Inserting
<1>1. /\ own \in Stores
      /\ \A i \in Instances, z \in Years : stores[i][z] # own
      /\ \A v \in Writers \ {w} : Owns(v) => writer[v].store # own
  BY <1>0 DEF OwnStoreInv
<1>2. handle'[own] = how /\ \A t \in Stores \ {own} : handle'[t] = handle[t]
  BY <1>0, <1>1
<1>4. \A v \in Writers \ {w} : writer'[v] = writer[v] /\ (Owns(v)' <=> Owns(v))
  BY DEF Others, Owns, Routed, At, Inserting
<1>5. RegisteredInv'
  <2>1. \A i \in Instances, y \in Years : stores[i][y] # None =>
          handle'[stores[i][y]] = handle[stores[i][y]]
    BY <1>0, <1>1, <1>2
  <2> QED
    BY <1>0, <2>1 DEF RegisteredInv
<1>6. OwnStoreInv'
  <2> SUFFICES ASSUME NEW v \in Writers, Owns(v)'
               PROVE  /\ handle'[writer'[v].store] = "open"
                      /\ \A i \in Instances, y \in Years : stores[i][y] # writer'[v].store
                      /\ \A x \in Writers : Owns(x)'
                           /\ writer'[x].store = writer'[v].store => x = v
    BY DEF OwnStoreInv
  <2>1. v # w /\ writer'[v] = writer[v] /\ Owns(v)
    BY <1>4
  <2>2. /\ handle[writer[v].store] = "open" /\ writer[v].store \in Stores \ {own}
        /\ \A i \in Instances, y \in Years : stores[i][y] # writer[v].store
        /\ \A x \in Writers : Owns(x) /\ writer[x].store = writer[v].store => x = v
    BY <1>0, <1>1, <2>1 DEF OwnStoreInv
  <2>3. handle'[writer[v].store] = "open"
    BY <1>2, <2>2
  <2>4. ASSUME NEW x \in Writers, Owns(x)', writer'[x].store = writer'[v].store
        PROVE  x = v
    BY <1>4, <2>1, <2>2, <2>4
  <2> QED
    BY <2>1, <2>2, <2>3, <2>4
<1>7. OpenIsHeld'
  <2> SUFFICES ASSUME NEW t \in Stores, handle'[t] = "open"
               PROVE  \/ \E i \in Instances, y \in Years : stores[i][y] = t
                      \/ \E v \in Writers : Owns(v)' /\ writer'[v].store = t
    BY DEF OpenIsHeld
  <2>1. t # own /\ handle[t] = "open"
    BY <1>1, <1>2
  <2>2. \/ \E i \in Instances, y \in Years : stores[i][y] = t
        \/ \E v \in Writers : Owns(v) /\ writer[v].store = t
    BY <1>0, <2>1 DEF OpenIsHeld
  <2> QED
    BY <1>4, <2>1, <2>2
<1> QED
  BY <1>5, <1>6, <1>7

\* A writer that gives up leaves everything as it should be.
LEMMA GivesUp ==
  ASSUME IInv, NEW w \in Writers, GiveUp(w), ~Owns(w),
         UNCHANGED <<setup, stores, handle, closed, rows>>,
         TypeOK', LeaseInv'
  PROVE  IInv'
<1>1. writer' \in [Writers -> Writer] /\ Others(w) /\ writer'[w] = Idle
  BY GiveUpWriter DEF IInv, TypeOK, Writer
<1>2. /\ writer'[w].at = "idle" /\ writer'[w].todo = {} /\ writer'[w].batch = {}
      /\ writer'[w].year = None
  BY <1>1 DEF Idle
<1>3. WriterInv' /\ RoleInv' /\ AckInv' /\ InsertInv'
  BY <1>1, <1>2 DEF IInv, Others, WriterInv, RoleInv, Routed, AckInv, InsertInv, Free, InStore
<1>4. ~Owns(w)'
  BY <1>2 DEF Owns, InStore, At, Inserting
<1>5. RegisteredInv' /\ OwnStoreInv' /\ OpenIsHeld'
  BY <1>1, <1>4, SameOwners
<1> QED
  BY <1>3, <1>5 DEF IInv

\* A writer that goes on with its insert does so too.
LEMMA GoesOn ==
  ASSUME IInv, NEW w \in Writers, NEW step \in InStore, writer[w].at \in InStore, Step(w, step),
         UNCHANGED <<setup, stores, handle, closed, holder, rows, lapsed>>,
         TypeOK'
  PROVE  IInv'
<1>1. /\ writer' \in [Writers -> Writer] /\ Others(w)
      /\ writer'[w].at = step /\ writer'[w].todo = writer[w].todo
      /\ writer'[w].batch = writer[w].batch /\ writer'[w].year = writer[w].year
      /\ writer'[w].store = writer[w].store
  BY StepWriter DEF IInv, TypeOK, Writer, InStore, Steps
<1>2. WriterInv' /\ RoleInv' /\ AckInv'
  BY <1>1 DEF IInv, Others, WriterInv, RoleInv, Routed, AckInv, Free, InStore
<1>3. InsertInv' /\ LeaseInv'
  BY <1>1 DEF IInv, Others, InsertInv, LeaseInv, Leased, Routed, Free, InStore
<1>4. Owns(w)' <=> Owns(w)
  BY <1>1 DEF Owns, Routed, InStore, At, Inserting
<1>5. RegisteredInv' /\ OwnStoreInv' /\ OpenIsHeld'
  BY <1>1, <1>4, SameOwners
<1> QED
  BY <1>2, <1>3, <1>5 DEF IInv

\* So does a routed writer whose rows of the year in hand are stored.
LEMMA GroupIsStored ==
  ASSUME IInv, NEW w \in Writers, writer[w].at \in InStore, Routed(w), Stored(w), NextGroup(w),
         UNCHANGED <<setup, stores, handle, closed, holder, lapsed>>,
         TypeOK'
  PROVE  IInv'
<1>1. /\ writer' \in [Writers -> Writer] /\ Others(w)
      /\ writer'[w].at = IF writer[w].todo = {} THEN "idle" ELSE "take"
      /\ writer'[w].todo = writer[w].todo
      /\ writer'[w].batch = writer[w].batch /\ writer'[w].year = None
  BY NextGroupWriter DEF IInv, TypeOK, Writer
<1>2. rows' = rows \cup {<<w, writer[w].year>>}
  BY DEF Stored
<1>3. writer'[w].at \in Free /\ (writer'[w].at = "idle" => writer'[w].todo = {})
  BY <1>1 DEF Free
<1>4. WriterInv' /\ RoleInv'
  BY <1>1, <1>3 DEF IInv, Others, WriterInv, RoleInv, Routed, Free, InStore
<1>5. InsertInv' /\ LeaseInv'
  BY <1>1, <1>3 DEF IInv, Others, InsertInv, LeaseInv, Leased, Routed, Free, InStore
<1>6. AckInv'
  BY <1>1, <1>2 DEF IInv, Others, AckInv
<1>7. ~Owns(w) /\ ~Owns(w)'
  BY <1>3 DEF Owns, InStore, Free, At, Inserting
<1>8. RegisteredInv' /\ OwnStoreInv' /\ OpenIsHeld'
  BY <1>1, <1>7, SameOwners
<1> QED
  BY <1>4, <1>5, <1>6, <1>8 DEF IInv

\* A backfill whose insert returned is about to close its store: with its rows stored, or
\* with nothing left to acknowledge.
LEMMA AboutToClose ==
  ASSUME IInv, NEW w \in Writers, writer[w].at \in InStore, ~Routed(w),
         writer' \in [Writers -> Writer], Others(w), writer'[w].at = "close",
         writer'[w].year = writer[w].year, writer'[w].store = writer[w].store,
         \/ writer'[w].batch = {}
         \/ Stored(w) /\ writer'[w].todo = writer[w].todo /\ writer'[w].batch = writer[w].batch,
         rows \subseteq rows',
         UNCHANGED <<setup, stores, handle, closed, holder, lapsed>>,
         TypeOK'
  PROVE  IInv'
<1>1. WriterInv' /\ RoleInv'
  BY DEF IInv, Others, WriterInv, RoleInv, Routed, Free, InStore
<1>2. InsertInv' /\ LeaseInv'
  BY DEF IInv, Others, InsertInv, LeaseInv, Leased, Routed, InStore
<1>3. AckInv'
  <2> SUFFICES ASSUME NEW v \in Writers, NEW y \in writer'[v].batch
               PROVE  \/ y \in writer'[v].todo
                      \/ y = writer'[v].year /\ writer'[v].at # "close"
                      \/ <<v, y>> \in rows'
    BY DEF AckInv
  <2>1. CASE v = w
    BY <2>1 DEF IInv, AckInv, Stored
  <2>2. CASE v # w
    BY <2>2 DEF IInv, AckInv, Others
  <2> QED
    BY <2>1, <2>2
<1>4. Owns(w) /\ Owns(w)'
  BY DEF Owns, Routed, At, Inserting
<1>5. RegisteredInv' /\ OwnStoreInv' /\ OpenIsHeld'
  BY <1>4, SameOwners
<1> QED
  BY <1>1, <1>2, <1>3, <1>5 DEF IInv

LEMMA UnusedOpened ==
  ASSUME NEW s \in Stores, Opened(s)
  PROVE  handle[s] = "unused" /\ handle' = [handle EXCEPT ![s] = "open"]
<1> DEFINE unused == {t \in Stores : handle[t] = "unused"}
<1>1. unused # {} /\ s = CHOOSE t \in unused : TRUE
  BY DEF Opened
<1>2. s \in unused
  BY <1>1
<1> QED
  BY <1>2 DEF Opened

\* A year of the batch is taken in hand.
LEMMA TakesYear ==
  ASSUME IInv, NEW w \in Writers, NEW y \in writer[w].todo, writer[w].at = "take",
         Others(w), writer'[w].todo = writer[w].todo \ {y},
         writer'[w].batch = writer[w].batch, writer'[w].year = y, writer'[w].at # "close",
         rows' = rows
  PROVE  AckInv'
<1> SUFFICES ASSUME NEW v \in Writers, NEW z \in writer'[v].batch
             PROVE  \/ z \in writer'[v].todo
                    \/ z = writer'[v].year /\ writer'[v].at # "close"
                    \/ <<v, z>> \in rows'
  BY DEF AckInv
<1>1. CASE v = w
  <2>1. writer[w].year = None /\ z \in writer[w].batch /\ z \in Years
    BY <1>1 DEF IInv, TypeOK, WriterInv, Free
  <2>2. z # None
    BY <2>1, WriteRouterAssumption
  <2>3. z \in writer[w].todo \/ <<w, z>> \in rows
    BY <2>1, <2>2 DEF IInv, AckInv
  <2> QED
    BY <1>1, <2>3
<1>2. CASE v # w
  BY <1>2 DEF IInv, AckInv, Others
<1> QED
  BY <1>1, <1>2

LEMMA IStep ==
  ASSUME IInv, [Next]_vars
  PROVE  IInv'
<1> USE WriteRouterAssumption
<1>0. /\ TypeOK /\ WriterInv /\ RoleInv /\ AckInv /\ RegisteredInv /\ OwnStoreInv /\ InsertInv
      /\ LeaseInv /\ OpenIsHeld
  BY DEF IInv
<1>t. /\ setup \in Setups
      /\ stores \in [Instances -> [Years -> Stores \cup {None}]]
      /\ handle \in [Stores -> {"unused", "open", "closed"}]
      /\ closed \subseteq Instances
      /\ holder \in [Years -> Instances \cup {None}]
      /\ locks \in [Stores -> Writers \cup {None}]
      /\ tables \subseteq Years /\ rows \subseteq Writers \X Years
      /\ writer \in [Writers -> Writer] /\ lapsed \subseteq Writers /\ budget \in 0..Budget
  BY <1>0 DEF TypeOK, Writer
<1>u. \A w \in Writers :
        /\ writer[w].at \in Steps /\ writer[w].todo \subseteq Years /\ writer[w].batch \subseteq Years
        /\ writer[w].year \in Years \cup {None} /\ writer[w].store \in Stores \cup {None}
        /\ InstanceOf[w] \in Instances
  BY <1>t DEF Writer
<1>y. \A w \in Writers : writer[w].at \notin Free => writer[w].year \in Years
  BY <1>0, <1>u DEF WriterInv
<1>b. Disturb => budget' \in 0..Budget
  BY <1>t DEF Disturb
<1>l. \A w \in Writers : Unlock(w) => locks' \in [Stores -> Writers \cup {None}]
  BY <1>t DEF Unlock
\* What is left of the types when only a writer changes.
<1>o. ASSUME setup' \in Setups, writer' \in [Writers -> Writer], budget' \in 0..Budget,
             stores' \in [Instances -> [Years -> Stores \cup {None}]],
             handle' \in [Stores -> {"unused", "open", "closed"}],
             closed' \subseteq Instances, holder' \in [Years -> Instances \cup {None}],
             locks' \in [Stores -> Writers \cup {None}], tables' \subseteq Years,
             rows' \subseteq Writers \X Years, lapsed' \subseteq Writers
      PROVE  TypeOK'
  BY <1>o DEF TypeOK, Writer
<1>1. ASSUME NEW y \in Years, LeaseLapses(y) PROVE IInv'
  <2>1. /\ holder' = [holder EXCEPT ![y] = None] /\ Disturb
        /\ lapsed' = lapsed \cup {w \in Writers : writer[w].year = y /\ Leased(w)
                                                  /\ InstanceOf[w] = holder[y]}
        /\ UNCHANGED <<setup, stores, handle, closed, locks, tables, rows, writer>>
    BY <1>1 DEF LeaseLapses
  <2>2. TypeOK'
    BY <1>b, <1>o, <1>t, <2>1
  <2>3. LeaseInv'
    BY <1>0, <1>t, <1>y, <2>1 DEF LeaseInv, Leased, Routed, Free
  <2>4. WriterInv' /\ RoleInv' /\ AckInv' /\ RegisteredInv' /\ OwnStoreInv' /\ InsertInv'
    BY <1>0, <2>1 DEF WriterInv, RoleInv, Routed, AckInv, RegisteredInv, OwnStoreInv, Owns,
       InsertInv, At, Inserting
  <2>5. OpenIsHeld'
    BY <1>0, <2>1 DEF OpenIsHeld, Owns, Routed, Inserting, At
  <2> QED
    BY <2>2, <2>3, <2>4, <2>5 DEF IInv
<1>2. ASSUME NEW n \in Instances, Close(n) PROVE IInv'
  <2>1. /\ closed' = closed \cup {n} /\ Disturb
        /\ handle' = [s \in Stores |-> IF \E y \in Years : stores[n][y] = s THEN "closed"
                                        ELSE handle[s]]
        /\ stores' = [stores EXCEPT ![n] = [y \in Years |-> None]]
        /\ UNCHANGED <<setup, holder, locks, tables, rows, writer, lapsed>>
    BY <1>2 DEF Close
  <2>2. /\ \A y \in Years : stores'[n][y] = None
        /\ \A i \in Instances \ {n} : stores'[i] = stores[i]
        /\ stores' \in [Instances -> [Years -> Stores \cup {None}]]
    BY <1>t, <2>1
  <2>3. /\ handle' \in [Stores -> {"unused", "open", "closed"}]
        /\ \A s \in Stores : (\A y \in Years : stores[n][y] # s) => handle'[s] = handle[s]
        /\ \A s \in Stores : handle'[s] = "open" =>
             handle[s] = "open" /\ \A y \in Years : stores[n][y] # s
    BY <1>t, <2>1
  <2>4. TypeOK'
    BY <1>b, <1>o, <1>t, <2>1, <2>2, <2>3
  <2>5. WriterInv' /\ RoleInv' /\ AckInv' /\ LeaseInv'
    BY <1>0, <2>1 DEF WriterInv, RoleInv, AckInv, LeaseInv, Leased, Routed
  <2>6. RegisteredInv'
    <3> SUFFICES ASSUME NEW i \in Instances, NEW y \in Years, stores'[i][y] # None
                 PROVE  /\ handle'[stores'[i][y]] = "open"
                        /\ \A j \in Instances, z \in Years :
                             stores'[j][z] = stores'[i][y] => j = i /\ z = y
      BY DEF RegisteredInv
    <3>1. i # n /\ stores'[i][y] = stores[i][y] /\ stores[i][y] \in Stores
      BY <1>t, <2>2
    <3>2. /\ handle[stores[i][y]] = "open"
          /\ \A j \in Instances, z \in Years : stores[j][z] = stores[i][y] => j = i /\ z = y
      BY <1>0, <3>1 DEF RegisteredInv
    <3>3. \A z \in Years : stores[n][z] # stores[i][y]
      BY <3>1, <3>2
    <3>4. handle'[stores[i][y]] = "open"
      BY <2>3, <3>1, <3>2, <3>3
    <3>5. ASSUME NEW j \in Instances, NEW z \in Years, stores'[j][z] = stores[i][y]
          PROVE  j = i /\ z = y
      <4>1. j # n
        BY <2>2, <3>1, <3>5
      <4> QED
        BY <2>2, <3>2, <3>5, <4>1
    <3> QED
      BY <3>1, <3>4, <3>5
  <2>7. OwnStoreInv'
    <3> SUFFICES ASSUME NEW w \in Writers, Owns(w)
                 PROVE  /\ handle'[writer[w].store] = "open"
                        /\ \A i \in Instances, y \in Years : stores'[i][y] # writer[w].store
                        /\ \A v \in Writers : Owns(v)
                             /\ writer[v].store = writer[w].store => v = w
      BY <2>1 DEF OwnStoreInv, Owns, Routed, At, Inserting
    <3>1. /\ handle[writer[w].store] = "open" /\ writer[w].store \in Stores
          /\ \A i \in Instances, y \in Years : stores[i][y] # writer[w].store
          /\ \A v \in Writers : Owns(v)
               /\ writer[v].store = writer[w].store => v = w
      BY <1>0, <1>u DEF OwnStoreInv, WriterInv, Owns, At, Inserting
    <3>2. handle'[writer[w].store] = "open"
      BY <2>3, <3>1
    <3>3. \A i \in Instances, y \in Years : stores'[i][y] # writer[w].store
      BY <2>2, <3>1
    <3> QED
      BY <3>1, <3>2, <3>3
  <2>8. InsertInv'
    BY <1>0, <1>u, <2>1, <2>2 DEF InsertInv, Routed
  <2>9. OpenIsHeld'
    <3> SUFFICES ASSUME NEW s \in Stores, handle'[s] = "open"
                 PROVE  \/ \E i \in Instances, y \in Years : stores'[i][y] = s
                        \/ \E w \in Writers : Owns(w) /\ writer[w].store = s
      BY <2>1 DEF OpenIsHeld, Owns, Routed, Inserting, At
    <3>1. handle[s] = "open" /\ \A y \in Years : stores[n][y] # s
      BY <2>3
    <3> QED
      BY <1>0, <2>2, <3>1 DEF OpenIsHeld
  <2> QED
    BY <2>4, <2>5, <2>6, <2>7, <2>8, <2>9 DEF IInv
<1>3. ASSUME NEW w \in Writers, NEW b \in SUBSET Years \ {{}}, Begin(w, b) PROVE IInv'
  <2> DEFINE r == [Idle EXCEPT !.at = "take", !.todo = b, !.batch = b]
  <2>1. /\ writer[w].at = "idle" /\ writer' = [writer EXCEPT ![w] = r]
        /\ rows' = {p \in rows : p[1] # w}
        /\ UNCHANGED <<setup, stores, handle, closed, holder, locks, tables, lapsed, budget>>
    BY <1>3 DEF Begin, At
  <2>2. /\ r \in Writer /\ r.at = "take" /\ r.todo = b /\ r.batch = b /\ r.year = None
    BY DEF Idle, Writer, Steps
  <2> HIDE DEF r
  <2>3. writer' \in [Writers -> Writer] /\ Others(w) /\ writer'[w] = r
    BY <1>t, <2>1, <2>2 DEF Others
  <2>4. TypeOK'
    BY <1>o, <1>t, <2>1, <2>3
  <2>5. WriterInv' /\ RoleInv' /\ InsertInv' /\ LeaseInv'
    BY <1>0, <2>1, <2>2, <2>3
       DEF Others, WriterInv, RoleInv, Leased, Routed, InsertInv, LeaseInv, Free, InStore
  <2>6. AckInv'
    <3> SUFFICES ASSUME NEW v \in Writers, NEW y \in writer'[v].batch
                 PROVE  \/ y \in writer'[v].todo
                        \/ y = writer'[v].year /\ writer'[v].at # "close"
                        \/ <<v, y>> \in rows'
      BY DEF AckInv
    <3>1. CASE v = w
      BY <2>2, <2>3, <3>1
    <3>2. CASE v # w
      <4>1. writer'[v] = writer[v]
        BY <2>3, <3>2 DEF Others
      <4>2. <<v, y>> \in rows => <<v, y>> \in rows'
        BY <2>1, <3>2
      <4> QED
        BY <1>0, <4>1, <4>2 DEF AckInv
    <3> QED
      BY <3>1, <3>2
  <2>7. RegisteredInv' /\ OwnStoreInv' /\ OpenIsHeld'
    <3>1. ~Owns(w) /\ ~Owns(w)'
      BY <2>1, <2>2, <2>3 DEF Owns, InStore, At, Inserting
    <3> QED
      BY <2>1, <2>3, <3>1, SameOwners
  <2> QED
    BY <2>4, <2>5, <2>6, <2>7 DEF IInv
<1>4. ASSUME NEW w \in Writers, AcquireLease(w) PROVE IInv'
  <2>1. PICK y \in writer[w].todo :
          /\ IF Granted(w, y)
             THEN /\ holder' = [holder EXCEPT ![y] = IF @ = None THEN InstanceOf[w] ELSE @]
                  /\ writer' = [writer EXCEPT ![w].at = "lookup", ![w].year = y,
                                              ![w].todo = @ \ {y}]
             ELSE GiveUp(w) /\ UNCHANGED holder
          /\ lapsed' = lapsed \ {w}
    BY <1>4 DEF AcquireLease
  <2>2. /\ writer[w].at = "take" /\ Leased(w) /\ y \in Years
        /\ UNCHANGED <<setup, stores, handle, closed, locks, tables, rows, budget>>
    BY <1>4, <1>u DEF AcquireLease, At
  <2>3. CASE ~Granted(w, y)
    <3>1. GiveUp(w) /\ UNCHANGED holder /\ lapsed' = lapsed \ {w}
      BY <2>1, <2>3
    <3>2. writer' \in [Writers -> Writer] /\ Others(w) /\ writer'[w] = Idle
      BY <1>t, <3>1, GiveUpWriter
    <3>3. TypeOK'
      BY <1>o, <1>t, <2>2, <3>1, <3>2
    <3>4. LeaseInv'
      BY <1>0, <2>2, <3>1, <3>2 DEF LeaseInv, Leased, Routed, Others, Idle, Free
    <3>5. ~Owns(w)
      BY <2>2 DEF Owns, InStore, At, Inserting
    <3> QED
      BY <2>2, <3>1, <3>3, <3>4, <3>5, GivesUp
  <2>4. CASE Granted(w, y)
    <3>1. /\ holder' = [holder EXCEPT ![y] = IF @ = None THEN InstanceOf[w] ELSE @]
          /\ writer' = [writer EXCEPT ![w].at = "lookup", ![w].year = y, ![w].todo = @ \ {y}]
          /\ lapsed' = lapsed \ {w}
      BY <2>1, <2>4
    <3>2. /\ writer' \in [Writers -> Writer] /\ Others(w)
          /\ writer'[w].at = "lookup" /\ writer'[w].todo = writer[w].todo \ {y}
          /\ writer'[w].batch = writer[w].batch /\ writer'[w].year = y
      BY <1>t, <2>2, <3>1 DEF Writer, Steps, Others
    <3>3. /\ holder' \in [Years -> Instances \cup {None}] /\ holder'[y] = InstanceOf[w]
          /\ \A z \in Years : holder[z] # None => holder'[z] = holder[z]
      BY <1>t, <1>u, <2>2, <2>4, <3>1 DEF Granted
    <3>4. TypeOK'
      BY <1>o, <1>t, <2>2, <3>1, <3>2, <3>3
    <3>5. WriterInv' /\ RoleInv' /\ InsertInv'
      BY <1>0, <2>2, <3>2
         DEF Others, WriterInv, RoleInv, Leased, Routed, InsertInv, Free, InStore
    <3>6. AckInv'
      BY <2>2, <3>2, TakesYear
    <3>7. LeaseInv'
      BY <1>0, <1>u, <1>y, <2>2, <3>1, <3>2, <3>3 DEF LeaseInv, Leased, Routed, Others
    <3>8. RegisteredInv' /\ OwnStoreInv' /\ OpenIsHeld'
      <4>1. ~Owns(w) /\ ~Owns(w)'
        BY <2>2, <3>2 DEF Owns, InStore, At, Inserting
      <4> QED
        BY <2>2, <3>2, <4>1, SameOwners
    <3> QED
      BY <3>4, <3>5, <3>6, <3>7, <3>8 DEF IInv
  <2> QED
    BY <2>3, <2>4
<1>5. ASSUME NEW w \in Writers, AcquireLeaseFails(w) PROVE IInv'
  <2>1. PICK y \in writer[w].todo :
          holder' \in {holder} \cup
                      IF Granted(w, y) THEN {[holder EXCEPT ![y] = InstanceOf[w]]} ELSE {}
    BY <1>5 DEF AcquireLeaseFails
  <2>2. /\ writer[w].at = "take" /\ Disturb /\ GiveUp(w) /\ y \in Years
        /\ UNCHANGED <<setup, stores, handle, closed, locks, tables, rows, lapsed>>
    BY <1>5, <1>u DEF AcquireLeaseFails, At
  <2>3. /\ holder' \in [Years -> Instances \cup {None}]
        /\ \A z \in Years : holder[z] # None => holder'[z] = holder[z]
    BY <1>t, <1>u, <2>1, <2>2 DEF Granted
  <2>4. writer' \in [Writers -> Writer] /\ Others(w) /\ writer'[w] = Idle
    BY <1>t, <2>2, GiveUpWriter
  <2>5. TypeOK'
    BY <1>b, <1>o, <1>t, <2>2, <2>3, <2>4
  <2>6. LeaseInv'
    BY <1>0, <1>u, <1>y, <2>2, <2>3, <2>4 DEF LeaseInv, Leased, Routed, Others, Idle, Free
  <2>7. ~Owns(w)
    BY <2>2 DEF Owns, InStore, At, Inserting
  <2> QED
    BY <2>2, <2>5, <2>6, <2>7, GivesUp
<1>6. ASSUME NEW w \in Writers, OpenFails(w) \/ OpenOwnFails(w) PROVE IInv'
  <2>1. /\ GiveUp(w) /\ writer[w].at \in {"open", "take"} /\ Disturb
        /\ UNCHANGED <<setup, stores, handle, closed, holder, locks, tables, rows, lapsed>>
    BY <1>6 DEF OpenFails, OpenOwnFails, At
  <2>2. writer' \in [Writers -> Writer] /\ Others(w) /\ writer'[w] = Idle
    BY <1>t, <2>1, GiveUpWriter
  <2>3. TypeOK'
    BY <1>b, <1>o, <1>t, <2>1, <2>2
  <2>4. LeaseInv'
    BY <1>0, <2>1, <2>2 DEF LeaseInv, Leased, Routed, Others, Idle, Free
  <2>5. ~Owns(w)
    BY <2>1 DEF Owns, InStore, At, Inserting
  <2> QED
    BY <2>1, <2>3, <2>4, <2>5, GivesUp
<1>7. ASSUME NEW w \in Writers, CreateFails(w) \/ FinalInsertFails(w) PROVE IInv'
  <2>1. /\ Fail(w) /\ writer[w].at \in InStore
        /\ UNCHANGED <<setup, stores, handle, closed, holder, tables, rows, lapsed>>
        /\ budget' = budget \/ Disturb
        /\ Unlock(w)
    BY <1>7 DEF CreateFails, FinalInsertFails, At, InStore
  <2>2. ASSUME writer' \in [Writers -> Writer] PROVE TypeOK'
    <3>1. budget' \in 0..Budget /\ locks' \in [Stores -> Writers \cup {None}]
      BY <1>b, <1>l, <1>t, <2>1
    <3> QED
      BY <1>o, <1>t, <2>1, <2>2, <3>1
  <2>3. CASE Routed(w)
    <3>1. GiveUp(w)
      BY <2>1, <2>3 DEF Fail
    <3>2. writer' \in [Writers -> Writer] /\ Others(w) /\ writer'[w] = Idle
      BY <1>t, <3>1, GiveUpWriter
    <3>3. LeaseInv'
      BY <1>0, <2>1, <3>2 DEF LeaseInv, Leased, Routed, Others, Idle, Free
    <3>4. ~Owns(w)
      BY <2>1, <2>3 DEF Owns, InStore, At, Inserting
    <3> QED
      BY <2>1, <2>2, <3>1, <3>2, <3>3, <3>4, GivesUp
  <2>4. CASE ~Routed(w)
    <3> DEFINE r == [writer[w] EXCEPT !.at = "close", !.todo = {}, !.batch = {}]
    <3>1. writer' = [writer EXCEPT ![w] = r]
      BY <1>t, <2>1, <2>4 DEF Fail
    <3>2. /\ r \in Writer /\ r.at = "close" /\ r.batch = {} /\ r.year = writer[w].year
          /\ r.store = writer[w].store
      <4>1. writer[w] \in Writer /\ "close" \in Steps
        BY <1>t DEF Steps
      <4> QED
        BY <4>1 DEF Writer
    <3> HIDE DEF r
    <3>3. writer' \in [Writers -> Writer] /\ Others(w) /\ writer'[w] = r
      BY <1>t, <3>1, <3>2 DEF Others
    <3> QED
      BY <2>1, <2>2, <2>4, <3>2, <3>3, AboutToClose
  <2> QED
    BY <2>3, <2>4
<1>8. ASSUME NEW w \in Writers, InsertFails(w) \/ Lock(w) \/ RetryFails(w) \/ Create(w) PROVE IInv'
  <2>1. /\ writer[w].at \in InStore /\ \E step \in InStore : Step(w, step)
        /\ UNCHANGED <<setup, stores, handle, closed, holder, rows, lapsed>>
        /\ budget' = budget \/ Disturb
    BY <1>8 DEF InsertFails, Lock, RetryFails, Create, At, InStore
  <2>2. PICK step \in InStore : Step(w, step)
    BY <2>1
  <2>3. writer' \in [Writers -> Writer]
    BY <1>t, <2>2, StepWriter DEF InStore, Steps
  <2>4. writer[w].store \in Stores /\ writer[w].year \in Years
    BY <1>0, <1>u, <1>y, <2>1 DEF WriterInv, InStore, Free
  <2>5. locks' \in [Stores -> Writers \cup {None}] /\ tables' \subseteq Years
    <3>1. locks' = locks \/ locks' = [locks EXCEPT ![writer[w].store] = w]
      BY <1>8 DEF InsertFails, Lock, RetryFails, Create
    <3>2. tables' = tables \/ tables' = tables \cup {writer[w].year}
      BY <1>8 DEF InsertFails, Lock, RetryFails, Create
    <3> QED
      BY <1>t, <2>4, <3>1, <3>2
  <2>6. TypeOK'
    <3>1. budget' \in 0..Budget
      BY <1>b, <1>t, <2>1
    <3> QED
      BY <1>o, <1>t, <2>1, <2>3, <2>5, <3>1
  <2> QED
    BY <2>1, <2>2, <2>6, GoesOn
<1>9. ASSUME NEW w \in Writers, Insert(w) \/ InsertLocked(w) PROVE IInv'
  <2>1. /\ writer[w].at \in InStore /\ Stored(w) /\ Succeed(w)
        /\ UNCHANGED <<setup, stores, handle, closed, holder, tables, lapsed, budget>>
        /\ locks' = locks \/ Unlock(w)
    BY <1>9 DEF Insert, InsertLocked, At, InStore
  <2>2. rows' \subseteq Writers \X Years /\ rows \subseteq rows'
    <3>1. writer[w].year \in Years
      BY <1>y, <2>1 DEF InStore, Free
    <3> QED
      BY <1>t, <2>1, <3>1 DEF Stored
  <2>3. ASSUME writer' \in [Writers -> Writer] PROVE TypeOK'
    BY <1>l, <1>o, <1>t, <2>1, <2>2, <2>3
  <2>4. CASE Routed(w)
    <3>1. NextGroup(w)
      BY <2>1, <2>4 DEF Succeed
    <3>2. writer' \in [Writers -> Writer]
      BY <1>t, <3>1, NextGroupWriter
    <3> QED
      BY <2>1, <2>3, <2>4, <3>1, <3>2, GroupIsStored
  <2>5. CASE ~Routed(w)
    <3>1. Step(w, "close") /\ "close" \in Steps
      BY <2>1, <2>5 DEF Succeed, Steps
    <3>2. /\ writer' \in [Writers -> Writer] /\ Others(w)
          /\ writer'[w].at = "close" /\ writer'[w].todo = writer[w].todo
          /\ writer'[w].batch = writer[w].batch /\ writer'[w].year = writer[w].year
          /\ writer'[w].store = writer[w].store
      BY <1>t, <3>1, StepWriter
    <3> QED
      BY <2>1, <2>2, <2>3, <2>5, <3>2, AboutToClose
  <2> QED
    BY <2>4, <2>5
<1>10. ASSUME NEW w \in Writers, Lookup(w) PROVE IInv'
  <2> DEFINE found == stores[InstanceOf[w]][writer[w].year]
  <2>1. /\ writer[w].at = "lookup"
        /\ writer' = [writer EXCEPT ![w].store = found,
                                    ![w].at = IF found = None THEN "open" ELSE "insert"]
        /\ UNCHANGED <<setup, stores, handle, closed, holder, locks, tables, rows, lapsed, budget>>
    BY <1>10 DEF Lookup, At, Registered
  <2>2. writer[w].year \in Years /\ found \in Stores \cup {None}
    BY <1>t, <1>u, <1>y, <2>1 DEF Free
  <2> HIDE DEF found
  <2>3. /\ writer' \in [Writers -> Writer] /\ Others(w)
        /\ writer'[w].at = IF found = None THEN "open" ELSE "insert"
        /\ writer'[w].todo = writer[w].todo
        /\ writer'[w].batch = writer[w].batch /\ writer'[w].year = writer[w].year
        /\ writer'[w].store = found
    BY <1>t, <2>1, <2>2 DEF Writer, Steps, Others
  <2>4. TypeOK'
    BY <1>o, <1>t, <2>1, <2>3
  <2>5. WriterInv' /\ RoleInv' /\ AckInv' /\ LeaseInv'
    BY <1>0, <2>1, <2>3
       DEF Others, WriterInv, RoleInv, AckInv, LeaseInv, Leased, Routed, Free, InStore
  <2>6. InsertInv'
    BY <1>0, <2>1, <2>3 DEF Others, InsertInv, Routed, found, InStore
  <2>7. RegisteredInv' /\ OwnStoreInv' /\ OpenIsHeld'
    <3>1. Routed(w)
      BY <1>0, <2>1 DEF RoleInv
    <3>2. ~Owns(w) /\ ~Owns(w)'
      BY <2>1, <2>3, <3>1 DEF Owns, Routed, InStore, At, Inserting
    <3> QED
      BY <2>1, <2>3, <3>2, SameOwners
  <2> QED
    BY <2>4, <2>5, <2>6, <2>7 DEF IInv
<1>11. ASSUME NEW w \in Writers, Open(w) PROVE IInv'
  <2>0. PICK s \in Stores :
          Opened(s) /\ writer' = [writer EXCEPT ![w].store = s, ![w].at = "register"]
    BY <1>11 DEF Open
  <2>1. /\ writer[w].at = "open" /\ s \in Stores /\ handle[s] = "unused"
        /\ handle' = [handle EXCEPT ![s] = "open"]
        /\ writer' = [writer EXCEPT ![w].store = s, ![w].at = "register"]
        /\ UNCHANGED <<setup, stores, closed, holder, locks, tables, rows, lapsed, budget>>
    BY <1>11, <2>0, UnusedOpened DEF Open, At
  <2>2. /\ writer' \in [Writers -> Writer] /\ Others(w)
        /\ writer'[w].at = "register" /\ writer'[w].todo = writer[w].todo
        /\ writer'[w].batch = writer[w].batch /\ writer'[w].year = writer[w].year
        /\ writer'[w].store = s
    <3> DEFINE r == [[writer[w] EXCEPT !.store = s] EXCEPT !.at = "register"]
    <3>0. writer[w] \in Writer /\ s \in Stores \cup {None} /\ "register" \in Steps
      BY <1>t, <2>1 DEF Steps
    <3>1. /\ r \in Writer /\ r.at = "register" /\ r.todo = writer[w].todo
          /\ r.batch = writer[w].batch /\ r.year = writer[w].year /\ r.store = s
      BY <3>0 DEF Writer
    <3>2. writer' = [writer EXCEPT ![w] = r]
      BY <1>t, <2>1
    <3> HIDE DEF r
    <3> QED
      BY <1>t, <3>1, <3>2 DEF Others
  <2>3. /\ handle' \in [Stores -> {"unused", "open", "closed"}] /\ handle'[s] = "open"
        /\ \A t \in Stores \ {s} : handle'[t] = handle[t]
    BY <1>t, <2>1
  <2>4. TypeOK'
    BY <1>o, <1>t, <2>1, <2>2, <2>3
  <2>5. s # None
    BY <2>1
  <2>6. WriterInv' /\ RoleInv' /\ AckInv' /\ InsertInv' /\ LeaseInv'
    <3>1. WriterInv' /\ RoleInv'
      BY <1>0, <2>1, <2>2, <2>5 DEF Others, WriterInv, RoleInv, Routed, Free, InStore
    <3>2. AckInv'
      BY <1>0, <2>1, <2>2 DEF Others, AckInv
    <3>3. InsertInv'
      BY <1>0, <2>1, <2>2 DEF Others, InsertInv, Routed, InStore
    <3>4. LeaseInv'
      BY <1>0, <2>1, <2>2 DEF Others, LeaseInv, Leased, Routed, Free
    <3> QED
      BY <3>1, <3>2, <3>3, <3>4
  <2>7. RegisteredInv' /\ OwnStoreInv' /\ OpenIsHeld'
    <3>1. ~Owns(w) /\ Owns(w)'
      BY <2>1, <2>2 DEF Owns, InStore, At, Inserting
    <3> QED
      BY <2>1, <2>2, <3>1, FreshStore
  <2> QED
    BY <2>4, <2>6, <2>7 DEF IInv
<1>12. ASSUME NEW w \in Writers, OpenOwn(w) PROVE IInv'
  <2>1. PICK y \in writer[w].todo, s \in Stores :
          /\ Opened(s)
          /\ writer' = [writer EXCEPT ![w].at = "insert", ![w].year = y, ![w].store = s,
                                      ![w].todo = @ \ {y}]
    BY <1>12 DEF OpenOwn
  <2>2. /\ writer[w].at = "take" /\ ~Routed(w) /\ y \in Years
        /\ handle[s] = "unused" /\ handle' = [handle EXCEPT ![s] = "open"]
        /\ UNCHANGED <<setup, stores, closed, holder, locks, tables, rows, lapsed, budget>>
    BY <1>12, <1>u, <2>1, UnusedOpened DEF OpenOwn, At
  <2> DEFINE r == [writer[w] EXCEPT !.at = "insert", !.year = y, !.store = s, !.todo = @ \ {y}]
  <2>3. writer' = [writer EXCEPT ![w] = r]
    BY <1>t, <2>1
  <2>4. /\ r \in Writer /\ r.at = "insert" /\ r.todo = writer[w].todo \ {y}
        /\ r.batch = writer[w].batch /\ r.year = y /\ r.store = s
    <3>1. writer[w] \in Writer /\ "insert" \in Steps
      BY <1>t DEF Steps, InStore
    <3> QED
      BY <2>2, <3>1 DEF Writer
  <2> HIDE DEF r
  <2>5. writer' \in [Writers -> Writer] /\ Others(w) /\ writer'[w] = r
    BY <1>t, <2>3, <2>4 DEF Others
  <2>6. TypeOK'
    <3>1. handle' \in [Stores -> {"unused", "open", "closed"}]
      BY <1>t, <2>2
    <3> QED
      BY <1>o, <1>t, <2>2, <2>5, <3>1
  <2>7. WriterInv' /\ RoleInv' /\ InsertInv' /\ LeaseInv'
    <3>1. s # None /\ y # None
      BY <2>2
    <3>2. WriterInv' /\ RoleInv'
      BY <1>0, <2>2, <2>4, <2>5, <3>1 DEF Others, WriterInv, RoleInv, Routed, Free, InStore
    <3>3. InsertInv' /\ LeaseInv'
      BY <1>0, <2>2, <2>4, <2>5 DEF Others, InsertInv, LeaseInv, Leased, Routed
    <3> QED
      BY <3>2, <3>3
  <2>8. AckInv'
    BY <2>2, <2>4, <2>5, TakesYear
  <2>9. RegisteredInv' /\ OwnStoreInv' /\ OpenIsHeld'
    <3>1. ~Owns(w) /\ Owns(w)'
      BY <2>2, <2>4, <2>5 DEF Owns, Routed, InStore, At, Inserting
    <3> QED
      BY <2>2, <2>4, <2>5, <3>1, FreshStore
  <2> QED
    BY <2>6, <2>7, <2>8, <2>9 DEF IInv
<1>13. ASSUME NEW w \in Writers, CloseOwn(w) PROVE IInv'
  <2>1. /\ writer[w].at = "close" /\ handle' = [handle EXCEPT ![writer[w].store] = "unused"]
        /\ (NextGroup(w) /\ UNCHANGED budget) \/ (GiveUp(w) /\ Disturb)
        /\ UNCHANGED <<setup, stores, closed, holder, locks, tables, rows, lapsed>>
    BY <1>13 DEF CloseOwn, At
  <2>2. /\ writer' \in [Writers -> Writer] /\ Others(w)
        /\ writer'[w].at \in Free /\ (writer'[w].at = "idle" => writer'[w].todo = {})
        /\ writer'[w].year = None
        /\ \/ writer'[w].batch = {}
           \/ writer'[w].batch = writer[w].batch /\ writer'[w].todo = writer[w].todo
    <3>1. CASE NextGroup(w)
      BY <1>t, <3>1, NextGroupWriter DEF Free
    <3>2. CASE GiveUp(w)
      BY <1>t, <3>2, GiveUpWriter DEF Idle, Free
    <3> QED
      BY <2>1, <3>1, <3>2
  <2>3. TypeOK'
    <3>1. handle' \in [Stores -> {"unused", "open", "closed"}]
      BY <1>t, <2>1
    <3>2. budget' \in 0..Budget
      BY <1>b, <1>t, <2>1
    <3> QED
      BY <1>o, <1>t, <2>1, <2>2, <3>1, <3>2
  <2>4. WriterInv' /\ RoleInv'
    BY <1>0, <2>1, <2>2 DEF Others, WriterInv, RoleInv, Routed, Free, InStore
  <2>5. InsertInv' /\ LeaseInv'
    BY <1>0, <2>1, <2>2 DEF Others, InsertInv, LeaseInv, Leased, Routed, Free, InStore
  <2>6. AckInv'
    <3> SUFFICES ASSUME NEW v \in Writers, NEW y \in writer'[v].batch
                 PROVE  \/ y \in writer'[v].todo
                        \/ y = writer'[v].year /\ writer'[v].at # "close"
                        \/ <<v, y>> \in rows
      BY <2>1 DEF AckInv
    <3>1. CASE v = w
      BY <1>0, <2>1, <2>2, <3>1 DEF AckInv
    <3>2. CASE v # w
      BY <1>0, <2>2, <3>2 DEF AckInv, Others
    <3> QED
      BY <3>1, <3>2
  <2>7. RegisteredInv' /\ OwnStoreInv' /\ OpenIsHeld'
    <3>1. Owns(w) /\ ~Owns(w)'
      BY <1>0, <2>1, <2>2 DEF Owns, RoleInv, Free, InStore, At, Inserting
    <3> QED
      BY <2>1, <2>2, <3>1, StoreGoes
  <2> QED
    BY <2>3, <2>4, <2>5, <2>6, <2>7 DEF IInv
<1>14. ASSUME NEW w \in Writers, GoUnleased(w) PROVE IInv'
  <2>1. PICK y \in writer[w].todo :
          writer' = [writer EXCEPT ![w].at = "lookup", ![w].year = y, ![w].todo = @ \ {y}]
    BY <1>14 DEF GoUnleased
  <2>2. /\ writer[w].at = "take" /\ Routed(w) /\ ~Leased(w) /\ y \in Years
        /\ UNCHANGED <<setup, stores, handle, closed, holder, locks, tables, rows, lapsed, budget>>
    BY <1>14, <1>u DEF GoUnleased, At
  <2>3. /\ writer' \in [Writers -> Writer] /\ Others(w)
        /\ writer'[w].at = "lookup" /\ writer'[w].todo = writer[w].todo \ {y}
        /\ writer'[w].batch = writer[w].batch /\ writer'[w].year = y
    <3> DEFINE r == [writer[w] EXCEPT !.at = "lookup", !.year = y, !.todo = @ \ {y}]
    <3>1. /\ r \in Writer /\ r.at = "lookup" /\ r.todo = writer[w].todo \ {y}
          /\ r.batch = writer[w].batch /\ r.year = y
      <4>1. writer[w] \in Writer /\ "lookup" \in Steps
        BY <1>t DEF Steps
      <4> QED
        BY <2>2, <4>1 DEF Writer
    <3>2. writer' = [writer EXCEPT ![w] = r]
      BY <2>1
    <3> HIDE DEF r
    <3> QED
      BY <1>t, <3>1, <3>2 DEF Others
  <2>4. TypeOK'
    BY <1>o, <1>t, <2>2, <2>3
  <2>5. WriterInv' /\ RoleInv' /\ InsertInv'
    BY <1>0, <2>2, <2>3 DEF Others, WriterInv, RoleInv, Routed, InsertInv, Free, InStore
  <2>6. LeaseInv'
    BY <1>0, <2>2, <2>3 DEF Others, LeaseInv, Leased, Routed
  <2>7. AckInv'
    BY <2>2, <2>3, TakesYear
  <2>8. RegisteredInv' /\ OwnStoreInv' /\ OpenIsHeld'
    <3>1. ~Owns(w) /\ ~Owns(w)'
      BY <2>2, <2>3 DEF Owns, InStore, At, Inserting
    <3> QED
      BY <2>2, <2>3, <3>1, SameOwners
  <2> QED
    BY <2>4, <2>5, <2>6, <2>7, <2>8 DEF IInv
<1>15. ASSUME NEW w \in Writers, Register(w) PROVE IInv'
  <2> DEFINE n == InstanceOf[w]
             y == writer[w].year
             own == writer[w].store
  <2>1. /\ writer[w].at = "register" /\ n \in Instances /\ y \in Years /\ own \in Stores
        /\ Routed(w) /\ Owns(w)
        /\ UNCHANGED <<setup, closed, holder, locks, tables, rows, lapsed, budget>>
    BY <1>0, <1>u, <1>y, <1>15 DEF Register, At, WriterInv, RoleInv, Owns, Free, Inserting
  <2>2. /\ handle[own] = "open"
        /\ \A i \in Instances, z \in Years : stores[i][z] # own
        /\ \A v \in Writers \ {w} : Owns(v) => writer[v].store # own
    BY <1>0, <2>1 DEF OwnStoreInv
  <2>3. CASE stores[n][y] = None
    <3>1. /\ stores' = [stores EXCEPT ![n][y] = own] /\ Step(w, "insert")
          /\ handle' = handle
      BY <1>15, <2>3 DEF Register, Registered
    <3>2. /\ writer' \in [Writers -> Writer] /\ Others(w)
          /\ writer'[w].at = "insert" /\ writer'[w].todo = writer[w].todo
          /\ writer'[w].batch = writer[w].batch /\ writer'[w].year = y
          /\ writer'[w].store = own
      BY <1>t, <3>1, StepWriter DEF Steps, InStore
    <3>3. /\ stores' \in [Instances -> [Years -> Stores \cup {None}]]
          /\ stores'[n][y] = own
          /\ \A i \in Instances, z \in Years : i # n \/ z # y => stores'[i][z] = stores[i][z]
      BY <1>t, <2>1, <3>1
    <3> HIDE DEF n, y, own
    <3>4. TypeOK'
      BY <1>o, <1>t, <2>1, <3>1, <3>2, <3>3
    <3>5. /\ own # None
          /\ \A v \in Writers \ {w} : writer'[v] = writer[v]
                                      /\ (Owns(v)' <=> Owns(v))
          /\ ~Owns(w)'
      BY <2>1, <3>2 DEF Others, Owns, Routed, At, Inserting
    <3>6. WriterInv' /\ RoleInv' /\ AckInv'
      BY <1>0, <2>1, <3>2, <3>5 DEF WriterInv, RoleInv, Routed, AckInv, Free, InStore, n, y, own
    <3>7. RegisteredInv'
      BY <1>0, <2>1, <2>2, <3>1, <3>3 DEF RegisteredInv
    <3>8. OwnStoreInv'
      <4> SUFFICES ASSUME NEW v \in Writers, Owns(v)'
                   PROVE  /\ handle'[writer'[v].store] = "open"
                          /\ \A i \in Instances, z \in Years : stores'[i][z] # writer'[v].store
                          /\ \A x \in Writers : Owns(x)'
                               /\ writer'[x].store = writer'[v].store => x = v
        BY DEF OwnStoreInv
      <4>1. v # w /\ writer'[v] = writer[v] /\ Owns(v)
        BY <3>5
      <4>2. /\ handle[writer[v].store] = "open" /\ writer[v].store # own
            /\ \A i \in Instances, z \in Years : stores[i][z] # writer[v].store
            /\ \A x \in Writers : Owns(x)
                 /\ writer[x].store = writer[v].store => x = v
        BY <1>0, <2>2, <4>1 DEF OwnStoreInv, own
      <4>3. \A i \in Instances, z \in Years : stores'[i][z] # writer[v].store
        BY <3>3, <4>2
      <4>4. ASSUME NEW x \in Writers, Owns(x)', writer'[x].store = writer'[v].store
            PROVE  x = v
        BY <3>5, <4>1, <4>2, <4>4
      <4> QED
        BY <3>1, <4>1, <4>2, <4>3, <4>4
    <3>9. InsertInv'
      <4> SUFFICES ASSUME NEW v \in Writers, writer'[v].at \in InStore, Routed(v),
                          InstanceOf[v] \notin closed
                   PROVE  writer'[v].store = stores'[InstanceOf[v]][writer'[v].year]
        BY <2>1 DEF InsertInv, Routed
      <4>1. CASE v = w
        BY <3>2, <3>3, <4>1 DEF n
      <4>2. CASE v # w
        <5>1. writer'[v] = writer[v]
          BY <3>5, <4>2
        <5>2. /\ writer[v].store = stores[InstanceOf[v]][writer[v].year]
              /\ writer[v].store # None /\ writer[v].year \in Years
          BY <1>0, <1>y, <5>1 DEF InsertInv, WriterInv, InStore, Free
        <5>3. InstanceOf[v] # n \/ writer[v].year # y
          BY <2>3, <5>2
        <5> QED
          BY <1>u, <3>3, <5>1, <5>2, <5>3
      <4> QED
        BY <4>1, <4>2
    <3>10. LeaseInv'
      BY <1>0, <2>1, <3>2 DEF Others, LeaseInv, Leased, Routed, Free, y
    <3>11. OpenIsHeld'
      <4> SUFFICES ASSUME NEW t \in Stores, handle'[t] = "open"
                   PROVE  \/ \E i \in Instances, z \in Years : stores'[i][z] = t
                          \/ \E v \in Writers : Owns(v)' /\ writer'[v].store = t
        BY DEF OpenIsHeld, Owns, At, Inserting
      <4>1. CASE t = own
        BY <2>1, <3>3, <4>1
      <4>2. CASE t # own
        <5>1. \/ \E i \in Instances, z \in Years : stores[i][z] = t
              \/ \E v \in Writers : Owns(v) /\ writer[v].store = t
          BY <1>0, <3>1 DEF OpenIsHeld
        <5>2. CASE \E i \in Instances, z \in Years : stores[i][z] = t
          <6>1. PICK i \in Instances, z \in Years : stores[i][z] = t
            BY <5>2
          <6>2. t # None
            OBVIOUS
          <6>3. i # n \/ z # y
            BY <2>3, <6>1, <6>2
          <6> QED
            BY <3>3, <6>1, <6>3
        <5>3. CASE \E v \in Writers : Owns(v) /\ writer[v].store = t
          <6>1. PICK v \in Writers : Owns(v) /\ writer[v].store = t
            BY <5>3
          <6>2. v # w
            BY <4>2, <6>1 DEF own
          <6> QED
            BY <3>5, <6>1, <6>2
        <5> QED
          BY <5>1, <5>2, <5>3
      <4> QED
        BY <4>1, <4>2
    <3> QED
      BY <3>4, <3>6, <3>7, <3>8, <3>9, <3>10, <3>11 DEF IInv
  <2>4. CASE stores[n][y] # None
    <3>1. /\ handle' = [handle EXCEPT ![own] = "closed"] /\ stores' = stores
          /\ writer' = [writer EXCEPT ![w].store = stores[n][y], ![w].at = "insert"]
      BY <1>15, <2>4 DEF Register, Registered
    <3>2. stores[n][y] \in Stores
      BY <1>t, <2>1, <2>4
    <3>3. /\ writer' \in [Writers -> Writer] /\ Others(w)
          /\ writer'[w].at = "insert" /\ writer'[w].todo = writer[w].todo
          /\ writer'[w].batch = writer[w].batch /\ writer'[w].year = y
          /\ writer'[w].store = stores[n][y]
      <4> DEFINE found == stores[n][y]
      <4>1. /\ found \in Stores
            /\ writer' = [writer EXCEPT ![w].store = found, ![w].at = "insert"]
        BY <3>1, <3>2
      <4> HIDE DEF found, n, y, own
      <4>2. /\ writer' \in [Writers -> Writer] /\ Others(w)
            /\ writer'[w].at = "insert" /\ writer'[w].todo = writer[w].todo
            /\ writer'[w].batch = writer[w].batch /\ writer'[w].year = writer[w].year
            /\ writer'[w].store = found
        <5> DEFINE r == [writer[w] EXCEPT !.store = found, !.at = "insert"]
        <5>1. /\ r \in Writer /\ r.at = "insert" /\ r.todo = writer[w].todo
              /\ r.batch = writer[w].batch /\ r.year = writer[w].year /\ r.store = found
          <6>1. writer[w] \in Writer /\ found \in Stores \cup {None} /\ "insert" \in Steps
            BY <1>t, <4>1 DEF Steps, InStore
          <6> QED
            BY <6>1 DEF Writer
        <5>2. writer' = [writer EXCEPT ![w] = r]
          BY <4>1
        <5> HIDE DEF r
        <5> QED
          BY <1>t, <5>1, <5>2 DEF Others
      <4> QED
        BY <4>2 DEF found, y
    <3>4. handle' \in [Stores -> {"unused", "open", "closed"}]
      BY <1>t, <2>1, <3>1
    <3> HIDE DEF n, y
    <3>5. TypeOK'
      BY <1>o, <1>t, <2>1, <3>1, <3>3, <3>4
    <3>6. WriterInv' /\ RoleInv' /\ AckInv'
      BY <1>0, <2>1, <2>4, <3>3
         DEF Others, WriterInv, RoleInv, Routed, AckInv, Free, InStore, y
    <3>7. InsertInv' /\ LeaseInv'
      <4>1. InsertInv'
        BY <1>0, <2>1, <3>1, <3>3 DEF InsertInv, Routed, Others, n
      <4>2. LeaseInv'
        BY <1>0, <2>1, <3>3 DEF LeaseInv, Leased, Routed, Others, Free, y
      <4> QED
        BY <4>1, <4>2
    <3>8. RegisteredInv' /\ OwnStoreInv' /\ OpenIsHeld'
      <4>1. ~Owns(w)'
        BY <2>1, <3>3 DEF Owns, Routed, At, Inserting
      <4> QED
        BY <2>1, <3>1, <3>3, <4>1, StoreGoes
    <3> QED
      BY <3>5, <3>6, <3>7, <3>8 DEF IInv
  <2> QED
    BY <2>3, <2>4
<1>16. CASE UNCHANGED vars
  <2>1. UNCHANGED <<setup, stores, handle, closed, holder, locks, tables, rows, writer, lapsed,
                    budget>>
    BY <1>16 DEF vars
  <2>2. TypeOK' /\ WriterInv' /\ RoleInv' /\ AckInv' /\ RegisteredInv'
    BY <1>0, <2>1 DEF TypeOK, WriterInv, RoleInv, Routed, AckInv, RegisteredInv
  <2>3. OwnStoreInv' /\ InsertInv' /\ LeaseInv'
    BY <1>0, <2>1 DEF OwnStoreInv, Owns, InsertInv, LeaseInv, Leased, Routed, At, Inserting
  <2>4. OpenIsHeld'
    BY <1>0, <2>1 DEF OpenIsHeld, Owns, Routed, Inserting, At
  <2> QED
    BY <2>2, <2>3, <2>4 DEF IInv
<1> QED
  BY <1>1, <1>2, <1>3, <1>4, <1>5, <1>6, <1>7, <1>8, <1>9, <1>10, <1>11, <1>12, <1>13, <1>14, <1>15,
     <1>16 DEF Next, Route

LEMMA Invariant == Spec => []IInv
<1>1. Init => IInv
  BY IInit
<1>2. IInv /\ [Next]_vars => IInv'
  BY IStep
<1> QED
  BY <1>1, <1>2, PTL DEF Spec

-----------------------------------------------------------------------------
\* Every variable keeps to its type: stores, their mutexes and the writers' places in
\* storeFor and optimisticInsertWithLazyCreate.
THEOREM TypeCorrect == Spec => []TypeOK
<1>1. IInv => TypeOK
  BY DEF IInv
<1> QED
  BY <1>1, Invariant, PTL

\* A writer whose insert returned nil has the rows of all the years of its batch in
\* their tables, however the batch was split, retried, and its tables created.
THEOREM AckedStored == Spec => []AckedIsStored
<1>1. IInv => AckedIsStored
  <2> SUFFICES ASSUME IInv, NEW w \in Writers, writer[w].at = "idle", NEW y \in writer[w].batch
               PROVE  <<w, y>> \in rows
    BY DEF AckedIsStored, At
  <2>1. writer[w].todo = {} /\ writer[w].year = None
    BY DEF IInv, WriterInv, Free
  <2>2. y \in Years /\ y # None
    BY WriteRouterAssumption DEF IInv, TypeOK
  <2> QED
    BY <2>1, <2>2 DEF IInv, AckInv
<1> QED
  BY <1>1, Invariant, PTL

\* Writers of a process that race to open a year's store insert into the one that was
\* registered, which stays open until Close(); every other open store is still in the
\* hands of the writer that will register or close it, or of the backfill that opened it.
THEOREM StoresKept == Spec => []StoresAreKept
<1>1. IInv => OneStore
  <2> SUFFICES ASSUME IInv, NEW w \in Writers, writer[w].at \in InStore, Routed(w),
                      InstanceOf[w] \notin closed
               PROVE  /\ writer[w].store = stores[InstanceOf[w]][writer[w].year]
                      /\ handle[writer[w].store] = "open"
    BY DEF OneStore, Inserting, Registered
  <2>1. writer[w].store = stores[InstanceOf[w]][writer[w].year] /\ writer[w].store # None
    BY DEF IInv, InsertInv, WriterInv
  <2>2. InstanceOf[w] \in Instances
    BY WriteRouterAssumption
  <2>3. writer[w].year \in Years
    BY DEF IInv, TypeOK, WriterInv, InStore, Free
  <2> QED
    BY <2>1, <2>2, <2>3 DEF IInv, RegisteredInv
<1>2. IInv => StoresAreKept
  BY <1>1 DEF IInv, StoresAreKept
<1> QED
  BY <1>2, Invariant, PTL

\* Two processes insert into one year at a time only if one of the two writers has no
\* lease of it: its lease ran out, its router has no lease manager (acquireLease asks
\* nobody then), or it is a backfill, whose stores of its own ask for none.
THEOREM OverlapUnleased == Spec => []OverlapIsUnleased
<1>1. IInv => OverlapIsUnleased
  BY DEF IInv, LeaseInv, OverlapIsUnleased, Protected, Inserting, InStore, Free
<1> QED
  BY <1>1, Invariant, PTL

=============================================================================
