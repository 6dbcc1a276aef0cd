-------------------------- MODULE OpenInterestProofs --------------------------
(***************************************************************************)
(* Theorems about the open-interest collector, for any symbols, items,     *)
(* distance between items, size of an answer and number of disturbances:   *)
(* its types, that what it has met is handled, and that a run through the  *)
(* history covers its window.  What the last one takes is that a page      *)
(* holds everything the exchange lists between its first item and the      *)
(* tick it was asked for.                                                  *)
(***************************************************************************)
EXTENDS OpenInterest, FiniteSetTheorems, WellFoundedInduction, TLAPS

-----------------------------------------------------------------------------
\* Items and pages

\* The time of an item lies in the range of the clock.
LEMMA TimeOfItem ==
  ASSUME NEW k \in 0..Last
  PROVE  k * Step \in 0..(Last * Step)
<1>1. k \in Nat /\ Last - k \in Nat /\ Step \in Nat
  BY OpenInterestAssumption
<1>2. k * Step \in Nat /\ (Last - k) * Step \in Nat
  BY <1>1
<1>3. k * Step + (Last - k) * Step = Last * Step
  BY <1>1, OpenInterestAssumption
<1> QED
  BY <1>1, <1>2, <1>3, OpenInterestAssumption

LEMMA LessIsWellFounded == IsWellFoundedOn({p \in Nat \X Nat : p[1] < p[2]}, Nat)
BY NatLessThanWellFounded DEF OpToRel

LEMMA SmallestOf ==
  ASSUME NEW T \in SUBSET Nat, T # {}
  PROVE  \E m \in T : \A n \in T : m <= n
<1> DEFINE less == {p \in Nat \X Nat : p[1] < p[2]}
<1>1. \A n, m \in Nat : n < m => <<n, m>> \in less
  OBVIOUS
<1>2. IsWellFoundedOn(less, Nat)
  BY LessIsWellFounded
<1> HIDE DEF less
<1>3. PICK m \in T : \A n \in T : <<n, m>> \notin less
  BY <1>2, WFMin
<1>4. \A n \in T : n \in Nat /\ m \in Nat /\ ~(n < m)
  BY <1>1, <1>3
<1> QED
  BY <1>4

\* A set of items that is not empty has a first one, and a last one.
LEMMA FirstAndLast ==
  ASSUME NEW page \in SUBSET Items, page # {}
  PROVE  /\ Oldest(page) \in page /\ \A y \in page : Oldest(page).k <= y.k
         /\ \E x \in page : \A y \in page : y.k <= x.k
<1>1. \A x \in page : x.k \in 0..Last
  BY DEF Items
<1>2. \E x \in page : \A y \in page : x.k <= y.k
  <2> DEFINE T == {x.k : x \in page}
  <2>1. T \in SUBSET Nat /\ T # {}
    BY <1>1
  <2>2. PICK m \in T : \A n \in T : m <= n
    BY <2>1, SmallestOf
  <2> QED
    BY <2>2
<1>3. \E x \in page : \A y \in page : y.k <= x.k
  <2> DEFINE T == {Last - x.k : x \in page}
  <2>1. T \in SUBSET Nat /\ T # {}
    BY <1>1, OpenInterestAssumption
  <2>2. PICK m \in T : \A n \in T : m <= n
    BY <2>1, SmallestOf
  <2>3. PICK x \in page : m = Last - x.k
    BY <2>2
  <2>4. \A y \in page : Last - x.k <= Last - y.k
    BY <2>2, <2>3
  <2> QED
    BY <1>1, <2>4, OpenInterestAssumption
<1> QED
  BY <1>2, <1>3 DEF Oldest

\* The items of one symbol are finitely many.
LEMMA ItemsAreFinite ==
  ASSUME NEW s \in Symbols, NEW T \in SUBSET {x \in Items : x.sym = s}
  PROVE  IsFiniteSet(T)
<1> DEFINE all == {x \in Items : x.sym = s}
           f   == [k \in 0..Last |-> Item(s, k)]
<1>1. f \in [0..Last -> all] /\ \A x \in all : \E k \in 0..Last : f[k] = x
  BY DEF Items, Item
<1>2. f \in Surjection(0..Last, all)
  BY <1>1 DEF Surjection
<1>3. IsFiniteSet(0..Last)
  BY OpenInterestAssumption, FS_Interval
<1>4. IsFiniteSet(all)
  BY <1>2, <1>3, FS_Surjection
<1> QED
  BY <1>4, FS_Subset

UpTo(s, to) == {x \in Items : x.sym = s /\ x.k * Step <= to}

\* A page misses nothing between its first item and the tick it was asked for, and holds
\* something when there is anything.
LEMMA PageIsDense ==
  ASSUME NEW s \in Symbols, NEW to
  PROVE  /\ Page(s, to) \subseteq UpTo(s, to)
         /\ UpTo(s, to) # {} => Page(s, to) # {}
         /\ \A x \in Page(s, to) : \A y \in UpTo(s, to) : x.k <= y.k => y \in Page(s, to)
<1> DEFINE after(x) == {y \in UpTo(s, to) : y.k > x.k}
<1>1. Page(s, to) = {x \in UpTo(s, to) : Cardinality(after(x)) < Limit}
  BY DEF Page, UpTo
<1>2. \A x : IsFiniteSet(after(x)) /\ Cardinality(after(x)) \in Nat
  <2> TAKE x
  <2>1. after(x) \in SUBSET {y \in Items : y.sym = s}
    BY DEF UpTo
  <2> QED
    BY <2>1, ItemsAreFinite, FS_CardinalityType
<1>k. \A x \in UpTo(s, to) : x.k \in Nat /\ x \in Items
  BY OpenInterestAssumption DEF UpTo, Items
<1>3. ASSUME UpTo(s, to) # {} PROVE Page(s, to) # {}
  <2>1. PICK x \in UpTo(s, to) : \A y \in UpTo(s, to) : y.k <= x.k
    <3>1. UpTo(s, to) \in SUBSET Items
      BY DEF UpTo
    <3> QED
      BY <1>3, <3>1, FirstAndLast
  <2>2. after(x) = {}
    BY <1>k, <2>1
  <2>3. Cardinality(after(x)) = 0
    BY <2>2, FS_EmptySet
  <2> HIDE DEF after
  <2> QED
    BY <1>1, <2>1, <2>3, OpenInterestAssumption
<1>4. ASSUME NEW x \in Page(s, to), NEW y \in UpTo(s, to), x.k <= y.k
      PROVE  y \in Page(s, to)
  <2>1. x \in UpTo(s, to) /\ Cardinality(after(x)) < Limit
    BY <1>1
  <2>2. after(y) \in SUBSET after(x)
    BY <1>k, <1>4, <2>1
  <2> HIDE DEF after
  <2>3. Cardinality(after(y)) <= Cardinality(after(x))
    BY <1>2, <2>2, FS_Subset
  <2>4. Cardinality(after(y)) \in Nat /\ Cardinality(after(x)) \in Nat
    BY <1>2
  <2> QED
    BY <1>1, <2>1, <2>3, <2>4, OpenInterestAssumption
<1>5. Page(s, to) \subseteq UpTo(s, to)
  BY <1>1
<1> QED
  BY <1>3, <1>4, <1>5

\* An item that is not more than a tick before another is not before it.
LEMMA NoItemBetween ==
  ASSUME NEW k \in 0..Last, NEW l \in 0..Last, k * Step >= l * Step - 1
  PROVE  k >= l
<1> SUFFICES ASSUME l - k >= 1 PROVE FALSE
  BY OpenInterestAssumption
<1>1. k \in Nat /\ l \in Nat /\ Step \in Nat /\ Step >= 2 /\ l - k - 1 \in Nat
  BY OpenInterestAssumption
<1>2. (l - k - 1) * Step \in Nat
  BY <1>1
<1>3. l * Step = k * Step + Step + (l - k - 1) * Step
  BY <1>1
<1>4. k * Step \in Nat /\ l * Step \in Nat
  BY <1>1
<1> QED
  BY <1>1, <1>2, <1>3, <1>4

-----------------------------------------------------------------------------
\* The inductive invariant

Inserts == {"insert", "insertWS", "insertHistory"}

Handled == stored \cup batch \cup failed

\* Items are in hand only at an insert.
HandInv ==
  /\ pc \notin Inserts => batch = {}
  /\ lastSeen \subseteq Handled

\* What a run through the history is done with: the symbols before the one in hand, of
\* that one what is listed after the cursor, or all of it, and everything in the end.
DoneWith(x) ==
  \/ x.sym < i
  \/ x.sym = i /\ (x.k * Step > cursor \/ cursor <= window.start)
  \/ pc = "over" /\ stop = "idle"

HistoryInv ==
  direction = "reverse" =>
    /\ \A x \in stored \cup batch : InWindow(x)
    /\ pc = "history" => cursor > window.start
    /\ window.start < window.end =>
         \A x \in Items : InWindow(x) /\ DoneWith(x) => x \in Handled

IInv == TypeOK /\ HandInv /\ HistoryInv

LEMMA IInit == Init => IInv
<1> SUFFICES ASSUME Init PROVE IInv
  OBVIOUS
<1> USE OpenInterestAssumption
<1>1. /\ stored = {} /\ failed = {} /\ lastSeen = {} /\ pc = Start(direction)
      /\ i = 1 /\ cursor = window.end /\ batch = {} /\ conn = "none" /\ queue = <<>>
      /\ stop = "idle" /\ budget = Budget
  BY DEF Init
<1>2. any \in BOOLEAN
  BY Zenon DEF Init
<1>3. /\ direction \in {"forward", "reverse"} /\ window \in Window
      /\ latest \in [Symbols -> 0..Last]
  <2>1. Last * Step \in Nat
    OBVIOUS
  <2>2. [start |-> 0, end |-> 0] \in Window
    BY <2>1 DEF Window, Ticks
  <2> QED
    BY <2>2 DEF Init
<1>4. TypeOK
  <2>1. cursor \in -1..(Last * Step + 1)
    <3>1. Last * Step \in Nat
      OBVIOUS
    <3> QED
      BY <1>1, <1>3, <3>1 DEF Window, Ticks
  <2>2. queue \in Seq(Items) /\ i \in Symbols
    BY <1>1 DEF Symbols
  <2>3. pc \in (IF direction = "forward" THEN Forward ELSE Reverse) \cup {"over"}
    BY <1>1, <1>3 DEF Start, Forward, Reverse
  <2> QED
    BY <1>1, <1>2, <1>3, <2>1, <2>2, <2>3 DEF TypeOK
<1>5. HandInv
  BY <1>1 DEF HandInv
<1>6. HistoryInv
  <2>1. \A x \in Items : x.sym \in Nat /\ x.sym >= 1
    BY DEF Items, Symbols
  <2>2. pc # "history" /\ pc # "over"
    BY <1>1 DEF Start
  <2>3. ASSUME window.start < window.end, NEW x \in Items, InWindow(x) PROVE ~DoneWith(x)
    <3>1. x.k * Step <= window.end
      BY <2>3 DEF InWindow
    <3>2. x.k * Step \in Int /\ window.end \in Int /\ window.start \in Int
      <4>1. x.k \in 0..Last
        BY DEF Items
      <4>2. x.k * Step \in Int
        BY <4>1
      <4> QED
        BY <1>3, <4>2 DEF Window, Ticks
    <3> QED
      BY <1>1, <2>1, <2>2, <2>3, <3>1, <3>2 DEF DoneWith
  <2> QED
    BY <1>1, <2>2, <2>3 DEF HistoryInv
<1> QED
  BY <1>4, <1>5, <1>6 DEF IInv

LEMMA IStep ==
  ASSUME IInv, [Next]_vars
  PROVE  IInv'
<1> USE OpenInterestAssumption
<1>0. TypeOK /\ HandInv /\ HistoryInv
  BY DEF IInv
<1>s. Last * Step \in Nat
  OBVIOUS
<1>t. /\ direction \in {"forward", "reverse"} /\ window \in Window
      /\ window.start \in 0..(Last * Step + 1) /\ window.end \in 0..(Last * Step + 1)
      /\ latest \in [Symbols -> 0..Last]
      /\ stored \subseteq Items /\ failed \subseteq Items /\ lastSeen \subseteq Items
      /\ batch \subseteq Items /\ i \in Symbols /\ queue \in Seq(Items)
      /\ cursor \in -1..(Last * Step + 1)
      /\ budget \in 0..Budget
  BY <1>0, <1>s DEF TypeOK, Window, Ticks
<1>b. Failure \/ Disturb => budget' \in 0..Budget
  BY <1>t DEF Failure, Disturb
<1>r. /\ direction = "forward" => pc \notin Reverse
      /\ direction = "reverse" => pc \notin Forward
  BY <1>0 DEF TypeOK, Forward, Reverse
<1>x. \A x \in Items : x.k \in 0..Last /\ x.k * Step \in Int /\ x.sym \in Symbols
  <2> SUFFICES ASSUME NEW x \in Items PROVE x.k \in 0..Last /\ x.k * Step \in Int /\ x.sym \in Symbols
    OBVIOUS
  <2>1. x.k \in 0..Last /\ x.sym \in Symbols
    BY DEF Items
  <2> QED
    BY <2>1
\* The handlers of the forward mode leave a run through the history alone.
<1>h. ASSUME direction' = direction, pc \in Forward PROVE HistoryInv'
  BY <1>h, <1>r, <1>t DEF HistoryInv
\* So do the exchange, the socket, and Stop().
<1>g. ASSUME UNCHANGED <<direction, window, stored, failed, lastSeen, pc, i, cursor, batch>>,
             stop' = "idle" => stop = "idle"
      PROVE  HandInv' /\ HistoryInv'
  BY <1>0, <1>g DEF HandInv, HistoryInv, Handled, DoneWith, InWindow
<1>1. CASE \E s \in Symbols : NewItem(s)
  <2>1. PICK s \in Symbols : NewItem(s)
    BY <1>1
  <2>2. /\ latest' = [latest EXCEPT ![s] = @ + 1] /\ latest[s] < Last
        /\ queue' = queue \/ queue' = Append(queue, Item(s, latest'[s]))
        /\ UNCHANGED <<direction, window, stored, failed, lastSeen, pc, i, any, cursor, batch,
                       conn, stop, budget>>
    BY <2>1 DEF NewItem
  <2>3. latest' \in [Symbols -> 0..Last] /\ latest'[s] \in 0..Last
    BY <1>t, <2>2
  <2>4. queue' \in Seq(Items)
    <3>1. Item(s, latest'[s]) \in Items
      BY <2>3 DEF Item, Items
    <3> QED
      <4>1. CASE queue' = queue
        BY <1>t, <4>1
      <4>2. CASE queue' = Append(queue, Item(s, latest'[s]))
        <5> DEFINE x == Item(s, latest'[s])
        <5>1. x \in Items /\ queue' = Append(queue, x) /\ queue \in Seq(Items)
          BY <1>t, <3>1, <4>2
        <5> HIDE DEF x
        <5> QED
          BY <5>1
      <4> QED
        BY <2>2, <4>1, <4>2
  <2>5. TypeOK'
    BY <1>0, <2>2, <2>3, <2>4 DEF TypeOK
  <2> QED
    BY <1>g, <2>2, <2>5 DEF IInv
<1>2. CASE ConnBreaks \/ Cancel \/ CloseDone \/ CloseConn
  <2>1. /\ UNCHANGED <<direction, window, latest, stored, failed, lastSeen, pc, i, any, cursor,
                       batch, queue>>
        /\ stop' = "idle" => stop = "idle"
        /\ budget' = budget \/ Disturb
    BY <1>2 DEF ConnBreaks, Cancel, CloseDone, CloseConn, exchange
  <2>2. /\ conn' \in {"none", "up", "broken", "shut"}
        /\ stop' \in {"idle", "cancelled", "closing", "done"}
    BY <1>0, <1>2 DEF TypeOK, ConnBreaks, Cancel, CloseDone, CloseConn
  <2>3. TypeOK'
    BY <1>0, <1>b, <2>1, <2>2 DEF TypeOK
  <2> QED
    BY <1>g, <2>1, <2>3 DEF IInv
<1>3. CASE UNCHANGED vars
  <2>1. TypeOK'
    BY <1>0, <1>3 DEF TypeOK, vars
  <2> QED
    BY <1>g, <1>3, <2>1 DEF IInv, vars
\* The next symbol of a poll, or what comes after its last one.
<1>n. ASSUME NEW success \in BOOLEAN, NextSymbol(success)
      PROVE  any' \in BOOLEAN /\ i' \in Symbols /\ pc' \in {"gap", "pause", "dial"}
  <2>1. any' \in BOOLEAN
    BY <1>n, Zenon DEF NextSymbol
  <2>2. CASE i < N
    BY <1>n, <1>t, <2>1, <2>2 DEF NextSymbol, GoTo, Symbols
  <2>3. CASE ~(i < N)
    <3>1. i' = i /\ pc' \in {"pause", "dial"}
      BY <1>n, <2>3 DEF NextSymbol, GoTo
    <3> QED
      BY <1>t, <2>1, <3>1
  <2> QED
    BY <2>2, <2>3
<1>a. any \in BOOLEAN
  BY <1>0, Zenon DEF TypeOK
<1>4. CASE Top \/ Gap \/ Pause \/ ConnectFails
  <2>1. /\ UNCHANGED <<direction, window, latest, stored, failed, lastSeen, cursor, batch,
                       conn, queue, stop>>
        /\ budget' = budget \/ Failure
        /\ i' = i \/ i' = 1
        /\ pc \in Forward \ Inserts
    BY <1>4 DEF Top, Gap, Pause, ConnectFails, exchange, socket, Forward, Inserts
  <2>2. pc' \in {"poll", "dial", "pause", "top", "over"}
    BY <1>4 DEF Top, Gap, Pause, ConnectFails, GoTo, GoOn
  <2>3. any' \in BOOLEAN
    BY <1>4, <1>a, Zenon DEF Top, Gap, Pause, ConnectFails
  <2>4. direction = "forward"
    BY <1>r, <1>t, <2>1
  <2>5. i' \in Symbols /\ budget' \in 0..Budget
    BY <1>b, <1>t, <2>1 DEF Symbols
  <2>6. TypeOK'
    BY <1>0, <2>1, <2>2, <2>3, <2>4, <2>5 DEF TypeOK, Forward
  <2>7. HandInv'
    BY <1>0, <2>1, <2>2 DEF HandInv, Handled, Inserts
  <2> QED
    BY <1>h, <2>1, <2>6, <2>7 DEF IInv
<1>5. CASE FetchHTTP
  <2> DEFINE x == Item(i, latest[i])
  <2>1. /\ pc = "poll" /\ UNCHANGED <<direction, window, latest, stored, failed, cursor, conn, queue,
                                     stop, budget>>
    BY <1>5 DEF FetchHTTP, exchange, socket
  <2>2. x \in Items
    BY <1>t DEF Item, Items
  <2>3. direction = "forward" /\ batch = {}
    BY <1>0, <1>r, <1>t, <2>1 DEF Forward, Inserts, HandInv
  <2>4. \/ NextSymbol(TRUE) /\ UNCHANGED <<lastSeen, batch>>
        \/ /\ lastSeen' = lastSeen \cup {x} /\ batch' = {x} /\ pc' = "insert"
           /\ UNCHANGED <<i, any>>
    BY <1>5 DEF FetchHTTP, GoTo
  <2> HIDE DEF x
  <2>5. /\ any' \in BOOLEAN /\ i' \in Symbols
        /\ \/ pc' \in {"gap", "pause", "dial"} /\ lastSeen' = lastSeen /\ batch' = batch
           \/ pc' = "insert" /\ lastSeen' = lastSeen \cup {x} /\ batch' = {x}
    <3>1. CASE NextSymbol(TRUE) /\ UNCHANGED <<lastSeen, batch>>
      <4>1. TRUE \in BOOLEAN
        BY Zenon
      <4> QED
        <5>1. any' \in BOOLEAN /\ i' \in Symbols /\ pc' \in {"gap", "pause", "dial"}
          BY <1>n, <3>1, <4>1, Zenon
        <5>2. /\ pc' \in {"gap", "pause", "dial"}
              /\ lastSeen' = lastSeen /\ batch' = batch
          BY <3>1, <5>1
        <5> QED
          BY <5>1, <5>2, Zenon
    <3>2. CASE lastSeen' = lastSeen \cup {x} /\ batch' = {x} /\ pc' = "insert" /\ UNCHANGED <<i, any>>
      <4>1. any' \in BOOLEAN
        BY <1>a, <3>2, Zenon
      <4> QED
        BY <1>t, <3>2, <4>1
    <3> QED
      BY <2>4, <3>1, <3>2, Zenon
  <2>6. TypeOK'
    BY <1>0, <2>1, <2>2, <2>3, <2>5 DEF TypeOK, Forward
  <2>7. HandInv'
    BY <1>0, <2>1, <2>3, <2>5 DEF HandInv, Handled, Inserts
  <2> QED
    BY <1>h, <2>1, <2>6, <2>7 DEF IInv, Forward
<1>6. CASE FetchHTTPFails
  <2>1. /\ pc = "poll" /\ Failure /\ NextSymbol(any)
        /\ UNCHANGED <<direction, window, latest, stored, failed, lastSeen, cursor, batch, conn,
                       queue, stop>>
    BY <1>6 DEF FetchHTTPFails, exchange, socket
  <2>2. any' \in BOOLEAN /\ i' \in Symbols /\ pc' \in {"gap", "pause", "dial"}
    BY <1>a, <1>n, <2>1
  <2>3. direction = "forward"
    BY <1>r, <1>t, <2>1 DEF Forward
  <2>4. TypeOK'
    BY <1>0, <1>b, <2>1, <2>2, <2>3 DEF TypeOK, Forward
  <2>5. HandInv'
    BY <1>0, <2>1, <2>2 DEF HandInv, Handled, Inserts
  <2> QED
    BY <1>h, <2>1, <2>4, <2>5 DEF IInv, Forward
<1>7. CASE InsertOpenInterest \/ InsertOpenInterestFails
  <2>1. /\ pc = "insert" /\ batch' = {} /\ (budget' = budget \/ Failure)
        /\ stored \subseteq stored' /\ stored' \subseteq stored \cup batch
        /\ failed \subseteq failed' /\ failed' \subseteq failed \cup batch
        /\ batch \subseteq stored' \cup failed'
        /\ UNCHANGED <<direction, window, latest, lastSeen, cursor, conn, queue, stop>>
    BY <1>7 DEF InsertOpenInterest, InsertOpenInterestFails, exchange, socket
  <2>2. NextSymbol(TRUE) \/ NextSymbol(any)
    BY <1>7 DEF InsertOpenInterest, InsertOpenInterestFails
  <2>3. any' \in BOOLEAN /\ i' \in Symbols /\ pc' \in {"gap", "pause", "dial"}
    BY <1>a, <1>n, <2>2
  <2>4. direction = "forward"
    BY <1>r, <1>t, <2>1 DEF Forward
  <2>5. stored' \subseteq Items /\ failed' \subseteq Items /\ budget' \in 0..Budget
    BY <1>b, <1>t, <2>1
  <2>6. TypeOK'
    BY <1>0, <2>1, <2>3, <2>4, <2>5 DEF TypeOK, Forward
  <2>7. HandInv'
    BY <1>0, <2>1 DEF HandInv, Handled
  <2> QED
    BY <1>h, <2>1, <2>6, <2>7 DEF IInv, Forward
<1>8. CASE Connect
  <2>1. /\ pc = "dial" /\ pc' = "recv" /\ conn' = "up" /\ queue' = <<>>
        /\ UNCHANGED <<direction, window, latest, stored, failed, lastSeen, i, any, cursor, batch,
                       stop, budget>>
    BY <1>8 DEF Connect, exchange, GoTo
  <2>2. direction = "forward" /\ queue' \in Seq(Items)
    BY <1>r, <1>t, <2>1 DEF Forward
  <2>3. TypeOK'
    BY <1>0, <2>1, <2>2 DEF TypeOK, Forward
  <2>4. HandInv'
    BY <1>0, <2>1 DEF HandInv, Handled, Inserts
  <2> QED
    BY <1>h, <2>1, <2>3, <2>4 DEF IInv, Forward
<1>9. CASE Recv
  <2>1. /\ pc = "recv" /\ queue # <<>> /\ queue' = Tail(queue)
        /\ UNCHANGED <<direction, window, latest, stored, failed, i, any, cursor, conn, stop, budget>>
    BY <1>9 DEF Recv, exchange
  <2>2. \/ UNCHANGED <<lastSeen, batch, pc>>
        \/ /\ lastSeen' = lastSeen \cup {Head(queue)} /\ batch' = {Head(queue)}
           /\ pc' = "insertWS"
    BY <1>9 DEF Recv, GoTo
  <2>3. Head(queue) \in Items /\ Tail(queue) \in Seq(Items)
    BY <1>t, <2>1
  <2>4. direction = "forward" /\ batch = {}
    BY <1>0, <1>r, <1>t, <2>1 DEF Forward, HandInv, Inserts
  <2>5. TypeOK'
    BY <1>0, <2>1, <2>2, <2>3, <2>4 DEF TypeOK, Forward
  <2>6. HandInv'
    BY <1>0, <2>1, <2>2, <2>4 DEF HandInv, Handled, Inserts
  <2> QED
    BY <1>h, <2>1, <2>5, <2>6 DEF IInv, Forward
<1>10. CASE RecvFails \/ RecvCancelled
  <2>1. /\ pc = "recv" /\ conn' = "none" /\ queue' = <<>>
        /\ UNCHANGED <<direction, window, latest, stored, failed, lastSeen, i, any, cursor, batch,
                       stop, budget>>
    BY <1>10 DEF RecvFails, RecvCancelled, HangUp, exchange
  <2>2. pc' \in {"over", "pause"}
    BY <1>10 DEF RecvFails, RecvCancelled, GoTo, GoOn
  <2>3. direction = "forward" /\ queue' \in Seq(Items)
    BY <1>r, <1>t, <2>1 DEF Forward
  <2>4. TypeOK'
    BY <1>0, <2>1, <2>2, <2>3 DEF TypeOK, Forward
  <2>5. HandInv'
    BY <1>0, <2>1 DEF HandInv, Handled, Inserts
  <2> QED
    BY <1>h, <2>1, <2>4, <2>5 DEF IInv, Forward
<1>11. CASE InsertFromWS
  <2>1. /\ pc = "insertWS" /\ pc' = "recv" /\ batch' = {} /\ (budget' = budget \/ Failure)
        /\ stored \subseteq stored' /\ stored' \subseteq stored \cup batch
        /\ failed \subseteq failed' /\ failed' \subseteq failed \cup batch
        /\ batch \subseteq stored' \cup failed'
        /\ UNCHANGED <<direction, window, latest, lastSeen, i, any, cursor, conn, queue, stop>>
    BY <1>11 DEF InsertFromWS, exchange, socket, GoTo
  <2>2. direction = "forward"
    BY <1>r, <1>t, <2>1 DEF Forward
  <2>3. stored' \subseteq Items /\ failed' \subseteq Items /\ budget' \in 0..Budget
    BY <1>b, <1>t, <2>1
  <2>4. TypeOK'
    BY <1>0, <2>1, <2>2, <2>3 DEF TypeOK, Forward
  <2>5. HandInv'
    BY <1>0, <2>1 DEF HandInv, Handled
  <2> QED
    BY <1>h, <2>1, <2>4, <2>5 DEF IInv, Forward
<1>12. CASE NextHistory
  <2>1. /\ pc = "next"
        /\ UNCHANGED <<direction, window, latest, stored, failed, lastSeen, any, batch, conn, queue,
                       stop, budget>>
    BY <1>12 DEF NextHistory, exchange, socket
  <2>2. direction = "reverse"
    BY <1>r, <1>t, <2>1 DEF Reverse
  <2>3. \/ stop # "idle" /\ pc' = "over" /\ UNCHANGED <<i, cursor>>
        \/ cursor > window.start /\ pc' = "history" /\ UNCHANGED <<i, cursor>>
        \/ /\ ~(cursor > window.start) /\ i < N /\ i' = i + 1 /\ cursor' = window.end
           /\ pc' = "next"
        \/ ~(cursor > window.start) /\ ~(i < N) /\ pc' = "over" /\ UNCHANGED <<i, cursor>>
    BY <1>12 DEF NextHistory, ctxDone, GoTo
  <2>4. i' \in Symbols /\ cursor' \in -1..(Last * Step + 1)
    BY <1>s, <1>t, <2>3 DEF Symbols
  <2>5. TypeOK'
    BY <1>0, <2>1, <2>2, <2>3, <2>4 DEF TypeOK, Reverse
  <2>6. HandInv'
    BY <1>0, <2>1 DEF HandInv, Handled, Inserts
  <2>7. ASSUME window.start < window.end, NEW x \in Items, InWindow(x), DoneWith(x)'
        PROVE  x \in Handled
    <3>1. x.k * Step \in Int /\ x.sym \in 1..N /\ i \in 1..N /\ x.k * Step <= window.end
      BY <1>t, <1>x, <2>7 DEF InWindow, Symbols
    <3>2. DoneWith(x)
      <4>1. /\ cursor \in Int /\ i \in Int /\ N \in Int /\ stop' = stop
            /\ window.start \in Int /\ window.end \in Int /\ window' = window
        BY <1>s, <1>t, <2>1, <3>1
      <4>2. CASE UNCHANGED <<i, cursor>>
        <5>1. pc' = "over" /\ stop' = "idle" => i = N /\ cursor <= window.start
          BY <2>3, <3>1, <4>1, <4>2
        <5> QED
          BY <2>7, <3>1, <4>1, <4>2, <5>1 DEF DoneWith
      <4>3. CASE /\ ~(cursor > window.start) /\ i < N /\ i' = i + 1 /\ cursor' = window.end
                 /\ pc' = "next"
        <5>1. x.sym < i + 1
          BY <2>7, <3>1, <4>1, <4>3 DEF DoneWith
        <5> QED
          BY <3>1, <4>1, <4>3, <5>1 DEF DoneWith
      <4> QED
        BY <2>3, <4>2, <4>3
    <3> QED
      BY <1>0, <2>2, <2>7, <3>2 DEF HistoryInv
  <2>8. HistoryInv'
    <3>1. /\ Handled' = Handled /\ window' = window /\ direction' = direction
          /\ pc' \in {"over", "history", "next"} /\ batch' = batch /\ stored' = stored
      BY <2>1, <2>3 DEF Handled
    <3>2. pc' = "history" => cursor' > window.start
      BY <2>3
    <3> QED
      BY <1>0, <2>2, <2>7, <3>1, <3>2 DEF HistoryInv, InWindow
  <2> QED
    BY <2>5, <2>6, <2>8 DEF IInv
<1>13. CASE FetchHistory
  <2> DEFINE page == Page(i, cursor)
  <2>1. /\ pc = "history"
        /\ UNCHANGED <<direction, window, latest, stored, failed, i, any, conn, queue, stop, budget>>
    BY <1>13 DEF FetchHistory, exchange, socket
  <2>2. direction = "reverse" /\ batch = {} /\ cursor > window.start
    BY <1>0, <1>r, <1>t, <2>1 DEF Reverse, HandInv, HistoryInv, Inserts
  <2>3. /\ page = {} => cursor' = window.start /\ pc' = "next" /\ UNCHANGED <<lastSeen, batch>>
        /\ page # {} => /\ batch' = {x \in page : InWindow(x) /\ x \notin lastSeen}
                        /\ lastSeen' = lastSeen \cup batch'
                        /\ cursor' = Oldest(page).k * Step - 1 /\ pc' = "insertHistory"
    BY <1>13 DEF FetchHistory, FilterHistory, BeforePage, GoTo
  <2>4. /\ page \subseteq UpTo(i, cursor) /\ page \subseteq Items
        /\ UpTo(i, cursor) # {} => page # {}
        /\ \A x \in page : \A y \in UpTo(i, cursor) : x.k <= y.k => y \in page
    BY <1>t, PageIsDense DEF UpTo
  <2> HIDE DEF page
  <2>5. page # {} => Oldest(page) \in page /\ Oldest(page).k \in 0..Last
    BY <1>x, <2>4, FirstAndLast
  <2>6. cursor' \in -1..(Last * Step + 1)
    <3>1. CASE page = {}
      BY <1>s, <1>t, <2>3, <3>1
    <3>2. CASE page # {}
      <4>1. Oldest(page).k * Step \in 0..(Last * Step)
        BY <2>5, <3>2, TimeOfItem
      <4> QED
        BY <1>s, <2>3, <3>2, <4>1
    <3> QED
      BY <3>1, <3>2
  <2>7. batch' \subseteq Items /\ lastSeen' \subseteq Items /\ pc' \in {"next", "insertHistory"}
    BY <1>t, <2>3, <2>4
  <2>8. TypeOK'
    BY <1>0, <2>1, <2>2, <2>6, <2>7 DEF TypeOK, Reverse
  <2>9. HandInv'
    BY <1>0, <2>1, <2>2, <2>3 DEF HandInv, Handled, Inserts
  <2>10. ASSUME window.start < window.end, NEW x \in Items, InWindow(x), DoneWith(x)'
         PROVE  x \in Handled'
    <3>1. x.k * Step \in Int /\ x.k \in 0..Last /\ window.start <= x.k * Step
      BY <1>x, <2>10 DEF InWindow
    <3>2. Handled \subseteq Handled'
      BY <2>1, <2>2 DEF Handled
    <3>3. CASE DoneWith(x)
      BY <1>0, <2>2, <2>10, <3>2, <3>3 DEF HistoryInv
    <3>4. CASE ~DoneWith(x)
      <4>1. x.sym = i /\ x.k * Step <= cursor
        <5>1. i' = i /\ i \in Nat /\ x.sym \in Nat /\ pc' # "over"
          BY <1>t, <2>1, <2>7, <1>x DEF Symbols
        <5>2. ~(x.sym < i)
          BY <3>4 DEF DoneWith
        <5>3. x.sym <= i
          BY <2>10, <5>1 DEF DoneWith
        <5>4. x.sym = i
          BY <5>1, <5>2, <5>3
        <5>5. ~(x.k * Step > cursor)
          BY <3>4, <5>4 DEF DoneWith
        <5> QED
          BY <1>t, <3>1, <5>4, <5>5
      <4>2. x \in UpTo(i, cursor) /\ page # {}
        BY <2>4, <4>1 DEF UpTo
      <4>3. Oldest(page).k * Step \in 0..(Last * Step)
        BY <2>5, <4>2, TimeOfItem
      <4>4. x.k * Step >= Oldest(page).k * Step - 1
        <5>1. x.k * Step > cursor' \/ cursor' <= window.start
          BY <2>1, <2>7, <2>10, <4>1, <1>t DEF DoneWith, Symbols
        <5>2. cursor' = Oldest(page).k * Step - 1 /\ cursor' \in Int /\ window.start \in Int
          BY <1>t, <2>3, <4>2, <4>3
        <5> QED
          BY <3>1, <4>3, <5>1, <5>2
      <4>5. Oldest(page).k <= x.k
        BY <2>5, <3>1, <4>2, <4>4, NoItemBetween
      <4>6. x \in page
        BY <2>4, <2>5, <4>2, <4>5
      <4>7. x \in batch' \/ x \in lastSeen
        BY <2>3, <2>10, <4>2, <4>6
      <4>8. lastSeen \subseteq stored \cup failed
        BY <1>0, <2>2 DEF HandInv, Handled
      <4> QED
        BY <2>1, <4>7, <4>8 DEF Handled
    <3> QED
      BY <3>3, <3>4
  <2>11. HistoryInv'
    <3>1. \A x \in stored' \cup batch' : InWindow(x)
      BY <1>0, <2>1, <2>2, <2>3 DEF HistoryInv
    <3> QED
      BY <2>1, <2>7, <2>10, <3>1 DEF HistoryInv, InWindow
  <2> QED
    BY <2>8, <2>9, <2>11 DEF IInv
<1>14. CASE FetchHistoryFails
  <2>1. /\ pc = "history" /\ pc' = "next" /\ Failure
        /\ UNCHANGED <<direction, window, latest, stored, failed, lastSeen, i, any, cursor, batch,
                       conn, queue, stop>>
    BY <1>14 DEF FetchHistoryFails, exchange, socket, GoTo
  <2>2. direction = "reverse"
    BY <1>r, <1>t, <2>1 DEF Reverse
  <2>3. TypeOK'
    BY <1>0, <1>b, <2>1, <2>2 DEF TypeOK, Reverse
  <2>4. HandInv' /\ HistoryInv'
    BY <1>0, <2>1 DEF HandInv, HistoryInv, Handled, DoneWith, InWindow, Inserts
  <2> QED
    BY <2>3, <2>4 DEF IInv
<1>15. CASE InsertOpenInterests \/ InsertOpenInterestsFails
  <2>1. /\ pc = "insertHistory" /\ pc' = "next" /\ batch' = {} /\ (budget' = budget \/ Failure)
        /\ stored \subseteq stored' /\ stored' \subseteq stored \cup batch
        /\ failed \subseteq failed' /\ failed' \subseteq failed \cup batch
        /\ batch \subseteq stored' \cup failed'
        /\ UNCHANGED <<direction, window, latest, lastSeen, i, any, cursor, conn, queue, stop>>
    BY <1>15 DEF InsertOpenInterests, InsertOpenInterestsFails, exchange, socket, GoTo
  <2>2. direction = "reverse"
    BY <1>r, <1>t, <2>1 DEF Reverse
  <2>3. stored' \subseteq Items /\ failed' \subseteq Items /\ budget' \in 0..Budget
    BY <1>b, <1>t, <2>1
  <2>4. TypeOK'
    BY <1>0, <2>1, <2>2, <2>3 DEF TypeOK, Reverse
  <2>5. Handled \subseteq Handled'
    BY <2>1 DEF Handled
  <2>6. HandInv'
    BY <1>0, <2>1, <2>5 DEF HandInv
  <2>7. \A x \in Items : DoneWith(x)' => DoneWith(x)
    BY <2>1 DEF DoneWith
  <2>8. HistoryInv'
    BY <1>0, <2>1, <2>2, <2>5, <2>7 DEF HistoryInv, InWindow
  <2> QED
    BY <2>4, <2>6, <2>8 DEF IInv
<1>16. CASE Restart
  <2>1. /\ lastSeen' = {} /\ batch' = {} /\ pc' = Start(direction) /\ i' = 1 /\ any' = FALSE
        /\ cursor' = window.end /\ conn' = "none" /\ queue' = <<>> /\ stop' = "idle" /\ Disturb
        /\ UNCHANGED <<direction, window, latest, stored, failed>>
    BY <1>16 DEF Restart, HangUp, exchange
  <2>2. /\ i' \in Symbols /\ queue' \in Seq(Items) /\ cursor' \in -1..(Last * Step + 1)
    BY <1>s, <1>t, <2>1 DEF Symbols
  <2>3. any' \in BOOLEAN
    BY <2>1, Zenon
  <2>4. pc' \in (IF direction = "forward" THEN Forward ELSE Reverse) /\ pc' \in {"top", "next"}
    BY <1>t, <2>1 DEF Start, Forward, Reverse
  <2>5. TypeOK'
    BY <1>0, <1>b, <2>1, <2>2, <2>3, <2>4 DEF TypeOK
  <2>6. HandInv'
    BY <2>1 DEF HandInv
  <2>7. ASSUME window.start < window.end, NEW x \in Items, InWindow(x) PROVE ~DoneWith(x)'
    <3>1. x.k * Step \in Int /\ x.sym \in 1..N /\ x.k * Step <= window.end
      BY <1>x, <2>7 DEF InWindow, Symbols
    <3> QED
      BY <1>s, <1>t, <2>1, <2>4, <2>7, <3>1 DEF DoneWith
  <2>8. HistoryInv'
    BY <1>0, <2>1, <2>4, <2>7 DEF HistoryInv, InWindow
  <2> QED
    BY <2>5, <2>6, <2>8 DEF IInv
<1> QED
  BY <1>1, <1>2, <1>3, <1>4, <1>5, <1>6, <1>7, <1>8, <1>9, <1>10, <1>11, <1>12, <1>13,
     <1>14, <1>15, <1>16
  DEF Next, Collector, Quiet

LEMMA Invariant == Spec => []IInv
BY IInit, IStep, PTL DEF Spec

\* Every variable keeps to its type, whatever is listed, breaks, fails and restarts.
THEOREM TypeCorrect == Spec => []TypeOK
<1>1. IInv => TypeOK
  BY DEF IInv
<1> QED
  BY <1>1, Invariant, PTL

\* lastSeen hides nothing from later polls but what is stored, in hand, or whose insert
\* failed: forward, through the WebSocket, and in the history.
THEOREM SeenHandled == Spec => []SeenIsHandled
<1>1. IInv => SeenIsHandled
  BY DEF IInv, HandInv, Handled, SeenIsHandled
<1> QED
  BY <1>1, Invariant, PTL

\* reverse() that ends by itself has gone back to the very start of its window for every
\* symbol, whatever a page holds, and stored nothing from outside.
THEOREM HistoryCovered == Spec => []HistoryIsCovered
<1>1. IInv => HistoryIsCovered
  <2> SUFFICES ASSUME IInv, direction = "reverse" PROVE HistoryIsCovered
    BY DEF HistoryIsCovered
  <2>1. \A x \in stored : InWindow(x)
    BY DEF IInv, HistoryInv
  <2>2. ASSUME pc = "over", ~ctxDone, window.start < window.end, NEW x \in Items, InWindow(x)
        PROVE  x \in stored \cup failed
    <3>1. DoneWith(x) /\ batch = {}
      BY <2>2 DEF IInv, HandInv, Inserts, DoneWith, ctxDone
    <3> QED
      BY <2>2, <3>1 DEF IInv, HistoryInv, Handled
  <2> QED
    BY <2>1, <2>2 DEF HistoryIsCovered
<1> QED
  BY <1>1, Invariant, PTL

=============================================================================
