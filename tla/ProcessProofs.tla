---------------------------- MODULE ProcessProofs ----------------------------
(***************************************************************************)
(* Theorems about the scraper process, for any number of bars, buckets,    *)
(* symbols and disturbances: its types, what main() waits for, and that    *)
(* its collectors keep what ReverseRun and SpotOrderBook promise.  The     *)
(* lemmas follow the modules: one collector each, then the composition.    *)
(***************************************************************************)
EXTENDS Process, Sequences, TLAPS

-----------------------------------------------------------------------------
\* Types

\* A failure leaves a legal budget behind.
LEMMA FailureBudget ==
  ASSUME budget \in 0..Budget
  PROVE  /\ Rev!Failure => budget' \in 0..Budget
         /\ Book!Failure => budget' \in 0..Budget
         /\ Book!Disturb => budget' \in 0..Budget
<1> DEFINE Spent == budget > 0 /\ budget' = budget - 1
<1>1. Spent => budget' \in 0..Budget
  BY ProcessAssumption
<1>2. budget' = budget => budget' \in 0..Budget
  OBVIOUS
<1> HIDE DEF Spent
<1>3. Book!Disturb <=> Spent
  BY DEF Book!Disturb, Spent
<1>4. Rev!Failure => Spent \/ budget' = budget
  BY DEF Rev!Failure, Rev!Disturb, Spent
<1>5. Book!Failure => Spent \/ budget' = budget
  BY DEF Book!Failure, Book!Disturb, Spent
<1> QED
  BY <1>1, <1>2, <1>3, <1>4, <1>5

\* A page is only asked for inside the window; a book is only stored out of a bucket.
RevT  == Rev!TypeOK /\ (revPc = "fetch" => cursor < window)
BookT == Book!TypeOK /\ (bookPc = "insert" => lastBucket # 0)

\* A step of a reverse run keeps its types.
LEMMA RevTypeStep ==
  ASSUME RevT, Rev!Collector \/ Rev!BarCloses \/ Rev!Cancel
  PROVE  RevT'
<1> USE ProcessAssumption DEF RevT, Rev!TypeOK, Rev!Bar
<1>1. CASE Rev!Top
  BY <1>1 DEF Rev!Top, Rev!GoTo
<1>2. CASE Rev!Fetch
  <2>1. PICK top \in {closed, closed + 1} : \E last \in Rev!Page(top) \ blank :
          batch' = [rows |-> Rev!Page(top) \ blank, hi |-> last + 1, asOf |-> closed]
          /\ holes' = holes \cup (cursor..(Rev!First - 1)) \cup (Rev!Page(top) \cap blank)
    BY <1>2 DEF Rev!Fetch
  <2>2. Rev!First \in Nat /\ Rev!First >= cursor /\ Rev!First <= cursor + 1
    BY DEF Rev!First
  <2>3. Rev!Asked(top) \in Nat /\ Rev!Asked(top) <= Bars + 1
    BY DEF Rev!Asked, Rev!Lesser
  <2>4. Rev!Page(top) \subseteq Rev!Bar
    BY <2>2, <2>3 DEF Rev!Page, Rev!Lesser
  <2>5. batch' \in [rows : SUBSET Rev!Bar, hi : 0..(Bars + 1), asOf : Rev!Bar]
    BY <2>1, <2>4
  <2>6. holes' \subseteq Rev!Bar
    <3>1. cursor..(Rev!First - 1) \subseteq Rev!Bar
      BY <1>2, <2>2 DEF Rev!Fetch
    <3> QED
      BY <2>1, <2>4, <3>1
  <2> QED
    BY <1>2, <2>5, <2>6 DEF Rev!Fetch, Rev!GoTo
<1>3. CASE Rev!FetchEmpty
  <2>1. Rev!First \in Nat /\ Rev!First <= cursor + 1
    BY DEF Rev!First
  <2>2. holes' \subseteq Rev!Bar
    <3>1. PICK top \in {closed, closed + 1} :
            holes' = holes \cup (cursor..(Rev!First - 1))
                           \cup (IF Rev!Page(top) = {} THEN closed ELSE Rev!First)..Bars
      BY <1>3 DEF Rev!FetchEmpty
    <3>2. (cursor..(Rev!First - 1)) \subseteq 0..Bars
      BY <1>3, <2>1 DEF Rev!FetchEmpty
    <3>3. (IF Rev!Page(top) = {} THEN closed ELSE Rev!First)..Bars \subseteq 0..Bars
      BY <2>1
    <3> QED
      BY <3>1, <3>2, <3>3
  <2> QED
    BY <1>3, <2>2 DEF Rev!FetchEmpty, Rev!GoTo
<1>4. CASE Rev!FetchFails
  <2>1. budget' \in 0..Budget
    BY <1>4, FailureBudget DEF Rev!FetchFails
  <2>2. revPc' \in {"top", "over"}
    BY <1>4 DEF Rev!FetchFails, Rev!GoTo
  <2>3. holes' = holes \/ holes' = holes \cup cursor..Bars
    BY <1>4 DEF Rev!FetchFails
  <2> QED
    <3>1. UNCHANGED <<kind, window, edge, blank, closed, store, cursor, exact, batch, ctxDone>>
      BY <1>4 DEF Rev!FetchFails
    <3>2. cursor..Bars \subseteq Rev!Bar
      OBVIOUS
    <3>3. holes' \subseteq Rev!Bar
      BY <2>3, <3>2, Zenon
    <3> QED
      BY <2>1, <2>2, <3>1, <3>3
<1>5. CASE Rev!Insert
  BY <1>5 DEF Rev!Insert, Rev!Inserted, Rev!Advance, Rev!GoTo
<1>6. CASE Rev!InsertFails
  <2>1. budget' \in 0..Budget
    BY <1>6, FailureBudget DEF Rev!InsertFails
  <2> QED
    BY <1>6, <2>1 DEF Rev!InsertFails, Rev!Inserted, Rev!GoTo
<1>7. CASE Rev!InsertRateFails
  <2>1. budget' \in 0..Budget
    BY <1>7, FailureBudget DEF Rev!InsertRateFails
  <2>2. PICK r \in batch.rows :
          /\ store' \in {store, Rev!Inserted({r})}
          /\ batch' = [batch EXCEPT !.rows = @ \ {r}]
          /\ holes' = holes \cup {r}
          /\ IF batch.rows = {r} THEN Rev!Advance /\ Rev!GoTo("top")
             ELSE UNCHANGED <<cursor, exact, revPc>>
    BY <1>7 DEF Rev!InsertRateFails
  <2>3. store' \in [Rev!Bar -> {"absent", "partial", "final"}] /\ holes' \subseteq Rev!Bar
    BY <2>2 DEF Rev!Inserted
  <2>4. batch' \in [rows : SUBSET Rev!Bar, hi : 0..(Bars + 1), asOf : Rev!Bar]
    BY <2>2
  <2>5. /\ cursor' \in 0..(Bars + 1) /\ exact' \in BOOLEAN
        /\ revPc' \in {"top", "fetch", "insert", "over"}
    BY <2>2 DEF Rev!Advance, Rev!GoTo
  <2> QED
    <3>1. UNCHANGED <<kind, window, edge, blank, closed, ctxDone>>
      BY <1>7 DEF Rev!InsertRateFails
    <3>2. revPc' # "fetch"
      BY <1>7, <2>2 DEF Rev!GoTo, Rev!InsertRateFails
    <3> QED
      BY <2>1, <2>3, <2>4, <2>5, <3>1, <3>2
<1>8. CASE Rev!BarCloses
  BY <1>8 DEF Rev!BarCloses
<1>9. CASE Rev!Cancel
  BY <1>9 DEF Rev!Cancel
<1> QED
  BY <1>1, <1>2, <1>3, <1>4, <1>5, <1>6, <1>7, <1>8, <1>9 DEF Rev!Collector

\* What is not a reverse run's own leaves its types alone.
LEMMA RevTypeFrame ==
  ASSUME RevT, UNCHANGED revVars, budget' \in 0..Budget, ctxDone' \in BOOLEAN
  PROVE  RevT'
BY DEF RevT, Rev!TypeOK, revVars

BookWorldStep == Book!Tick \/ Book!BookIsSent \/ Book!ConnEnds \/ Book!RecvCancelled

BookStop == Book!Cancel \/ Book!CloseDone \/ Book!CloseConn

\* A step of the order-book collector keeps its types.
LEMMA BookTypeStep ==
  ASSUME BookT, Book!Collector \/ BookWorldStep \/ BookStop
  PROVE  BookT'
<1> USE ProcessAssumption DEF BookT, Book!TypeOK, Book!Bucket
<1>1. CASE Book!Top \/ Book!Sleep
  BY <1>1 DEF Book!Top, Book!Sleep, Book!GoTo
<1>2. CASE Book!Connect \/ Book!ConnectFails
  <2>1. budget' \in 0..Budget
    BY <1>2, FailureBudget DEF Book!Connect, Book!ConnectFails
  <2> QED
    BY <1>2, <2>1 DEF Book!Connect, Book!ConnectFails, Book!GoTo
<1>3. CASE Book!Recv
  <2>1. Head(queue) \in Book!Bucket /\ Tail(queue) \in Seq(Book!Bucket)
    BY <1>3 DEF Book!Recv
  <2> QED
    <3>1. /\ queue' \in Seq(Book!Bucket)
          /\ bucket' \in Book!Bucket /\ inHand' \in Book!Bucket
          /\ read' \subseteq Book!Bucket
          /\ UNCHANGED <<clock, conn, rows, lost, ctxDone, bookStop, budget>>
      BY <1>3, <2>1 DEF Book!Recv
    <3>2. /\ lastBucket' \in 0..Buckets /\ book' \in 0..Buckets
          /\ bookPc' \in {"recv", "insert"} /\ (bookPc' = "insert" => lastBucket' # 0)
      <4>1. CASE lastBucket = 0
        BY <1>3, <2>1, <4>1 DEF Book!Recv, Book!Keep
      <4>2. CASE lastBucket # 0
        BY <1>3, <2>1, <4>2 DEF Book!Recv, Book!GoTo
      <4> QED
        BY <4>1, <4>2
    <3> QED
      BY <3>1, <3>2
<1>4. CASE Book!RecvFails \/ Book!RecvCancelled
  <2>1. /\ conn' = "none" /\ queue' = <<>> /\ lastBucket' = 0 /\ book' = 0
        /\ lost' = lost \cup ({lastBucket} \ {0})
    <3>1. Book!HangUp
      BY <1>4 DEF Book!RecvFails, Book!RecvCancelled
    <3> QED
      BY <3>1 DEF Book!HangUp
  <2>2. bookPc' \in {"sleep", "over"}
    BY <1>4 DEF Book!RecvFails, Book!RecvCancelled, Book!GoTo
  <2>3. UNCHANGED <<clock, bucket, inHand, rows, read, ctxDone, bookStop, budget>>
    BY <1>4 DEF Book!RecvFails, Book!RecvCancelled
  <2> QED
    BY <2>1, <2>2, <2>3
<1>5. CASE Book!InsertOrderBook
  BY <1>5 DEF Book!InsertOrderBook, Book!Stored, Book!Keep, Book!GoTo
<1>6. CASE Book!InsertFails
  <2>1. budget' \in 0..Budget
    BY <1>6, FailureBudget DEF Book!InsertFails
  <2> QED
    <3>1. /\ bookPc' = "recv" /\ lastBucket' = bucket /\ book' = inHand
          /\ lost' = lost \cup {lastBucket} /\ lastBucket \in Book!Bucket
          /\ UNCHANGED <<clock, conn, queue, bucket, inHand, read, ctxDone, bookStop>>
      BY <1>6 DEF Book!InsertFails, Book!Keep, Book!GoTo
    <3>2. rows' \in [Book!Bucket -> 0..Buckets]
      BY <1>6 DEF Book!InsertFails, Book!Stored
    <3> QED
      BY <2>1, <3>1, <3>2
<1>7. CASE Book!Tick
  BY <1>7 DEF Book!Tick
<1>0. CASE Book!ConnEnds
  <2>1. budget' \in 0..Budget
    BY <1>0, FailureBudget DEF Book!ConnEnds
  <2> QED
    BY <1>0, <2>1 DEF Book!ConnEnds
<1>8. CASE Book!BookIsSent
  BY <1>8 DEF Book!BookIsSent
<1>9. CASE BookStop
  BY <1>9 DEF BookStop, Book!Cancel, Book!CloseDone, Book!CloseConn
<1> QED
  BY <1>0, <1>1, <1>2, <1>3, <1>4, <1>5, <1>6, <1>7, <1>8, <1>9 DEF Book!Collector, BookWorldStep

-----------------------------------------------------------------------------
\* A reverse run's holes are explained

\* Everything behind the cursor, everything of the page in hand, and when the run is over
\* everything of the window, is stored or excused.
Passed == \A b \in Rev!Bar : b < cursor /\ store[b] = "absent" => b \in holes

InHand ==
  revPc = "insert" =>
    \A b \in Rev!Bar : b < batch.hi /\ store[b] = "absent" => b \in batch.rows \cup holes

Ended ==
  revPc = "over" /\ ~ctxDone =>
    \A b \in Rev!Bar : b < window /\ store[b] = "absent" => b \in holes

RevGood == Passed /\ InHand /\ Ended

\* A step of a reverse run leaves no hole without an excuse.
LEMMA RevGoodStep ==
  ASSUME RevT, RevGood, Rev!Collector \/ Rev!BarCloses \/ Rev!Cancel
  PROVE  RevGood'
<1> USE ProcessAssumption DEF Rev!Bar
<1>0. /\ window \in Nat /\ cursor \in Nat /\ closed \in Nat /\ batch.hi \in Nat
      /\ store \in [Rev!Bar -> {"absent", "partial", "final"}]
  BY DEF RevT, Rev!TypeOK
<1>i. \A S : \A b \in Rev!Bar :
        /\ Rev!Inserted(S)[b] = "absent" => store[b] = "absent"
        /\ b \in S => Rev!Inserted(S)[b] # "absent"
  BY DEF Rev!Inserted
<1>1. CASE Rev!Top
  <2>1. revPc' = "over" /\ ~ctxDone' => cursor >= window
    BY <1>1 DEF Rev!Top, Rev!GoTo
  <2>2. UNCHANGED <<window, store, cursor, holes, ctxDone>> /\ revPc' # "insert"
    BY <1>1 DEF Rev!Top, Rev!GoTo
  <2> QED
    BY <1>0, <2>1, <2>2 DEF RevGood, Passed, InHand, Ended
<1>2. CASE Rev!Fetch
  <2>1. PICK top \in {closed, closed + 1} : \E last \in Rev!Page(top) \ blank :
          /\ batch' = [rows |-> Rev!Page(top) \ blank, hi |-> last + 1, asOf |-> closed]
          /\ holes' = holes \cup (cursor..(Rev!First - 1)) \cup (Rev!Page(top) \cap blank)
    BY <1>2 DEF Rev!Fetch
  <2>2. PICK last \in Rev!Page(top) \ blank :
          /\ batch' = [rows |-> Rev!Page(top) \ blank, hi |-> last + 1, asOf |-> closed]
          /\ holes' = holes \cup (cursor..(Rev!First - 1)) \cup (Rev!Page(top) \cap blank)
    BY <2>1
  <2>3. revPc' = "insert" /\ UNCHANGED <<store, cursor>>
    BY <1>2 DEF Rev!Fetch, Rev!GoTo
  <2>4. Rev!First \in Nat
    BY <1>0 DEF Rev!First
  <2>5. last \in Nat /\ \A b \in Nat : Rev!First <= b /\ b <= last => b \in Rev!Page(top)
    BY <2>4, <1>0 DEF Rev!Page, Rev!Lesser, Rev!Asked
  <2>6. ASSUME NEW b \in Rev!Bar, b < last + 1, store[b] = "absent"
        PROVE  b \in (Rev!Page(top) \ blank) \cup holes'
    <3>1. CASE b < cursor
      BY <2>2, <2>6, <3>1 DEF RevGood, Passed
    <3>2. CASE cursor <= b /\ b < Rev!First
      <4>1. b \in cursor..(Rev!First - 1)
        BY <3>2, <2>4, <1>0
      <4> QED
        BY <4>1, <2>2
    <3>3. CASE Rev!First <= b
      BY <2>2, <2>5, <2>6, <3>3
    <3> QED
      BY <3>1, <3>2, <3>3, <2>4, <1>0
  <2>7. InHand'
    BY <2>2, <2>3, <2>6 DEF InHand
  <2> QED
    BY <2>2, <2>3, <2>7 DEF RevGood, Passed, Ended
<1>3. CASE Rev!FetchEmpty
  <2>1. PICK top \in {closed, closed + 1} :
          /\ Rev!Page(top) \subseteq blank
          /\ holes' = holes \cup (cursor..(Rev!First - 1))
                         \cup (IF Rev!Page(top) = {} THEN closed ELSE Rev!First)..Bars
    BY <1>3 DEF Rev!FetchEmpty
  <2>2. revPc' = "over" /\ UNCHANGED <<window, store, cursor>>
    BY <1>3 DEF Rev!FetchEmpty, Rev!GoTo
  <2>3. Rev!First \in Nat
    BY <1>0 DEF Rev!First
  <2>4. ASSUME NEW b \in Rev!Bar, b < window, store[b] = "absent" PROVE b \in holes'
    <3>1. CASE b < cursor
      BY <2>1, <2>4, <3>1 DEF RevGood, Passed
    <3>2. CASE cursor <= b /\ b < Rev!First
      <4>1. b \in cursor..(Rev!First - 1)
        BY <3>2, <2>3, <1>0
      <4> QED
        BY <4>1, <2>1
    <3>3. CASE Rev!First <= b /\ Rev!Page(top) # {}
      <4>1. b \in Rev!First..Bars
        BY <3>3, <2>3
      <4> QED
        BY <4>1, <3>3, <2>1
    <3>4. CASE Rev!First <= b /\ Rev!Page(top) = {}
      <4>1. Rev!First >= Rev!Asked(top)
        <5>1. Rev!Asked(top) \in Nat
          BY <1>0 DEF Rev!Asked, Rev!Lesser
        <5>2. SUFFICES ASSUME Rev!First < Rev!Asked(top) PROVE FALSE
          BY <2>3, <5>1
        <5>3. Rev!First \in Rev!Page(top)
          BY <2>3, <5>1, <5>2 DEF Rev!Page, Rev!Lesser
        <5> QED
          BY <3>4, <5>3
      <4>2. Rev!Asked(top) >= closed \/ Rev!Asked(top) >= window
        BY <1>0 DEF Rev!Asked, Rev!Lesser
      <4>3. Rev!Asked(top) \in Nat
        BY <1>0 DEF Rev!Asked, Rev!Lesser
      <4>4. b \in closed..Bars
        BY <1>0, <2>3, <2>4, <3>4, <4>1, <4>2, <4>3
      <4> QED
        BY <3>4, <4>4, <2>1
    <3> QED
      BY <3>1, <3>2, <3>3, <3>4, <2>3, <1>0
  <2>5. Passed'
    BY <2>1, <2>2 DEF RevGood, Passed
  <2> QED
    BY <2>2, <2>4, <2>5 DEF RevGood, InHand, Ended
<1>4. CASE Rev!FetchFails
  <2>1. UNCHANGED <<window, store, cursor>>
    BY <1>4 DEF Rev!FetchFails
  <2>2. \/ revPc' = "over" /\ holes' = holes \cup cursor..Bars
        \/ revPc' = "top" /\ holes' = holes
    BY <1>4 DEF Rev!FetchFails, Rev!GoTo
  <2>3. \A b \in Rev!Bar : b < cursor \/ b \in cursor..Bars
    BY <1>0
  <2> QED
    BY <2>1, <2>2, <2>3 DEF RevGood, Passed, InHand, Ended
<1>5. CASE Rev!Insert
  <2>1. /\ store' = Rev!Inserted(batch.rows) /\ cursor' = batch.hi /\ holes' = holes
        /\ revPc = "insert" /\ revPc' = "top"
    BY <1>5 DEF Rev!Insert, Rev!Advance, Rev!GoTo
  <2>2. Passed'
    BY <2>1, <1>i DEF RevGood, Passed, InHand
  <2> QED
    BY <2>1, <2>2 DEF RevGood, InHand, Ended
<1>6. CASE Rev!InsertFails
  <2>1. PICK S \in SUBSET batch.rows : store' = Rev!Inserted(S)
    BY <1>6 DEF Rev!InsertFails
  <2>2. cursor' = cursor /\ holes' = holes /\ revPc' = "top"
    BY <1>6 DEF Rev!InsertFails, Rev!GoTo
  <2> QED
    BY <2>1, <2>2, <1>i DEF RevGood, Passed, InHand, Ended
<1>7. CASE Rev!InsertRateFails
  <2>1. PICK r \in batch.rows :
          /\ store' \in {store, Rev!Inserted({r})}
          /\ batch' = [batch EXCEPT !.rows = @ \ {r}]
          /\ holes' = holes \cup {r}
          /\ IF batch.rows = {r} THEN Rev!Advance /\ Rev!GoTo("top")
             ELSE UNCHANGED <<cursor, exact, revPc>>
    BY <1>7 DEF Rev!InsertRateFails
  <2>2. revPc = "insert"
    BY <1>7 DEF Rev!InsertRateFails
  <2>3. \A b \in Rev!Bar : store'[b] = "absent" => store[b] = "absent"
    BY <2>1, <1>i
  <2>4. batch'.rows = batch.rows \ {r} /\ batch'.hi = batch.hi
    BY <2>1 DEF RevT, Rev!TypeOK
  <2>5. \/ batch.rows = {r} /\ cursor' = batch.hi /\ revPc' = "top"
        \/ cursor' = cursor /\ revPc' = "insert"
    BY <2>1, <2>2 DEF Rev!Advance, Rev!GoTo
  <2>6. \A b \in Rev!Bar : b < batch.hi /\ store'[b] = "absent" => b \in (batch.rows \ {r}) \cup holes'
    BY <2>1, <2>2, <2>3 DEF RevGood, InHand
  <2>7. \A b \in Rev!Bar : b < cursor /\ store'[b] = "absent" => b \in holes'
    BY <2>1, <2>3 DEF RevGood, Passed
  <2>8. Passed'
    BY <2>5, <2>6, <2>7 DEF Passed
  <2>9. InHand'
    BY <2>4, <2>6 DEF InHand
  <2> QED
    BY <2>5, <2>8, <2>9 DEF RevGood, Ended
<1>8. CASE Rev!BarCloses
  BY <1>8 DEF Rev!BarCloses, RevGood, Passed, InHand, Ended
<1>9. CASE Rev!Cancel
  BY <1>9 DEF Rev!Cancel, RevGood, Passed, InHand, Ended
<1> QED
  BY <1>1, <1>2, <1>3, <1>4, <1>5, <1>6, <1>7, <1>8, <1>9 DEF Rev!Collector

-----------------------------------------------------------------------------
\* Books are stored in order, and kept

\* The rows: each holds a book of its bucket or before, of a bucket that is over, and later
\* rows hold no older books.
RowsInOrder ==
  /\ \A b \in Book!Bucket : rows[b] # 0 => rows[b] <= b /\ b < clock
  /\ \A b, c \in Book!Bucket : c <= b /\ rows[b] # 0 => rows[c] <= rows[b]

\* The book that is kept comes after those that are stored.
KeptInOrder ==
  lastBucket # 0 =>
    /\ book # 0 /\ book <= lastBucket /\ lastBucket <= clock
    /\ \A b \in Book!Bucket : rows[b] # 0 => b < lastBucket /\ rows[b] <= book

\* The book in hand comes after the one that is kept.
HandInOrder ==
  bookPc = "insert" =>
    /\ inHand # 0 /\ lastBucket < bucket /\ bucket <= clock
    /\ book <= inHand /\ inHand <= bucket

\* The books on their way come after all of these.
QueueInOrder ==
  /\ \A i \in 1..Len(queue) : queue[i] <= clock
  /\ \A i, j \in 1..Len(queue) : i <= j => queue[i] <= queue[j]
  /\ \A i \in 1..Len(queue) :
       /\ lastBucket # 0 => book <= queue[i]
       /\ bookPc = "insert" => inHand <= queue[i]
       /\ \A b \in Book!Bucket : rows[b] <= queue[i]

BookGood == RowsInOrder /\ KeptInOrder /\ HandInOrder /\ QueueInOrder /\ Book!BooksAreKept

LEMMA BookGoodStep ==
  ASSUME BookT, BookGood, Book!Collector \/ BookWorldStep \/ BookStop
  PROVE  BookGood'
<1> USE ProcessAssumption DEF Book!Bucket
<1>0. /\ clock \in 1..Buckets /\ lastBucket \in 0..Buckets /\ book \in 0..Buckets
      /\ bucket \in 0..Buckets /\ inHand \in 0..Buckets
      /\ rows \in [1..Buckets -> 0..Buckets] /\ queue \in Seq(1..Buckets)
      /\ Len(queue) \in Nat /\ \A i \in 1..Len(queue) : queue[i] \in 1..Buckets
      /\ bookPc = "insert" => lastBucket # 0
  BY DEF BookT, Book!TypeOK
<1>a. RowsInOrder /\ KeptInOrder /\ HandInOrder /\ QueueInOrder /\ Book!BooksAreKept
  BY DEF BookGood
<1>f. ASSUME UNCHANGED <<clock, queue, lastBucket, book, bucket, inHand, rows, read, lost>>,
             bookPc' = "insert" <=> bookPc = "insert"
      PROVE  BookGood'
  BY <1>a, <1>f DEF BookGood, RowsInOrder, KeptInOrder, HandInOrder, QueueInOrder,
                    Book!BooksAreKept
<1>1. CASE Book!Top \/ Book!Sleep
  BY <1>1, <1>f DEF Book!Top, Book!Sleep, Book!GoTo
<1>2. CASE Book!Connect
  BY <1>2, <1>f DEF Book!Connect, Book!GoTo
<1>3. CASE Book!ConnectFails
  BY <1>3, <1>f DEF Book!ConnectFails, Book!GoTo
<1>4. CASE Book!ConnEnds
  BY <1>4, <1>f DEF Book!ConnEnds
<1>5. CASE BookStop
  BY <1>5, <1>f DEF BookStop, Book!Cancel, Book!CloseDone, Book!CloseConn
<1>6. CASE Book!Tick
  BY <1>0, <1>6, <1>a DEF Book!Tick, BookGood, RowsInOrder, KeptInOrder, HandInOrder,
                          QueueInOrder, Book!BooksAreKept
<1>7. CASE Book!BookIsSent
  <2>1. /\ UNCHANGED <<clock, lastBucket, book, bucket, inHand, rows, read, lost, bookPc>>
        /\ queue' = Append(queue, clock)
    BY <1>7 DEF Book!BookIsSent
  <2>2. /\ Len(queue') = Len(queue) + 1 /\ queue'[Len(queue) + 1] = clock
        /\ \A i \in 1..Len(queue) : queue'[i] = queue[i]
    BY <1>0, <2>1
  <2>3. /\ lastBucket # 0 => book <= clock
        /\ bookPc = "insert" => inHand <= clock
        /\ \A b \in Book!Bucket : rows[b] <= clock
    BY <1>0, <1>a DEF RowsInOrder, KeptInOrder, HandInOrder
  <2>4. QueueInOrder'
    <3>0. \A i \in 1..Len(queue') : i \in 1..Len(queue) \/ i = Len(queue) + 1
      <4>1. \A n \in Nat : \A i \in 1..(n + 1) : i \in 1..n \/ i = n + 1
        OBVIOUS
      <4>2. Len(queue) \in Nat /\ Len(queue') = Len(queue) + 1
        BY <1>0, <2>2
      <4> QED
        BY ONLY <4>1, <4>2
    <3>1. \A i \in 1..Len(queue') : queue'[i] <= clock
      <4> TAKE i \in 1..Len(queue')
      <4>1. CASE i = Len(queue) + 1
        BY <1>0, <2>2, <4>1
      <4>2. CASE i \in 1..Len(queue)
        BY <1>a, <2>2, <4>2 DEF QueueInOrder
      <4> QED
        BY <3>0, <4>1, <4>2
    <3>2. \A i, j \in 1..Len(queue') : i <= j => queue'[i] <= queue'[j]
      <4> SUFFICES ASSUME NEW i \in 1..Len(queue'), NEW j \in 1..Len(queue'), i <= j
                   PROVE  queue'[i] <= queue'[j]
        OBVIOUS
      <4>1. CASE j = Len(queue) + 1
        BY <2>2, <3>1, <4>1
      <4>2. CASE j \in 1..Len(queue)
        <5>1. i \in 1..Len(queue)
          BY <1>0, <2>2, <4>2
        <5>2. queue[i] <= queue[j]
          BY <1>a, <4>2, <5>1 DEF QueueInOrder
        <5> QED
          BY <2>2, <4>2, <5>1, <5>2
      <4> QED
        BY <3>0, <4>1, <4>2
    <3>3. ASSUME NEW i \in 1..Len(queue')
          PROVE  /\ lastBucket # 0 => book <= queue'[i]
                 /\ bookPc = "insert" => inHand <= queue'[i]
                 /\ \A b \in Book!Bucket : rows[b] <= queue'[i]
      <4>1. CASE i = Len(queue) + 1
        BY <2>2, <2>3, <4>1
      <4>2. CASE i \in 1..Len(queue)
        BY <1>a, <2>2, <4>2 DEF QueueInOrder
      <4> QED
        BY <3>0, <4>1, <4>2
    <3> QED
      BY <2>1, <3>1, <3>2, <3>3 DEF QueueInOrder
  <2> QED
    BY <1>a, <2>1, <2>4 DEF BookGood, RowsInOrder, KeptInOrder, HandInOrder, Book!BooksAreKept
<1>8. CASE Book!Recv
  <2> DEFINE head == queue[1]
  <2>1. /\ queue # <<>> /\ bookPc = "recv"
        /\ queue' = Tail(queue) /\ bucket' = clock /\ inHand' = head
        /\ read' = read \cup {clock} /\ UNCHANGED <<clock, rows, lost>>
    BY <1>8, <1>0 DEF Book!Recv
  <2>2. \/ lastBucket = 0 /\ lastBucket' = clock /\ book' = head /\ bookPc' = "recv"
        \/ lastBucket = clock /\ UNCHANGED <<lastBucket, book>> /\ bookPc' = "recv"
        \/ /\ lastBucket # 0 /\ lastBucket < clock /\ UNCHANGED <<lastBucket, book>>
           /\ bookPc' = "insert"
    <3>1. CASE lastBucket = 0
      BY <1>8, <3>1, <1>0, <2>1 DEF Book!Recv, Book!Keep
    <3>2. CASE lastBucket # 0 /\ clock > lastBucket
      BY <1>8, <3>2, <1>0, <2>1 DEF Book!Recv, Book!GoTo
    <3>3. CASE lastBucket # 0 /\ ~(clock > lastBucket)
      BY <1>8, <3>3, <1>0, <1>a, <2>1 DEF Book!Recv, KeptInOrder
    <3> QED
      BY <3>1, <3>2, <3>3
  <2>3. /\ 1 \in 1..Len(queue) /\ Len(queue') = Len(queue) - 1
        /\ \A i \in 1..Len(queue') : queue'[i] = queue[i + 1] /\ i + 1 \in 1..Len(queue)
    BY <1>0, <2>1
  <2>4. /\ head \in 1..Buckets /\ head <= clock /\ (lastBucket # 0 => book <= head)
        /\ \A b \in Book!Bucket : rows[b] <= head
        /\ \A i \in 1..Len(queue') : head <= queue'[i]
    <3>1. queue[1] \in 1..Buckets
      BY <1>0, <2>3
    <3>2. /\ queue[1] <= clock /\ (lastBucket # 0 => book <= queue[1])
          /\ \A b \in Book!Bucket : rows[b] <= queue[1]
      BY <1>a, <2>3 DEF QueueInOrder
    <3>3. ASSUME NEW i \in 1..Len(queue') PROVE queue[1] <= queue'[i]
      <4>1. queue'[i] = queue[i + 1] /\ i + 1 \in 1..Len(queue) /\ 1 <= i + 1
        BY <2>3
      <4> QED
        BY <1>a, <2>3, <4>1 DEF QueueInOrder
    <3> QED
      BY <3>1, <3>2, <3>3
  <2> HIDE DEF head
  <2>5. RowsInOrder'
    BY <1>a, <2>1 DEF RowsInOrder
  <2>6. KeptInOrder'
    BY <1>0, <1>a, <2>1, <2>2, <2>4 DEF KeptInOrder, RowsInOrder
  <2>7. HandInOrder'
    BY <1>0, <1>a, <2>1, <2>2, <2>4 DEF HandInOrder
  <2>8. QueueInOrder'
    <3>1. \A i \in 1..Len(queue') : queue'[i] <= clock
      BY <1>a, <2>3 DEF QueueInOrder
    <3>2. \A i, j \in 1..Len(queue') : i <= j => queue'[i] <= queue'[j]
      <4> TAKE i, j \in 1..Len(queue')
      <4>1. i <= j => i + 1 <= j + 1
        OBVIOUS
      <4>2. i + 1 <= j + 1 => queue[i + 1] <= queue[j + 1]
        BY <1>a, <2>3 DEF QueueInOrder
      <4> QED
        BY <2>3, <4>1, <4>2
    <3>3. \A i \in 1..Len(queue') : \A b \in Book!Bucket : rows[b] <= queue'[i]
      BY <1>a, <2>3 DEF QueueInOrder
    <3>4. \A i \in 1..Len(queue') : lastBucket # 0 => book <= queue'[i]
      BY <1>a, <2>3 DEF QueueInOrder
    <3> QED
      BY <2>1, <2>2, <2>4, <3>1, <3>2, <3>3, <3>4 DEF QueueInOrder
  <2>9. Book!BooksAreKept'
    <3> SUFFICES ASSUME NEW b \in read'
                 PROVE  \/ rows[b] # 0 \/ b \in lost \/ b = lastBucket'
                        \/ bookPc' = "insert" /\ b = clock
      BY <2>1 DEF Book!BooksAreKept
    <3>1. CASE b = clock
      BY <2>2, <3>1
    <3>2. CASE b \in read
      <4>1. rows[b] # 0 \/ b \in lost \/ b = lastBucket
        BY <1>a, <2>1, <3>2 DEF Book!BooksAreKept
      <4>2. b # 0
        BY <3>2 DEF BookT, Book!TypeOK
      <4> QED
        BY <2>2, <4>1, <4>2
    <3> QED
      BY <2>1, <3>1, <3>2
  <2> QED
    BY <2>5, <2>6, <2>7, <2>8, <2>9 DEF BookGood
<1>9. CASE Book!InsertOrderBook \/ Book!InsertFails
  <2>1. /\ bookPc = "insert" /\ bookPc' = "recv"
        /\ book' = inHand /\ lastBucket' = bucket
        /\ UNCHANGED <<clock, queue, bucket, inHand, read>>
    BY <1>9 DEF Book!InsertOrderBook, Book!InsertFails, Book!Keep, Book!GoTo
  <2>2. /\ lastBucket \in Book!Bucket /\ rows[lastBucket] = 0 /\ book \in 1..Buckets
    BY <1>0, <1>a, <2>1 DEF KeptInOrder
  <2>3. rows' = rows \/ rows' = [rows EXCEPT ![lastBucket] = book]
    BY <1>9, <1>0, <2>2 DEF Book!InsertOrderBook, Book!InsertFails, Book!Stored
  <2>4. \A b \in Book!Bucket : rows'[b] = rows[b] \/ (b = lastBucket /\ rows'[b] = book)
    BY <1>0, <2>3
  <2>5. rows' \in [1..Buckets -> 0..Buckets]
    BY <1>0, <2>3
  <2>6. lost \subseteq lost' /\ (rows'[lastBucket] # 0 \/ lastBucket \in lost')
    BY <1>9, <1>0, <2>2 DEF Book!InsertOrderBook, Book!InsertFails, Book!Stored
  <2>7. RowsInOrder'
    <3>1. /\ lastBucket < clock /\ book <= lastBucket
          /\ \A b \in Book!Bucket : rows[b] \in Nat /\ (rows[b] # 0 => b < lastBucket /\ rows[b] <= book)
      BY <1>0, <1>a, <2>1 DEF KeptInOrder, HandInOrder
    <3>2. \A b \in Book!Bucket : rows'[b] # 0 => rows'[b] <= b /\ b < clock'
      BY <1>a, <2>1, <2>2, <2>4, <3>1 DEF RowsInOrder
    <3>3. ASSUME NEW b \in Book!Bucket, NEW c \in Book!Bucket, c <= b, rows'[b] # 0
          PROVE  rows'[c] <= rows'[b]
      <4>1. CASE b = lastBucket /\ rows'[b] = book
        BY <2>2, <2>4, <3>1, <4>1
      <4>2. CASE rows'[b] = rows[b]
        <5>1. rows[c] <= rows[b] /\ c # lastBucket
          BY <1>0, <1>a, <3>1, <3>3, <4>2 DEF RowsInOrder
        <5> QED
          BY <2>4, <4>2, <5>1
      <4> QED
        BY <2>4, <4>1, <4>2
    <3> QED
      BY <3>2, <3>3 DEF RowsInOrder
  <2>8. KeptInOrder'
    BY <1>0, <1>a, <2>1, <2>2, <2>4 DEF KeptInOrder, HandInOrder
  <2>9. HandInOrder'
    BY <2>1 DEF HandInOrder
  <2>10. QueueInOrder'
    BY <1>0, <1>a, <2>1, <2>2, <2>4 DEF QueueInOrder, HandInOrder
  <2>11. Book!BooksAreKept'
    <3> SUFFICES ASSUME NEW b \in read
                 PROVE  rows'[b] # 0 \/ b \in lost' \/ b = bucket
      BY <2>1 DEF Book!BooksAreKept
    <3>1. b \in Book!Bucket
      BY DEF BookT, Book!TypeOK
    <3>2. rows[b] # 0 \/ b \in lost \/ b = lastBucket \/ b = bucket
      BY <1>a DEF Book!BooksAreKept
    <3>3. CASE b = lastBucket
      BY <2>6, <3>3
    <3>4. CASE rows[b] # 0
      BY <2>2, <2>4, <3>1, <3>4
    <3> QED
      BY <2>6, <3>2, <3>3, <3>4
  <2> QED
    BY <2>7, <2>8, <2>9, <2>10, <2>11 DEF BookGood
<1>10. CASE Book!RecvFails \/ Book!RecvCancelled
  <2>1. Book!HangUp /\ bookPc = "recv" /\ UNCHANGED <<clock, bucket, inHand, rows, read>>
    BY <1>10 DEF Book!RecvFails, Book!RecvCancelled
  <2>2. bookPc' # "insert"
    BY <1>10 DEF Book!RecvFails, Book!RecvCancelled, Book!GoTo
  <2>3. queue' = <<>> /\ lastBucket' = 0 /\ lost' = lost \cup ({lastBucket} \ {0})
    BY <2>1 DEF Book!HangUp
  <2>4. Len(queue') = 0
    BY <2>3
  <2>5. RowsInOrder' /\ KeptInOrder' /\ HandInOrder'
    BY <1>a, <2>1, <2>2, <2>3 DEF RowsInOrder, KeptInOrder, HandInOrder
  <2>6. QueueInOrder'
    BY <2>4 DEF QueueInOrder
  <2>7. \A b \in read : b # 0
    BY DEF BookT, Book!TypeOK
  <2>8. Book!BooksAreKept'
    BY <1>a, <2>1, <2>3, <2>7 DEF Book!BooksAreKept
  <2> QED
    BY <2>5, <2>6, <2>8 DEF BookGood
<1> QED
  BY <1>1, <1>2, <1>3, <1>4, <1>5, <1>6, <1>7, <1>8, <1>9, <1>10
     DEF Book!Collector, BookWorldStep

-----------------------------------------------------------------------------
\* The composition: types

Own ==
  /\ mode \in {"forward", "reverse"}
  /\ main \in {"running", "stopping", "stopPoll", "waiting", "closing", "closed", "exited"}
  /\ timedOut \in BOOLEAN /\ storesOpen \in BOOLEAN
  /\ pollPc \in [Pollers -> {"wait", "fetch", "insert", "between", "over"}]
  /\ pollTodo \in [Pollers -> 0..Symbols]
  /\ \A p \in Pollers : pollPc[p] \in {"fetch", "insert", "between"} => pollTodo[p] # 0

Types == RevT /\ BookT /\ Own

LEMMA TypesInit == Init => Types
<1> SUFFICES ASSUME Init PROVE Types
  OBVIOUS
<1> USE ProcessAssumption
<1>0. /\ Book!Init
      /\ main = "running" /\ timedOut = FALSE /\ storesOpen = TRUE
      /\ pollTodo = [p \in Pollers |-> 0]
  BY DEF Init
<1>1. BookT
  <2>1. ctxDone \in BOOLEAN
    BY <1>0, Zenon DEF Book!Init
  <2>2. queue = <<>> /\ rows = [b \in Book!Bucket |-> 0]
    BY <1>0 DEF Book!Init
  <2>3. queue \in Seq(Book!Bucket) /\ rows \in [Book!Bucket -> 0..Buckets]
    BY <2>2
  <2>4. /\ clock = 1 /\ conn = "none" /\ bookPc = "top"
        /\ lastBucket = 0 /\ book = 0 /\ bucket = 0 /\ inHand = 0
        /\ read = {} /\ lost = {} /\ bookStop = "idle" /\ budget = Budget
    BY <1>0 DEF Book!Init
  <2> QED
    BY <2>1, <2>3, <2>4 DEF BookT, Book!TypeOK, Book!Bucket
<1>2. Own
  <2>1. /\ mode \in {"forward", "reverse"}
        /\ pollPc \in [Pollers -> {"wait", "over"}]
    BY DEF Init
  <2>2. timedOut \in BOOLEAN /\ storesOpen \in BOOLEAN
    BY <1>0, Zenon
  <2>3. pollTodo \in [Pollers -> 0..Symbols]
    BY <1>0
  <2>4. main = "running"
    BY <1>0
  <2> QED
    BY <2>1, <2>2, <2>3, <2>4 DEF Own
<1>3. CASE mode = "reverse"
  <2>1. Rev!Init
    BY <1>3 DEF Init
  <2>2. edge \in BOOLEAN /\ exact \in BOOLEAN /\ ctxDone \in BOOLEAN
    BY <2>1, Zenon DEF Rev!Init
  <2>3. /\ store \in [Rev!Bar -> {"absent", "partial", "final"}]
        /\ batch \in [rows : SUBSET Rev!Bar, hi : 0..(Bars + 1), asOf : Rev!Bar]
    BY <2>1 DEF Rev!Init, Rev!Bar, Rev!Empty
  <2>4. blank \subseteq Rev!Bar /\ holes \subseteq Rev!Bar
    BY <2>1 DEF Rev!Init
  <2>5. /\ kind \in {"spot", "futures", "funding"} /\ closed \in Rev!Bar
        /\ window \in 1..(Bars + 1) /\ cursor = 0 /\ revPc = "top" /\ budget = Budget
    BY <2>1 DEF Rev!Init
  <2>6. RevT
    BY <2>2, <2>3, <2>4, <2>5 DEF RevT, Rev!TypeOK
  <2> QED
    BY <1>1, <1>2, <2>6 DEF Types
<1>4. CASE mode = "forward"
  <2>1. edge \in BOOLEAN /\ exact \in BOOLEAN /\ ctxDone \in BOOLEAN
    BY <1>0, <1>4, Zenon DEF Init, Book!Init
  <2>2. /\ store \in [Rev!Bar -> {"absent", "partial", "final"}]
        /\ batch \in [rows : SUBSET Rev!Bar, hi : 0..(Bars + 1), asOf : Rev!Bar]
    BY <1>4 DEF Init, Rev!Bar, Rev!Empty
  <2>3. /\ kind = "spot" /\ window = 1 /\ blank = {} /\ closed = 0 /\ cursor = 0
        /\ revPc = "over" /\ holes = {}
    BY <1>4 DEF Init
  <2>4. budget = Budget
    BY <1>0 DEF Book!Init
  <2>5. RevT
    BY <2>1, <2>2, <2>3, <2>4 DEF RevT, Rev!TypeOK, Rev!Bar
  <2> QED
    BY <1>1, <1>2, <2>5 DEF Types
<1> QED
  BY <1>3, <1>4 DEF Init

\* What is not the order book's own leaves it alone.
LEMMA BookFrame ==
  ASSUME UNCHANGED bookVars
  PROVE  /\ BookT /\ budget' \in 0..Budget /\ ctxDone' \in BOOLEAN => BookT'
         /\ BookGood => BookGood'
<1>1. BookT /\ budget' \in 0..Budget /\ ctxDone' \in BOOLEAN => BookT'
  BY DEF BookT, Book!TypeOK, bookVars
<1>2. BookGood => BookGood'
  BY DEF BookGood, RowsInOrder, KeptInOrder, HandInOrder, QueueInOrder, Book!BooksAreKept,
         bookVars
<1> QED
  BY <1>1, <1>2

PollerStep == \E p \in Pollers : PollTick(p) \/ PollSeesDone(p) \/ PollRuns(p)

\* Nobody else notices what a poller does.
LEMMA PollFrame ==
  ASSUME PollerStep
  PROVE  UNCHANGED <<mainVars, revVars, bookVars, ctxDone, budget>>
BY DEF PollerStep, PollTick, PollSeesDone, PollRuns, PollFetch, PollInsert, PollPause

\* A step of a poller keeps its types.
LEMMA PollStep ==
  ASSUME Types, PollerStep
  PROVE  Types'
<1> USE ProcessAssumption
<1>0. UNCHANGED <<mainVars, revVars, bookVars, ctxDone, budget>>
  BY PollFrame
<1>1. budget \in 0..Budget /\ ctxDone \in BOOLEAN
  BY DEF Types, BookT, Book!TypeOK
<1>3. RevT' /\ BookT'
  BY <1>0, <1>1, RevTypeFrame, BookFrame DEF Types
<1>4. PICK p \in Pollers : PollTick(p) \/ PollSeesDone(p) \/ PollRuns(p)
  BY DEF PollerStep
<1>5. /\ pollPc' \in [Pollers -> {"wait", "fetch", "insert", "between", "over"}]
      /\ pollTodo' \in [Pollers -> 0..Symbols]
      /\ \A q \in Pollers : pollPc'[q] \in {"fetch", "insert", "between"} => pollTodo'[q] # 0
  <2> USE DEF Types, Own, PollGoTo
  <2>1. CASE PollTick(p)
    <3>1. SymbolsOf(p) \in 1..Symbols
      BY DEF SymbolsOf
    <3> QED
      BY <2>1, <3>1 DEF PollTick
  <2>2. CASE PollSeesDone(p) \/ PollPause(p)
    BY <2>2 DEF PollSeesDone, PollPause
  <2>3. ASSUME NextSymbol(p), pollPc[p] \in {"fetch", "insert"}
        PROVE  /\ pollPc' \in [Pollers -> {"wait", "fetch", "insert", "between", "over"}]
               /\ pollTodo' \in [Pollers -> 0..Symbols]
               /\ \A q \in Pollers : pollPc'[q] \in {"fetch", "insert", "between"} =>
                    pollTodo'[q] # 0
    <3>1. pollTodo[p] \in 1..Symbols
      BY <2>3
    <3> QED
      BY <2>3, <3>1 DEF NextSymbol
  <2>4. CASE PollFetch(p)
    BY <2>3, <2>4 DEF PollFetch
  <2>5. CASE PollInsert(p)
    BY <2>3, <2>5 DEF PollInsert
  <2> QED
    BY <1>4, <2>1, <2>2, <2>4, <2>5 DEF PollRuns
<1> QED
  BY <1>0, <1>3, <1>5 DEF Types, Own, mainVars

\* Steps of main() that no collector notices.
MainAlone == StopReverse \/ StopPoll \/ WaitEnds \/ WaitTimesOut \/ CloseStores \/ Exit

LEMMA MainFrame ==
  ASSUME MainAlone
  PROVE  UNCHANGED <<mode, pollVars, revVars, bookVars, ctxDone, budget>>
BY DEF MainAlone, StopReverse, StopPoll, WaitEnds, WaitTimesOut, CloseStores, Exit

\* Every step keeps the types.
LEMMA TypesStep ==
  ASSUME Types, [Next]_vars
  PROVE  Types'
<1> USE ProcessAssumption
<1>0. budget \in 0..Budget /\ ctxDone \in BOOLEAN
  BY DEF Types, BookT, Book!TypeOK
<1>1. CASE RevRuns \/ RevWorld
  <2>1. RevT'
    BY <1>1, RevTypeStep DEF RevRuns, RevWorld, Types
  <2>2. BookT'
    <3>1. budget' \in 0..Budget /\ ctxDone' \in BOOLEAN
      BY <2>1 DEF RevT, Rev!TypeOK
    <3> QED
      BY <1>1, <3>1, BookFrame DEF RevRuns, RevWorld, Types
  <2>3. Own'
    BY <1>1 DEF RevRuns, RevWorld, Types, Own, mainVars, pollVars
  <2> QED
    BY <2>1, <2>2, <2>3 DEF Types
<1>2. CASE BookRuns \/ BookWorld
  <2>1. BookT'
    BY <1>2, BookTypeStep DEF BookRuns, BookWorld, BookWorldStep, Types
  <2>2. RevT'
    <3>1. budget' \in 0..Budget /\ ctxDone' \in BOOLEAN
      BY <2>1 DEF BookT, Book!TypeOK
    <3> QED
      BY <1>2, <3>1, RevTypeFrame DEF BookRuns, BookWorld, Types
  <2>3. Own'
    BY <1>2 DEF BookRuns, BookWorld, Types, Own, mainVars, pollVars
  <2> QED
    BY <2>1, <2>2, <2>3 DEF Types
<1>3. CASE PollerStep
  BY <1>3, PollStep
<1>4. CASE Signal
  <2>1. RevT' /\ BookT'
    BY <1>4, RevTypeStep, BookTypeStep DEF Signal, BookStop, Types
  <2>2. Own'
    BY <1>4 DEF Signal, MainGoTo, Types, Own, pollVars
  <2> QED
    BY <2>1, <2>2 DEF Types
<1>5. CASE StopBook
  <2>1. BookT'
    BY <1>5, BookTypeStep DEF StopBook, BookStop, Types
  <2>2. RevT'
    <3>1. budget' \in 0..Budget /\ ctxDone' \in BOOLEAN
      BY <2>1 DEF BookT, Book!TypeOK
    <3> QED
      BY <1>5, <3>1, RevTypeFrame DEF StopBook, Types
  <2>3. Own'
    BY <1>5 DEF StopBook, MainGoTo, Types, Own, pollVars
  <2> QED
    BY <2>1, <2>2, <2>3 DEF Types
<1>6. CASE MainAlone
  <2>1. RevT' /\ BookT'
    BY <1>0, <1>6, MainFrame, RevTypeFrame, BookFrame DEF Types
  <2>2. Own'
    BY <1>6, MainFrame DEF MainAlone, StopReverse, StopPoll, WaitEnds, WaitTimesOut, CloseStores,
                           Exit, MainGoTo, Types, Own, pollVars
  <2> QED
    BY <2>1, <2>2 DEF Types
<1>7. CASE UNCHANGED vars
  <2>1. RevT' /\ BookT'
    BY <1>0, <1>7, RevTypeFrame, BookFrame DEF Types, vars
  <2> QED
    BY <1>7, <2>1 DEF Types, Own, vars, mainVars, pollVars
<1> QED
  BY <1>1, <1>2, <1>3, <1>4, <1>5, <1>6, <1>7 DEF Next, PollerStep, MainRuns, MainAlone, Quiet

\* Every variable of the process keeps to its type.
THEOREM TypeCorrect == Spec => []TypeOK
<1>1. Types => TypeOK
  BY DEF Types, RevT, BookT, Own, TypeOK
<1> QED
  BY <1>1, TypesInit, TypesStep, PTL DEF Spec

-----------------------------------------------------------------------------
\* The composition: the collectors' promises

\* A reverse run's holes are explained in reverse mode; a book is kept in any.
Promises == (mode = "reverse" => RevGood) /\ BookGood

LEMMA PromisesInit == Init => Promises
<1> SUFFICES ASSUME Init PROVE Promises
  OBVIOUS
<1> USE ProcessAssumption
<1>0. Book!Init
  BY DEF Init
<1>1. BookGood
  <2>1. /\ Len(queue) = 0 /\ bookPc # "insert" /\ lastBucket = 0 /\ read = {}
        /\ \A b \in Book!Bucket : rows[b] = 0
    BY <1>0 DEF Book!Init
  <2> QED
    BY <2>1 DEF BookGood, RowsInOrder, KeptInOrder, HandInOrder, QueueInOrder, Book!BooksAreKept,
                Book!Bucket
<1>2. CASE mode = "reverse"
  <2>1. Rev!Init
    BY <1>2 DEF Init
  <2>2. cursor = 0 /\ revPc = "top"
    BY <2>1 DEF Rev!Init
  <2> QED
    BY <1>1, <2>2 DEF Promises, RevGood, Passed, InHand, Ended, Rev!Bar
<1> QED
  BY <1>1, <1>2 DEF Promises

\* What leaves the reverse run and its context alone leaves its holes explained.
LEMMA RevGoodFrame ==
  ASSUME RevGood, UNCHANGED <<revVars, ctxDone>>
  PROVE  RevGood'
BY DEF RevGood, Passed, InHand, Ended, revVars

LEMMA PromisesStep ==
  ASSUME Types, Promises, [Next]_vars
  PROVE  Promises'
<1>1. CASE RevRuns \/ RevWorld
  <2>1. mode = "reverse" /\ mode' = mode /\ UNCHANGED bookVars
    BY <1>1 DEF RevRuns, RevWorld, Reverse, mainVars
  <2>2. RevGood'
    BY <1>1, <2>1, RevGoodStep DEF RevRuns, RevWorld, Types, Promises
  <2> QED
    BY <2>1, <2>2, BookFrame DEF Promises
<1>2. CASE BookRuns \/ BookWorld
  <2>1. mode = "forward" /\ mode' = mode
    BY <1>2 DEF BookRuns, BookWorld, Forward, mainVars
  <2>2. BookGood'
    BY <1>2, BookGoodStep DEF BookRuns, BookWorld, BookWorldStep, Types, Promises
  <2> QED
    BY <2>1, <2>2 DEF Promises
<1>3. CASE PollerStep
  <2>1. UNCHANGED <<mainVars, revVars, bookVars, ctxDone>>
    BY <1>3, PollFrame
  <2> QED
    BY <2>1, RevGoodFrame, BookFrame DEF Promises, mainVars
<1>4. CASE Signal
  <2>1. mode' = mode
    BY <1>4 DEF Signal
  <2>2. BookGood'
    BY <1>4, BookGoodStep DEF Signal, BookStop, Types, Promises
  <2>3. mode = "reverse" => RevGood'
    BY <1>4, RevGoodStep DEF Signal, Types, Promises
  <2> QED
    BY <2>1, <2>2, <2>3 DEF Promises
<1>5. CASE StopBook
  <2>1. mode = "forward" /\ mode' = mode
    BY <1>5 DEF StopBook
  <2>2. BookGood'
    BY <1>5, BookGoodStep DEF StopBook, BookStop, Types, Promises
  <2> QED
    BY <2>1, <2>2 DEF Promises
<1>6. CASE MainAlone
  <2>1. UNCHANGED <<mode, revVars, bookVars, ctxDone>>
    BY <1>6, MainFrame
  <2> QED
    BY <2>1, RevGoodFrame, BookFrame DEF Promises
<1>7. CASE UNCHANGED vars
  <2>1. UNCHANGED <<mode, revVars, bookVars, ctxDone>>
    BY <1>7 DEF vars, mainVars
  <2> QED
    BY <2>1, RevGoodFrame, BookFrame DEF Promises
<1> QED
  BY <1>1, <1>2, <1>3, <1>4, <1>5, <1>6, <1>7 DEF Next, PollerStep, MainRuns, MainAlone, Quiet

\* A reverse run passes over no bar, and ends without none, but for a known reason.
THEOREM HolesExplained == Spec => []HolesAreExplained
<1>1. Types /\ Promises => HolesAreExplained
  <2> SUFFICES ASSUME Types, RevGood, NEW b \in 0..(window - 1),
                      b < cursor \/ (revPc = "over" /\ ~ctxDone), store[b] = "absent"
               PROVE  b \in holes
    BY DEF Promises, HolesAreExplained, Rev!HolesAreExplained, Rev!DoneWith
  <2>1. window \in 1..(Bars + 1) /\ Bars \in Nat
    BY ProcessAssumption DEF Types, RevT, Rev!TypeOK
  <2>2. b \in Rev!Bar /\ b < window
    BY <2>1 DEF Rev!Bar
  <2> QED
    BY <2>2 DEF RevGood, Passed, Ended
<1> QED
  BY <1>1, TypesInit, TypesStep, PromisesInit, PromisesStep, PTL DEF Spec

\* The stored books are in the order in which the exchange sent them, none of them stored
\* under a bucket before its own.
THEOREM BooksOrdered == Spec => []BooksInOrder
<1>1. Types /\ Promises => BooksInOrder
  <2> SUFFICES ASSUME Types, RowsInOrder, NEW b \in Book!Bucket, rows[b] # 0
               PROVE  rows[b] <= b /\ \A c \in 1..b : rows[c] <= rows[b]
    BY DEF Promises, BookGood, BooksInOrder, Book!BooksInOrder
  <2>1. \A c \in 1..b : c \in Book!Bucket /\ c <= b
    BY ProcessAssumption DEF Book!Bucket
  <2> QED
    BY <2>1 DEF RowsInOrder
<1> QED
  BY <1>1, TypesInit, TypesStep, PromisesInit, PromisesStep, PTL DEF Spec

\* No book that was read goes missing but for a failed insert, a lost socket, or because
\* another one of its half second is stored.
THEOREM BooksKept == Spec => []BooksAreKept
<1>1. Promises => BooksAreKept
  BY DEF Promises, BookGood, BooksAreKept
<1> QED
  BY <1>1, TypesInit, TypesStep, PromisesInit, PromisesStep, PTL DEF Spec

-----------------------------------------------------------------------------
\* The stores are closed last

\* A collector that is over stays over.
LEMMA OverStays ==
  ASSUME Over, [Next]_vars
  PROVE  Over'
<1>1. CASE RevRuns \/ RevWorld
  <2>1. mode = "reverse" /\ mode' = mode /\ revPc = "over"
    BY <1>1 DEF RevRuns, RevWorld, Reverse, mainVars, Over
  <2>2. revPc' = revPc
    BY <1>1, <2>1 DEF RevRuns, RevWorld, Rev!BarCloses, Rev!Collector, Rev!Top, Rev!Fetch,
                      Rev!FetchEmpty, Rev!FetchFails, Rev!Insert, Rev!InsertFails,
                      Rev!InsertRateFails
  <2> QED
    BY <2>1, <2>2 DEF Over
<1>2. CASE BookRuns \/ BookWorld
  <2>1. mode = "forward" /\ mode' = mode /\ bookPc = "over"
        /\ \A p \in Pollers : pollPc[p] = "over"
    BY <1>2 DEF BookRuns, BookWorld, Forward, mainVars, Over
  <2>2. bookPc' = bookPc /\ pollPc' = pollPc
    BY <1>2, <2>1 DEF BookRuns, BookWorld, Book!Tick, Book!BookIsSent, Book!ConnEnds,
                      Book!RecvCancelled, Book!Collector, Book!Top, Book!Sleep, Book!Connect,
                      Book!ConnectFails, Book!Recv, Book!RecvFails, Book!InsertOrderBook,
                      Book!InsertFails, pollVars
  <2> QED
    BY <2>1, <2>2 DEF Over
<1>3. CASE PollerStep
  <2>1. PICK p \in Pollers : PollTick(p) \/ PollSeesDone(p) \/ PollRuns(p)
    BY <1>3 DEF PollerStep
  <2>2. mode = "forward" /\ pollPc[p] # "over"
    BY <2>1 DEF PollTick, PollSeesDone, PollRuns, PollFetch, PollInsert, PollPause, Forward
  <2> QED
    BY <2>2 DEF Over
<1>4. CASE Signal
  BY <1>4 DEF Signal, Rev!Cancel, Book!Cancel, pollVars, Over
<1>5. CASE StopBook
  BY <1>5 DEF StopBook, Book!CloseDone, Book!CloseConn, revVars, pollVars, Over
<1>6. CASE MainAlone
  BY <1>6, MainFrame DEF pollVars, revVars, bookVars, Over
<1>7. CASE UNCHANGED vars
  BY <1>7 DEF vars, mainVars, pollVars, revVars, bookVars, Over
<1> QED
  BY <1>1, <1>2, <1>3, <1>4, <1>5, <1>6, <1>7 DEF Next, PollerStep, MainRuns, MainAlone, Quiet

\* main() is past its wait with the collectors over, or because it timed out.
Waited ==
  /\ main \in {"closing", "closed", "exited"} => Over \/ timedOut = TRUE
  /\ storesOpen # TRUE => main \in {"closed", "exited"}

LEMMA WaitedStep ==
  ASSUME Types, Waited, [Next]_vars
  PROVE  Waited'
<1>1. CASE MainAlone
  <2>1. Over => Over'
    BY <1>1, OverStays DEF MainAlone, Next, MainRuns
  <2>2. CASE StopReverse \/ StopPoll
    BY <2>1, <2>2 DEF StopReverse, StopPoll, MainGoTo, Waited
  <2>3. CASE WaitEnds
    BY <2>1, <2>3 DEF WaitEnds, MainGoTo, Waited
  <2>4. CASE WaitTimesOut
    BY <2>1, <2>4 DEF WaitTimesOut, MainGoTo, Waited
  <2>5. CASE CloseStores \/ Exit
    BY <2>1, <2>5 DEF CloseStores, Exit, MainGoTo, Waited
  <2> QED
    BY <1>1, <2>2, <2>3, <2>4, <2>5 DEF MainAlone
<1>2. CASE Signal \/ StopBook
  BY <1>2 DEF Signal, StopBook, MainGoTo, Waited
<1>3. CASE UNCHANGED mainVars
  BY <1>3, OverStays DEF mainVars, Waited
<1> QED
  BY <1>1, <1>2, <1>3, PollFrame
     DEF Next, PollerStep, MainRuns, MainAlone, Quiet, vars, RevRuns, RevWorld, BookRuns,
         BookWorld

\* No collector can be in the middle of an insert when main() closes the stores, unless the
\* shutdown timeout passed: WaitGroup and deferred calls together.
THEOREM StoresLast == Spec => []StoresCloseLast
<1>1. Init => Waited
  BY DEF Init, Waited
<1>2. Waited => StoresCloseLast
  BY DEF Waited, StoresCloseLast
<1> QED
  BY <1>1, <1>2, TypesInit, TypesStep, WaitedStep, PTL DEF Spec

=============================================================================
