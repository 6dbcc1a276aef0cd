---------------------------- MODULE SpotOrderBook ----------------------------
(***************************************************************************)
(* The spot order-book collector (internal/scraper/spotorderbook): a book  *)
(* comes through the WebSocket ten times a second, and one per bucket of   *)
(* half a second is kept, the first that is read in it; it is stored under *)
(* the time of its bucket when the first book of a later bucket is read.   *)
(* Time is counted in buckets.  A book is known by the bucket in which the *)
(* exchange sent it: one that waits in the socket, behind a slow insert,   *)
(* is read in a later one.                                                 *)
(***************************************************************************)
EXTENDS Naturals, Sequences

CONSTANTS Buckets,  \* bound: the buckets that the clock goes through, at least one
          Waiting,  \* bound: books on their way
          Budget    \* bound on disturbances: calls that fail, sockets that break

VARIABLES
  clock,       \* the current bucket
  conn,        \* the WebSocket: none, up, broken, ended by the exchange, shut by Stop()
  queue,       \* the books on their way
  pc,          \* where the collector is
  lastBucket,  \* the bucket of the book that is kept, 0 when there is none
  book,        \* latestBids, latestAsks: the book that is kept
  bucket,      \* the bucket in which the book in hand was read
  inHand,      \* the book in hand
  rows,        \* year database: the book of each bucket, 0 when there is none
  read,        \* history: the buckets in which a book was read
  excused,     \* history: the buckets that may have no row (see BooksAreKept)
  ctxDone,     \* the collector was cancelled
  stop,        \* where Stop() is
  budget       \* disturbances left

vars == <<clock, conn, queue, pc, lastBucket, book, bucket, inHand, rows, read, excused,
          ctxDone, stop, budget>>

Bucket == 1..Buckets

TypeOK ==
  /\ clock \in Bucket
  /\ conn \in {"none", "up", "broken", "ended", "shut"}
  /\ queue \in Seq(Bucket)
  /\ pc \in {"top", "dial", "recv", "insert", "sleep", "over"}
  /\ lastBucket \in 0..Buckets /\ book \in 0..Buckets
  /\ bucket \in 0..Buckets /\ inHand \in 0..Buckets
  /\ rows \in [Bucket -> 0..Buckets]
  /\ read \subseteq Bucket /\ excused \subseteq Bucket
  /\ ctxDone \in BOOLEAN
  /\ stop \in {"idle", "closing", "done"}
  /\ budget \in 0..Budget

Init ==
  /\ clock = 1
  /\ conn = "none" /\ queue = <<>>
  /\ pc = "top"
  /\ lastBucket = 0 /\ book = 0 /\ bucket = 0 /\ inHand = 0
  /\ rows = [b \in Bucket |-> 0]
  /\ read = {} /\ excused = {}
  /\ ctxDone = FALSE
  /\ stop = "idle"
  /\ budget = Budget

-----------------------------------------------------------------------------
\* Helpers

GoTo(where) == pc' = where

Disturb == budget > 0 /\ budget' = budget - 1

\* A call that fails under a live context is a disturbance.
Failure == IF ctxDone THEN UNCHANGED budget ELSE Disturb

\* dialAndRead returns: its deferred Close, and the book that it kept is lost.
HangUp == /\ conn' = "none" /\ queue' = <<>>
          /\ lastBucket' = 0 /\ book' = 0
          /\ excused' = excused \cup ({lastBucket} \ {0})

\* The book in hand becomes the one to store, once the one before it was.
Keep(m, in) == book' = m /\ lastBucket' = in

-----------------------------------------------------------------------------
\* The exchange and the clock

Tick ==
  /\ clock < Buckets
  /\ clock' = clock + 1
  /\ UNCHANGED <<conn, queue, pc, lastBucket, book, bucket, inHand, rows, read, excused,
                 ctxDone, stop, budget>>

BookIsSent ==
  /\ conn = "up" /\ Len(queue) < Waiting
  /\ queue' = Append(queue, clock)
  /\ UNCHANGED <<clock, conn, pc, lastBucket, book, bucket, inHand, rows, read, excused,
                 ctxDone, stop, budget>>

ConnEnds ==
  /\ conn = "up" /\ Disturb
  /\ conn' \in {"broken", "ended"}
  /\ UNCHANGED <<clock, queue, pc, lastBucket, book, bucket, inHand, rows, read, excused,
                 ctxDone, stop>>

-----------------------------------------------------------------------------
\* run

Top ==
  /\ pc = "top"
  /\ GoTo(IF ctxDone THEN "over" ELSE "dial")
  /\ UNCHANGED <<clock, conn, queue, lastBucket, book, bucket, inHand, rows, read, excused,
                 ctxDone, stop, budget>>

Sleep ==
  /\ pc = "sleep"
  /\ GoTo(IF ctxDone THEN "over" ELSE "top")
  /\ UNCHANGED <<clock, conn, queue, lastBucket, book, bucket, inHand, rows, read, excused,
                 ctxDone, stop, budget>>

-----------------------------------------------------------------------------
\* dialAndRead

\* Connect holds the mutex.
Connect ==
  /\ pc = "dial" /\ ~ctxDone
  /\ conn' = "up"
  /\ GoTo("recv")
  /\ UNCHANGED <<clock, queue, lastBucket, book, bucket, inHand, rows, read, excused,
                 ctxDone, stop, budget>>

ConnectFails ==
  /\ pc = "dial"
  /\ Failure
  /\ GoTo("sleep") \/ (ctxDone /\ GoTo("over"))
  /\ UNCHANGED <<clock, conn, queue, lastBucket, book, bucket, inHand, rows, read, excused,
                 ctxDone, stop>>

\* Mutant: the book that is kept is always the latest.
RecvKeepsLatest ==
  /\ pc = "recv" /\ queue # <<>> /\ conn # "shut"
  /\ queue' = Tail(queue)
  /\ bucket' = clock /\ inHand' = Head(queue) /\ book' = Head(queue)
  /\ read' = read \cup {clock}
  /\ IF lastBucket = 0 THEN lastBucket' = clock /\ UNCHANGED pc
     ELSE /\ UNCHANGED lastBucket
          /\ IF clock > lastBucket THEN GoTo("insert") ELSE UNCHANGED pc
  /\ UNCHANGED <<clock, conn, rows, excused, ctxDone, stop, budget>>

\* Mutant: the book in hand takes the place of the one to store.
RecvForgetsLast ==
  /\ pc = "recv" /\ queue # <<>> /\ conn # "shut"
  /\ queue' = Tail(queue)
  /\ bucket' = clock /\ inHand' = Head(queue)
  /\ read' = read \cup {clock}
  /\ IF clock > lastBucket THEN Keep(Head(queue), clock) ELSE UNCHANGED <<lastBucket, book>>
  /\ IF clock > lastBucket /\ lastBucket # 0 THEN GoTo("insert") ELSE UNCHANGED pc
  /\ UNCHANGED <<clock, conn, rows, excused, ctxDone, stop, budget>>

\* A book is read.  It is dropped when one of its bucket is kept, kept when it is the
\* first of all, and else the one that is kept is stored first.
Recv ==
  /\ pc = "recv" /\ queue # <<>> /\ conn # "shut"
  /\ queue' = Tail(queue)
  /\ bucket' = clock /\ inHand' = Head(queue)
  /\ read' = read \cup {clock}
  /\ IF lastBucket = 0 THEN Keep(Head(queue), clock) /\ UNCHANGED pc
     ELSE /\ UNCHANGED <<lastBucket, book>>
          /\ IF clock > lastBucket THEN GoTo("insert") ELSE UNCHANGED pc
  /\ UNCHANGED <<clock, conn, rows, excused, ctxDone, stop, budget>>

\* ON CONFLICT (time, symbol) DO NOTHING
Stored == [rows EXCEPT ![lastBucket] = IF @ = 0 THEN book ELSE @]

InsertOrderBook ==
  /\ pc = "insert" /\ ~ctxDone
  /\ rows' = Stored
  /\ Keep(inHand, bucket)
  /\ GoTo("recv")
  /\ UNCHANGED <<clock, conn, queue, bucket, inHand, read, excused, ctxDone, stop, budget>>

\* The failure is logged, and the row given up.
InsertFails ==
  /\ pc = "insert"
  /\ Failure
  /\ rows' \in {rows, Stored}
  /\ excused' = excused \cup {lastBucket}
  /\ Keep(inHand, bucket)
  /\ GoTo("recv")
  /\ UNCHANGED <<clock, conn, queue, bucket, inHand, read, ctxDone, stop>>

\* A read error: what was still on its way is lost.
RecvFails ==
  /\ pc = "recv" /\ conn # "up"
  /\ GoTo(IF stop # "idle" \/ conn \in {"ended", "shut"} THEN "over" ELSE "sleep")
  /\ HangUp
  /\ UNCHANGED <<clock, bucket, inHand, rows, read, ctxDone, stop, budget>>

\* Recv may or may not notice that the context was cancelled.
RecvCancelled ==
  /\ pc = "recv" /\ ctxDone
  /\ GoTo("over") /\ HangUp
  /\ UNCHANGED <<clock, bucket, inHand, rows, read, ctxDone, stop, budget>>

-----------------------------------------------------------------------------
\* Stop

Cancel ==
  /\ ~ctxDone
  /\ ctxDone' = TRUE
  /\ UNCHANGED <<clock, conn, queue, pc, lastBucket, book, bucket, inHand, rows, read,
                 excused, stop, budget>>

CloseDone ==
  /\ ctxDone /\ stop = "idle"
  /\ stop' = "closing"
  /\ UNCHANGED <<clock, conn, queue, pc, lastBucket, book, bucket, inHand, rows, read,
                 excused, ctxDone, budget>>

\* Mutant: the mutex is held as long as the socket is read.
CloseConnWaits ==
  /\ stop = "closing" /\ pc \notin {"dial", "recv", "insert"}
  /\ conn' = IF conn = "none" THEN "none" ELSE "shut"
  /\ stop' = "done"
  /\ UNCHANGED <<clock, queue, pc, lastBucket, book, bucket, inHand, rows, read, excused,
                 ctxDone, budget>>

\* Stop() gets the mutex, which Connect may hold, and closes the socket, if any.
CloseConn ==
  /\ stop = "closing" /\ pc # "dial"
  /\ conn' = IF conn = "none" THEN "none" ELSE "shut"
  /\ stop' = "done"
  /\ UNCHANGED <<clock, queue, pc, lastBucket, book, bucket, inHand, rows, read, excused,
                 ctxDone, budget>>

-----------------------------------------------------------------------------
Collector ==
  \/ Top \/ Sleep
  \/ Connect \/ ConnectFails
  \/ Recv \/ RecvFails
  \/ InsertOrderBook \/ InsertFails

\* The bound on the clock is reached, or the collector is over.
Quiet == /\ pc = "over" \/ (pc = "recv" /\ conn = "up" /\ queue = <<>> /\ clock = Buckets)
         /\ UNCHANGED vars

Next == \/ Tick \/ BookIsSent \/ ConnEnds
        \/ Collector \/ RecvCancelled
        \/ Cancel \/ CloseDone \/ CloseConn
        \/ Quiet

Spec == Init /\ [][Next]_vars

-----------------------------------------------------------------------------
\* Safety

\* A row holds a book that was sent in its bucket or before, and the rows of later buckets
\* hold no older books.
BooksInOrder ==
  \A b \in Bucket : rows[b] # 0 =>
    rows[b] <= b /\ \A c \in 1..b : rows[c] <= rows[b]

\* Every bucket in which a book was read has its row, the one that is kept apart, or its
\* insert failed, or the socket was lost before a book of a later bucket was read.
BooksAreKept ==
  \A b \in read : rows[b] # 0 \/ b \in excused \/ b = lastBucket
                  \/ (pc = "insert" /\ b = bucket)

=============================================================================
