------------------------------ MODULE SpotKline ------------------------------
(***************************************************************************)
(* The spot K-line collector (internal/scraper/spotkline) in forward mode: *)
(* it catches up over REST from its resume cursor, without publishing,     *)
(* then dials the WebSocket and stores and publishes the bar of every      *)
(* closed message; an error closes the socket and starts over after two    *)
(* seconds.  Bars are numbered in the order they close; bar number         *)
(* `closed' is the one still open.  The local clock and the exchange's     *)
(* agree.  Stop() is called once (StreamRuntime), after the context of the *)
(* collector was cancelled.                                                *)
(***************************************************************************)
EXTENDS Naturals, Sequences

CONSTANTS Bars,    \* bound: the bars that close
          Limit,   \* rows in one answer of the exchange
          Budget   \* bound on disturbances: failed calls, broken sockets, Stop(), crashes

ASSUME SpotKlineAssumption ==
  Bars \in Nat \ {0} /\ Limit \in Nat \ {0} /\ Budget \in Nat

VARIABLES
  closed,     \* exchange: how many bars have closed
  store,      \* year database: each bar's row
  published,  \* the bars that Kafka's producer sent, in order
  cursor,     \* forwardResumeTimeMs: the bar to resume from, 0 when there is none
  since,      \* history: the first bar this collector handled
  excused,    \* history: bars that it may skip (see GapsAreExplained)
  pc,         \* where the collector is in forward()
  clock,      \* nowMs of the catch-up: the bars closed by then
  batch,      \* the bars in hand: lo .. hi - 1, as they were when asOf had closed
  conn,       \* the WebSocket: none, up, broken, ended by the exchange, shut by Stop()
  queue,      \* the closed bars of messages on their way
  stop,       \* where Stop() and the cancel() before it are
  budget      \* disturbances left

vars == <<closed, store, published, cursor, since, excused, pc, clock, batch, conn,
          queue, stop, budget>>

Bar   == 0..Bars
Empty == [lo |-> 0, hi |-> 0, asOf |-> 0]
Steps == {"top", "catchUp", "fetch", "catchUpInsert", "dial", "recv", "insert",
          "publish", "sleep", "over"}

TypeOK ==
  /\ closed \in 0..Bars
  /\ store \in [Bar -> {"absent", "partial", "final"}]
  /\ published \in Seq(Bar)
  /\ cursor \in 0..Bars /\ since \in 0..Bars /\ clock \in 0..Bars
  /\ excused \subseteq Bar
  /\ pc \in Steps
  /\ batch \in [lo : 0..Bars, hi : 0..(Bars + 1), asOf : 0..Bars]
  /\ conn \in {"none", "up", "broken", "ended", "shut"}
  /\ queue \in Seq(Bar)
  /\ stop \in {"idle", "cancelled", "closing", "done"}
  /\ budget \in 0..Budget

Init ==
  /\ closed \in 0..1
  /\ store = [b \in Bar |-> "absent"]
  /\ published = <<>>
  /\ cursor = 0 /\ since = 0 /\ clock = 0
  /\ excused = {}
  /\ pc = "top"
  /\ batch = Empty
  /\ conn = "none" /\ queue = <<>>
  /\ stop = "idle"
  /\ budget = Budget

-----------------------------------------------------------------------------
\* Helpers

ctxDone == stop # "idle"
done    == stop \in {"closing", "done"}

Disturb == budget > 0 /\ budget' = budget - 1

\* A call that fails under a live context is a disturbance.
Failure == IF ctxDone THEN UNCHANGED budget ELSE Disturb

Lesser(m, n) == IF m < n THEN m ELSE n

Rows(f) == f.lo .. (f.hi - 1)

\* ON CONFLICT (time, symbol) DO NOTHING.
Inserted(S) ==
  [b \in Bar |-> IF b \in S /\ store[b] = "absent"
                 THEN IF b < batch.asOf THEN "final" ELSE "partial"
                 ELSE store[b]]

GoTo(where) == pc' = where

\* The resume cursor moves past the bars in hand.
Advance == /\ cursor' = batch.hi
           /\ since' = IF cursor = 0 THEN batch.lo ELSE since

\* dialAndRead returns: its deferred Close, under the mutex that Connect holds too.
HangUp == conn' = "none" /\ queue' = <<>>

\* After an error, forward() ends if isClosed takes it for the end, and sleeps if not.
AfterError == GoTo("sleep") \/ GoTo("over")

-----------------------------------------------------------------------------
\* The exchange

\* A bar closes; its message is sent to whoever is connected.
BarCloses ==
  /\ closed < Bars
  /\ closed' = closed + 1
  /\ IF conn = "up" THEN queue' = Append(queue, closed) /\ UNCHANGED excused
     ELSE excused' = excused \cup {closed} /\ UNCHANGED queue
  /\ UNCHANGED <<store, published, cursor, since, pc, clock, batch, conn, stop, budget>>

ConnEnds ==
  /\ conn = "up" /\ Disturb
  /\ conn' \in {"broken", "ended"}
  /\ UNCHANGED <<closed, store, published, cursor, since, excused, pc, clock, batch, queue, stop>>

-----------------------------------------------------------------------------
\* forward(): the loop

Top ==
  /\ pc = "top"
  /\ IF ctxDone THEN GoTo("over") ELSE IF cursor = 0 THEN GoTo("dial") ELSE GoTo("catchUp")
  /\ UNCHANGED <<closed, store, published, cursor, since, excused, clock, batch, conn,
                 queue, stop, budget>>

Sleep ==
  /\ pc = "sleep"
  /\ IF ctxDone THEN GoTo("over") ELSE GoTo("top")
  /\ UNCHANGED <<closed, store, published, cursor, since, excused, clock, batch, conn,
                 queue, stop, budget>>

-----------------------------------------------------------------------------
\* catchUpForward

\* nowMs is read before the request is sent.  What has closed by now is to be stored.
CatchUp ==
  /\ pc = "catchUp"
  /\ clock' = closed
  /\ excused' = {b \in excused : b < cursor}
  /\ GoTo("fetch")
  /\ UNCHANGED <<closed, store, published, cursor, since, batch, conn, queue, stop, budget>>

\* Mutant: the bar that is still open is not filtered out.
FilterNothing(hi) == hi

\* filterClosedKlines(klines, nowMs)
FilterClosed(hi) == Lesser(hi, clock)

\* The exchange answers with the bars opened by nowMs; the last may not be listed yet.
FetchBatch ==
  /\ pc = "fetch" /\ ~ctxDone
  /\ \E top \in {clock, clock + 1} :
       LET hi  == Lesser(cursor + Limit, top)
           end == FilterClosed(hi)
       IN  IF cursor < end
           THEN batch' = [lo |-> cursor, hi |-> end, asOf |-> closed] /\ GoTo("catchUpInsert")
           ELSE UNCHANGED batch /\ GoTo("dial")
  /\ UNCHANGED <<closed, store, published, cursor, since, excused, clock, conn, queue,
                 stop, budget>>

FetchFails ==
  /\ pc = "fetch"
  /\ Failure
  /\ GoTo("sleep")
  /\ UNCHANGED <<closed, store, published, cursor, since, excused, clock, batch, conn,
                 queue, stop>>

\* Mutant: one page and no more.
CatchUpOnce ==
  /\ pc = "catchUpInsert" /\ ~ctxDone
  /\ store' = Inserted(Rows(batch))
  /\ Advance
  /\ GoTo("dial")
  /\ UNCHANGED <<closed, published, excused, clock, batch, conn, queue, stop, budget>>

\* storeCatchUpKlines: never published.  The loop ends with a page that held an open bar.
CatchUpInsert ==
  /\ pc = "catchUpInsert" /\ ~ctxDone
  /\ store' = Inserted(Rows(batch))
  /\ Advance
  /\ \/ GoTo("catchUp")
     \/ batch.hi = clock /\ batch.hi < batch.lo + Limit /\ GoTo("dial")
  /\ UNCHANGED <<closed, published, excused, clock, batch, conn, queue, stop, budget>>

\* The insert fails or its answer is lost: rows are inserted one by one, year by year.
CatchUpInsertFails ==
  /\ pc = "catchUpInsert"
  /\ Failure
  /\ \E S \in SUBSET Rows(batch) : store' = Inserted(S)
  /\ GoTo("sleep")
  /\ UNCHANGED <<closed, published, cursor, since, excused, clock, batch, conn, queue, stop>>

-----------------------------------------------------------------------------
\* dialAndRead

\* Connect holds the mutex.  A Close that Stop() made before it finds nothing to close.
Connect ==
  /\ pc = "dial" /\ ~ctxDone
  /\ conn' = "up" /\ queue' = <<>>
  /\ GoTo("recv")
  /\ UNCHANGED <<closed, store, published, cursor, since, excused, clock, batch, stop, budget>>

ConnectFails ==
  /\ pc = "dial"
  /\ Failure
  /\ GoTo("sleep") \/ (ctxDone /\ GoTo("over"))
  /\ UNCHANGED <<closed, store, published, cursor, since, excused, clock, batch, conn,
                 queue, stop>>

\* A message of a closed bar; those of open bars are read and ignored.
Recv ==
  /\ pc = "recv" /\ queue # <<>> /\ conn # "shut"
  /\ LET b == Head(queue) IN batch' = [lo |-> b, hi |-> b + 1, asOf |-> b + 1]
  /\ queue' = Tail(queue)
  /\ GoTo("insert")
  /\ UNCHANGED <<closed, store, published, cursor, since, excused, clock, conn, stop, budget>>

\* A read error: what was still on its way is lost.
RecvFails ==
  /\ pc = "recv" /\ conn # "up"
  /\ IF done \/ conn \in {"ended", "shut"} THEN GoTo("over") ELSE GoTo("sleep")
  /\ HangUp
  /\ UNCHANGED <<closed, store, published, cursor, since, excused, clock, batch, stop, budget>>

\* Recv may or may not notice that the context was cancelled.
RecvCancelled ==
  /\ pc = "recv" /\ ctxDone
  /\ GoTo("over") /\ HangUp
  /\ UNCHANGED <<closed, store, published, cursor, since, excused, clock, batch, stop, budget>>

Insert ==
  /\ pc = "insert" /\ ~ctxDone
  /\ store' = Inserted(Rows(batch))
  /\ GoTo("publish")
  /\ UNCHANGED <<closed, published, cursor, since, excused, clock, batch, conn, queue,
                 stop, budget>>

\* Mutant: a bar that could not be stored is published all the same.
InsertFailsPublishes ==
  /\ pc = "insert" /\ Failure
  /\ GoTo("publish")
  /\ UNCHANGED <<closed, store, published, cursor, since, excused, clock, batch, conn, queue, stop>>

\* storeForwardKlines moves the cursor past a bar that it failed to store.
InsertFails ==
  /\ pc = "insert"
  /\ Failure
  /\ \E S \in SUBSET Rows(batch) : store' = Inserted(S)
  /\ excused' = excused \cup Rows(batch)
  /\ Advance
  /\ AfterError /\ HangUp
  /\ UNCHANGED <<closed, published, clock, batch, stop>>

Sent == Append(published, batch.lo)

\* The bar is sent, or held back by the gate.
PublishKlines ==
  /\ pc = "publish"
  /\ published' \in {published, Sent}
  /\ Advance
  /\ GoTo("recv")
  /\ UNCHANGED <<closed, store, excused, clock, batch, conn, queue, stop, budget>>

\* Kafka may have taken the bar all the same; it is not sent again.
PublishFails ==
  /\ pc = "publish"
  /\ Failure
  /\ published' \in {published, Sent}
  /\ Advance
  /\ AfterError /\ HangUp
  /\ UNCHANGED <<closed, store, excused, clock, batch, stop>>

-----------------------------------------------------------------------------
\* Stop, crash and restart

Cancel ==
  /\ stop = "idle" /\ Disturb
  /\ stop' = "cancelled"
  /\ UNCHANGED <<closed, store, published, cursor, since, excused, pc, clock, batch, conn, queue>>

CloseDone ==
  /\ stop = "cancelled"
  /\ stop' = "closing"
  /\ UNCHANGED <<closed, store, published, cursor, since, excused, pc, clock, batch, conn,
                 queue, budget>>

\* Mutant: Stop() closes nothing but the channel.
CloseConnMissing ==
  /\ stop = "closing"
  /\ stop' = "done"
  /\ UNCHANGED <<closed, store, published, cursor, since, excused, pc, clock, batch, conn, queue, budget>>

\* Stop() gets the mutex, which Connect may hold, and closes the socket, if any.
CloseConn ==
  /\ stop = "closing" /\ pc # "dial"
  /\ conn' = IF conn = "none" THEN "none" ELSE "shut"
  /\ stop' = "done"
  /\ UNCHANGED <<closed, store, published, cursor, since, excused, pc, clock, batch, queue, budget>>

\* The process dies, or the collector ended, and the runtime starts a new one.
Restart ==
  /\ Disturb
  /\ pc' = "top" /\ cursor' = 0 /\ since' = 0 /\ clock' = 0 /\ excused' = {}
  /\ batch' = Empty /\ HangUp /\ stop' = "idle"
  /\ UNCHANGED <<closed, store, published>>

-----------------------------------------------------------------------------
Collector ==
  \/ Top \/ Sleep
  \/ CatchUp \/ FetchBatch \/ FetchFails \/ CatchUpInsert \/ CatchUpInsertFails
  \/ Connect \/ ConnectFails \/ Recv \/ RecvFails
  \/ Insert \/ InsertFails \/ PublishKlines \/ PublishFails

\* The bound on the bars that close is reached, or the collector is over.
Quiet == /\ pc = "over" \/ (pc = "recv" /\ conn = "up" /\ queue = <<>> /\ closed = Bars)
         /\ UNCHANGED vars

Next == \/ BarCloses \/ ConnEnds
        \/ Collector \/ RecvCancelled
        \/ Cancel \/ CloseDone \/ CloseConn
        \/ Restart
        \/ Quiet

Spec == Init /\ [][Next]_vars

-----------------------------------------------------------------------------
\* Safety

\* Only final rows reach the store, where a later one could not replace them.
StoredIsFinal == \A b \in Bar : store[b] # "partial"

\* A bar behind the cursor is missing from the store for one of two reasons: its
\* insert failed, or it closed after the catch-up before the dial had read the clock
\* and before the dial was through.
GapsAreExplained ==
  \A b \in Bar : since <= b /\ b < cursor /\ store[b] = "absent" => b \in excused

Promise == INSTANCE LiveIngest WITH
  stored <- {b \in Bar : store[b] # "absent"},
  sent   <- IF published = <<>> THEN 0 ELSE published[Len(published)] + 1

\* The collector keeps the promise of LiveIngest: it sends each bar to Kafka at most
\* once, in the order they closed, and only what a reader of the database finds too:
\* failed sends, catch-ups and restarts included.
KeepsPromise == Promise!Spec

-----------------------------------------------------------------------------
\* Liveness

(***************************************************************************)
(* The collector's goroutine and the Stop() caller are scheduled and their *)
(* calls end (a dial has a handshake timeout, the HTTP client a timeout,   *)
(* the database answers or fails).                                         *)
(***************************************************************************)
FairSpec == Spec /\ WF_vars(Collector) /\ WF_vars(CloseDone) /\ WF_vars(CloseConn)

\* A stopped collector ends, wherever Stop() finds it: dialling, with a socket that no
\* message comes through, or between two sockets.
StopEnds == ctxDone ~> (pc = "over" \/ ~ctxDone)

=============================================================================
