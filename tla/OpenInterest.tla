---------------------------- MODULE OpenInterest ----------------------------
(***************************************************************************)
(* The open-interest collector (internal/exchange/binance/scraper).        *)
(* Forward, it polls every symbol over REST, and reads a WebSocket when a  *)
(* poll got nothing through; in reverse it pages back through the history  *)
(* of each symbol.  What it met once (lastSeen) it never handles again.    *)
(* Items are numbered; item k bears the time k * Step.  Stop() is called   *)
(* once, by main() after it cancelled the context.                         *)
(***************************************************************************)
EXTENDS Integers, Sequences, FiniteSets

CONSTANTS N,      \* the symbols are 1 .. N, in the order of s.symbols
          Last,   \* bound: the items of a symbol are 0 .. Last
          Step,   \* ticks from one item to the next, more than one: a tick is a millisecond
          Limit,  \* rows in one answer of the history
          Budget  \* bound on disturbances: failed calls, broken sockets, Stop(), crashes

ASSUME OpenInterestAssumption ==
  /\ N \in Nat \ {0} /\ Last \in Nat /\ Step \in Nat \ {0, 1} /\ Limit \in Nat \ {0}
  /\ Budget \in Nat

VARIABLES
  direction, \* forward or reverse
  window,    \* reverse: [startTime, endTime]
  latest,    \* exchange: the newest item of each symbol
  stored,    \* year databases: the items stored
  failed,    \* history: the items whose insert failed
  lastSeen,  \* the items this collector has met
  pc,        \* where the collector is
  i,         \* the symbol in hand
  any,       \* anySuccess of the current poll
  cursor,    \* reverse: what is listed after it is done with
  batch,     \* the items in hand
  conn,      \* the WebSocket: none, up, broken, shut by Stop()
  queue,     \* the items of messages on their way
  stop,      \* where Stop() and the cancel() before it are
  budget     \* disturbances left

vars == <<direction, window, latest, stored, failed, lastSeen, pc, i, any, cursor, batch,
          conn, queue, stop, budget>>

Symbols == 1..N
Items   == [sym : Symbols, k : 0..Last]
Ticks   == 0..(Last * Step + 1)
Window  == [start : Ticks, end : Ticks]
Item(s, k) == [sym |-> s, k |-> k]

Forward == {"top", "poll", "insert", "gap", "pause", "dial", "recv", "insertWS"}
Reverse == {"next", "history", "insertHistory"}

TypeOK ==
  /\ direction \in {"forward", "reverse"}
  /\ window \in Window
  /\ latest \in [Symbols -> 0..Last]
  /\ stored \subseteq Items /\ failed \subseteq Items /\ lastSeen \subseteq Items
  /\ pc \in (IF direction = "forward" THEN Forward ELSE Reverse) \cup {"over"}
  /\ i \in Symbols
  /\ any \in BOOLEAN
  /\ cursor \in -1..(Last * Step + 1)
  /\ batch \subseteq Items
  /\ conn \in {"none", "up", "broken", "shut"}
  /\ queue \in Seq(Items)
  /\ stop \in {"idle", "cancelled", "closing", "done"}
  /\ budget \in 0..Budget

\* Where Run begins.
Start(dir) == IF dir = "forward" THEN "top" ELSE "next"

Init ==
  /\ \/ /\ direction = "forward"
        /\ window = [start |-> 0, end |-> 0]
        /\ latest = [s \in Symbols |-> 0]
     \/ /\ direction = "reverse"
        /\ window \in {w \in Window : w.start <= w.end}
        /\ latest = [s \in Symbols |-> Last]
  /\ stored = {} /\ failed = {} /\ lastSeen = {}
  /\ pc = Start(direction)
  /\ i = 1 /\ any = FALSE /\ cursor = window.end /\ batch = {}
  /\ conn = "none" /\ queue = <<>>
  /\ stop = "idle"
  /\ budget = Budget

-----------------------------------------------------------------------------
\* Helpers

ctxDone == stop # "idle"

Disturb == budget > 0 /\ budget' = budget - 1

\* A call that fails under a live context is a disturbance.
Failure == IF ctxDone THEN UNCHANGED budget ELSE Disturb

GoTo(where) == pc' = where

\* What ends a call of the collector ends the collector, once the context is cancelled.
GoOn(where) == GoTo(IF ctxDone THEN "over" ELSE where)

exchange == <<direction, window, latest>>
socket   == <<conn, queue, stop>>

-----------------------------------------------------------------------------
\* The exchange

NewItem(s) ==
  /\ latest[s] < Last
  /\ latest' = [latest EXCEPT ![s] = @ + 1]
  /\ queue' = IF conn = "up" THEN Append(queue, Item(s, latest'[s])) ELSE queue
  /\ UNCHANGED <<direction, window, stored, failed, lastSeen, pc, i, any, cursor, batch,
                 conn, stop, budget>>

ConnBreaks ==
  /\ conn = "up" /\ Disturb
  /\ conn' = "broken"
  /\ UNCHANGED <<exchange, stored, failed, lastSeen, pc, i, any, cursor, batch, queue, stop>>

-----------------------------------------------------------------------------
\* forward(): a poll

Top ==
  /\ pc = "top"
  /\ GoOn("poll")
  /\ i' = 1 /\ any' = FALSE
  /\ UNCHANGED <<exchange, stored, failed, lastSeen, cursor, batch, socket, budget>>

\* The next symbol of the poll; a poll without success is an error.
NextSymbol(success) ==
  /\ any' = success
  /\ IF i < N THEN i' = i + 1 /\ GoTo("gap")
     ELSE UNCHANGED i /\ GoTo(IF success THEN "pause" ELSE "dial")

\* Between two symbols: a cancelled context is an error of the poll, a closed done is not.
Gap ==
  /\ pc = "gap"
  /\ \/ GoTo("poll")
     \/ ctxDone /\ GoTo("dial")
     \/ stop \in {"closing", "done"} /\ GoTo("pause")
  /\ UNCHANGED <<exchange, stored, failed, lastSeen, i, any, cursor, batch, socket, budget>>

\* REST answers with the symbol's newest item, which counts as a success when it was met
\* before, stored or not.
FetchHTTP ==
  LET x == Item(i, latest[i])
  IN  /\ pc = "poll" /\ ~ctxDone
      /\ IF x \in lastSeen THEN NextSymbol(TRUE) /\ UNCHANGED <<lastSeen, batch>>
         ELSE /\ lastSeen' = lastSeen \cup {x}
              /\ batch' = {x}
              /\ GoTo("insert")
              /\ UNCHANGED <<i, any>>
      /\ UNCHANGED <<exchange, stored, failed, cursor, socket, budget>>

FetchHTTPFails ==
  /\ pc = "poll" /\ Failure
  /\ NextSymbol(any)
  /\ UNCHANGED <<exchange, stored, failed, lastSeen, cursor, batch, socket>>

InsertOpenInterest ==
  /\ pc = "insert" /\ ~ctxDone
  /\ stored' = stored \cup batch
  /\ batch' = {}
  /\ NextSymbol(TRUE)
  /\ UNCHANGED <<exchange, failed, lastSeen, cursor, socket, budget>>

\* The insert fails or its answer is lost.
InsertOpenInterestFails ==
  /\ pc = "insert" /\ Failure
  /\ stored' \in {stored, stored \cup batch}
  /\ failed' = failed \cup batch
  /\ batch' = {}
  /\ NextSymbol(any)
  /\ UNCHANGED <<exchange, lastSeen, cursor, socket>>

Pause ==
  /\ pc = "pause"
  /\ GoOn("top")
  /\ UNCHANGED <<exchange, stored, failed, lastSeen, i, any, cursor, batch, socket, budget>>

-----------------------------------------------------------------------------
\* forward(): the WebSocket

\* Connect holds the mutex that Stop() needs.
Connect ==
  /\ pc = "dial" /\ ~ctxDone
  /\ conn' = "up" /\ queue' = <<>>
  /\ GoTo("recv")
  /\ UNCHANGED <<exchange, stored, failed, lastSeen, i, any, cursor, batch, stop, budget>>

ConnectFails ==
  /\ pc = "dial" /\ Failure
  /\ GoOn("pause")
  /\ UNCHANGED <<exchange, stored, failed, lastSeen, i, any, cursor, batch, socket>>

Recv ==
  /\ pc = "recv" /\ queue # <<>> /\ conn # "shut"
  /\ queue' = Tail(queue)
  /\ IF Head(queue) \in lastSeen THEN UNCHANGED <<lastSeen, batch, pc>>
     ELSE /\ lastSeen' = lastSeen \cup {Head(queue)}
          /\ batch' = {Head(queue)}
          /\ GoTo("insertWS")
  /\ UNCHANGED <<exchange, stored, failed, i, any, cursor, conn, stop, budget>>

\* runWS returns: its deferred Close.
HangUp == conn' = "none" /\ queue' = <<>>

\* A read error.  What was still on its way is lost.
RecvFails ==
  /\ pc = "recv" /\ conn \in {"broken", "shut"}
  /\ GoOn("pause") /\ HangUp
  /\ UNCHANGED <<exchange, stored, failed, lastSeen, i, any, cursor, batch, stop, budget>>

\* Recv may or may not notice that the context was cancelled.
RecvCancelled ==
  /\ pc = "recv" /\ ctxDone
  /\ GoTo("over") /\ HangUp
  /\ UNCHANGED <<exchange, stored, failed, lastSeen, i, any, cursor, batch, stop, budget>>

\* The error of an insert is only logged.
InsertFromWS ==
  /\ pc = "insertWS"
  /\ \/ ~ctxDone /\ stored' = stored \cup batch /\ UNCHANGED <<failed, budget>>
     \/ /\ Failure
        /\ stored' \in {stored, stored \cup batch}
        /\ failed' = failed \cup batch
  /\ batch' = {}
  /\ GoTo("recv")
  /\ UNCHANGED <<exchange, lastSeen, i, any, cursor, socket>>

-----------------------------------------------------------------------------
\* reverse()

\* backfillSymbol's loop: on with the next symbol when the cursor reached the start.
NextHistory ==
  /\ pc = "next"
  /\ IF ctxDone THEN GoTo("over") /\ UNCHANGED <<i, cursor>>
     ELSE IF cursor > window.start THEN GoTo("history") /\ UNCHANGED <<i, cursor>>
     ELSE IF i < N THEN i' = i + 1 /\ cursor' = window.end /\ GoTo("next")
     ELSE GoTo("over") /\ UNCHANGED <<i, cursor>>
  /\ UNCHANGED <<exchange, stored, failed, lastSeen, any, batch, socket, budget>>

\* The newest rows up to a tick, at most Limit of them.
Page(s, to) ==
  LET upTo == {x \in Items : x.sym = s /\ x.k * Step <= to}
  IN  {x \in upTo : Cardinality({y \in upTo : y.k > x.k}) < Limit}

InWindow(x) == window.start <= x.k * Step /\ x.k * Step <= window.end

Oldest(page) == CHOOSE x \in page : \A y \in page : x.k <= y.k

\* Mutant: the next page ends one item early.
BeforePageEarly(page) == (Oldest(page).k - 1) * Step - 1

\* items[0].Time.Add(-time.Millisecond)
BeforePage(page) == Oldest(page).k * Step - 1

\* Mutant: an item is marked before it is looked at.
FilterMarking(page) ==
  /\ lastSeen' = lastSeen \cup page
  /\ batch' = {x \in page : InWindow(x) /\ x \notin lastSeen}

\* What is in the window and was not met before is marked, and is to be inserted.
FilterHistory(page) ==
  /\ batch' = {x \in page : InWindow(x) /\ x \notin lastSeen}
  /\ lastSeen' = lastSeen \cup batch'

\* No rows at all end the symbol; the cursor moves on whatever becomes of the insert.
FetchHistory ==
  LET page == Page(i, cursor)
  IN  /\ pc = "history" /\ ~ctxDone
      /\ IF page = {} THEN cursor' = window.start /\ GoTo("next") /\ UNCHANGED <<lastSeen, batch>>
         ELSE FilterHistory(page) /\ cursor' = BeforePage(page) /\ GoTo("insertHistory")
      /\ UNCHANGED <<exchange, stored, failed, i, any, socket, budget>>

FetchHistoryFails ==
  /\ pc = "history" /\ Failure
  /\ GoTo("next")
  /\ UNCHANGED <<exchange, stored, failed, lastSeen, i, any, cursor, batch, socket>>

InsertOpenInterests ==
  /\ pc = "insertHistory" /\ (batch = {} \/ ~ctxDone)
  /\ stored' = stored \cup batch
  /\ batch' = {}
  /\ GoTo("next")
  /\ UNCHANGED <<exchange, failed, lastSeen, i, any, cursor, socket, budget>>

\* Items are inserted one by one, year by year; the first error ends the call.
InsertOpenInterestsFails ==
  /\ pc = "insertHistory" /\ batch # {} /\ Failure
  /\ \E S \in SUBSET batch : stored' = stored \cup S
  /\ failed' = failed \cup batch
  /\ batch' = {}
  /\ GoTo("next")
  /\ UNCHANGED <<exchange, lastSeen, i, any, cursor, socket>>

-----------------------------------------------------------------------------
\* Stop, crash and restart

Cancel ==
  /\ stop = "idle" /\ Disturb
  /\ stop' = "cancelled"
  /\ UNCHANGED <<exchange, stored, failed, lastSeen, pc, i, any, cursor, batch, conn, queue>>

CloseDone ==
  /\ stop = "cancelled"
  /\ stop' = "closing"
  /\ UNCHANGED <<exchange, stored, failed, lastSeen, pc, i, any, cursor, batch, conn, queue, budget>>

\* Mutant: Stop() closes nothing but the channel.
CloseConnMissing ==
  /\ stop = "closing"
  /\ stop' = "done"
  /\ UNCHANGED <<exchange, stored, failed, lastSeen, pc, i, any, cursor, batch, conn, queue, budget>>

\* Stop() gets the mutex, which Connect may hold, and closes the socket, if any.
CloseConn ==
  /\ stop = "closing" /\ pc # "dial"
  /\ conn' = IF conn = "none" THEN "none" ELSE "shut"
  /\ stop' = "done"
  /\ UNCHANGED <<exchange, stored, failed, lastSeen, pc, i, any, cursor, batch, queue, budget>>

\* The process dies and a new one starts: what was met is forgotten.
Restart ==
  /\ Disturb
  /\ lastSeen' = {} /\ batch' = {} /\ pc' = Start(direction)
  /\ i' = 1 /\ any' = FALSE /\ cursor' = window.end
  /\ HangUp /\ stop' = "idle"
  /\ UNCHANGED <<exchange, stored, failed>>

-----------------------------------------------------------------------------
Collector ==
  \/ Top \/ Gap \/ FetchHTTP \/ FetchHTTPFails \/ Pause
  \/ InsertOpenInterest \/ InsertOpenInterestFails
  \/ Connect \/ ConnectFails \/ Recv \/ RecvFails \/ InsertFromWS
  \/ NextHistory \/ FetchHistory \/ FetchHistoryFails
  \/ InsertOpenInterests \/ InsertOpenInterestsFails

\* The collector is over, or waits for messages of items beyond the bound.
Quiet == pc \in {"over", "recv"} /\ UNCHANGED vars

Next == \/ (\E s \in Symbols : NewItem(s)) \/ ConnBreaks
        \/ Collector \/ RecvCancelled
        \/ Cancel \/ CloseDone \/ CloseConn
        \/ Restart
        \/ Quiet

Spec == Init /\ [][Next]_vars

-----------------------------------------------------------------------------
\* Safety

\* What the collector has met, over REST, the WebSocket or in the history, is stored, in
\* hand, or its insert failed: lastSeen hides nothing else from later polls.
SeenIsHandled == lastSeen \subseteq stored \cup batch \cup failed

\* A reverse run that ends by itself has stored what the exchange lists in its window,
\* page by page back to the very start, but for failed inserts, and nothing else.
HistoryIsCovered ==
  direction = "reverse" =>
    /\ \A x \in stored : InWindow(x)
    /\ pc = "over" /\ ~ctxDone /\ window.start < window.end =>
         \A x \in Items : InWindow(x) => x \in stored \cup failed

-----------------------------------------------------------------------------
\* Liveness

(***************************************************************************)
(* The collector's goroutine and the Stop() caller are scheduled and their *)
(* calls end (timeouts of the poll, the HTTP client and the dial; the      *)
(* database answers or fails).                                             *)
(***************************************************************************)
FairSpec == Spec /\ WF_vars(Collector) /\ WF_vars(CloseDone) /\ WF_vars(CloseConn)

\* A stopped collector ends, wherever Stop() finds it: in a poll, dialling, with a socket
\* that no message comes through, or in a page of the history.
StopEnds == ctxDone ~> (pc = "over" \/ ~ctxDone)

=============================================================================
