------------------------------- MODULE Process -------------------------------
(***************************************************************************)
(* The scraper process (cmd/scraper/main.go) with the collectors that its  *)
(* configuration starts: in reverse mode a ReverseRun, in forward mode a   *)
(* SpotOrderBook and the pollers over REST that it names: the futures      *)
(* order book of a symbol, and the funding rates of all.  On a signal      *)
(* main() cancels the common context, calls Stop() on one collector after  *)
(* the other, waits for their goroutines at most for the shutdown timeout, *)
(* closes the stores and exits.  The streams of the control plane are      *)
(* StreamRuntime's and HistoryRuntime's.                                   *)
(***************************************************************************)
EXTENDS Naturals

CONSTANTS Bars, Limit,       \* of ReverseRun
          Buckets, Waiting,  \* of SpotOrderBook
          Symbols,           \* that the funding rates are polled of
          Configured,        \* the sets of pollers that a configuration may name
          Budget             \* bound on disturbances

Pollers == {"futuresBook", "funding"}

\* A futures order book collector has one symbol.
SymbolsOf(p) == IF p = "funding" THEN Symbols ELSE 1

ASSUME ProcessAssumption ==
  /\ Bars \in Nat /\ Limit \in Nat \ {0}
  /\ Buckets \in Nat \ {0} /\ Waiting \in Nat
  /\ Symbols \in Nat \ {0} /\ Configured \subseteq SUBSET Pollers
  /\ Budget \in Nat

VARIABLES
  mode,        \* forward or reverse
  main,        \* where main() is
  timedOut,    \* the shutdown wait ran into its timeout
  storesOpen,  \* the routed stores are not closed
  pollPc,      \* where each poller is
  pollTodo,    \* the symbols that its poll still has to fetch
  ctxDone, budget,
  kind, window, edge, blank, closed, store, cursor, exact, revPc, batch, holes,
  clock, conn, queue, bookPc, lastBucket, book, bucket, inHand, rows, read, lost, bookStop

mainVars == <<mode, main, timedOut, storesOpen>>
pollVars == <<pollPc, pollTodo>>
revVars  == <<kind, window, edge, blank, closed, store, cursor, exact, revPc, batch, holes>>
bookVars == <<clock, conn, queue, bookPc, lastBucket, book, bucket, inHand, rows, read, lost,
              bookStop>>
vars     == <<mainVars, pollVars, revVars, bookVars, ctxDone, budget>>

Rev  == INSTANCE ReverseRun WITH pc <- revPc, excused <- holes
Book == INSTANCE SpotOrderBook WITH pc <- bookPc, excused <- lost, stop <- bookStop

TypeOK ==
  /\ Rev!TypeOK
  /\ Book!TypeOK
  /\ mode \in {"forward", "reverse"}
  /\ main \in {"running", "stopping", "stopPoll", "waiting", "closing", "closed", "exited"}
  /\ timedOut \in BOOLEAN /\ storesOpen \in BOOLEAN
  /\ pollPc \in [Pollers -> {"wait", "fetch", "insert", "between", "over"}]
  /\ pollTodo \in [Pollers -> 0..Symbols]

\* What the mode or the configuration leaves out is not built.
Init ==
  /\ main = "running" /\ timedOut = FALSE /\ storesOpen = TRUE
  /\ pollTodo = [p \in Pollers |-> 0]
  /\ Book!Init
  /\ \/ /\ mode = "reverse" /\ Rev!Init
        /\ pollPc = [p \in Pollers |-> "over"]
     \/ /\ mode = "forward"
        /\ \E S \in Configured :
             pollPc = [p \in Pollers |-> IF p \in S THEN "wait" ELSE "over"]
        /\ kind = "spot" /\ window = 1 /\ edge = FALSE /\ blank = {} /\ closed = 0
        /\ store = [b \in Rev!Bar |-> "absent"]
        /\ cursor = 0 /\ exact = TRUE /\ revPc = "over" /\ batch = Rev!Empty /\ holes = {}

-----------------------------------------------------------------------------
\* The collectors

Forward == mode = "forward" /\ main # "exited"
Reverse == mode = "reverse" /\ main # "exited"

RevRuns == Reverse /\ Rev!Collector /\ UNCHANGED <<mainVars, pollVars, bookVars>>

RevWorld == Reverse /\ Rev!BarCloses /\ UNCHANGED <<mainVars, pollVars, bookVars>>

BookRuns == Forward /\ Book!Collector /\ UNCHANGED <<mainVars, pollVars, revVars>>

BookWorld ==
  /\ Forward
  /\ Book!Tick \/ Book!BookIsSent \/ Book!ConnEnds \/ Book!RecvCancelled
  /\ UNCHANGED <<mainVars, pollVars, revVars>>

-----------------------------------------------------------------------------
\* The pollers: run and poll

PollGoTo(p, where) == pollPc' = [pollPc EXCEPT ![p] = where]

\* A tick is due, or it is the first poll.  A select takes any case that is ready.
PollTick(p) ==
  /\ Forward /\ pollPc[p] = "wait"
  /\ pollTodo' = [pollTodo EXCEPT ![p] = SymbolsOf(p)]
  /\ PollGoTo(p, "fetch")
  /\ UNCHANGED <<mainVars, revVars, bookVars, ctxDone, budget>>

PollSeesDone(p) ==
  /\ Forward /\ pollPc[p] = "wait" /\ ctxDone
  /\ PollGoTo(p, "over")
  /\ UNCHANGED <<mainVars, pollTodo, revVars, bookVars, ctxDone, budget>>

\* The next symbol comes after a pause, or the poll is through.
NextSymbol(p) == /\ pollTodo' = [pollTodo EXCEPT ![p] = @ - 1]
                 /\ PollGoTo(p, IF pollTodo[p] = 1 THEN "wait" ELSE "between")

\* The retries of a call are one step, and it may fail after them: that costs no budget,
\* for the poller goes on in any case.
PollFetch(p) ==
  /\ Forward /\ pollPc[p] = "fetch"
  /\ \/ ~ctxDone /\ PollGoTo(p, "insert") /\ UNCHANGED pollTodo
     \/ NextSymbol(p)
  /\ UNCHANGED <<mainVars, revVars, bookVars, ctxDone, budget>>

\* An insert that fails, or whose row is there already, makes no difference to it.
PollInsert(p) ==
  /\ Forward /\ pollPc[p] = "insert"
  /\ NextSymbol(p)
  /\ UNCHANGED <<mainVars, revVars, bookVars, ctxDone, budget>>

PollPause(p) ==
  /\ Forward /\ pollPc[p] = "between"
  /\ PollGoTo(p, "fetch") \/ (ctxDone /\ PollGoTo(p, "wait"))
  /\ UNCHANGED <<mainVars, pollTodo, revVars, bookVars, ctxDone, budget>>

PollRuns(p) == PollFetch(p) \/ PollInsert(p) \/ PollPause(p)

-----------------------------------------------------------------------------
\* main()

MainGoTo(where) == main' = where

\* cancel(): every collector has the same context.
Signal ==
  /\ main = "running"
  /\ Rev!Cancel /\ Book!Cancel
  /\ MainGoTo("stopping")
  /\ UNCHANGED <<mode, timedOut, storesOpen, pollVars>>

\* A ReverseRun only learns what its context said before.
StopReverse ==
  /\ main = "stopping" /\ mode = "reverse"
  /\ MainGoTo("waiting")
  /\ UNCHANGED <<mode, timedOut, storesOpen, pollVars, revVars, bookVars, ctxDone, budget>>

\* Stop() of the order book closes its channel, then its socket.
StopBook ==
  /\ main = "stopping" /\ mode = "forward"
  /\ \/ Book!CloseDone /\ UNCHANGED main
     \/ Book!CloseConn /\ MainGoTo("stopPoll")
  /\ UNCHANGED <<mode, timedOut, storesOpen, pollVars, revVars>>

\* The pollers, too, only learn what their context said before.
StopPoll ==
  /\ main = "stopPoll"
  /\ MainGoTo("waiting")
  /\ UNCHANGED <<mode, timedOut, storesOpen, pollVars, revVars, bookVars, ctxDone, budget>>

Over == IF mode = "reverse" THEN revPc = "over"
        ELSE bookPc = "over" /\ \A p \in Pollers : pollPc[p] = "over"

\* Mutant: a collector adds itself to the WaitGroup once it runs.
WaitMissesPoller ==
  /\ main = "waiting" /\ (revPc = "over" /\ (mode = "reverse" \/ bookPc = "over"))
  /\ MainGoTo("closing")
  /\ UNCHANGED <<mode, timedOut, storesOpen, pollVars, revVars, bookVars, ctxDone, budget>>

\* wg.Wait() returned.
WaitEnds ==
  /\ main = "waiting" /\ Over
  /\ MainGoTo("closing")
  /\ UNCHANGED <<mode, timedOut, storesOpen, pollVars, revVars, bookVars, ctxDone, budget>>

WaitTimesOut ==
  /\ main = "waiting"
  /\ timedOut' = TRUE
  /\ MainGoTo("closing")
  /\ UNCHANGED <<mode, storesOpen, pollVars, revVars, bookVars, ctxDone, budget>>

\* The deferred calls; collectors that are not over go on until the process is gone.
CloseStores ==
  /\ main = "closing"
  /\ storesOpen' = FALSE
  /\ MainGoTo("closed")
  /\ UNCHANGED <<mode, timedOut, pollVars, revVars, bookVars, ctxDone, budget>>

Exit ==
  /\ main = "closed"
  /\ MainGoTo("exited")
  /\ UNCHANGED <<mode, timedOut, storesOpen, pollVars, revVars, bookVars, ctxDone, budget>>

MainRuns == StopReverse \/ StopBook \/ StopPoll \/ WaitEnds \/ CloseStores \/ Exit

-----------------------------------------------------------------------------
Quiet == main = "exited" /\ UNCHANGED vars

Next == \/ RevRuns \/ RevWorld
        \/ BookRuns \/ BookWorld
        \/ \E p \in Pollers : PollTick(p) \/ PollSeesDone(p) \/ PollRuns(p)
        \/ Signal \/ MainRuns \/ WaitTimesOut
        \/ Quiet

Spec == Init /\ [][Next]_vars

-----------------------------------------------------------------------------
\* Safety

\* ReverseRun: what a run passed over is missing for a known reason.
HolesAreExplained == mode = "reverse" => Rev!HolesAreExplained

\* SpotOrderBook: a row holds a book that was sent in its bucket or before, in order.
BooksInOrder == Book!BooksInOrder

\* SpotOrderBook: a bucket in which a book was read has its row, or a reason to have none.
BooksAreKept == Book!BooksAreKept

\* No collector is still at work, and may insert, when main() closes the stores, unless
\* the shutdown timeout passed.
StoresCloseLast == ~storesOpen => Over \/ timedOut

-----------------------------------------------------------------------------
\* Liveness

(***************************************************************************)
(* Goroutines are scheduled and their calls end: a dial has a handshake    *)
(* timeout, the HTTP clients a timeout, the database answers or fails; a   *)
(* select takes a case that stays ready at some time.  Nobody counts on    *)
(* the shutdown timeout, nor on Recv to notice a cancelled context.        *)
(***************************************************************************)
FairSpec == /\ Spec
            /\ WF_vars(RevRuns) /\ WF_vars(BookRuns)
            /\ \A p \in Pollers : WF_vars(PollRuns(p)) /\ SF_vars(PollSeesDone(p))
            /\ WF_vars(MainRuns)

\* A signal ends the process, without the help of the shutdown timeout: wherever it finds
\* the order book's socket, whose mutex Stop() needs, and whatever fails meanwhile.
SignalEnds == main = "stopping" ~> main = "exited"

\* A reverse run comes to its end, whatever failed on the way, or the process does.
ReverseEnds == mode = "reverse" ~> revPc = "over" \/ main = "exited"

=============================================================================
