----------------------------- MODULE ReverseRun -----------------------------
(***************************************************************************)
(* A collector in reverse mode, which copies a window of the past from the *)
(* exchange to the store page by page and ends: spot K-lines, futures      *)
(* K-lines or the funding rates of one symbol.  The bars, or rates, are    *)
(* numbered in the order they open; the window holds 0 .. window - 1, and  *)
(* bar number `closed' is the one still open (a rate is final at once).    *)
(* Nothing is published.  Stop() is called once, after the cancel().       *)
(***************************************************************************)
EXTENDS Naturals

CONSTANTS Bars,    \* bound: the bars that close
          Limit,   \* rows in one answer of the exchange, at least one
          Budget   \* bound on disturbances: calls that fail

VARIABLES
  kind,      \* spot, futures or funding
  window,    \* how many bars open in the window, which may reach into the future
  edge,      \* a bar opens at the very end of the window
  blank,     \* funding: the rates whose row cannot be parsed (no mark price)
  closed,    \* exchange: how many bars have closed
  store,     \* year database: each bar's row
  cursor,    \* currentMs: the first bar that does not open before it
  exact,     \* ... which opens exactly then
  pc,        \* where the collector is
  batch,     \* the rows in hand, the bar after them, what had closed when they were sent
  excused,   \* history: the bars that may be missing (see HolesAreExplained)
  ctxDone,   \* the collector was cancelled
  budget     \* disturbances left

vars == <<kind, window, edge, blank, closed, store, cursor, exact, pc, batch, excused,
          ctxDone, budget>>

Bar   == 0..Bars
Empty == [rows |-> {}, hi |-> 0, asOf |-> 0]

TypeOK ==
  /\ kind \in {"spot", "futures", "funding"}
  /\ window \in 1..(Bars + 1)
  /\ edge \in BOOLEAN /\ exact \in BOOLEAN /\ ctxDone \in BOOLEAN
  /\ blank \subseteq Bar /\ excused \subseteq Bar
  /\ closed \in Bar
  /\ store \in [Bar -> {"absent", "partial", "final"}]
  /\ cursor \in 0..(Bars + 1)
  /\ pc \in {"top", "fetch", "insert", "over"}
  /\ batch \in [rows : SUBSET Bar, hi : 0..(Bars + 1), asOf : Bar]
  /\ budget \in 0..Budget

\* The window comes from the configuration, a time given or now (parseReverseRange).
Init ==
  /\ kind \in {"spot", "futures", "funding"}
  /\ closed \in Bar /\ window \in 1..(Bars + 1) /\ edge \in BOOLEAN /\ (edge => window <= Bars)
  /\ blank \in IF kind = "funding" THEN SUBSET Bar ELSE {{}}
  /\ store = [b \in Bar |-> "absent"]
  /\ cursor = 0 /\ exact \in BOOLEAN
  /\ pc = "top"
  /\ batch = Empty
  /\ excused = {}
  /\ ctxDone = FALSE
  /\ budget = Budget

-----------------------------------------------------------------------------
\* Helpers

GoTo(where) == pc' = where

Disturb == budget > 0 /\ budget' = budget - 1

\* A call that fails under a live context is a disturbance.
Failure == IF ctxDone THEN UNCHANGED budget ELSE Disturb

Lesser(m, n) == IF m < n THEN m ELSE n

\* ON CONFLICT (time, symbol) DO NOTHING; the row of an open bar is partial.
Inserted(S) ==
  [b \in Bar |-> IF b \in S /\ store[b] = "absent"
                 THEN IF kind = "funding" \/ b < batch.asOf THEN "final" ELSE "partial"
                 ELSE store[b]]

\* currentMs = the last row's CloseTime + 1 is the open of the next bar; the last rate's
\* time + 1 is past the open.
Advance == cursor' = batch.hi /\ exact' = (kind # "funding")

\* Mutant: the millisecond is added twice in the spot collector, too.
FirstWithoutCare == IF exact /\ kind # "funding" THEN cursor + 1 ELSE cursor

\* The first bar asked for.  The futures fetch takes a close time and adds a millisecond
\* of its own to the cursor it is given.
First == IF exact /\ kind = "futures" THEN cursor + 1 ELSE cursor

\* The futures fetch asks for everything up to now, the others up to endTime inclusive.
Asked(top) ==
  IF kind = "futures" THEN top ELSE Lesser(top, window + IF edge THEN 1 ELSE 0)

-----------------------------------------------------------------------------
\* The exchange

BarCloses ==
  /\ closed < Bars
  /\ closed' = closed + 1
  /\ UNCHANGED <<kind, window, edge, blank, store, cursor, exact, pc, batch, excused,
                 ctxDone, budget>>

-----------------------------------------------------------------------------
\* reverse(), backfillSymbol

Top ==
  /\ pc = "top"
  /\ GoTo(IF ctxDone \/ cursor >= window THEN "over" ELSE "fetch")
  /\ UNCHANGED <<kind, window, edge, blank, closed, store, cursor, exact, batch, excused,
                 ctxDone, budget>>

\* What the exchange answers when the bars below top are listed: the first rows.
Page(top) == First .. (Lesser(First + Limit, Asked(top)) - 1)

\* Mutant: the page's last bar is left to the next page, which starts behind it.
FetchDropsLast ==
  /\ pc = "fetch" /\ ~ctxDone
  /\ \E top \in {closed, closed + 1} :
       \E last \in Page(top) \ blank :
         /\ \A b \in Page(top) \ blank : b <= last
         /\ batch' = [rows |-> (Page(top) \ blank) \ {last}, hi |-> last + 1, asOf |-> closed]
         /\ excused' = excused \cup (cursor..(First - 1)) \cup (Page(top) \cap blank)
  /\ GoTo("insert")
  /\ UNCHANGED <<kind, window, edge, blank, closed, store, cursor, exact, ctxDone, budget>>

\* A page arrives; the bar that just opened may not be listed yet.
Fetch ==
  /\ pc = "fetch" /\ ~ctxDone
  /\ \E top \in {closed, closed + 1} :
       \E last \in Page(top) \ blank :
         /\ \A b \in Page(top) \ blank : b <= last
         /\ batch' = [rows |-> Page(top) \ blank, hi |-> last + 1, asOf |-> closed]
         /\ excused' = excused \cup (cursor..(First - 1)) \cup (Page(top) \cap blank)
  /\ GoTo("insert")
  /\ UNCHANGED <<kind, window, edge, blank, closed, store, cursor, exact, ctxDone, budget>>

\* Mutant: an answer without rows is asked for again.
FetchEmptyAgain ==
  /\ pc = "fetch" /\ ~ctxDone
  /\ \E top \in {closed, closed + 1} : Page(top) \subseteq blank
  /\ GoTo("top")
  /\ UNCHANGED <<kind, window, edge, blank, closed, store, cursor, exact, batch, excused,
                 ctxDone, budget>>

\* An answer without rows ends the run, also when it has rows but none can be parsed.
FetchEmpty ==
  /\ pc = "fetch" /\ ~ctxDone
  /\ \E top \in {closed, closed + 1} :
       /\ Page(top) \subseteq blank
       /\ excused' = excused \cup (cursor..(First - 1))
                             \cup (IF Page(top) = {} THEN closed ELSE First)..Bars
  /\ GoTo("over")
  /\ UNCHANGED <<kind, window, edge, blank, closed, store, cursor, exact, batch, ctxDone, budget>>

\* The K-line collectors sleep and ask again, the funding collector gives the symbol up.
FetchFails ==
  /\ pc = "fetch"
  /\ Failure
  /\ IF kind = "funding" THEN GoTo("over") /\ excused' = excused \cup cursor..Bars
     ELSE GoTo("top") /\ UNCHANGED excused
  /\ UNCHANGED <<kind, window, edge, blank, closed, store, cursor, exact, batch, ctxDone>>

\* storeKlines; the last row of a page of rates.
Insert ==
  /\ pc = "insert" /\ ~ctxDone
  /\ store' = Inserted(batch.rows)
  /\ Advance
  /\ GoTo("top")
  /\ UNCHANGED <<kind, window, edge, blank, closed, batch, excused, ctxDone, budget>>

\* Mutant: the K-line collectors, too, go on after a failed insert.
InsertFailsGoesOn ==
  /\ pc = "insert" /\ Failure
  /\ \E S \in SUBSET batch.rows : store' = Inserted(S)
  /\ Advance /\ GoTo("top")
  /\ UNCHANGED <<kind, window, edge, blank, closed, batch, excused, ctxDone>>

\* An insert fails, or its answer is lost: the K-line collectors ask for the page again.
InsertFails ==
  /\ pc = "insert" /\ kind # "funding"
  /\ Failure
  /\ \E S \in SUBSET batch.rows : store' = Inserted(S)
  /\ GoTo("top")
  /\ UNCHANGED <<kind, window, edge, blank, closed, cursor, exact, batch, excused, ctxDone>>

\* Rates are inserted one by one; one that fails is passed over.
InsertRateFails ==
  /\ pc = "insert" /\ kind = "funding"
  /\ Failure
  /\ \E r \in batch.rows :
       /\ store' \in {store, Inserted({r})}
       /\ batch' = [batch EXCEPT !.rows = @ \ {r}]
       /\ excused' = excused \cup {r}
       /\ IF batch.rows = {r} THEN Advance /\ GoTo("top") ELSE UNCHANGED <<cursor, exact, pc>>
  /\ UNCHANGED <<kind, window, edge, blank, closed, ctxDone>>

-----------------------------------------------------------------------------
\* The process is told to stop

Cancel ==
  /\ ~ctxDone
  /\ ctxDone' = TRUE
  /\ UNCHANGED <<kind, window, edge, blank, closed, store, cursor, exact, pc, batch, excused,
                 budget>>

-----------------------------------------------------------------------------
Collector ==
  \/ Top
  \/ Fetch \/ FetchEmpty \/ FetchFails
  \/ Insert \/ InsertFails \/ InsertRateFails

Quiet == pc = "over" /\ UNCHANGED vars

Next == BarCloses \/ Collector \/ Cancel \/ Quiet

Spec == Init /\ [][Next]_vars

-----------------------------------------------------------------------------
\* Safety

\* The bars of the window that the collector is done with.
DoneWith == {b \in 0..(window - 1) : b < cursor \/ (pc = "over" /\ ~ctxDone)}

\* A bar that a run passed over, or ended without, is missing for one of these reasons.
\* Any kind: the bar was not over when the run came to it.  Futures: it opens exactly at
\* the start of the window or of a page.  Funding: its row could not be parsed or stored,
\* or an earlier call failed, or nothing of an earlier page could be parsed.
HolesAreExplained == \A b \in DoneWith : store[b] = "absent" => b \in excused

-----------------------------------------------------------------------------
\* Liveness

(***************************************************************************)
(* The collector's goroutine is scheduled, and its calls end: the HTTP     *)
(* client has a timeout and the database answers or fails.                 *)
(***************************************************************************)
FairSpec == Spec /\ WF_vars(Collector)

\* A run comes to its end, whatever failed on the way.
ReverseEnds == <>(pc = "over")

=============================================================================
