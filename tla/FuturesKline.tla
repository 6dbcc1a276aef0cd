---------------------------- MODULE FuturesKline ----------------------------
(***************************************************************************)
(* The futures K-line collector (internal/scraper/futureskline): a ticker  *)
(* polls the REST endpoint for the bars after the last one stored, drops   *)
(* those that the local clock says are still open, inserts the rest with   *)
(* ON CONFLICT DO NOTHING and publishes the newest one.  Bars are numbered *)
(* in the order they close; bar number `closed' is the one still open, and *)
(* a row of it carries partial values.  The local clock and the exchange's *)
(* agree.  The runtime cancels the collector's context before it calls     *)
(* Stop(), and never runs two collectors of one stream (StreamRuntime), so *)
(* one flag stands for both and one collector at a time is modelled.       *)
(***************************************************************************)
EXTENDS Naturals, Sequences

CONSTANTS Bars,    \* bound: the bars that close
          Limit,   \* rows in one answer of the exchange
          None,
          Budget   \* bound on disturbances: failed calls, Stop(), crashes

ASSUME FuturesKlineAssumption ==
  /\ Bars \in Nat /\ Limit \in Nat \ {0} /\ Budget \in Nat
  /\ None \notin Nat

VARIABLES
  closed,     \* exchange: how many bars have closed
  store,      \* year database: each bar's row
  published,  \* the rows that Kafka's producer sent, in order
  cursor,     \* lastCloseTime: bars below it are done with, 0 when not seeded
  since,      \* history: the first bar this collector stored
  pc,         \* where the collector is in forward()
  batch,      \* klines, then closed: bars lo .. hi - 1, as they were when asOf had closed
  publish,    \* the bar to publish, or None
  ctxDone,    \* the collector's context is cancelled
  budget      \* disturbances left

vars == <<closed, store, published, cursor, since, pc, batch, publish, ctxDone, budget>>

Bar   == 0..Bars
Kinds == {"partial", "final"}
Empty == [lo |-> 0, hi |-> 0, asOf |-> 0]

TypeOK ==
  /\ closed \in 0..Bars
  /\ store \in [Bar -> Kinds \cup {"absent"}]
  /\ published \in Seq([bar : Bar, kind : Kinds])
  /\ cursor \in 0..Bars /\ since \in 0..Bars
  /\ pc \in {"wait", "filter", "insert", "publish", "over"}
  /\ batch \in [lo : 0..Bars, hi : 0..(Bars + 1), asOf : 0..Bars]
  /\ publish \in Bar \cup {None}
  /\ ctxDone \in BOOLEAN
  /\ budget \in 0..Budget

Init ==
  /\ closed \in 0..Bars
  /\ store = [b \in Bar |-> "absent"]
  /\ published = <<>>
  /\ cursor = 0 /\ since = 0
  /\ pc = "wait"
  /\ batch = Empty
  /\ publish = None
  /\ ctxDone = FALSE
  /\ budget = Budget

-----------------------------------------------------------------------------
\* Helpers

Disturb == budget > 0 /\ budget' = budget - 1

\* A call that fails under a live context is a disturbance.
Failure == IF ctxDone THEN UNCHANGED budget ELSE Disturb

Lesser(m, n)  == IF m < n THEN m ELSE n
Greater(m, n) == IF m < n THEN n ELSE m

Rows(f) == f.lo .. (f.hi - 1)

Kind(f, b) == IF b < f.asOf THEN "final" ELSE "partial"

\* ON CONFLICT (time, symbol) DO NOTHING.
Inserted(S) ==
  [b \in Bar |-> IF b \in S /\ store[b] = "absent" THEN Kind(batch, b) ELSE store[b]]

-----------------------------------------------------------------------------
\* The exchange

BarCloses ==
  /\ closed < Bars
  /\ closed' = closed + 1
  /\ UNCHANGED <<store, published, cursor, since, pc, batch, publish, ctxDone, budget>>

-----------------------------------------------------------------------------
\* The collector: forward()

\* Mutant: the request asks for the newest rows whatever was stored before.
FetchNewest ==
  /\ pc = "wait" /\ ~ctxDone
  /\ \E top \in {closed, closed + 1} :
       batch' = [lo |-> Greater(top, Limit) - Limit, hi |-> top, asOf |-> closed]
  /\ pc' = "filter"
  /\ UNCHANGED <<closed, store, published, cursor, since, publish, ctxDone, budget>>

\* The ticker fires and the exchange answers: the newest rows at first, then those
\* after the cursor.  The bar that just opened may not be listed yet.
Fetch ==
  /\ pc = "wait" /\ ~ctxDone
  /\ \E top \in {closed, closed + 1} :
       batch' = IF cursor = 0
                THEN [lo |-> Greater(top, Limit) - Limit, hi |-> top, asOf |-> closed]
                ELSE [lo |-> cursor, hi |-> Lesser(cursor + Limit, top), asOf |-> closed]
  /\ pc' = "filter"
  /\ UNCHANGED <<closed, store, published, cursor, since, publish, ctxDone, budget>>

FetchFails ==
  /\ pc = "wait"
  /\ Failure
  /\ UNCHANGED <<closed, store, published, cursor, since, pc, batch, publish, ctxDone>>

\* selectForwardPublishKlines: one bar, not the first batch, not a minute old.  A
\* one-minute bar is that old when the next closes, a longer one before.
SelectForwardPublish(b) ==
  IF cursor > 0 /\ b.hi = b.lo + 1 /\ closed = b.lo + 1 THEN {b.lo, None} ELSE {None}

\* Mutant: nothing is filtered.
FilterNothing ==
  /\ pc = "filter"
  /\ IF batch.lo < batch.hi
     THEN publish' \in SelectForwardPublish(batch) /\ pc' = "insert" /\ UNCHANGED batch
     ELSE batch' = Empty /\ publish' = None /\ pc' = "wait"
  /\ UNCHANGED <<closed, store, published, cursor, since, ctxDone, budget>>

\* filterClosedKlines with a clock read after the answer came.
Filter ==
  LET top == Lesser(batch.hi, closed)
  IN  /\ pc = "filter"
      /\ IF batch.lo < top
         THEN /\ batch' = [batch EXCEPT !.hi = top]
              /\ publish' \in SelectForwardPublish(batch')
              /\ pc' = "insert"
         ELSE batch' = Empty /\ publish' = None /\ pc' = "wait"
      /\ UNCHANGED <<closed, store, published, cursor, since, ctxDone, budget>>

\* lastCloseTime moves past the batch and forward() waits for its ticker.
Advance ==
  /\ cursor' = batch.hi
  /\ since' = IF cursor = 0 THEN batch.lo ELSE since
  /\ batch' = Empty /\ publish' = None /\ pc' = "wait"

Insert ==
  /\ pc = "insert" /\ ~ctxDone
  /\ store' = Inserted(Rows(batch))
  /\ IF publish = None THEN Advance
     ELSE pc' = "publish" /\ UNCHANGED <<cursor, since, batch, publish>>
  /\ UNCHANGED <<closed, published, ctxDone, budget>>

\* Mutant: the cursor moves on although the insert failed.
InsertFailsAdvancing ==
  /\ pc = "insert" /\ Failure
  /\ Advance
  /\ UNCHANGED <<closed, store, published, ctxDone>>

\* The insert fails or its answer is lost: rows are inserted one by one, year by year.
InsertFails ==
  /\ pc = "insert"
  /\ Failure
  /\ \E S \in SUBSET Rows(batch) : store' = Inserted(S)
  /\ batch' = Empty /\ publish' = None /\ pc' = "wait"
  /\ UNCHANGED <<closed, published, cursor, since, ctxDone>>

\* PublishKlines: sent, held back by the gate, or failed with the row sent or not;
\* an error is only logged.
PublishKlines ==
  /\ pc = "publish"
  /\ published' \in {published, Append(published, [bar |-> publish, kind |-> Kind(batch, publish)])}
  /\ Advance
  /\ UNCHANGED <<closed, store, ctxDone, budget>>

-----------------------------------------------------------------------------
\* Stop, crash and restart

Stop ==
  /\ ~ctxDone /\ pc # "over" /\ Disturb
  /\ ctxDone' = TRUE
  /\ UNCHANGED <<closed, store, published, cursor, since, pc, batch, publish>>

SeesDone ==
  /\ pc = "wait" /\ ctxDone
  /\ pc' = "over"
  /\ UNCHANGED <<closed, store, published, cursor, since, batch, publish, ctxDone, budget>>

\* The process dies, or the collector ends, and the runtime starts a new one.
Restart ==
  /\ Disturb
  /\ pc' = "wait" /\ batch' = Empty /\ publish' = None /\ ctxDone' = FALSE
  /\ cursor' = 0 /\ since' = 0
  /\ UNCHANGED <<closed, store, published>>

-----------------------------------------------------------------------------
Collector == Fetch \/ FetchFails \/ Filter \/ Insert \/ InsertFails \/ PublishKlines \/ SeesDone

Terminated == pc = "over" /\ UNCHANGED vars

Next == BarCloses \/ Collector \/ Stop \/ Restart \/ Terminated

Spec == Init /\ [][Next]_vars

-----------------------------------------------------------------------------
\* Safety

\* The cursor never passes a bar that is not stored: failed inserts, pages cut at
\* the limit and bars that close during a poll leave no gap behind it.
NoGapBehind == \A b \in Bar : since <= b /\ b < cursor => store[b] # "absent"

Promise == INSTANCE LiveIngest WITH
  stored <- {b \in Bar : store[b] # "absent"},
  sent   <- IF published = <<>> THEN 0 ELSE published[Len(published)].bar + 1

\* The collector keeps the promise of LiveIngest: it sends each bar to Kafka at most
\* once, in the order they closed, and only what a reader of the database finds too:
\* failed sends, crashes and new collectors included.
KeepsPromise == Promise!Spec

\* Documented (README, Live K-line Kafka): only closed, finalized bars are published.
PublishedIsFinal == \A i \in 1..Len(published) : published[i].kind = "final"

-----------------------------------------------------------------------------
\* Liveness

(***************************************************************************)
(* The collector's goroutine is scheduled and its calls end: the HTTP      *)
(* client has a timeout, and the database answers or fails.  Go's select   *)
(* does not prefer the ticker to a cancelled context for ever.             *)
(***************************************************************************)
FairSpec == Spec /\ WF_vars(Collector) /\ SF_vars(SeesDone)

\* Every bar that closes while the collector runs gets stored, however far behind
\* failures left it.
ClosedIsStored ==
  \A b \in Bar : (cursor > 0 /\ since <= b /\ b < closed)
                   ~> (store[b] # "absent" \/ cursor = 0 \/ ctxDone)

=============================================================================
