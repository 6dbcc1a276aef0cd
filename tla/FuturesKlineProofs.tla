------------------------- MODULE FuturesKlineProofs -------------------------
(***************************************************************************)
(* Theorems about FuturesKline, for any number of bars, size of an answer  *)
(* and number of disturbances: its cursor leaves no gap, and it implements *)
(* LiveIngest.                                                             *)
(***************************************************************************)
EXTENDS FuturesKline, TLAPS

-----------------------------------------------------------------------------
\* The inductive invariant

StoredBars == {b \in Bar : store[b] # "absent"}
SentBound  == IF published = <<>> THEN 0 ELSE published[Len(published)].bar + 1

\* What is in hand begins at the cursor, and holds nothing that has not closed once it
\* is filtered.
BatchInv ==
  /\ pc \in {"filter", "insert", "publish"} =>
       /\ batch.asOf <= closed
       /\ cursor > 0 => batch.lo = cursor
       /\ batch.hi <= closed + 1
       /\ cursor = 0 => SentBound <= batch.hi
  /\ pc \in {"insert", "publish"} => batch.lo < batch.hi /\ batch.hi <= closed

\* A bar to publish is the only one in hand, and is not the collector's first.
PublishInv ==
  /\ pc \in {"wait", "filter", "over"} => publish = None
  /\ publish # None => publish = batch.lo /\ batch.hi = batch.lo + 1 /\ cursor > 0
  /\ pc = "publish" => publish # None /\ Rows(batch) \subseteq StoredBars

\* Bars behind the cursor, stored or sent have closed; a cursor is past all that was sent.
PastInv ==
  /\ cursor <= closed
  /\ StoredBars \subseteq 0..(closed - 1)
  /\ SentBound <= closed
  /\ cursor > 0 => SentBound <= cursor

IInv == TypeOK /\ BatchInv /\ PublishInv /\ PastInv /\ NoGapBehind

-----------------------------------------------------------------------------
\* Helpers

LEMMA Arithmetic ==
  /\ \A m, n \in Nat : /\ Lesser(m, n) \in Nat /\ Lesser(m, n) <= m /\ Lesser(m, n) <= n
                       /\ Lesser(m, n) = m \/ Lesser(m, n) = n
                       /\ Greater(m, n) \in Nat /\ m <= Greater(m, n) /\ n <= Greater(m, n)
                       /\ Greater(m, n) = m \/ Greater(m, n) = n
BY DEF Lesser, Greater

LEMMA RangeGrows ==
  ASSUME NEW m \in Nat, NEW n \in Nat, m <= n
  PROVE  0..(m - 1) \subseteq 0..(n - 1)
OBVIOUS

\* An insert adds the rows in hand to those stored, and forgets none.
LEMMA InsertedAdds ==
  ASSUME TypeOK, NEW S \in SUBSET Bar, store' = Inserted(S)
  PROVE  /\ store' \in [Bar -> Kinds \cup {"absent"}]
         /\ StoredBars' = StoredBars \cup S
<1>1. \A b \in Bar : Kind(batch, b) \in Kinds /\ Kind(batch, b) # "absent"
  BY DEF Kind, Kinds
<1>2. store' \in [Bar -> Kinds \cup {"absent"}]
  BY <1>1 DEF Inserted, TypeOK
<1>3. \A b \in Bar : store'[b] # "absent" <=> b \in S \/ store[b] # "absent"
  BY <1>1 DEF Inserted, TypeOK
<1>4. QED
  BY <1>2, <1>3 DEF StoredBars

\* The last bar sent.
LEMMA LastSent ==
  ASSUME NEW T, NEW q \in Seq(T), q # <<>>
  PROVE  Len(q) \in Nat /\ Len(q) \in DOMAIN q /\ q[Len(q)] \in T
OBVIOUS

LEMMA SentIsNat == ASSUME TypeOK PROVE SentBound \in Nat
<1>1. CASE published = <<>>
  BY <1>1 DEF SentBound
<1>2. CASE published # <<>>
  <2>1. published[Len(published)] \in [bar : Bar, kind : Kinds]
    BY <1>2, LastSent DEF TypeOK
  <2>2. published[Len(published)].bar \in Nat
    BY <2>1, FuturesKlineAssumption DEF Bar
  <2>3. QED
    BY <1>2, <2>2 DEF SentBound
<1>3. QED
  BY <1>1, <1>2

\* Sending a bar makes it the last one sent.
LEMMA SentMoves ==
  ASSUME TypeOK, NEW b \in Bar, NEW k \in Kinds,
         published' = Append(published, [bar |-> b, kind |-> k])
  PROVE  published' \in Seq([bar : Bar, kind : Kinds]) /\ SentBound' = b + 1
<1> DEFINE e == [bar |-> b, kind |-> k]
<1>1. e \in [bar : Bar, kind : Kinds] /\ e.bar = b
  OBVIOUS
<1>2. /\ published' \in Seq([bar : Bar, kind : Kinds])
      /\ Len(published') = Len(published) + 1
      /\ published'[Len(published) + 1] = e
      /\ published' # <<>>
  <2> HIDE DEF e
  <2>1. published' = Append(published, e) /\ published \in Seq([bar : Bar, kind : Kinds])
    BY DEF TypeOK, e
  <2>2. QED
    BY <1>1, <2>1
<1>3. SentBound' = published'[Len(published')].bar + 1
  BY <1>2 DEF SentBound
<1>4. QED
  BY <1>1, <1>2, <1>3

LEMMA RowsAreBars ==
  ASSUME TypeOK, BatchInv, pc \in {"insert", "publish"}
  PROVE  /\ Rows(batch) \subseteq Bar /\ Rows(batch) \subseteq 0..(closed - 1)
         /\ batch.lo \in Rows(batch)
         /\ batch.lo \in 0..Bars /\ batch.hi \in 0..Bars
<1>1. /\ batch.lo \in Nat /\ batch.hi \in Nat /\ closed \in Nat /\ closed <= Bars
      /\ batch.lo < batch.hi /\ batch.hi <= closed /\ Bars \in Nat
  BY FuturesKlineAssumption DEF TypeOK, BatchInv
<1>2. QED
  BY <1>1 DEF Rows, Bar

\* What nobody sent or stored stays as it was.
LEMMA Frame ==
  /\ UNCHANGED published => SentBound' = SentBound
  /\ UNCHANGED store => StoredBars' = StoredBars
BY DEF SentBound, StoredBars

-----------------------------------------------------------------------------
\* The invariant

LEMMA IInit == Init => IInv
<1> SUFFICES ASSUME Init PROVE IInv
  OBVIOUS
<1> USE FuturesKlineAssumption
<1>1. TypeOK
  <2>1. published \in Seq([bar : Bar, kind : Kinds])
    BY DEF Init
  <2>2. batch \in [lo : 0..Bars, hi : 0..(Bars + 1), asOf : 0..Bars]
    BY DEF Init, Empty
  <2>3. /\ closed \in 0..Bars /\ cursor \in 0..Bars /\ since \in 0..Bars /\ budget \in 0..Budget
        /\ store \in [Bar -> Kinds \cup {"absent"}]
    BY DEF Init
  <2>4. /\ pc \in {"wait", "filter", "insert", "publish", "over"}
        /\ publish \in Bar \cup {None} /\ ctxDone \in BOOLEAN
    BY DEF Init
  <2>5. QED
    BY <2>1, <2>2, <2>3, <2>4 DEF TypeOK
<1>2. SentBound = 0 /\ StoredBars = {}
  BY DEF Init, SentBound, StoredBars
<1>3. BatchInv /\ PublishInv /\ PastInv /\ NoGapBehind
  BY <1>2 DEF Init, BatchInv, PublishInv, PastInv, NoGapBehind, Bar
<1>4. QED
  BY <1>1, <1>3 DEF IInv

\* The collector is done with what is in hand, which is stored by then.
LEMMA AdvanceStep ==
  ASSUME IInv, pc \in {"insert", "publish"}, Advance, UNCHANGED <<closed, ctxDone, budget>>,
         store' \in [Bar -> Kinds \cup {"absent"}], StoredBars' = StoredBars \cup Rows(batch),
         published' \in Seq([bar : Bar, kind : Kinds]),
         SentBound' = SentBound \/ (SentBound' = batch.hi /\ cursor > 0)
  PROVE  IInv'
<1> USE FuturesKlineAssumption
<1>1. /\ closed \in Nat /\ closed <= Bars /\ cursor \in Nat /\ since \in 0..Bars
      /\ batch.lo \in Nat /\ batch.hi \in Nat /\ batch.lo < batch.hi /\ batch.hi <= closed
      /\ cursor > 0 => batch.lo = cursor
      /\ SentBound \in Nat /\ SentBound <= batch.hi
  BY SentIsNat, RowsAreBars DEF IInv, TypeOK, BatchInv, PastInv
<1>2. TypeOK'
  BY <1>1 DEF IInv, TypeOK, Advance, Empty
<1>3. BatchInv' /\ PublishInv'
  BY DEF Advance, BatchInv, PublishInv
<1>4. PastInv'
  <2>1. Rows(batch) \subseteq 0..(closed - 1) /\ StoredBars \subseteq 0..(closed - 1)
    BY RowsAreBars DEF IInv, PastInv
  <2>2. StoredBars' \subseteq 0..(closed' - 1)
    BY <2>1
  <2>3. cursor' = batch.hi /\ closed' = closed /\ SentBound' <= batch.hi
    BY <1>1 DEF Advance
  <2>4. QED
    BY <1>1, <2>2, <2>3, SentBound' \in Nat DEF PastInv
<1>5. NoGapBehind'
  <2> SUFFICES ASSUME NEW b \in Bar, since' <= b, b < cursor' PROVE b \in StoredBars'
    BY DEF NoGapBehind, StoredBars
  <2>1. cursor' = batch.hi /\ since' = (IF cursor = 0 THEN batch.lo ELSE since) /\ b \in Nat
    BY DEF Advance, Bar
  <2>2. CASE b \in Rows(batch)
    BY <2>2
  <2>3. CASE b \notin Rows(batch)
    <3>1. b < batch.lo
      BY <1>1, <2>1, <2>3 DEF Rows
    <3>2. cursor # 0 /\ b < cursor /\ since <= b
      BY <1>1, <2>1, <3>1
    <3>3. QED
      BY <3>2 DEF IInv, NoGapBehind, StoredBars
  <2>4. QED
    BY <2>2, <2>3
<1>6. QED
  BY <1>2, <1>3, <1>4, <1>5 DEF IInv

LEMMA FetchStep == IInv /\ Fetch => IInv'
<1> SUFFICES ASSUME IInv, Fetch PROVE IInv'
  OBVIOUS
<1> USE FuturesKlineAssumption
<1>1. PICK top \in {closed, closed + 1} :
        batch' = IF cursor = 0
                 THEN [lo |-> Greater(top, Limit) - Limit, hi |-> top, asOf |-> closed]
                 ELSE [lo |-> cursor, hi |-> Lesser(cursor + Limit, top), asOf |-> closed]
  BY DEF Fetch
<1>2. /\ closed \in Nat /\ closed <= Bars /\ cursor \in Nat /\ cursor <= Bars
      /\ top \in Nat /\ top <= closed + 1 /\ closed <= top /\ SentBound <= closed
  BY <1>1, SentIsNat DEF IInv, TypeOK, PastInv
<1>3. /\ Greater(top, Limit) - Limit \in 0..Bars
      /\ Lesser(cursor + Limit, top) \in Nat /\ Lesser(cursor + Limit, top) <= top
  BY <1>2 DEF Greater, Lesser
<1>4. /\ batch' \in [lo : 0..Bars, hi : 0..(Bars + 1), asOf : 0..Bars]
      /\ batch'.asOf = closed /\ batch'.hi <= closed + 1
      /\ cursor > 0 => batch'.lo = cursor
      /\ cursor = 0 => closed <= batch'.hi
  BY <1>1, <1>2, <1>3
<1>5. TypeOK'
  BY <1>4 DEF IInv, TypeOK, Fetch
<1>6. BatchInv'
  BY <1>2, <1>4, Frame, SentIsNat DEF BatchInv, Fetch, IInv
<1>7. PublishInv' /\ PastInv' /\ NoGapBehind'
  BY Frame DEF IInv, PublishInv, PastInv, NoGapBehind, Fetch
<1>8. QED
  BY <1>5, <1>6, <1>7 DEF IInv

LEMMA FilterStep == IInv /\ Filter => IInv'
<1> SUFFICES ASSUME IInv, Filter PROVE IInv'
  OBVIOUS
<1> USE FuturesKlineAssumption
<1> DEFINE top == Lesser(batch.hi, closed)
<1>1. /\ pc = "filter" /\ closed \in Nat /\ closed <= Bars /\ cursor \in Nat
      /\ batch.lo \in Nat /\ batch.hi \in Nat /\ batch.asOf <= closed
      /\ top \in Nat /\ top <= closed /\ (top = batch.hi \/ top = closed)
      /\ SentBound \in Nat /\ SentBound <= closed
      /\ batch \in [lo : 0..Bars, hi : 0..(Bars + 1), asOf : 0..Bars]
  BY SentIsNat DEF IInv, TypeOK, BatchInv, PastInv, Filter, Lesser
<1>2. CASE batch.lo < top
  <2>1. /\ batch' = [batch EXCEPT !.hi = top] /\ publish' \in SelectForwardPublish(batch')
        /\ pc' = "insert"
    BY <1>2 DEF Filter
  <2>2. /\ batch' \in [lo : 0..Bars, hi : 0..(Bars + 1), asOf : 0..Bars]
        /\ batch'.hi = top /\ batch'.lo = batch.lo /\ batch'.asOf = batch.asOf
    BY <1>1, <2>1
  <2>3. publish' = None \/ (publish' = batch'.lo /\ cursor > 0 /\ batch'.hi = batch'.lo + 1)
    BY <2>1 DEF SelectForwardPublish
  <2>4. TypeOK'
    BY <1>1, <2>1, <2>2, <2>3 DEF IInv, TypeOK, Filter, Bar
  <2>5. BatchInv'
    BY <1>1, <1>2, <2>1, <2>2, Frame DEF IInv, BatchInv, Filter
  <2>6. PublishInv'
    BY <2>1, <2>3 DEF PublishInv, Filter
  <2>7. PastInv' /\ NoGapBehind'
    BY Frame DEF IInv, PastInv, NoGapBehind, Filter
  <2>8. QED
    BY <2>4, <2>5, <2>6, <2>7 DEF IInv
<1>3. CASE ~(batch.lo < top)
  <2>1. batch' = Empty /\ publish' = None /\ pc' = "wait"
    BY <1>3 DEF Filter
  <2>2. TypeOK'
    BY <1>1, <2>1 DEF IInv, TypeOK, Filter, Empty
  <2>3. BatchInv' /\ PublishInv'
    BY <2>1 DEF BatchInv, PublishInv
  <2>4. PastInv' /\ NoGapBehind'
    BY Frame DEF IInv, PastInv, NoGapBehind, Filter
  <2>5. QED
    BY <2>2, <2>3, <2>4 DEF IInv
<1>4. QED
  BY <1>2, <1>3

LEMMA InsertStep == IInv /\ Insert => IInv'
<1> SUFFICES ASSUME IInv, Insert PROVE IInv'
  OBVIOUS
<1>1. /\ pc = "insert" /\ Rows(batch) \in SUBSET Bar
      /\ TypeOK /\ BatchInv
  BY RowsAreBars DEF IInv, Insert
<1>2. /\ store' \in [Bar -> Kinds \cup {"absent"}]
      /\ StoredBars' = StoredBars \cup Rows(batch)
  BY <1>1, InsertedAdds DEF Insert
<1>3. UNCHANGED <<closed, published, ctxDone, budget>> /\ SentBound' = SentBound
  BY Frame DEF Insert
<1>4. CASE publish = None
  <2>1. Advance
    BY <1>4 DEF Insert
  <2>2. published' \in Seq([bar : Bar, kind : Kinds])
    BY <1>1, <1>3 DEF TypeOK
  <2>3. QED
    BY <1>1, <1>2, <1>3, <2>1, <2>2, AdvanceStep
<1>5. CASE publish # None
  <2>1. pc' = "publish" /\ UNCHANGED <<cursor, since, batch, publish>>
    BY <1>5 DEF Insert
  <2>2. TypeOK'
    BY <1>1, <1>2, <1>3, <2>1 DEF TypeOK
  <2>3. BatchInv'
    BY <1>1, <1>3, <2>1 DEF BatchInv
  <2>4. Rows(batch)' = Rows(batch)
    BY <2>1 DEF Rows
  <2>5. PublishInv'
    BY <1>2, <1>5, <2>1, <2>4 DEF IInv, PublishInv
  <2>6. PastInv'
    BY <1>1, <1>2, <1>3, <2>1, RowsAreBars DEF IInv, PastInv
  <2>7. NoGapBehind'
    BY <1>2, <2>1 DEF IInv, NoGapBehind, StoredBars
  <2>8. QED
    BY <2>2, <2>3, <2>5, <2>6, <2>7 DEF IInv
<1>6. QED
  BY <1>4, <1>5

LEMMA PublishStep == IInv /\ PublishKlines => IInv'
<1> SUFFICES ASSUME IInv, PublishKlines PROVE IInv'
  OBVIOUS
<1>1. /\ pc = "publish" /\ TypeOK /\ Advance /\ UNCHANGED <<closed, store, ctxDone, budget>>
      /\ publish # None /\ publish = batch.lo /\ batch.hi = batch.lo + 1 /\ cursor > 0
      /\ Rows(batch) \subseteq StoredBars
  BY DEF IInv, PublishInv, PublishKlines
<1>2. /\ store' \in [Bar -> Kinds \cup {"absent"}]
      /\ StoredBars' = StoredBars \cup Rows(batch)
  BY <1>1, Frame DEF TypeOK
<1>3. CASE published' = published
  BY <1>1, <1>2, <1>3, Frame, AdvanceStep DEF TypeOK
<1>4. CASE published' # published
  <2>1. published' = Append(published, [bar |-> publish, kind |-> Kind(batch, publish)])
    BY <1>4 DEF PublishKlines
  <2>2. publish \in Bar /\ Kind(batch, publish) \in Kinds
    BY <1>1, RowsAreBars DEF IInv, Kind, Kinds
  <2>3. published' \in Seq([bar : Bar, kind : Kinds]) /\ SentBound' = publish + 1
    BY <1>1, <2>1, <2>2, SentMoves
  <2>4. QED
    BY <1>1, <1>2, <2>3, AdvanceStep
<1>5. QED
  BY <1>3, <1>4

LEMMA InsertFailsStep == IInv /\ InsertFails => IInv'
<1> SUFFICES ASSUME IInv, InsertFails PROVE IInv'
  OBVIOUS
<1>1. PICK S \in SUBSET Rows(batch) : store' = Inserted(S)
  BY DEF InsertFails
<1>2. S \subseteq Bar /\ S \subseteq 0..(closed - 1)
  BY <1>1, RowsAreBars DEF IInv, InsertFails
<1>3. /\ store' \in [Bar -> Kinds \cup {"absent"}]
      /\ StoredBars' = StoredBars \cup S
  BY <1>1, <1>2, InsertedAdds DEF IInv
<1>4. budget' \in 0..Budget
  BY FuturesKlineAssumption DEF IInv, TypeOK, InsertFails, Failure, Disturb
<1>5. TypeOK'
  BY <1>3, <1>4, FuturesKlineAssumption DEF IInv, TypeOK, InsertFails, Empty
<1>6. BatchInv' /\ PublishInv'
  BY DEF InsertFails, BatchInv, PublishInv
<1>7. PastInv'
  BY <1>2, <1>3, Frame DEF IInv, PastInv, InsertFails
<1>8. NoGapBehind'
  BY <1>3 DEF IInv, NoGapBehind, StoredBars, InsertFails
<1>9. QED
  BY <1>5, <1>6, <1>7, <1>8 DEF IInv

LEMMA IStep == IInv /\ [Next]_vars => IInv'
<1> SUFFICES ASSUME IInv, [Next]_vars PROVE IInv'
  OBVIOUS
<1> USE FuturesKlineAssumption
<1>1. ASSUME UNCHANGED <<published, store, cursor, since, batch, publish>>,
             closed' \in {closed, closed + 1}, closed' <= Bars, budget' \in 0..Budget,
             ctxDone' \in BOOLEAN, pc' = pc \/ (pc = "wait" /\ pc' = "over")
      PROVE  IInv'
  <2>1. closed \in Nat /\ closed' \in Nat /\ closed <= closed'
        /\ SentBound' = SentBound /\ StoredBars' = StoredBars /\ Rows(batch)' = Rows(batch)
    BY <1>1, Frame DEF IInv, TypeOK, Rows
  <2>2. TypeOK'
    BY <1>1, <2>1 DEF IInv, TypeOK
  <2>3. BatchInv'
    BY <1>1, <2>1, SentIsNat DEF IInv, TypeOK, BatchInv
  <2>4. PublishInv'
    BY <1>1, <2>1 DEF IInv, PublishInv
  <2>5. PastInv'
    <3>1. StoredBars' \subseteq 0..(closed' - 1)
      <4>1. 0..(closed - 1) \subseteq 0..(closed' - 1)
        BY <2>1, RangeGrows
      <4>2. StoredBars \subseteq 0..(closed - 1) /\ StoredBars' = StoredBars
        BY <2>1 DEF IInv, PastInv
      <4>3. QED
        BY <4>1, <4>2
    <3>2. cursor' \in Nat /\ cursor' <= closed' /\ SentBound' <= closed'
          /\ (cursor' > 0 => SentBound' <= cursor')
      BY <1>1, <2>1, SentIsNat DEF IInv, TypeOK, PastInv
    <3>3. QED
      BY <3>1, <3>2 DEF PastInv
  <2>6. NoGapBehind'
    BY <1>1 DEF IInv, NoGapBehind
  <2>7. QED
    BY <2>2, <2>3, <2>4, <2>5, <2>6 DEF IInv
<1>2. closed \in 0..Bars /\ closed + 1 \in Nat /\ budget \in 0..Budget /\ ctxDone \in BOOLEAN
  BY DEF IInv, TypeOK
<1>3. CASE BarCloses
  BY <1>1, <1>2, <1>3 DEF BarCloses
<1>4. CASE Fetch
  BY <1>4, FetchStep
<1>5. CASE FetchFails
  <2>1. budget' \in 0..Budget
    BY <1>2, <1>5 DEF FetchFails, Failure, Disturb
  <2>2. QED
    BY <1>1, <1>2, <1>5, <2>1 DEF FetchFails
<1>6. CASE Filter
  BY <1>6, FilterStep
<1>7. CASE Insert
  BY <1>7, InsertStep
<1>8. CASE InsertFails
  BY <1>8, InsertFailsStep
<1>9. CASE PublishKlines
  BY <1>9, PublishStep
<1>10. CASE SeesDone
  BY <1>1, <1>2, <1>10 DEF SeesDone
<1>11. CASE Stop
  <2>1. budget' \in 0..Budget
    BY <1>2, <1>11 DEF Stop, Disturb
  <2>2. QED
    BY <1>1, <1>2, <1>11, <2>1 DEF Stop
<1>12. CASE Restart
  <2>1. budget' \in 0..Budget
    BY <1>2, <1>12 DEF Restart, Disturb
  <2>2. TypeOK'
    <3>1. batch' \in [lo : 0..Bars, hi : 0..(Bars + 1), asOf : 0..Bars]
      BY <1>12 DEF Restart, Empty
    <3>2. cursor' \in 0..Bars /\ since' \in 0..Bars /\ closed' \in 0..Bars
      BY <1>2, <1>12 DEF Restart
    <3>3. /\ pc' \in {"wait", "filter", "insert", "publish", "over"}
          /\ publish' \in Bar \cup {None} /\ ctxDone' \in BOOLEAN
      BY <1>12 DEF Restart
    <3>4. store' \in [Bar -> Kinds \cup {"absent"}]
      BY <1>12 DEF IInv, TypeOK, Restart
    <3>5. published' \in Seq([bar : Bar, kind : Kinds])
      BY <1>12 DEF IInv, TypeOK, Restart
    <3>6. QED
      BY <2>1, <3>1, <3>2, <3>3, <3>4, <3>5 DEF TypeOK
  <2>3. BatchInv' /\ PublishInv'
    BY <1>12 DEF Restart, BatchInv, PublishInv
  <2>4. PastInv'
    <3>1. SentBound' = SentBound /\ StoredBars' = StoredBars /\ cursor' = 0 /\ closed' = closed
      BY <1>12, Frame DEF Restart
    <3>2. closed \in Nat /\ StoredBars \subseteq 0..(closed - 1) /\ SentBound <= closed
      BY <1>2 DEF IInv, PastInv
    <3>3. QED
      BY <3>1, <3>2 DEF PastInv
  <2>5. NoGapBehind'
    BY <1>12 DEF Restart, NoGapBehind, Bar
  <2>6. QED
    BY <2>2, <2>3, <2>4, <2>5 DEF IInv
<1>13. CASE UNCHANGED vars
  BY <1>1, <1>2, <1>13 DEF vars
<1>14. QED
  BY <1>3, <1>4, <1>5, <1>6, <1>7, <1>8, <1>9, <1>10, <1>11, <1>12, <1>13
  DEF Next, Collector, Terminated

LEMMA Invariant == Spec => []IInv
BY IInit, IStep, PTL DEF Spec

\* Every variable keeps to its type, whatever bars close and calls fail.
THEOREM TypeCorrect == Spec => []TypeOK
<1>1. IInv => TypeOK
  BY DEF IInv
<1>2. QED
  BY <1>1, Invariant, PTL

\* The cursor of forward() never passes a bar that is not stored.
THEOREM NoGaps == Spec => []NoGapBehind
<1>1. IInv => NoGapBehind
  BY DEF IInv
<1>2. QED
  BY <1>1, Invariant, PTL

-----------------------------------------------------------------------------
\* The collector implements LiveIngest

LEMMA PromiseInit == Init => Promise!Init
<1>1. Init => {b \in Bar : store[b] # "absent"} = {} /\ published = <<>> /\ closed \in Nat
  BY FuturesKlineAssumption DEF Init
<1>2. QED
  BY <1>1 DEF Promise!Init

\* What a step does to what is stored and to what was sent last.
LEMMA PromiseStep == IInv /\ [Next]_vars => [Promise!Next]_(Promise!ivars)
<1> SUFFICES ASSUME IInv, [Next]_vars PROVE [Promise!Next]_(Promise!ivars)
  OBVIOUS
<1>1. ASSUME UNCHANGED closed, SentBound' = SentBound,
             NEW S \in SUBSET (0..(closed - 1)), StoredBars' = StoredBars \cup S
      PROVE  [Promise!Next]_(Promise!ivars)
  BY <1>1 DEF Promise!Next, Promise!Store, StoredBars, SentBound
<1>2. ASSUME UNCHANGED <<closed, store, published>>
      PROVE  [Promise!Next]_(Promise!ivars)
  BY <1>2 DEF Promise!ivars
<1>3. CASE BarCloses
  BY <1>3 DEF BarCloses, Promise!Next, Promise!BarCloses
<1>4. CASE Insert
  <2>1. Rows(batch) \subseteq Bar /\ Rows(batch) \subseteq 0..(closed - 1)
    BY <1>4, RowsAreBars DEF IInv, Insert
  <2>2. StoredBars' = StoredBars \cup Rows(batch)
    BY <1>4, <2>1, InsertedAdds DEF IInv, Insert
  <2>3. QED
    BY <1>1, <1>4, <2>1, <2>2, Frame DEF Insert
<1>5. CASE InsertFails
  <2>1. PICK S \in SUBSET Rows(batch) : store' = Inserted(S)
    BY <1>5 DEF InsertFails
  <2>2. S \subseteq Bar /\ S \subseteq 0..(closed - 1)
    BY <1>5, <2>1, RowsAreBars DEF IInv, InsertFails
  <2>3. StoredBars' = StoredBars \cup S
    BY <2>1, <2>2, InsertedAdds DEF IInv
  <2>4. QED
    BY <1>1, <1>5, <2>2, <2>3, Frame DEF InsertFails
<1>6. CASE PublishKlines
  <2>1. CASE published' = published
    BY <1>2, <1>6, <2>1 DEF PublishKlines
  <2>2. CASE published' # published
    <3>1. /\ publish = batch.lo /\ cursor > 0 /\ Rows(batch) \subseteq StoredBars
          /\ pc = "publish" /\ batch.lo = cursor /\ SentBound <= cursor
      BY <1>6 DEF IInv, PublishInv, PublishKlines, BatchInv, PastInv
    <3>2. publish \in Bar /\ publish \in StoredBars /\ Kind(batch, publish) \in Kinds
      BY <3>1, RowsAreBars DEF IInv, Kind, Kinds
    <3>3. published' = Append(published, [bar |-> publish, kind |-> Kind(batch, publish)])
      BY <1>6, <2>2 DEF PublishKlines
    <3>4. SentBound' = publish + 1
      BY <3>2, <3>3, SentMoves DEF IInv
    <3>5. UNCHANGED closed /\ StoredBars' = StoredBars /\ SentBound <= publish
      BY <1>6, <3>1, Frame DEF PublishKlines
    <3>6. Promise!Publish(publish)
      BY <3>2, <3>4, <3>5 DEF Promise!Publish, StoredBars, SentBound
    <3>7. QED
      BY <3>2, <3>6 DEF Promise!Next, StoredBars
  <2>3. QED
    BY <2>1, <2>2
<1>7. CASE Fetch \/ FetchFails \/ Filter \/ SeesDone \/ Stop \/ Restart \/ UNCHANGED vars
  BY <1>2, <1>7 DEF Fetch, FetchFails, Filter, SeesDone, Stop, Restart, vars
<1>8. QED
  BY <1>3, <1>4, <1>5, <1>6, <1>7 DEF Next, Collector, Terminated

\* The collector implements LiveIngest: it stores only bars that have closed, forgets
\* none, and sends each to Kafka at most once, in order, and only when it is stored.
THEOREM PromiseKept == Spec => KeepsPromise
BY PromiseInit, PromiseStep, Invariant, PTL DEF Spec, KeepsPromise, Promise!Spec

=============================================================================
