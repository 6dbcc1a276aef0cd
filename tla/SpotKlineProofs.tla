--------------------------- MODULE SpotKlineProofs ---------------------------
(***************************************************************************)
(* Theorems about the spot K-line collector, for any number of bars, size  *)
(* of an answer and number of disturbances: its types, that it stores only *)
(* final rows, that the bars missing behind its cursor have a reason, and  *)
(* that it implements LiveIngest.  IInv is the inductive invariant: the    *)
(* bars that closed are behind the cursor, excused, in hand or on their    *)
(* way, in this order.                                                     *)
(***************************************************************************)
EXTENDS SpotKline, TLAPS

\* A collector with a socket: it waits for a message, or has the bar of one in hand.
Live   == {"recv", "insert", "publish"}
InHand == {"insert", "publish"}

Waiting == {queue[k] : k \in 1..Len(queue)}

\* The next bar that may be sent.
SentBound == IF published = <<>> THEN 0 ELSE published[Len(published)] + 1

StoredBars == {b \in Bar : store[b] # "absent"}

\* The rows in hand have all closed; in a catch-up they follow the cursor.
BatchInv ==
  /\ batch.hi <= batch.asOf /\ batch.asOf <= closed
  /\ pc = "catchUpInsert" => batch.lo = cursor /\ cursor < batch.hi /\ batch.hi <= clock
  /\ pc \in InHand => batch.hi = batch.lo + 1 /\ cursor <= batch.lo /\ SentBound <= batch.lo
  /\ pc = "publish" => batch.lo \in StoredBars

\* Nothing is ahead of the exchange.
PastInv ==
  /\ clock <= closed /\ cursor <= closed /\ SentBound <= closed
  /\ StoredBars \subseteq 0..(closed - 1)

\* The messages on their way come in order, after all that came before.
QueueInv ==
  /\ pc \in Live <=> conn # "none"
  /\ pc \notin Live => queue = <<>>
  /\ \A k \in 1..Len(queue) :
       queue[k] < closed /\ cursor <= queue[k] /\ SentBound <= queue[k]
  /\ \A k, l \in 1..Len(queue) : k < l => queue[k] < queue[l]
  /\ pc \in InHand => \A k \in 1..Len(queue) : batch.lo < queue[k]

\* Every bar from the first one on that has closed is excused, on its way or in hand.
Followed(first) ==
  \A b \in Bar : first <= b /\ b < closed =>
    b \in excused \cup Waiting \/ (pc \in InHand /\ b = batch.lo)

FollowInv ==
  /\ pc \in {"catchUp", "fetch", "catchUpInsert"} => cursor # 0
  /\ pc \in {"fetch", "catchUpInsert"} => Followed(clock)
  /\ pc \in {"dial"} \cup Live => (cursor # 0 => Followed(cursor))
  /\ pc \in InHand => Followed(batch.lo)
  /\ \A q \in Waiting : Followed(q)

IInv == /\ TypeOK /\ BatchInv /\ PastInv /\ QueueInv /\ FollowInv
        /\ StoredIsFinal /\ GapsAreExplained

-----------------------------------------------------------------------------
\* Lemmas about the operators

\* A message that is sent is the last of those on their way.
LEMMA WaitingGrows ==
  ASSUME queue \in Seq(Bar), closed \in Bar, queue' = Append(queue, closed)
  PROVE  /\ Waiting' = Waiting \cup {closed}
         /\ Len(queue') = Len(queue) + 1
         /\ \A k \in 1..Len(queue') :
              \/ k \in 1..Len(queue) /\ queue'[k] = queue[k]
              \/ k = Len(queue) + 1 /\ queue'[k] = closed
<1> DEFINE n == Len(queue)
<1>1. n \in Nat /\ Len(queue') = n + 1
  OBVIOUS
<1>2. queue'[n + 1] = closed /\ \A k \in 1..n : queue'[k] = queue[k]
  OBVIOUS
<1>3. \A k \in 1..(n + 1) : k \in 1..n \/ k = n + 1
  BY <1>1
<1>4. n + 1 \in 1..(n + 1) /\ \A k \in 1..n : k \in 1..(n + 1)
  BY <1>1
<1> HIDE DEF n
<1>5. Waiting' = Waiting \cup {closed}
  <2>1. Waiting' = {queue'[k] : k \in 1..(n + 1)} /\ Waiting = {queue[k] : k \in 1..n}
    BY <1>1 DEF Waiting, n
  <2> QED
    BY <2>1, <1>2, <1>3, <1>4
<1> QED
  BY <1>1, <1>2, <1>3, <1>5 DEF n

\* A message that is read was the first of them.
LEMMA WaitingShrinks ==
  ASSUME queue \in Seq(Bar), queue # <<>>, queue' = Tail(queue)
  PROVE  /\ Waiting = Waiting' \cup {queue[1]} /\ Head(queue) = queue[1]
         /\ 1 \in 1..Len(queue) /\ queue[1] \in Bar
         /\ \A k \in 1..Len(queue') : k + 1 \in 1..Len(queue) /\ queue'[k] = queue[k + 1]
<1> DEFINE n == Len(queue)
<1>1. n \in Nat \ {0} /\ Len(queue') = n - 1 /\ Head(queue) = queue[1] /\ queue[1] \in Bar
  OBVIOUS
<1>2. \A k \in 1..(n - 1) : queue'[k] = queue[k + 1]
  BY <1>1
<1>3. /\ 1 \in 1..n /\ \A k \in 1..(n - 1) : k + 1 \in 1..n
      /\ \A k \in 1..n : k = 1 \/ (k - 1 \in 1..(n - 1) /\ (k - 1) + 1 = k)
  BY <1>1
<1> HIDE DEF n
<1>4. Waiting = Waiting' \cup {queue[1]}
  <2>1. Waiting' = {queue'[k] : k \in 1..(n - 1)} /\ Waiting = {queue[k] : k \in 1..n}
    BY <1>1 DEF Waiting, n
  <2>2. ASSUME NEW x \in Waiting PROVE x \in Waiting' \cup {queue[1]}
    <3>1. PICK k \in 1..n : x = queue[k]
      BY <2>1
    <3>2. CASE k = 1
      BY <3>1, <3>2
    <3>3. CASE k # 1
      <4>1. k - 1 \in 1..(n - 1) /\ (k - 1) + 1 = k
        BY <1>3, <3>3
      <4>2. queue'[k - 1] = queue[k]
        BY <1>2, <4>1
      <4> QED
        BY <2>1, <3>1, <4>1, <4>2
    <3> QED
      BY <3>2, <3>3
  <2>3. Waiting' \subseteq Waiting
    BY <2>1, <1>2, <1>3
  <2>4. queue[1] \in Waiting
    BY <2>1, <1>3
  <2> QED
    BY <2>2, <2>3, <2>4
<1> QED
  BY <1>1, <1>2, <1>3, <1>4 DEF n

LEMMA NothingWaits == queue = <<>> => Waiting = {} /\ Len(queue) = 0
BY DEF Waiting

\* The messages on their way are of bars.
LEMMA WaitingBars ==
  ASSUME queue \in Seq(Bar)
  PROVE  \A q \in Waiting : q \in Bar /\ \E k \in 1..Len(queue) : q = queue[k]
BY DEF Waiting

\* An operator of variables that stay keeps its value.
LEMMA Frame ==
  /\ queue' = queue => Waiting' = Waiting
  /\ published' = published => SentBound' = SentBound
  /\ store' = store => StoredBars' = StoredBars
BY DEF Waiting, SentBound, StoredBars

\* An insert stores rows, forgets none, and stores only final rows of bars that closed.
LEMMA InsertedAdds ==
  ASSUME store \in [Bar -> {"absent", "partial", "final"}], StoredIsFinal,
         NEW S \in SUBSET Bar, \A b \in S : b < batch.asOf, store' = Inserted(S)
  PROVE  /\ store' \in [Bar -> {"absent", "partial", "final"}] /\ StoredIsFinal'
         /\ StoredBars' = StoredBars \cup S
<1>1. \A b \in Bar : store'[b] = IF b \in S /\ store[b] = "absent" THEN "final" ELSE store[b]
  BY DEF Inserted
<1>2. store' \in [Bar -> {"absent", "partial", "final"}]
  BY DEF Inserted
<1> QED
  BY <1>1, <1>2 DEF StoredIsFinal, StoredBars

LEMMA SentBoundNat == published \in Seq(Bar) => SentBound \in Nat
<1> SUFFICES ASSUME published \in Seq(Bar), published # <<>>
             PROVE  published[Len(published)] + 1 \in Nat
  BY DEF SentBound
<1>1. Len(published) \in 1..Len(published)
  OBVIOUS
<1>2. published[Len(published)] \in Bar
  BY <1>1
<1> QED
  BY <1>2, SpotKlineAssumption DEF Bar

\* A bar that is sent is the last one sent.
LEMMA SentMoves ==
  ASSUME published \in Seq(Bar), NEW b \in Bar, published' = Append(published, b)
  PROVE  published' \in Seq(Bar) /\ SentBound' = b + 1
<1>1. /\ published' \in Seq(Bar) /\ published' # <<>>
      /\ Len(published') = Len(published) + 1 /\ published'[Len(published) + 1] = b
  OBVIOUS
<1>2. published'[Len(published')] = b
  BY <1>1
<1> QED
  BY <1>1, <1>2 DEF SentBound

\* The rows in hand are of bars that closed.
LEMMA RowsHaveClosed ==
  ASSUME IInv
  PROVE  /\ Rows(batch) \subseteq Bar /\ Rows(batch) \subseteq 0..(closed - 1)
         /\ \A b \in Rows(batch) : b < batch.asOf
         /\ pc \in InHand => Rows(batch) = {batch.lo} /\ batch.lo < closed /\ batch.lo \in Bar
<1>1. /\ batch.lo \in Nat /\ batch.hi \in Nat /\ batch.asOf \in Nat /\ closed \in Nat
      /\ closed <= Bars /\ batch.hi <= batch.asOf /\ batch.asOf <= closed
      /\ pc \in InHand => batch.hi = batch.lo + 1
  BY SpotKlineAssumption DEF IInv, TypeOK, BatchInv
<1>2. Bar = 0..Bars /\ Bars \in Nat
  BY SpotKlineAssumption DEF Bar
<1>3. Rows(batch) = batch.lo..(batch.hi - 1)
  BY DEF Rows
<1>4. \A b \in Rows(batch) : b \in Bar /\ b \in 0..(closed - 1) /\ b < batch.asOf
  BY <1>1, <1>2, <1>3
<1>5. pc \in InHand => Rows(batch) = {batch.lo}
  BY <1>1, <1>3
<1>6. ASSUME pc \in InHand PROVE batch.lo \in Rows(batch)
  BY <1>5, <1>6
<1> QED
  BY <1>1, <1>4, <1>5, <1>6

-----------------------------------------------------------------------------
\* The inductive invariant

LEMMA IInit == Init => IInv
<1> SUFFICES ASSUME Init PROVE IInv
  OBVIOUS
<1> USE SpotKlineAssumption
<1>1. /\ closed \in 0..1 /\ published = <<>> /\ queue = <<>> /\ store = [b \in Bar |-> "absent"]
      /\ cursor = 0 /\ since = 0 /\ clock = 0 /\ excused = {} /\ pc = "top"
      /\ batch = Empty /\ conn = "none" /\ stop = "idle" /\ budget = Budget
  BY DEF Init
<1>2. StoredBars = {} /\ SentBound = 0 /\ Waiting = {} /\ Len(queue) = 0
  BY <1>1, NothingWaits DEF StoredBars, SentBound
<1>3. closed \in 0..Bars
  BY <1>1 DEF Init
<1>4. TypeOK
  <2>1. published \in Seq(Bar) /\ queue \in Seq(Bar)
    BY <1>1
  <2>2. batch \in [lo : 0..Bars, hi : 0..(Bars + 1), asOf : 0..Bars]
    BY <1>1 DEF Empty
  <2>3. store \in [Bar -> {"absent", "partial", "final"}]
    BY <1>1
  <2> QED
    BY <1>1, <1>3, <2>1, <2>2, <2>3 DEF TypeOK, Steps
<1>5. BatchInv /\ PastInv
  BY <1>1, <1>2 DEF BatchInv, PastInv, Empty, InHand
<1>6. QueueInv /\ FollowInv
  BY <1>1, <1>2 DEF QueueInv, FollowInv, Live, InHand
<1>7. StoredIsFinal /\ GapsAreExplained
  BY <1>1 DEF StoredIsFinal, GapsAreExplained, Bar
<1> QED
  BY <1>4, <1>5, <1>6, <1>7 DEF IInv

LEMMA IStep ==
  ASSUME IInv, [Next]_vars
  PROVE  IInv'
<1> USE SpotKlineAssumption
<1>0. TypeOK /\ BatchInv /\ PastInv /\ QueueInv /\ FollowInv /\ StoredIsFinal /\ GapsAreExplained
  BY DEF IInv
<1>t. /\ closed \in 0..Bars /\ cursor \in 0..Bars /\ since \in 0..Bars /\ clock \in 0..Bars
      /\ batch.lo \in 0..Bars /\ batch.hi \in 0..(Bars + 1) /\ batch.asOf \in 0..Bars
      /\ queue \in Seq(Bar) /\ published \in Seq(Bar) /\ Bar = 0..Bars
      /\ store \in [Bar -> {"absent", "partial", "final"}] /\ excused \subseteq Bar
      /\ Len(queue) \in Nat /\ Bars \in Nat /\ Limit \in Nat \ {0}
      /\ budget \in 0..Budget /\ Budget \in Nat /\ SentBound \in Nat
  BY <1>0, SentBoundNat DEF TypeOK, Bar
<1>b. Failure \/ Disturb => budget' \in 0..Budget
  BY <1>t DEF Failure, Disturb
\* A step that touches nothing but where the collector, Stop() and the socket are.
<1>f. ASSUME UNCHANGED <<closed, store, published, cursor, since, excused, clock, batch, queue>>,
             budget' \in 0..Budget, conn' \in {"none", "up", "broken", "ended", "shut"},
             stop' \in {"idle", "cancelled", "closing", "done"},
             conn' = "none" <=> conn = "none",
             \/ pc' = pc
             \/ /\ pc \notin Live /\ pc' \in {"top", "catchUp", "dial", "sleep", "over"}
                /\ pc' = "catchUp" => cursor # 0
                /\ pc' = "dial" => cursor = 0
      PROVE  IInv'
  <2>1. Waiting' = Waiting /\ SentBound' = SentBound /\ StoredBars' = StoredBars
    BY <1>f, Frame
  <2>2. TypeOK'
    BY <1>f, <1>0 DEF TypeOK, Steps
  <2>3. BatchInv' /\ PastInv' /\ QueueInv'
    BY <1>f, <1>0, <2>1 DEF BatchInv, PastInv, QueueInv, Live, InHand
  <2>4. \A first : Followed(first) => Followed(first)'
    BY <1>f, <2>1 DEF Followed, Live, InHand
  <2>5. FollowInv'
    BY <1>f, <1>0, <2>1, <2>4 DEF FollowInv, Live, InHand
  <2>6. StoredIsFinal' /\ GapsAreExplained'
    BY <1>f, <1>0 DEF StoredIsFinal, GapsAreExplained
  <2> QED
    BY <2>2, <2>3, <2>5, <2>6 DEF IInv
<1>1. CASE Top \/ Sleep
  <2>1. UNCHANGED <<closed, store, published, cursor, since, excused, clock, batch, queue,
                    budget, conn, stop>>
    BY <1>1 DEF Top, Sleep
  <2>2. /\ pc \notin Live /\ pc' \in {"top", "catchUp", "dial", "sleep", "over"}
        /\ pc' = "catchUp" => cursor # 0
        /\ pc' = "dial" => cursor = 0
    BY <1>1 DEF Top, Sleep, GoTo, Live
  <2> QED
    BY <1>0, <1>f, <2>1, <2>2 DEF TypeOK
<1>2. CASE FetchFails \/ ConnectFails
  <2>1. UNCHANGED <<closed, store, published, cursor, since, excused, clock, batch, queue,
                    conn, stop>> /\ Failure
    BY <1>2 DEF FetchFails, ConnectFails
  <2>2. pc \notin Live /\ pc' \in {"sleep", "over"}
    BY <1>2 DEF FetchFails, ConnectFails, GoTo, Live
  <2> QED
    BY <1>0, <1>b, <1>f, <2>1, <2>2 DEF TypeOK
<1>3. CASE Cancel \/ CloseDone \/ CloseConn \/ ConnEnds
  <2>1. UNCHANGED <<closed, store, published, cursor, since, excused, clock, batch, queue, pc>>
    BY <1>3 DEF Cancel, CloseDone, CloseConn, ConnEnds
  <2>2. budget' = budget \/ Disturb
    BY <1>3 DEF Cancel, CloseDone, CloseConn, ConnEnds
  <2>3. /\ conn' \in {"none", "up", "broken", "ended", "shut"}
        /\ stop' \in {"idle", "cancelled", "closing", "done"}
        /\ conn' = "none" <=> conn = "none"
    BY <1>0, <1>3 DEF TypeOK, Cancel, CloseDone, CloseConn, ConnEnds
  <2> QED
    BY <1>b, <1>f, <1>t, <2>1, <2>2, <2>3
<1>4. CASE UNCHANGED vars
  BY <1>0, <1>4, <1>f DEF vars, TypeOK

<1>5. CASE BarCloses
  <2>1. /\ closed < Bars /\ closed' = closed + 1
        /\ UNCHANGED <<store, published, cursor, since, pc, clock, batch, conn, stop, budget>>
    BY <1>5 DEF BarCloses
  <2>2. \/ conn = "up" /\ queue' = Append(queue, closed) /\ excused' = excused
        \/ conn # "up" /\ queue' = queue /\ excused' = excused \cup {closed}
    BY <1>5 DEF BarCloses
  <2>3. SentBound' = SentBound /\ StoredBars' = StoredBars
    BY <2>1, Frame
  <2>4. /\ queue' \in Seq(Bar) /\ excused' \subseteq Bar
        /\ Waiting \subseteq Waiting' /\ Waiting' \subseteq Waiting \cup {closed}
        /\ closed \in excused' \cup Waiting' /\ excused \subseteq excused'
        /\ \A k \in 1..Len(queue') :
             \/ k \in 1..Len(queue) /\ queue'[k] = queue[k]
             \/ k = Len(queue) + 1 /\ queue'[k] = closed
        /\ pc \notin Live => queue' = queue
    <3>1. closed \in Bar
      BY <1>t
    <3>2. CASE conn = "up"
      <4>1. queue' = Append(queue, closed) /\ excused' = excused /\ pc \in Live
        BY <1>0, <2>2, <3>2 DEF QueueInv
      <4>2. queue' \in Seq(Bar)
        BY <1>t, <3>1, <4>1
      <4> QED
        BY <1>t, <3>1, <4>1, <4>2, WaitingGrows
    <3>3. CASE conn # "up"
      <4>1. queue' = queue /\ Waiting' = Waiting /\ excused' = excused \cup {closed}
        BY <2>2, <3>3, Frame
      <4> QED
        BY <1>t, <3>1, <4>1
    <3> QED
      BY <3>2, <3>3
  <2>5. TypeOK'
    BY <1>0, <1>t, <2>1, <2>4 DEF TypeOK
  <2>6. BatchInv' /\ PastInv'
    <3>1. BatchInv'
      BY <1>0, <1>t, <2>1, <2>3 DEF BatchInv
    <3>2. StoredBars' \subseteq 0..(closed' - 1)
      BY <1>0, <1>t, <2>1, <2>3 DEF PastInv
    <3> QED
      BY <1>0, <1>t, <2>1, <2>3, <3>1, <3>2 DEF PastInv
  <2>7. QueueInv'
    <3>1. \A k \in 1..Len(queue) : queue[k] \in Nat
      BY <1>t
    <3>2. pc \in InHand => batch.lo < closed
      BY <1>0, <1>t DEF BatchInv
    <3>3. \A k \in 1..Len(queue') :
            queue'[k] < closed' /\ cursor' <= queue'[k] /\ SentBound' <= queue'[k]
      <4> TAKE k \in 1..Len(queue')
      <4>1. CASE k \in 1..Len(queue) /\ queue'[k] = queue[k]
        BY <1>0, <1>t, <2>1, <2>3, <3>1, <4>1 DEF QueueInv
      <4>2. CASE queue'[k] = closed
        BY <1>0, <1>t, <2>1, <2>3, <4>2 DEF PastInv
      <4> QED
        BY <2>4, <4>1, <4>2
    <3>4. \A k, l \in 1..Len(queue') : k < l => queue'[k] < queue'[l]
      <4> SUFFICES ASSUME NEW k \in 1..Len(queue'), NEW l \in 1..Len(queue'), k < l
                   PROVE  queue'[k] < queue'[l]
        OBVIOUS
      <4>0. Len(queue') \in Nat /\ k \in Nat /\ l \in Nat
        BY <2>4
      <4>1. l <= Len(queue) + 1
        <5>1. l \in 1..Len(queue) \/ l = Len(queue) + 1
          BY <2>4
        <5>2. Len(queue) \in Nat
          BY <1>t
        <5> QED
          BY <4>0, <5>1, <5>2
      <4>2. k # Len(queue) + 1
        BY <1>t, <4>0, <4>1
      <4>3. k \in 1..Len(queue) /\ queue'[k] = queue[k]
        BY <2>4, <4>2
      <4>4. CASE l \in 1..Len(queue) /\ queue'[l] = queue[l]
        BY <1>0, <4>3, <4>4 DEF QueueInv
      <4>5. CASE queue'[l] = closed
        BY <1>0, <4>3, <4>5 DEF QueueInv
      <4> QED
        BY <2>4, <4>4, <4>5
    <3>5. pc \in InHand => \A k \in 1..Len(queue') : batch.lo < queue'[k]
      BY <1>0, <2>4, <3>2 DEF QueueInv
    <3> QED
      BY <1>0, <2>1, <2>4, <3>3, <3>4, <3>5 DEF QueueInv
  <2>8. \A first : Followed(first) => Followed(first)'
    BY <1>t, <2>1, <2>4 DEF Followed
  <2>9. \A q : q = closed => Followed(q)'
    BY <1>t, <2>1, <2>4 DEF Followed
  <2>10. FollowInv'
    <3>1. \A q \in Waiting' : Followed(q)'
      BY <1>0, <2>4, <2>8, <2>9 DEF FollowInv
    <3>2. pc' = pc /\ cursor' = cursor /\ clock' = clock /\ batch' = batch
      BY <2>1
    <3>3. /\ Followed(clock) => Followed(clock)'
          /\ Followed(cursor) => Followed(cursor)'
          /\ Followed(batch.lo) => Followed(batch.lo)'
      BY <2>1, <2>4, <1>t DEF Followed
    <3> QED
      BY <1>0, <3>1, <3>2, <3>3 DEF FollowInv
  <2>11. StoredIsFinal' /\ GapsAreExplained'
    BY <1>0, <2>1, <2>4 DEF StoredIsFinal, GapsAreExplained
  <2> QED
    BY <2>5, <2>6, <2>7, <2>10, <2>11 DEF IInv
<1>6. CASE CatchUp
  <2>1. /\ pc = "catchUp" /\ pc' = "fetch" /\ clock' = closed
        /\ excused' = {b \in excused : b < cursor}
        /\ UNCHANGED <<closed, store, published, cursor, since, batch, conn, queue, stop, budget>>
    BY <1>6 DEF CatchUp, GoTo
  <2>2. Waiting = {} /\ Waiting' = {} /\ SentBound' = SentBound /\ StoredBars' = StoredBars
    BY <1>0, <2>1, Frame, NothingWaits DEF QueueInv, Live
  <2>3. TypeOK'
    BY <1>0, <1>t, <2>1 DEF TypeOK, Steps
  <2>4. BatchInv' /\ PastInv' /\ QueueInv'
    BY <1>0, <1>t, <2>1, <2>2 DEF BatchInv, PastInv, QueueInv, Live, InHand
  <2>5. Followed(clock)'
    BY <1>t, <2>1 DEF Followed
  <2>6. FollowInv'
    BY <1>0, <2>1, <2>2, <2>5 DEF FollowInv, Live, InHand
  <2>7. StoredIsFinal' /\ GapsAreExplained'
    BY <1>0, <2>1 DEF StoredIsFinal, GapsAreExplained
  <2> QED
    BY <2>3, <2>4, <2>6, <2>7 DEF IInv
<1>7. CASE FetchBatch
  <2>1. /\ pc = "fetch"
        /\ UNCHANGED <<closed, store, published, cursor, since, excused, clock, conn, queue,
                       stop, budget>>
    BY <1>7 DEF FetchBatch
  <2>2. PICK top \in {clock, clock + 1} :
          LET end == FilterClosed(Lesser(cursor + Limit, top))
          IN  IF cursor < end
              THEN batch' = [lo |-> cursor, hi |-> end, asOf |-> closed] /\ pc' = "catchUpInsert"
              ELSE UNCHANGED batch /\ pc' = "dial"
    BY <1>7 DEF FetchBatch, GoTo
  <2> DEFINE end == FilterClosed(Lesser(cursor + Limit, top))
  <2>3. end \in Nat /\ end <= clock /\ (cursor >= end => clock <= cursor)
    BY <1>t, <2>2 DEF FilterClosed, Lesser
  <2>4. Waiting' = Waiting /\ Waiting = {} /\ SentBound' = SentBound /\ StoredBars' = StoredBars
    BY <1>0, <2>1, Frame, NothingWaits DEF QueueInv, Live
  <2> HIDE DEF end
  <2>5. \/ /\ cursor < end /\ pc' = "catchUpInsert"
           /\ batch' = [lo |-> cursor, hi |-> end, asOf |-> closed]
        \/ cursor >= end /\ pc' = "dial" /\ batch' = batch
    BY <1>t, <2>2, <2>3 DEF end
  <2>6. TypeOK'
    <3>1. batch' \in [lo : 0..Bars, hi : 0..(Bars + 1), asOf : 0..Bars]
      BY <1>0, <1>t, <2>3, <2>5 DEF TypeOK
    <3> QED
      BY <1>0, <2>1, <2>5, <3>1 DEF TypeOK, Steps
  <2>7. BatchInv' /\ PastInv' /\ QueueInv'
    BY <1>0, <1>t, <2>1, <2>3, <2>4, <2>5 DEF BatchInv, PastInv, QueueInv, Live, InHand
  <2>8. Followed(clock)'
    BY <1>0, <2>1, <2>4, <2>5 DEF FollowInv, Followed, InHand
  <2>9. pc' = "dial" => Followed(cursor)'
    BY <1>t, <2>1, <2>3, <2>5, <2>8 DEF Followed
  <2>10. FollowInv'
    BY <1>0, <2>1, <2>4, <2>5, <2>8, <2>9 DEF FollowInv, Live, InHand
  <2>11. StoredIsFinal' /\ GapsAreExplained'
    BY <1>0, <2>1 DEF StoredIsFinal, GapsAreExplained
  <2> QED
    BY <2>6, <2>7, <2>10, <2>11 DEF IInv
<1>8. CASE CatchUpInsert
  <2>1. /\ pc = "catchUpInsert" /\ store' = Inserted(Rows(batch)) /\ cursor' = batch.hi
        /\ UNCHANGED <<closed, published, excused, clock, batch, conn, queue, stop, budget>>
        /\ pc' = "catchUp" \/ (pc' = "dial" /\ batch.hi = clock)
    BY <1>8 DEF CatchUpInsert, Advance, GoTo
  <2>2. cursor # 0 /\ since' = since
    BY <1>0, <1>8, <2>1 DEF CatchUpInsert, Advance, FollowInv
  <2>3. /\ store' \in [Bar -> {"absent", "partial", "final"}] /\ StoredIsFinal'
        /\ StoredBars' = StoredBars \cup Rows(batch)
    BY <1>0, <1>t, <2>1, InsertedAdds, RowsHaveClosed
  <2>4. Waiting' = Waiting /\ Waiting = {} /\ SentBound' = SentBound
    BY <1>0, <2>1, Frame, NothingWaits DEF QueueInv, Live
  <2>5. batch.lo = cursor /\ cursor < batch.hi /\ batch.hi <= clock /\ clock <= closed
    BY <1>0, <2>1 DEF BatchInv, PastInv
  <2>6. TypeOK'
    BY <1>0, <1>t, <2>1, <2>2, <2>3, <2>5 DEF TypeOK, Steps
  <2>7. PastInv'
    <3>1. StoredBars' \subseteq 0..(closed' - 1)
      BY <1>0, <2>1, <2>3, RowsHaveClosed DEF PastInv
    <3>2. cursor' <= closed'
      BY <1>t, <2>1, <2>5
    <3> QED
      BY <1>0, <2>1, <2>4, <3>1, <3>2 DEF PastInv
  <2>8. BatchInv' /\ QueueInv'
    BY <1>0, <2>1, <2>4 DEF BatchInv, QueueInv, Live, InHand
  <2>9. Followed(clock)'
    BY <1>0, <2>1, <2>4 DEF FollowInv, Followed, InHand
  <2>10. FollowInv'
    BY <1>0, <1>t, <2>1, <2>4, <2>5, <2>9 DEF FollowInv, Live, InHand
  <2>11. GapsAreExplained'
    <3>1. \A b \in Bar : store'[b] = "absent" => store[b] = "absent" /\ b \notin Rows(batch)
      BY <2>3 DEF StoredBars
    <3>2. \A b \in Bar : b < batch.hi /\ b \notin Rows(batch) => b < cursor
      BY <1>t, <2>5 DEF Rows
    <3> QED
      BY <1>0, <2>1, <2>2, <3>1, <3>2 DEF GapsAreExplained
  <2> QED
    BY <2>3, <2>6, <2>7, <2>8, <2>10, <2>11 DEF IInv
<1>9. CASE CatchUpInsertFails
  <2>1. /\ pc = "catchUpInsert" /\ pc' = "sleep" /\ Failure
        /\ UNCHANGED <<closed, published, cursor, since, excused, clock, batch, conn, queue, stop>>
    BY <1>9 DEF CatchUpInsertFails, GoTo
  <2>2. PICK S \in SUBSET Rows(batch) : store' = Inserted(S)
    BY <1>9 DEF CatchUpInsertFails
  <2>3. /\ store' \in [Bar -> {"absent", "partial", "final"}] /\ StoredIsFinal'
        /\ StoredBars' = StoredBars \cup S
    <3>1. S \subseteq Bar /\ \A b \in S : b < batch.asOf
      BY <2>2, RowsHaveClosed
    <3> QED
      BY <1>0, <1>t, <2>2, <3>1, InsertedAdds
  <2>4. Waiting' = Waiting /\ Waiting = {} /\ SentBound' = SentBound
    BY <1>0, <2>1, Frame, NothingWaits DEF QueueInv, Live
  <2>5. TypeOK'
    BY <1>0, <1>b, <2>1, <2>3 DEF TypeOK, Steps
  <2>6. PastInv'
    BY <1>0, <2>1, <2>2, <2>3, <2>4, RowsHaveClosed DEF PastInv
  <2>7. BatchInv' /\ QueueInv'
    BY <1>0, <2>1, <2>4 DEF BatchInv, QueueInv, Live, InHand
  <2>8. FollowInv'
    BY <1>0, <2>1, <2>4 DEF FollowInv, Live, InHand
  <2>9. GapsAreExplained'
    <3>1. \A b \in Bar : store'[b] = "absent" => store[b] = "absent"
      BY <2>3 DEF StoredBars
    <3> QED
      BY <1>0, <2>1, <3>1 DEF GapsAreExplained
  <2> QED
    BY <2>3, <2>5, <2>6, <2>7, <2>8, <2>9 DEF IInv
<1>10. CASE Connect
  <2>1. /\ pc = "dial" /\ pc' = "recv" /\ conn' = "up" /\ queue' = <<>>
        /\ UNCHANGED <<closed, store, published, cursor, since, excused, clock, batch, stop, budget>>
    BY <1>10 DEF Connect, GoTo
  <2>2. Waiting = {} /\ Waiting' = {} /\ Len(queue') = 0 /\ queue' \in Seq(Bar)
        /\ SentBound' = SentBound /\ StoredBars' = StoredBars
    <3>1. queue = <<>>
      BY <1>0, <2>1 DEF QueueInv, Live
    <3>2. queue' = queue
      BY <2>1, <3>1
    <3> QED
      BY <2>1, <3>1, <3>2, <1>t, Frame, NothingWaits
  <2>3. TypeOK'
    BY <1>0, <2>1, <2>2 DEF TypeOK, Steps
  <2>4. BatchInv' /\ PastInv' /\ QueueInv'
    BY <1>0, <2>1, <2>2 DEF BatchInv, PastInv, QueueInv, Live, InHand
  <2>5. cursor # 0 => Followed(cursor)'
    BY <1>0, <2>1, <2>2 DEF FollowInv, Followed, InHand, Live
  <2>6. FollowInv'
    BY <2>1, <2>2, <2>5 DEF FollowInv, Live, InHand
  <2>7. StoredIsFinal' /\ GapsAreExplained'
    BY <1>0, <2>1 DEF StoredIsFinal, GapsAreExplained
  <2> QED
    BY <2>3, <2>4, <2>6, <2>7 DEF IInv
<1>11. CASE Recv
  <2> DEFINE b == queue[1]
  <2>1. /\ pc = "recv" /\ pc' = "insert" /\ queue # <<>> /\ queue' = Tail(queue)
        /\ UNCHANGED <<closed, store, published, cursor, since, excused, clock, conn, stop, budget>>
        /\ batch' = [lo |-> Head(queue), hi |-> Head(queue) + 1, asOf |-> Head(queue) + 1]
    BY <1>11 DEF Recv, GoTo
  <2>2. /\ Waiting = Waiting' \cup {b} /\ Head(queue) = b /\ 1 \in 1..Len(queue) /\ b \in Bar
        /\ \A k \in 1..Len(queue') : k + 1 \in 1..Len(queue) /\ queue'[k] = queue[k + 1]
    BY <1>t, <2>1, WaitingShrinks
  <2>3. b < closed /\ cursor <= b /\ SentBound <= b
    BY <1>0, <2>2 DEF QueueInv
  <2>4. \A k \in 1..Len(queue') : b < queue'[k]
    <3> TAKE k \in 1..Len(queue')
    <3>1. k + 1 \in 1..Len(queue) /\ queue'[k] = queue[k + 1] /\ 1 < k + 1
      BY <2>2
    <3> QED
      BY <1>0, <2>2, <3>1 DEF QueueInv
  <2>5. \A k, l \in 1..Len(queue') : k < l => queue'[k] < queue'[l]
    <3> SUFFICES ASSUME NEW k \in 1..Len(queue'), NEW l \in 1..Len(queue'), k < l
                 PROVE  queue'[k] < queue'[l]
      OBVIOUS
    <3>1. k + 1 < l + 1
      OBVIOUS
    <3>2. k + 1 \in 1..Len(queue) /\ l + 1 \in 1..Len(queue)
      BY <2>2
    <3>3. queue[k + 1] < queue[l + 1]
      BY <1>0, <3>1, <3>2 DEF QueueInv
    <3> QED
      BY <2>2, <3>3
  <2>6. SentBound' = SentBound /\ StoredBars' = StoredBars
    BY <2>1, Frame
  <2>7. queue' \in Seq(Bar)
    BY <1>t, <2>1
  <2> HIDE DEF b
  <2>8. batch' = [lo |-> b, hi |-> b + 1, asOf |-> b + 1]
    BY <2>1, <2>2
  <2>9. TypeOK'
    <3>1. batch' \in [lo : 0..Bars, hi : 0..(Bars + 1), asOf : 0..Bars]
      BY <1>t, <2>2, <2>3, <2>8
    <3> QED
      BY <1>0, <2>1, <2>7, <3>1 DEF TypeOK, Steps
  <2>10. BatchInv' /\ PastInv'
    BY <1>0, <1>t, <2>1, <2>2, <2>3, <2>6, <2>8 DEF BatchInv, PastInv, InHand
  <2>11. QueueInv'
    <3>1. \A k \in 1..Len(queue') :
            queue'[k] < closed' /\ cursor' <= queue'[k] /\ SentBound' <= queue'[k]
      BY <1>0, <2>1, <2>2, <2>6 DEF QueueInv
    <3> QED
      BY <1>0, <2>1, <2>4, <2>5, <2>8, <3>1 DEF QueueInv, Live, InHand
  <2>12. \A first : Followed(first) => Followed(first)'
    BY <2>1, <2>2, <2>8 DEF Followed, InHand
  <2>13. FollowInv'
    BY <1>0, <2>1, <2>2, <2>8, <2>12 DEF FollowInv, Live, InHand
  <2>14. StoredIsFinal' /\ GapsAreExplained'
    BY <1>0, <2>1 DEF StoredIsFinal, GapsAreExplained
  <2> QED
    BY <2>9, <2>10, <2>11, <2>13, <2>14 DEF IInv
<1>12. CASE RecvFails \/ RecvCancelled
  <2>1. /\ pc = "recv" /\ pc' \in {"over", "sleep"} /\ conn' = "none" /\ queue' = <<>>
        /\ UNCHANGED <<closed, store, published, cursor, since, excused, clock, batch, stop, budget>>
    BY <1>12 DEF RecvFails, RecvCancelled, GoTo, HangUp
  <2>2. Len(queue') = 0 /\ Waiting' = {} /\ queue' \in Seq(Bar)
        /\ SentBound' = SentBound /\ StoredBars' = StoredBars
    <3>1. Waiting' = {} /\ Len(queue') = 0
      BY <2>1 DEF Waiting
    <3> QED
      BY <2>1, <3>1, Frame
  <2>3. TypeOK'
    BY <1>0, <2>1, <2>2 DEF TypeOK, Steps
  <2>4. BatchInv' /\ PastInv' /\ QueueInv'
    BY <1>0, <2>1, <2>2 DEF BatchInv, PastInv, QueueInv, Live, InHand
  <2>5. FollowInv'
    BY <2>1, <2>2 DEF FollowInv, Live, InHand
  <2>6. StoredIsFinal' /\ GapsAreExplained'
    BY <1>0, <2>1 DEF StoredIsFinal, GapsAreExplained
  <2> QED
    BY <2>3, <2>4, <2>5, <2>6 DEF IInv
<1>13. CASE Insert
  <2>1. /\ pc = "insert" /\ pc' = "publish" /\ store' = Inserted(Rows(batch))
        /\ UNCHANGED <<closed, published, cursor, since, excused, clock, batch, conn, queue,
                       stop, budget>>
    BY <1>13 DEF Insert, GoTo
  <2>2. /\ store' \in [Bar -> {"absent", "partial", "final"}] /\ StoredIsFinal'
        /\ StoredBars' = StoredBars \cup Rows(batch)
    BY <1>0, <1>t, <2>1, InsertedAdds, RowsHaveClosed
  <2>3. Waiting' = Waiting /\ SentBound' = SentBound
    BY <2>1, Frame
  <2>4. batch.lo \in StoredBars'
    BY <2>1, <2>2, RowsHaveClosed DEF InHand
  <2>5. TypeOK'
    BY <1>0, <2>1, <2>2 DEF TypeOK, Steps
  <2>6. BatchInv' /\ PastInv'
    BY <1>0, <2>1, <2>2, <2>3, <2>4, RowsHaveClosed DEF BatchInv, PastInv, InHand
  <2>7. QueueInv'
    BY <1>0, <2>1, <2>3 DEF QueueInv, Live, InHand
  <2>8. \A first : Followed(first) => Followed(first)'
    BY <2>1, <2>3 DEF Followed, InHand
  <2>9. FollowInv'
    BY <1>0, <2>1, <2>3, <2>8 DEF FollowInv, Live, InHand
  <2>10. GapsAreExplained'
    <3>1. \A b \in Bar : store'[b] = "absent" => store[b] = "absent"
      BY <2>2 DEF StoredBars
    <3> QED
      BY <1>0, <2>1, <3>1 DEF GapsAreExplained
  <2> QED
    BY <2>2, <2>5, <2>6, <2>7, <2>9, <2>10 DEF IInv
\* The cursor passes the bar in hand, which is stored or excused.
<1>g. ASSUME pc \in InHand, Advance, closed' = closed,
             batch.lo \in StoredBars' \cup excused', excused \subseteq excused',
             StoredBars \subseteq StoredBars'
      PROVE  GapsAreExplained' /\ cursor' = batch.lo + 1 /\ since' \in 0..Bars
  <2>1. /\ cursor' = batch.lo + 1 /\ since' = IF cursor = 0 THEN batch.lo ELSE since
        /\ cursor <= batch.lo /\ batch.lo < closed
    BY <1>g, <1>0, RowsHaveClosed DEF Advance, BatchInv
  <2>2. SUFFICES ASSUME NEW b \in Bar, since' <= b, b < cursor', store'[b] = "absent"
                 PROVE  b \in excused'
    BY <1>t, <2>1 DEF GapsAreExplained
  <2>3. b \notin StoredBars'
    BY <2>2 DEF StoredBars
  <2>4. CASE b = batch.lo
    BY <1>g, <2>3, <2>4
  <2>5. CASE b # batch.lo
    <3>1. cursor # 0 /\ since <= b /\ b < batch.lo
      BY <1>t, <2>1, <2>2, <2>5
    <3>2. store[b] = "absent"
      BY <1>g, <2>3 DEF StoredBars
    <3>3. CASE b < cursor
      BY <1>g, <1>0, <3>1, <3>2, <3>3 DEF GapsAreExplained
    <3>4. CASE cursor <= b
      <4>1. b \in excused \cup Waiting
        BY <1>g, <1>0, <1>t, <2>1, <2>5, <3>1, <3>4 DEF FollowInv, Followed, Live, InHand
      <4>2. b \notin Waiting
        <5>1. \A q \in Waiting : q \in Bar /\ batch.lo < q
          BY <1>g, <1>0, <1>t, WaitingBars DEF QueueInv
        <5> QED
          BY <1>t, <3>1, <5>1
      <4> QED
        BY <1>g, <4>1, <4>2
    <3> QED
      BY <1>t, <3>3, <3>4
  <2> QED
    BY <2>4, <2>5
<1>14. CASE InsertFails
  <2>1. /\ pc = "insert" /\ pc' \in {"sleep", "over"} /\ Failure /\ Advance
        /\ excused' = excused \cup Rows(batch) /\ conn' = "none" /\ queue' = <<>>
        /\ UNCHANGED <<closed, published, clock, batch, stop>>
    BY <1>14 DEF InsertFails, AfterError, GoTo, HangUp
  <2>2. PICK S \in SUBSET Rows(batch) : store' = Inserted(S)
    BY <1>14 DEF InsertFails
  <2>3. /\ store' \in [Bar -> {"absent", "partial", "final"}] /\ StoredIsFinal'
        /\ StoredBars' = StoredBars \cup S
    <3>1. S \subseteq Bar /\ \A b \in S : b < batch.asOf
      BY <2>2, RowsHaveClosed
    <3> QED
      BY <1>0, <1>t, <2>2, <3>1, InsertedAdds
  <2>4. Rows(batch) = {batch.lo} /\ batch.lo < closed
    BY <2>1, RowsHaveClosed DEF InHand
  <2>5. GapsAreExplained' /\ cursor' = batch.lo + 1 /\ since' \in 0..Bars
    BY <1>g, <2>1, <2>3, <2>4 DEF InHand
  <2>6. Len(queue') = 0 /\ Waiting' = {} /\ queue' \in Seq(Bar) /\ SentBound' = SentBound
    <3>1. Waiting' = {} /\ Len(queue') = 0
      BY <2>1 DEF Waiting
    <3> QED
      BY <2>1, <3>1, Frame
  <2>7. TypeOK'
    <3>1. excused' \subseteq Bar
      BY <1>t, <2>1, RowsHaveClosed
    <3> QED
      BY <1>0, <1>b, <1>t, <2>1, <2>3, <2>4, <2>5, <2>6, <3>1 DEF TypeOK, Steps
  <2>8. PastInv'
    <3>1. StoredBars' \subseteq 0..(closed' - 1)
      BY <1>0, <2>1, <2>2, <2>3, RowsHaveClosed DEF PastInv
    <3>2. cursor' <= closed'
      BY <1>t, <2>1, <2>4, <2>5
    <3> QED
      BY <1>0, <2>1, <2>6, <3>1, <3>2 DEF PastInv
  <2>9. BatchInv' /\ QueueInv'
    BY <1>0, <2>1, <2>6 DEF BatchInv, QueueInv, Live, InHand
  <2>10. FollowInv'
    BY <2>1, <2>6 DEF FollowInv, Live, InHand
  <2> QED
    BY <2>3, <2>5, <2>7, <2>8, <2>9, <2>10 DEF IInv
<1>15. CASE PublishKlines \/ PublishFails
  <2>1. /\ pc = "publish" /\ Advance /\ published' \in {published, Sent}
        /\ UNCHANGED <<closed, store, excused, clock, batch, stop>>
        /\ \/ pc' = "recv" /\ UNCHANGED <<conn, queue, budget>>
           \/ pc' \in {"sleep", "over"} /\ conn' = "none" /\ queue' = <<>> /\ Failure
    BY <1>15 DEF PublishKlines, PublishFails, AfterError, GoTo, HangUp
  <2>2. StoredBars' = StoredBars /\ batch.lo \in StoredBars
    BY <1>0, <2>1, Frame DEF BatchInv
  <2>3. GapsAreExplained' /\ cursor' = batch.lo + 1 /\ since' \in 0..Bars
    BY <1>g, <2>1, <2>2 DEF InHand
  <2>4. batch.lo \in Bar /\ batch.lo < closed
    BY <2>1, RowsHaveClosed DEF InHand
  <2>5. published' \in Seq(Bar) /\ (SentBound' = SentBound \/ SentBound' = batch.lo + 1)
    BY <1>t, <2>1, <2>4, Frame, SentMoves DEF Sent
  <2>6. SentBound <= batch.lo /\ (SentBound' = SentBound \/ SentBound' = batch.lo + 1)
    BY <1>0, <2>1, <2>5 DEF BatchInv, InHand
  <2>7. /\ queue' \in Seq(Bar) /\ Waiting' \subseteq Waiting
        /\ pc' = "recv" => Waiting' = Waiting
        /\ pc' # "recv" => queue' = <<>> /\ Len(queue') = 0 /\ Waiting' = {}
    <3>1. CASE pc' = "recv"
      BY <1>t, <2>1, <3>1, Frame
    <3>2. CASE pc' # "recv"
      <4>1. queue' = <<>>
        BY <2>1, <3>2
      <4> QED
        BY <3>2, <4>1 DEF Waiting
    <3> QED
      BY <3>1, <3>2
  <2>8. TypeOK'
    <3>1. budget' \in 0..Budget
      BY <1>b, <1>t, <2>1
    <3>2. /\ conn' \in {"none", "up", "broken", "ended", "shut"}
          /\ pc' \in Steps /\ cursor' \in 0..Bars
      BY <1>0, <1>t, <2>1, <2>3, <2>4 DEF TypeOK, Steps
    <3> QED
      BY <1>0, <2>1, <2>3, <2>5, <2>7, <3>1, <3>2 DEF TypeOK
  <2>9. BatchInv' /\ PastInv'
    <3>1. pc' \in {"recv", "sleep", "over"} /\ batch' = batch /\ closed' = closed /\ clock' = clock
      BY <2>1
    <3>2. BatchInv'
      BY <1>0, <3>1 DEF BatchInv, InHand
    <3>3. cursor' <= closed /\ SentBound' <= closed
      BY <1>0, <1>t, <2>3, <2>4, <2>6 DEF PastInv
    <3> QED
      BY <1>0, <2>2, <3>1, <3>2, <3>3 DEF PastInv
  <2>10. QueueInv'
    <3>1. CASE pc' = "recv"
      <4>1. \A k \in 1..Len(queue) : queue[k] \in Nat /\ batch.lo < queue[k]
        BY <1>0, <1>t, <2>1 DEF QueueInv, InHand
      <4>2. \A k \in 1..Len(queue) : batch.lo + 1 <= queue[k] /\ SentBound' <= queue[k]
        BY <1>0, <1>t, <2>6, <4>1 DEF QueueInv
      <4> QED
        BY <1>0, <2>1, <2>3, <3>1, <4>2 DEF QueueInv, Live, InHand
    <3>2. CASE pc' # "recv"
      BY <2>1, <2>7, <3>2 DEF QueueInv, Live, InHand
    <3> QED
      BY <3>1, <3>2
  <2>11. FollowInv'
    <3>1. CASE pc' = "recv"
      <4>1. ASSUME NEW first \in Nat, Followed(first), batch.lo < first
            PROVE  Followed(first)'
        BY <1>t, <2>1, <2>7, <3>1, <4>1 DEF Followed
      <4>2. Followed(batch.lo + 1)
        BY <1>0, <1>t, <2>1 DEF FollowInv, Followed, InHand
      <4>3. \A q \in Waiting : q \in Nat /\ batch.lo < q
        <5>1. \A k \in 1..Len(queue) : batch.lo < queue[k]
          BY <1>0, <2>1 DEF QueueInv, InHand
        <5>2. \A q \in Waiting : q \in Bar /\ \E k \in 1..Len(queue) : q = queue[k]
          BY <1>t, WaitingBars
        <5>3. \A q \in Waiting : batch.lo < q
          BY <5>1, <5>2, Zenon
        <5> QED
          BY <1>t, <5>2, <5>3
      <4>4. Followed(cursor)'
        BY <1>t, <2>1, <2>3, <2>7, <3>1, <4>2 DEF Followed
      <4> QED
        BY <1>0, <2>7, <3>1, <4>1, <4>3, <4>4 DEF FollowInv, Live, InHand
    <3>2. CASE pc' # "recv"
      BY <2>1, <2>7, <3>2 DEF FollowInv, Live, InHand
    <3> QED
      BY <3>1, <3>2
  <2>12. StoredIsFinal'
    BY <1>0, <2>1 DEF StoredIsFinal
  <2> QED
    BY <2>3, <2>8, <2>9, <2>10, <2>11, <2>12 DEF IInv
<1>16. CASE Restart
  <2>1. /\ pc' = "top" /\ cursor' = 0 /\ since' = 0 /\ clock' = 0 /\ excused' = {}
        /\ batch' = Empty /\ conn' = "none" /\ queue' = <<>> /\ stop' = "idle" /\ Disturb
        /\ UNCHANGED <<closed, store, published>>
    BY <1>16 DEF Restart, HangUp
  <2>2. Len(queue') = 0 /\ Waiting' = {} /\ queue' \in Seq(Bar)
        /\ SentBound' = SentBound /\ StoredBars' = StoredBars
    <3>1. Waiting' = {} /\ Len(queue') = 0
      BY <2>1 DEF Waiting
    <3> QED
      BY <2>1, <3>1, Frame
  <2>3. TypeOK'
    <3>1. batch' \in [lo : 0..Bars, hi : 0..(Bars + 1), asOf : 0..Bars]
      BY <2>1 DEF Empty
    <3> QED
      BY <1>0, <1>b, <1>t, <2>1, <2>2, <3>1 DEF TypeOK, Steps
  <2>4. BatchInv' /\ PastInv' /\ QueueInv'
    BY <1>0, <1>t, <2>1, <2>2 DEF BatchInv, PastInv, QueueInv, Live, InHand, Empty
  <2>5. FollowInv'
    BY <2>1, <2>2 DEF FollowInv, Live, InHand
  <2>6. StoredIsFinal' /\ GapsAreExplained'
    BY <1>0, <1>t, <2>1 DEF StoredIsFinal, GapsAreExplained
  <2> QED
    BY <2>3, <2>4, <2>5, <2>6 DEF IInv
<1> QED
  BY <1>1, <1>2, <1>3, <1>4, <1>5, <1>6, <1>7, <1>8, <1>9, <1>10, <1>11, <1>12, <1>13,
     <1>14, <1>15, <1>16
  DEF Next, Collector, Quiet

LEMMA Invariant == Spec => []IInv
BY IInit, IStep, PTL DEF Spec

\* Every variable keeps to its type, whatever closes, breaks, fails and restarts.
THEOREM TypeCorrect == Spec => []TypeOK
<1>1. IInv => TypeOK
  BY DEF IInv
<1> QED
  BY <1>1, Invariant, PTL

\* No row of an open bar is ever stored: filterClosedKlines compares with a clock that was
\* read before the request was sent, and a message says that its bar is closed.
THEOREM FinalStored == Spec => []StoredIsFinal
<1>1. IInv => StoredIsFinal
  BY DEF IInv
<1> QED
  BY <1>1, Invariant, PTL

\* The bars missing behind forwardResumeTimeMs have one of the two known reasons.
THEOREM GapsExplained == Spec => []GapsAreExplained
<1>1. IInv => GapsAreExplained
  BY DEF IInv
<1> QED
  BY <1>1, Invariant, PTL

-----------------------------------------------------------------------------
\* The collector implements LiveIngest

LEMMA PromiseInit == Init => Promise!Init
<1>1. Init => {b \in Bar : store[b] # "absent"} = {} /\ published = <<>> /\ closed \in Nat
  BY DEF Init
<1> QED
  BY <1>1 DEF Promise!Init

\* What a step does to what is stored and to what was sent last.
LEMMA PromiseStep == IInv /\ [Next]_vars => [Promise!Next]_(Promise!ivars)
<1> SUFFICES ASSUME IInv, [Next]_vars PROVE [Promise!Next]_(Promise!ivars)
  OBVIOUS
<1>0. /\ store \in [Bar -> {"absent", "partial", "final"}] /\ StoredIsFinal
      /\ published \in Seq(Bar)
  BY DEF IInv, TypeOK
<1>1. ASSUME UNCHANGED <<closed, published>>,
             NEW S \in SUBSET Rows(batch), store' = Inserted(S)
      PROVE  [Promise!Next]_(Promise!ivars)
  <2>1. S \subseteq Bar /\ S \in SUBSET (0..(closed - 1)) /\ \A b \in S : b < batch.asOf
    BY RowsHaveClosed
  <2>2. StoredBars' = StoredBars \cup S /\ SentBound' = SentBound
    BY <1>0, <1>1, <2>1, InsertedAdds, Frame
  <2> QED
    BY <1>1, <2>1, <2>2 DEF Promise!Next, Promise!Store, StoredBars, SentBound
<1>2. ASSUME UNCHANGED <<closed, store, published>>
      PROVE  [Promise!Next]_(Promise!ivars)
  BY <1>2 DEF Promise!ivars
<1>3. CASE BarCloses
  BY <1>3 DEF BarCloses, Promise!Next, Promise!BarCloses
<1>4. CASE Insert \/ InsertFails \/ CatchUpInsert \/ CatchUpInsertFails
  <2>1. UNCHANGED <<closed, published>> /\ \E S \in SUBSET Rows(batch) : store' = Inserted(S)
    BY <1>4 DEF Insert, InsertFails, CatchUpInsert, CatchUpInsertFails
  <2> QED
    BY <1>1, <2>1
<1>5. CASE PublishKlines \/ PublishFails
  <2>1. /\ pc = "publish" /\ UNCHANGED <<closed, store>>
        /\ published' = published \/ published' = Append(published, batch.lo)
    BY <1>5 DEF PublishKlines, PublishFails, Sent
  <2>2. CASE published' = published
    BY <1>2, <2>1, <2>2
  <2>3. CASE published' = Append(published, batch.lo)
    <3>1. batch.lo \in Bar /\ batch.lo \in StoredBars /\ SentBound <= batch.lo
      BY <2>1, RowsHaveClosed DEF IInv, BatchInv, InHand
    <3>2. SentBound' = batch.lo + 1 /\ StoredBars' = StoredBars
      BY <1>0, <2>1, <2>3, <3>1, SentMoves, Frame
    <3>3. Promise!Publish(batch.lo)
      BY <2>1, <3>1, <3>2 DEF Promise!Publish, StoredBars, SentBound
    <3> QED
      BY <3>1, <3>3 DEF Promise!Next, StoredBars
  <2> QED
    BY <2>1, <2>2, <2>3
<1>6. CASE \/ Top \/ Sleep \/ CatchUp \/ FetchBatch \/ FetchFails \/ Connect \/ ConnectFails
           \/ Recv \/ RecvFails \/ RecvCancelled \/ ConnEnds
           \/ Cancel \/ CloseDone \/ CloseConn \/ Restart \/ UNCHANGED vars
  BY <1>2, <1>6 DEF Top, Sleep, CatchUp, FetchBatch, FetchFails, Connect, ConnectFails, Recv,
     RecvFails, RecvCancelled, ConnEnds, Cancel, CloseDone, CloseConn, Restart, vars
<1> QED
  BY <1>3, <1>4, <1>5, <1>6 DEF Next, Collector, Quiet

\* The collector implements LiveIngest: it stores only bars that have closed, forgets
\* none, and sends each to Kafka at most once, in order, and only when it is stored.
THEOREM PromiseKept == Spec => KeepsPromise
BY PromiseInit, PromiseStep, Invariant, PTL DEF Spec, KeepsPromise, Promise!Spec

=============================================================================
