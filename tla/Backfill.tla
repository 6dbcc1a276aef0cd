------------------------------ MODULE Backfill ------------------------------
(***************************************************************************)
(* The K-line backfill of a historical request (internal/backfill): the    *)
(* window is split by calendar year, each year's part is fetched page by   *)
(* page, the rows are inserted with ON CONFLICT DO NOTHING, and the        *)
(* coverage segments they form are returned if nothing failed; coverage is *)
(* verified by counting rows.  Meanwhile bars close and the live collector *)
(* inserts them into the same tables.                                      *)
(*                                                                         *)
(* Time is counted in ticks.  A bar is Step ticks long and opens at a      *)
(* multiple of Step; a year is a whole number of bars.                     *)
(***************************************************************************)
EXTENDS Integers, Sequences, FiniteSets, FiniteSetsExt

CONSTANTS Step,    \* ticks in a bar
          YearLen, \* ticks in a year
          Years,   \* bound: the years that windows lie in
          Limit,   \* rows in one answer of the exchange
          Faults   \* bound on disturbances: failed calls, bars the exchange lacks, hasty rows

ASSUME BackfillAssumption ==
  /\ Step \in Nat \ {0} /\ Years \in Nat \ {0} /\ Limit \in Nat \ {0} /\ Faults \in Nat
  /\ YearLen \in Nat \ {0} /\ YearLen % Step = 0

VARIABLES
  window,    \* [StartAt, EndAt) of the request
  lacking,   \* exchange: bars it does not list
  closed,    \* exchange: how many bars have closed
  store,     \* year databases: each bar's row
  phase,     \* where RunKlineRequest is
  part,      \* the index of the year in hand
  cur,       \* where its next page begins
  page,      \* the rows fetched, and how many bars had closed then
  built,     \* the coverage segments built
  begun,     \* history: how many bars had closed when the request began
  faults     \* disturbances left

backfillVars == <<window, lacking, closed, store, phase, part, cur, page, built, begun, faults>>

Horizon == YearLen * Years
Bar     == 0..((Horizon \div Step) - 1)
NoPage  == [rows |-> {}, asOf |-> 0]

\* A bar's row: as the closed bar was, as it was before it closed and stored by the
\* backfill ("partial") or by a live collector ("hasty"), or not there.
Row == {"absent", "partial", "hasty", "final"}

Window  == [start : 0..Horizon, end : 0..Horizon]
Segment == [start : 0..Horizon, end : 0..Horizon, year : 0..(Years - 1),
            count : 1..Cardinality(Bar)]

BackfillTypeOK ==
  /\ window \in Window
  /\ lacking \subseteq Bar
  /\ closed \in 0..Cardinality(Bar) /\ begun \in 0..Cardinality(Bar)
  /\ store \in [Bar -> Row]
  /\ phase \in {"idle", "fetch", "insert", "done", "failed"}
  /\ part \in 1..Years
  /\ cur \in 0..Horizon
  /\ page \in [rows : SUBSET Bar, asOf : 0..Cardinality(Bar)]
  /\ built \in SUBSET Segment
  /\ faults \in 0..Faults

BackfillInit ==
  /\ window \in {w \in Window : w.start < w.end}
  /\ lacking \in {S \in SUBSET Bar : Cardinality(S) <= Faults}
  /\ closed = 0
  /\ store = [b \in Bar |-> "absent"]
  /\ phase = "idle" /\ part = 1 /\ cur = 0 /\ page = NoPage /\ built = {} /\ begun = 0
  /\ faults = Faults - Cardinality(lacking)

-----------------------------------------------------------------------------
\* Pure algorithms

Lesser(m, n)  == IF m < n THEN m ELSE n
Greater(m, n) == IF m < n THEN n ELSE m

OpenTime(b) == b * Step
YearOf(t)   == t \div YearLen

\* Mutant: the last year's part is forgotten.
SplitShort(w) ==
  LET n == Greater(YearOf(w.end - 1) - YearOf(w.start), 1)
  IN  [i \in 1..n |->
        LET y == YearOf(w.start) + i - 1
        IN  [start |-> Greater(w.start, y * YearLen),
             end   |-> Lesser(w.end, (y + 1) * YearLen)]]

SplitByYear(w) ==
  LET n == YearOf(w.end - 1) - YearOf(w.start) + 1
  IN  [i \in 1..n |->
        LET y == YearOf(w.start) + i - 1
        IN  [start |-> Greater(w.start, y * YearLen),
             end   |-> Lesser(w.end, (y + 1) * YearLen)]]

Within(w) == {b \in Bar : w.start <= OpenTime(b) /\ OpenTime(b) < w.end}

\* Mutant: the row at a window's end is kept.
FilterInclusive(rows, w) ==
  {b \in rows : w.start <= OpenTime(b) /\ OpenTime(b) <= w.end}

FilterKlinesForWindow(rows, w) == rows \cap Within(w)

\* The segment of the bars b .. c.
SegmentOf(b, c) ==
  [start |-> OpenTime(b), end |-> OpenTime(c) + Step,
   year |-> YearOf(OpenTime(b)), count |-> c - b + 1]

SameYear(b, c) == YearOf(OpenTime(b)) = YearOf(OpenTime(c))

\* b .. c are consecutive rows of one year, and neither neighbour continues them.
IsRun(rows, b, c) ==
  /\ b <= c
  /\ \A d \in b..c : d \in rows /\ SameYear(b, d)
  /\ ~(b - 1 \in rows /\ SameYear(b - 1, b))
  /\ ~(c + 1 \in rows /\ SameYear(c, c + 1))

Runs(rows) == {r \in rows \X rows : IsRun(rows, r[1], r[2])}

\* Mutant: a segment takes the year of its end.
SegmentsOfEndYear(rows) ==
  {[SegmentOf(r[1], r[2]) EXCEPT !.year = YearOf(OpenTime(r[2]) + Step)] : r \in Runs(rows)}

\* The list of segments is in the order of their starts: a set says as much.
BuildCoverageSegments(rows) == {SegmentOf(r[1], r[2]) : r \in Runs(rows)}

CanMerge(a, b) == a.year = b.year /\ a.end = b.start

\* The last of dst, a, takes in seg.  Only the first of src can meet it, and src's own
\* segments never merge: they are maximal.
Merges(dst, a, seg) == (\A d \in dst : d.start <= a.start) /\ CanMerge(a, seg)

\* Mutant: the count of the segment merged in is dropped.
AppendUncounted(dst, src) ==
  {a \in dst : \A seg \in src : ~Merges(dst, a, seg)}
    \cup {seg \in src : \A a \in dst : ~Merges(dst, a, seg)}
    \cup {[p[1] EXCEPT !.end = p[2].end] : p \in {q \in dst \X src : Merges(dst, q[1], q[2])}}

Merged(a, seg) == [a EXCEPT !.end = seg.end, !.count = @ + seg.count]

AppendCoverageSegments(dst, src) ==
  {a \in dst : \A seg \in src : ~Merges(dst, a, seg)}
    \cup {seg \in src : \A a \in dst : ~Merges(dst, a, seg)}
    \cup {Merged(p[1], p[2]) : p \in {q \in dst \X src : Merges(dst, q[1], q[2])}}

\* Mutant: the window's last millisecond is taken for its end.
ExpectedShort(w) == (w.end - 1 - w.start) \div Step

ExpectedBarCount(w) == (w.end - w.start) \div Step

Stored(w) == {b \in Within(w) : store[b] # "absent"}

\* verifyWindowCoverage of every year's part.
VerifyKlineCoverage(w) ==
  \A i \in DOMAIN SplitByYear(w) :
    LET p == SplitByYear(w)[i]
    IN  Cardinality(Stored(p)) >= ExpectedBarCount(p) /\ Stored(p) # {}

-----------------------------------------------------------------------------
\* The exchange and the live collector

BarCloses ==
  /\ closed < Cardinality(Bar)
  /\ closed' = closed + 1
  /\ UNCHANGED <<window, lacking, store, phase, part, cur, page, built, begun, faults>>

Inserted(rows, asOf) ==
  [b \in Bar |-> IF b \in rows /\ store[b] = "absent"
                 THEN IF b < asOf THEN "final" ELSE "partial"
                 ELSE store[b]]

\* A live collector inserts the bar that has closed.
LiveInsert ==
  /\ closed > 0 /\ closed - 1 \notin lacking
  /\ store' = Inserted({closed - 1}, closed)
  /\ UNCHANGED <<window, lacking, closed, phase, part, cur, page, built, begun, faults>>

\* The futures collector reads the clock after the rows: it takes a bar that closed in
\* between for closed, and inserts it as it was before.
HastyInsert ==
  /\ closed > 0 /\ closed - 1 \notin lacking /\ store[closed - 1] = "absent"
  /\ faults > 0 /\ faults' = faults - 1
  /\ store' = [store EXCEPT ![closed - 1] = "hasty"]
  /\ UNCHANGED <<window, lacking, closed, phase, part, cur, page, built, begun>>

-----------------------------------------------------------------------------
\* RunKlineRequest

Parts == SplitByYear(window)

Begin ==
  /\ phase = "idle"
  /\ phase' = "fetch" /\ part' = 1 /\ cur' = Parts[1].start
  /\ page' = NoPage /\ built' = {} /\ begun' = closed
  /\ UNCHANGED <<window, lacking, closed, store, faults>>

\* The next year's part, if there is one.
NextPart ==
  IF part < Len(Parts)
  THEN part' = part + 1 /\ cur' = Parts[part + 1].start /\ phase' = "fetch"
  ELSE phase' = "done" /\ UNCHANGED <<part, cur>>

\* What the exchange lists from a tick on up to a part's end, the open bar included;
\* it may take the end, a millisecond before the part's, for a bar that opens there.
Listed(from, w) ==
  {{b \in Bar \ lacking : b <= closed /\ from <= OpenTime(b) /\ OpenTime(b) <= to} :
     to \in {w.end - 1, w.end}}

FirstOf(S) == {b \in S : Cardinality({c \in S : c < b}) < Limit}

FetchKlines ==
  /\ phase = "fetch"
  /\ \E listed \in Listed(cur, Parts[part]) :
       IF listed = {} THEN NextPart /\ page' = NoPage
       ELSE /\ page' = [rows |-> FirstOf(listed), asOf |-> closed]
            /\ phase' = "insert"
            /\ UNCHANGED <<part, cur>>
  /\ UNCHANGED <<window, lacking, closed, store, built, begun, faults>>

\* Mutant: the next page begins one bar late.
NextPageLate(rows) == OpenTime(Max(rows)) + 2 * Step

\* lastClose + 1
NextPage(rows) == OpenTime(Max(rows)) + Step

InsertKline ==
  /\ phase = "insert"
  /\ LET rows == FilterKlinesForWindow(page.rows, Parts[part])
     IN  /\ store' = Inserted(rows, page.asOf)
         /\ built' = AppendCoverageSegments(built, BuildCoverageSegments(rows))
  /\ IF NextPage(page.rows) < Parts[part].end
     THEN cur' = NextPage(page.rows) /\ phase' = "fetch" /\ UNCHANGED part
     ELSE NextPart
  /\ page' = NoPage
  /\ UNCHANGED <<window, lacking, closed, begun, faults>>

\* A failed or cancelled call ends the request; rows may be stored, the segments are lost.
Fails ==
  /\ phase \in {"fetch", "insert"} /\ faults > 0
  /\ faults' = faults - 1
  /\ \E S \in SUBSET FilterKlinesForWindow(page.rows, Parts[part]) : store' = Inserted(S, page.asOf)
  /\ phase' = "failed" /\ page' = NoPage /\ built' = {}
  /\ UNCHANGED <<window, lacking, closed, part, cur, begun>>

\* A later pass of the historical runtime starts a worker again.
Retry ==
  /\ phase = "failed"
  /\ phase' = "idle"
  /\ UNCHANGED <<window, lacking, closed, store, part, cur, page, built, begun, faults>>

Quiet == phase = "done" /\ UNCHANGED backfillVars

BackfillNext ==
  \/ BarCloses \/ LiveInsert \/ HastyInsert
  \/ Begin \/ FetchKlines \/ InsertKline \/ Fails \/ Retry
  \/ Quiet

BackfillSpec == BackfillInit /\ [][BackfillNext]_backfillVars

-----------------------------------------------------------------------------
\* Safety

Covered(seg) == {b \in Bar : seg.start <= OpenTime(b) /\ OpenTime(b) < seg.end}

\* A coverage segment claims no bar that is not stored, counts its rows right,
\* stays within one year, and leaves a gap, or a year's end, before the next one.
SegmentsAreTrue ==
  \A seg \in built :
    /\ \A b \in Covered(seg) : store[b] # "absent"
    /\ Covered(seg) \subseteq Within(window)
    /\ seg.count = Cardinality(Covered(seg))
    /\ \A b \in Covered(seg) : YearOf(OpenTime(b)) = seg.year
    /\ \A other \in built \ {seg} : seg.start <= other.start =>
         /\ seg.end <= other.start
         /\ seg.end = other.start => seg.year < other.year

\* A backfill that ends well has stored, and reports, every bar of the window that
\* was closed when it began and that the exchange has: no page is skipped at a page's,
\* a part's or a year's end.
BackfillIsComplete ==
  phase = "done" =>
    \A b \in Within(window) :
      b < begun /\ b \notin lacking => \E seg \in built : b \in Covered(seg)

Aligned(w) == w.start % Step = 0 /\ w.end % Step = 0

\* Ready means that no bar is missing; where a year's part is not a whole number of
\* bars, the count is rounded down and one bar of it may be.
ReadyMeansStored ==
  VerifyKlineCoverage(window) =>
    \A i \in DOMAIN Parts :
      LET missing == Within(Parts[i]) \ Stored(Parts[i])
      IN  Cardinality(missing) <= IF Aligned(Parts[i]) THEN 0 ELSE 1

\* An attempt that begins when a window is past stores no partial row: such a row
\* would stay, whatever the live collector or a retry inserts later.  The live
\* collectors' own early rows, "hasty", are not the backfill's doing.
PastWindowStaysFinal ==
  [][phase # "idle" /\ window.end <= begun * Step =>
       \A b \in Bar : store'[b] = "partial" => store[b] = "partial"]_backfillVars

=============================================================================
