---------------------------- MODULE HistoryProofs ---------------------------
(***************************************************************************)
(* Theorems about historical requests.  The first half is about the        *)
(* runtime that serves them (HistoryRuntime), for any requests, pool of    *)
(* workers and length of window; the second about the backfill of one      *)
(* (Backfill), for any length of bars, years, pages and windows.  Both are *)
(* for any number of disturbances.                                         *)
(***************************************************************************)
EXTENDS HistoryRuntime, Backfill, TLAPS, FiniteSetTheorems, WellFoundedInduction

-----------------------------------------------------------------------------
\* Types

WorkerStates ==
  [at : Stages \cup {"gone"}, req : Requests \cup {None}, says : Statuses \cup {"none"},
   got : 0..Bars, live : BOOLEAN, cancelled : BOOLEAN]

\* A goroutine works on a request it can serve, and says something when it reports.
WorkerOK(f) ==
  /\ f \in [Workers -> WorkerStates]
  /\ \A w \in Workers : /\ f[w].at # "gone" => f[w].req \in Servable
                        /\ f[w].at = "report" => f[w].says \in Statuses

TInv == TypeOK /\ WorkerOK(worker)

LEMMA WorkerPut ==
  ASSUME NEW f, WorkerOK(f), NEW w \in Workers, NEW g \in WorkerStates,
         g.at # "gone" => g.req \in Servable, g.at = "report" => g.says \in Statuses
  PROVE  WorkerOK([f EXCEPT ![w] = g])
BY DEF WorkerOK

\* What each way of moving a worker on makes of it.
LEMMA WorkerMoves ==
  ASSUME WorkerOK(worker), NEW w \in Workers, worker[w].at # "gone"
  PROVE  /\ \A stage \in Stages \ {"report"} : \A got \in 0..Bars : WorkerOK(Enter(w, stage, got))
         /\ \A st \in Statuses : WorkerOK(Say(w, st))
         /\ WorkerOK(Leave(w))
         /\ WorkerOK([worker EXCEPT ![w] = Gone])
<1>1. worker[w].req \in Servable /\ worker[w].cancelled \in BOOLEAN /\ 0 \in 0..Bars
  BY HistoryRuntimeAssumption DEF WorkerOK, WorkerStates
<1>2. worker[w].req \in Requests
  BY <1>1, HistoryRuntimeAssumption
<1>3. ASSUME NEW at \in Stages, NEW says \in Statuses \cup {"none"}, NEW got \in 0..Bars,
             NEW live \in BOOLEAN, at = "report" => says \in Statuses
      PROVE  WorkerOK([worker EXCEPT ![w] =
                         Goroutine(at, @.req, says, got, live, @.cancelled)])
  <2> DEFINE g == Goroutine(at, worker[w].req, says, got, live, worker[w].cancelled)
  <2>1. g \in WorkerStates /\ g.req \in Servable /\ (g.at = "report" => g.says \in Statuses)
    BY <1>1, <1>2, <1>3 DEF Goroutine, WorkerStates
  <2>2. WorkerOK([worker EXCEPT ![w] = g])
    BY <2>1, WorkerPut
  <2>3. QED
    BY <2>2
<1>4. Cancelled(w) \in BOOLEAN => (~Cancelled(w)) \in BOOLEAN
  OBVIOUS
<1>5. (~Cancelled(w)) \in BOOLEAN
  OBVIOUS
<1>6. ASSUME NEW stage \in Stages \ {"report"}, NEW got \in 0..Bars
      PROVE  WorkerOK(Enter(w, stage, got))
  <2>1. stage \in Stages /\ stage # "report" /\ "none" \in Statuses \cup {"none"}
    OBVIOUS
  <2>2. QED
    BY <1>3, <1>5, <2>1 DEF Enter
<1>7. \A st \in Statuses : WorkerOK(Say(w, st))
  BY <1>1, <1>3, <1>5 DEF Say, Stages
<1>8. WorkerOK(Leave(w))
  BY <1>1, <1>3 DEF Leave, Stages
<1>9. Gone \in WorkerStates /\ Gone.at = "gone"
  BY <1>1 DEF Gone, Goroutine, WorkerStates
<1>10. WorkerOK([worker EXCEPT ![w] = Gone])
  BY <1>9, WorkerPut
<1>11. QED
  BY <1>6, <1>7, <1>8, <1>10

LEMMA WorkerCancel ==
  ASSUME WorkerOK(worker), NEW S
  PROVE  WorkerOK(CancelEntries(S))
<1> DEFINE Marked(w) == [worker[w] EXCEPT !.cancelled = TRUE]
<1>1. ASSUME NEW w \in Workers
      PROVE  /\ Marked(w) \in WorkerStates /\ Marked(w).at = worker[w].at
             /\ Marked(w).req = worker[w].req /\ Marked(w).says = worker[w].says
  BY DEF WorkerOK, WorkerStates
<1> HIDE DEF Marked
<1>2. ASSUME NEW w \in Workers
      PROVE  CancelEntries(S)[w] = Marked(w) \/ CancelEntries(S)[w] = worker[w]
  BY DEF CancelEntries, Marked
<1>3. CancelEntries(S) \in [Workers -> WorkerStates]
  BY <1>1 DEF WorkerOK, CancelEntries, Marked
<1>4. QED
  BY <1>1, <1>2, <1>3 DEF WorkerOK

LEMMA TypeInit == Init => TInv
<1>1. Init => WorkerOK(worker)
  BY HistoryRuntimeAssumption DEF Init, WorkerOK, WorkerStates, Gone, Goroutine
<1>2. ASSUME Init PROVE TypeOK
  <2>1. /\ budget \in 0..Budget /\ 0 \in 0..Bars
        /\ pc \in [Threads -> {"idle", "list", "pass", "wait", "stopAll", "done"}]
    BY <1>2, HistoryRuntimeAssumption DEF Init, Threads
  <2>2. worker \in [Workers -> WorkerStates]
    BY <1>1, <1>2 DEF WorkerOK
  <2>3. QED
    BY <1>2, <2>1, <2>2 DEF Init, TypeOK, WorkerStates
<1>3. QED
  BY <1>1, <1>2 DEF TInv

LEMMA RelistTypes ==
  ASSUME TypeOK, NEW r \in Requests, NEW on \in BOOLEAN, Relist(r, on)
  PROVE  /\ listed' \in [Requests -> BOOLEAN]
         /\ past' \in [Requests -> {"fresh", "removed", "relisted"}]
BY DEF TypeOK, Relist

LEMMA AppliedTypes ==
  ASSUME TypeOK, NEW r \in Requests, NEW st \in Statuses, Applied(r, st)
  PROVE  /\ listed' \in [Requests -> BOOLEAN]
         /\ past' \in [Requests -> {"fresh", "removed", "relisted"}]
         /\ status' = [status EXCEPT ![r] = st]
         /\ status' \in [Requests -> Statuses \cup {"pending"}]
<1>1. PICK on \in CASE st = "ready" -> {FALSE}
                    [] st = "error" -> {listed[r], FALSE}
                    [] OTHER -> {listed[r]} : Relist(r, on)
  BY DEF Applied
<1>2. on \in BOOLEAN
  BY <1>1 DEF TypeOK
<1>3. QED
  BY <1>1, <1>2, RelistTypes DEF Applied, TypeOK

LEMMA AfterReportOK ==
  ASSUME TInv, NEW w \in Workers, worker[w].at = "report"
  PROVE  WorkerOK(AfterReport(w))
<1>1. 0 \in 0..Bars
  BY HistoryRuntimeAssumption
<1>2. QED
  BY <1>1, WorkerMoves DEF AfterReport, TInv, Stages

LEMMA TypeWorker ==
  ASSUME TInv, NEW w \in Workers, RunRequest(w)
  PROVE  TInv'
<1> DEFINE r == worker[w].req
<1>1. worker[w].at # "gone"
  BY DEF RunRequest, Verify, VerifyFails, BackfillPage, BackfillFails, BackfillEnds,
     ReportCoverageSegments, ReportCoverageSegmentsFails, ReportHistorical,
     ReportHistoricalFails, Untrack
<1>2. r \in Requests /\ worker[w].got \in 0..Bars /\ Bars \in Nat /\ 0 \in 0..Bars
  BY <1>1, HistoryRuntimeAssumption DEF TInv, WorkerOK, WorkerStates
<1>3. WorkerOK(worker)
  BY DEF TInv
<1>4. (Failure(w) \/ Disturb \/ UNCHANGED budget) => budget' \in 0..Budget
  BY HistoryRuntimeAssumption DEF Failure, Disturb, TInv, TypeOK
<1>5. Told(w) \in [Requests -> 0..Bars]
  BY <1>2 DEF Told, AtLeast, TInv, TypeOK
<1> USE DEF TInv, TypeOK
<1>6. ASSUME WorkerOK(worker') PROVE worker' \in [Workers -> [at : Stages \cup {"gone"},
        req : Requests \cup {None}, says : Statuses \cup {"none"}, got : 0..Bars,
        live : BOOLEAN, cancelled : BOOLEAN]]
  BY <1>6 DEF WorkerOK, WorkerStates
<1>7. CASE Verify(w)
  <2>1. Verdict(w) \in Statuses
    BY DEF Verdict, Statuses
  <2>2. WorkerOK(worker')
    BY <1>1, <1>3, <1>7, <2>1, WorkerMoves DEF Verify
  <2>3. QED
    BY <1>6, <1>7, <2>2 DEF Verify
<1>8. CASE VerifyFails(w) \/ BackfillFails(w)
  <2>1. WorkerOK(worker')
    BY <1>1, <1>3, <1>8, WorkerMoves DEF VerifyFails, BackfillFails, Statuses
  <2>2. QED
    BY <1>4, <1>6, <1>8, <2>1 DEF VerifyFails, BackfillFails
<1>9. CASE BackfillPage(w)
  <2>1. worker[w].got + 1 \in 0..Bars
    BY <1>2, <1>9 DEF BackfillPage
  <2>2. WorkerOK(worker')
    BY <1>1, <1>3, <1>9, <2>1, WorkerMoves DEF BackfillPage, Stages
  <2>3. stored' \in [Requests -> 0..Bars]
    BY <1>2, <1>9, <2>1 DEF BackfillPage, AtLeast
  <2>4. QED
    BY <1>6, <1>9, <2>2, <2>3 DEF BackfillPage
<1>10. CASE BackfillEnds(w)
  <2>1. WorkerOK(worker')
    BY <1>1, <1>2, <1>3, <1>10, WorkerMoves DEF BackfillEnds, Stages, Statuses
  <2>2. QED
    BY <1>4, <1>6, <1>10, <2>1 DEF BackfillEnds
<1>11. CASE ReportCoverageSegments(w) \/ ReportCoverageSegmentsFails(w)
  <2>1. WorkerOK(worker')
    BY <1>1, <1>3, <1>11, WorkerMoves
       DEF ReportCoverageSegments, ReportCoverageSegmentsFails, Statuses
  <2>2. segments' \in [Requests -> 0..Bars]
    BY <1>5, <1>11 DEF ReportCoverageSegments, ReportCoverageSegmentsFails
  <2>3. QED
    BY <1>4, <1>6, <1>11, <2>1, <2>2 DEF ReportCoverageSegments, ReportCoverageSegmentsFails
<1>12. CASE ReportHistorical(w)
  <2>1. WorkerOK(worker')
    BY <1>12, AfterReportOK DEF ReportHistorical
  <2>2. worker[w].says \in Statuses
    BY <1>3, <1>12 DEF ReportHistorical, WorkerOK
  <2>3. QED
    BY <1>2, <1>6, <1>12, <2>1, <2>2, AppliedTypes DEF ReportHistorical
<1>13. CASE ReportHistoricalFails(w)
  <2>1. WorkerOK(worker')
    BY <1>13, AfterReportOK DEF ReportHistoricalFails
  <2>2. QED
    BY <1>4, <1>6, <1>13, <2>1 DEF ReportHistoricalFails
<1>14. CASE Untrack(w)
  <2>1. WorkerOK(worker')
    BY <1>1, <1>3, <1>14, WorkerMoves DEF Untrack
  <2>2. inFlight' \in [Requests -> Workers \cup {None}]
    BY <1>14 DEF Untrack, Dropped
  <2>3. QED
    BY <1>6, <1>14, <2>1, <2>2 DEF Untrack
<1>15. QED
  BY <1>7, <1>8, <1>9, <1>10, <1>11, <1>12, <1>13, <1>14 DEF RunRequest

LEMMA TypeStep == TInv /\ [Next]_vars => TInv'
<1> SUFFICES ASSUME TInv, [Next]_vars PROVE TInv'
  OBVIOUS
<1>0. WorkerOK(worker) /\ TypeOK
  BY DEF TInv
<1>a. (Disturb \/ UNCHANGED budget) => budget' \in 0..Budget
  BY HistoryRuntimeAssumption DEF Disturb, TInv, TypeOK
<1>b. ASSUME WorkerOK(worker') PROVE worker' \in [Workers -> [at : Stages \cup {"gone"},
        req : Requests \cup {None}, says : Statuses \cup {"none"}, got : 0..Bars,
        live : BOOLEAN, cancelled : BOOLEAN]]
  BY <1>b DEF WorkerOK, WorkerStates
<1>c. \A t \in Threads : \A where \in {"idle", "list", "pass", "wait", "stopAll", "done"} :
        SetAt(t, where) => pc' \in [Threads -> {"idle", "list", "pass", "wait", "stopAll", "done"}]
  BY <1>0 DEF SetAt, TypeOK
<1>d. \A S : Dropped(S) \in [Requests -> Workers \cup {None}]
  BY <1>0 DEF Dropped, TypeOK
<1>e. "run" \in Threads /\ "stop" \in Threads
  BY DEF Threads
<1> USE DEF TInv, TypeOK, WorkerOK
<1>1. ASSUME NEW r \in Requests, ListingChanges(r) PROVE TInv'
  <2>1. (~listed[r]) \in BOOLEAN
    OBVIOUS
  <2>2. /\ listed' \in [Requests -> BOOLEAN]
        /\ past' \in [Requests -> {"fresh", "removed", "relisted"}]
    BY <1>0, <1>1, <2>1, RelistTypes DEF ListingChanges
  <2>3. QED
    BY <1>1, <1>a, <2>2 DEF ListingChanges
<1>2. CASE TickerFires \/ ListHistoricalRequests \/ ListFails \/ RunSeesDone
  BY <1>2, <1>a, <1>c, <1>e DEF TickerFires, ListHistoricalRequests, ListFails, RunSeesDone
<1>3. ASSUME NEW r \in Requests, Refuse(r) PROVE TInv'
  <2>1. CASE Applied(r, "error") /\ UNCHANGED budget
    BY <1>0, <1>3, <2>1, AppliedTypes DEF Refuse, Turn, Statuses
  <2>2. CASE UNCHANGED <<listed, status, past>>
    BY <1>3, <1>a, <2>2 DEF Refuse, Turn
  <2>3. QED
    BY <1>3, <2>1, <2>2 DEF Refuse
<1>4. ASSUME NEW r \in Requests, LeaveInFlight(r) PROVE TInv'
  BY <1>4 DEF LeaveInFlight, Turn
<1>5. ASSUME NEW r \in Requests, StartWorker(r) PROVE TInv'
  <2> DEFINE Idle == {w \in Workers : worker[w].at = "gone"}
             v == CHOOSE w \in Idle : TRUE
             g == Goroutine("verify", r, "none", 0, ~ctxDone, FALSE)
  <2>1. v \in Workers
    BY <1>5 DEF StartWorker
  <2>2. inFlight' = [inFlight EXCEPT ![r] = v] /\ worker' = [worker EXCEPT ![v] = g]
    BY <1>5 DEF StartWorker
  <2> HIDE DEF v
  <2>3. g \in WorkerStates /\ g.req \in Servable /\ g.at # "report"
    BY <1>5, HistoryRuntimeAssumption DEF StartWorker, Turn, Goroutine, WorkerStates, Stages
  <2>4. WorkerOK(worker')
    BY <1>0, <2>1, <2>2, <2>3, WorkerPut
  <2>5. inFlight' \in [Requests -> Workers \cup {None}]
    BY <2>1, <2>2
  <2>6. QED
    BY <1>5, <1>b, <2>4, <2>5 DEF StartWorker, Turn
<1>6. CASE CancelMissing
  <2>1. WorkerOK(worker')
    BY <1>0, <1>6, WorkerCancel DEF CancelMissing
  <2>2. QED
    BY <1>6, <1>b, <1>c, <1>d, <1>e, <2>1 DEF CancelMissing
<1>7. CASE StopCalled
  BY <1>7, <1>a, <1>c, <1>e DEF StopCalled
<1>8. ASSUME NEW t \in Threads, StopAll(t) PROVE TInv'
  <2>1. WorkerOK(worker')
    BY <1>0, <1>8, WorkerCancel DEF StopAll
  <2>2. QED
    BY <1>8, <1>b, <1>c, <1>d, <2>1 DEF StopAll
<1>9. ASSUME NEW w \in Workers, RunRequest(w) PROVE TInv'
  BY <1>9, TypeWorker
<1>10. CASE UNCHANGED vars
  BY <1>10 DEF vars
<1>11. QED
  BY <1>1, <1>2, <1>3, <1>4, <1>5, <1>6, <1>7, <1>8, <1>9, <1>10
     DEF Next, Reconciler, Pass, Terminated

\* Every variable of the historical runtime keeps to its type.
THEOREM TypeCorrect == Spec => []TypeOK
<1>1. TInv => TypeOK
  BY DEF TInv
<1>2. QED
  BY TypeInit, TypeStep, <1>1, PTL DEF Spec

-----------------------------------------------------------------------------
\* Who works on a request

\* What a pass and an entry say of the listing, and the shutdown of the context.
ListingInv ==
  /\ todo \subseteq seen
  /\ \A r \in Requests :
       /\ past[r] = "removed" => ~listed[r]
       /\ past[r] = "fresh" /\ (r \in seen \/ inFlight[r] # None) => listed[r]
       /\ past[r] = "fresh" /\ inFlight[r] # None /\ pc["run"] = "pass" => r \in seen
  /\ (pc["stop"] # "idle" \/ pc["run"] \in {"stopAll", "done"}) => ctxDone

\* A worker is cancelled alone only once its request was unlisted, and until the
\* request is listed again no other worker is, or can be, started for it.
CancelledInv ==
  ~ctxDone =>
    \A w \in Workers :
      worker[w].at # "gone" /\ worker[w].cancelled =>
        LET r == worker[w].req
        IN  /\ past[r] # "fresh"
            /\ past[r] = "removed" => inFlight[r] = None /\ r \notin seen

\* What the count of a window's rows warrants: all of them, but for one of a window that
\* is not a whole number of bars.
Warranted(n, r) == n = Bars \/ (r \in Ragged /\ n = Bars - 1 /\ n > 0)

\* Whoever is about to report ready has found the window stored, as far as counting shows.
SaysReadyInv ==
  \A w \in Workers :
    worker[w].at = "report" /\ worker[w].says = "ready" =>
      Warranted(stored[worker[w].req], worker[w].req)

WInv == TInv /\ ListingInv /\ CancelledInv /\ WorkingIsTracked /\ NoStaleEntry

\* How one step may move a request's past.
PastMove(q) ==
  /\ past'[q] = "fresh" => past[q] = "fresh" /\ (listed[q] => listed'[q])
  /\ past[q] = "removed" /\ ~listed[q] =>
       past'[q] = "relisted" \/ (past'[q] = "removed" /\ ~listed'[q])
  /\ past[q] = "fresh" => past'[q] = "fresh" \/ (past'[q] = "removed" /\ ~listed'[q])
  /\ past[q] = "relisted" => past'[q] = "relisted"

LEMMA RelistMoves ==
  ASSUME TypeOK, NEW r \in Requests, NEW on \in BOOLEAN, Relist(r, on), NEW q \in Requests
  PROVE  PastMove(q)
BY DEF Relist, PastMove, TypeOK

LEMMA AppliedMoves ==
  ASSUME TypeOK, NEW r \in Requests, NEW st \in Statuses, Applied(r, st), NEW q \in Requests
  PROVE  PastMove(q)
<1>1. PICK on \in CASE st = "ready" -> {FALSE}
                    [] st = "error" -> {listed[r], FALSE}
                    [] OTHER -> {listed[r]} : Relist(r, on)
  BY DEF Applied
<1>2. on \in BOOLEAN
  BY <1>1 DEF TypeOK
<1>3. QED
  BY <1>1, <1>2, RelistMoves

\* What one step of a worker's goroutine may change.
LEMMA RunFrame ==
  ASSUME TInv, NEW w \in Workers, RunRequest(w)
  PROVE  /\ UNCHANGED <<pc, seen, todo, ctxDone>>
         /\ \A q \in Requests : PastMove(q)
         /\ \A v \in Workers \ {w} : worker'[v] = worker[v]
         /\ worker[w].at # "gone" /\ worker[w].req \in Requests
         /\ \/ /\ worker'[w].at # "gone" /\ worker'[w].req = worker[w].req
               /\ worker'[w].cancelled = worker[w].cancelled
               /\ inFlight' = inFlight
            \/ /\ worker'[w] = Gone
               /\ inFlight' = Dropped({worker[w].req})
<1>1. /\ worker \in [Workers -> WorkerStates]
      /\ past \in [Requests -> {"fresh", "removed", "relisted"}]
  BY DEF TInv, TypeOK, WorkerOK
<1>2. worker[w].at # "gone"
  BY DEF RunRequest, Verify, VerifyFails, BackfillPage, BackfillFails, BackfillEnds,
     ReportCoverageSegments, ReportCoverageSegmentsFails, ReportHistorical,
     ReportHistoricalFails, Untrack
<1>3. worker[w].req \in Requests
  BY <1>2, HistoryRuntimeAssumption DEF TInv, WorkerOK
<1> DEFINE Moved(f) == /\ \A v \in Workers \ {w} : f[v] = worker[v]
                       /\ f[w].at # "gone" /\ f[w].req = worker[w].req
                       /\ f[w].cancelled = worker[w].cancelled
<1>4. /\ \A stage \in Stages : \A got : Moved(Enter(w, stage, got))
      /\ \A st : Moved(Say(w, st))
      /\ Moved(Leave(w))
  BY <1>1 DEF Enter, Say, Leave, Goroutine, Stages
<1>5. Moved(AfterReport(w))
  BY <1>4 DEF AfterReport, Stages
<1>6. ASSUME UNCHANGED <<past, listed>> PROVE \A q \in Requests : PastMove(q)
  BY <1>1, <1>6 DEF PastMove
<1>7. CASE Verify(w) \/ VerifyFails(w) \/ BackfillFails(w)
  BY <1>2, <1>3, <1>4, <1>6, <1>7 DEF Verify, VerifyFails, BackfillFails
<1>8. CASE BackfillPage(w) \/ BackfillEnds(w)
  BY <1>2, <1>3, <1>4, <1>6, <1>8 DEF BackfillPage, BackfillEnds, Stages
<1>9. CASE ReportCoverageSegments(w) \/ ReportCoverageSegmentsFails(w)
  BY <1>2, <1>3, <1>4, <1>6, <1>9 DEF ReportCoverageSegments, ReportCoverageSegmentsFails
<1>10. CASE ReportHistoricalFails(w)
  BY <1>2, <1>3, <1>5, <1>6, <1>10 DEF ReportHistoricalFails
<1>11. CASE ReportHistorical(w)
  <2>1. worker[w].says \in Statuses
    BY <1>11 DEF ReportHistorical, TInv, WorkerOK
  <2>2. \A q \in Requests : PastMove(q)
    BY <1>3, <1>11, <2>1, AppliedMoves DEF ReportHistorical, TInv
  <2>3. QED
    BY <1>2, <1>3, <1>5, <1>11, <2>2 DEF ReportHistorical
<1>12. CASE Untrack(w)
  BY <1>1, <1>2, <1>3, <1>6, <1>12 DEF Untrack
<1>13. QED
  BY <1>7, <1>8, <1>9, <1>10, <1>11, <1>12 DEF RunRequest

LEMMA WorkInit == Init => WInv /\ SaysReadyInv /\ ReadyIsStored
<1>1. Init => TInv
  BY TypeInit
<1>2. ASSUME Init PROVE ListingInv
  BY <1>2 DEF Init, ListingInv, Threads
<1>3. ASSUME Init PROVE \A w \in Workers : worker[w].at = "gone"
  BY <1>3 DEF Init, Gone, Goroutine
<1>4. ASSUME Init PROVE CancelledInv /\ WorkingIsTracked /\ SaysReadyInv
  BY <1>3, <1>4 DEF CancelledInv, WorkingIsTracked, Working, SaysReadyInv
<1>5. ASSUME Init PROVE NoStaleEntry /\ ReadyIsStored
  BY <1>5 DEF Init, NoStaleEntry, ReadyIsStored
<1>6. QED
  BY <1>1, <1>2, <1>4, <1>5 DEF WInv

LEMMA ListingStep == WInv /\ [Next]_vars => ListingInv'
<1> SUFFICES ASSUME WInv, [Next]_vars PROVE ListingInv'
  OBVIOUS
<1>0. /\ ListingInv /\ TInv /\ TypeOK
      /\ listed \in [Requests -> BOOLEAN] /\ inFlight \in [Requests -> Workers \cup {None}]
      /\ pc \in [Threads -> {"idle", "list", "pass", "wait", "stopAll", "done"}]
      /\ past \in [Requests -> {"fresh", "removed", "relisted"}]
  BY DEF WInv, TInv, TypeOK
<1> USE DEF Threads
<1>a. ASSUME \A q \in Requests : PastMove(q), todo' \subseteq todo, seen' = seen,
             \A q \in Requests : inFlight'[q] # None => inFlight[q] # None,
             pc'["run"] = "pass" => pc["run"] = "pass",
             (pc'["stop"] # "idle" \/ pc'["run"] \in {"stopAll", "done"}) => ctxDone'
      PROVE  ListingInv'
  BY <1>0, <1>a DEF ListingInv, PastMove
<1>b. ASSUME UNCHANGED <<past, listed>> PROVE \A q \in Requests : PastMove(q)
  BY <1>0, <1>b DEF PastMove
<1>1. ASSUME NEW r \in Requests, ListingChanges(r) PROVE ListingInv'
  <2>1. \A q \in Requests : PastMove(q)
    <3>1. (~listed[r]) \in BOOLEAN
      OBVIOUS
    <3>2. QED
      BY <1>0, <1>1, <3>1, RelistMoves DEF ListingChanges
  <2>2. QED
    BY <1>0, <1>1, <1>a, <2>1 DEF ListingChanges, ListingInv
<1>2. CASE TickerFires \/ ListFails \/ RunSeesDone
  <2>1. /\ UNCHANGED <<past, listed, todo, seen, inFlight, ctxDone>>
        /\ pc'["run"] # "pass" /\ pc'["stop"] = pc["stop"]
        /\ pc'["run"] \in {"stopAll", "done"} => ctxDone
    BY <1>0, <1>2 DEF TickerFires, ListFails, RunSeesDone, SetAt
  <2>2. QED
    BY <1>0, <1>a, <1>b, <2>1 DEF ListingInv
<1>3. CASE ListHistoricalRequests
  <2>1. /\ UNCHANGED <<past, listed, inFlight, ctxDone>> /\ todo' = seen'
        /\ seen' = {r \in Requests : listed[r]} /\ pc' = [pc EXCEPT !["run"] = "pass"]
    BY <1>3 DEF ListHistoricalRequests, SetAt
  <2>2. QED
    BY <1>0, <2>1 DEF ListingInv
<1>4. ASSUME NEW r \in Requests, Refuse(r) \/ LeaveInFlight(r) PROVE ListingInv'
  <2>1. UNCHANGED <<seen, inFlight, pc, ctxDone>> /\ todo' \subseteq todo
    BY <1>4 DEF Refuse, LeaveInFlight, Turn
  <2>2. \A q \in Requests : PastMove(q)
    BY <1>0, <1>4, <1>b, AppliedMoves DEF Refuse, LeaveInFlight, Statuses
  <2>3. QED
    BY <1>0, <1>a, <2>1, <2>2 DEF ListingInv
<1>5. ASSUME NEW r \in Requests, StartWorker(r) PROVE ListingInv'
  <2>1. /\ UNCHANGED <<past, listed, seen, pc, ctxDone>> /\ todo' \subseteq todo /\ r \in todo
        /\ \A q \in Requests \ {r} : inFlight'[q] = inFlight[q]
    BY <1>0, <1>5 DEF StartWorker, Turn
  <2>2. QED
    BY <1>0, <2>1 DEF ListingInv
<1>6. CASE CancelMissing
  <2>1. /\ UNCHANGED <<past, listed, ctxDone>> /\ seen' = {} /\ todo' = {}
        /\ pc' = [pc EXCEPT !["run"] = "wait"]
        /\ \A q \in Requests : inFlight'[q] # None => inFlight[q] # None
    BY <1>6 DEF CancelMissing, Dropped, SetAt
  <2>2. QED
    BY <1>0, <2>1 DEF ListingInv
<1>7. CASE StopCalled
  <2>1. /\ UNCHANGED <<past, listed, todo, seen, inFlight>> /\ ctxDone'
        /\ pc'["run"] = pc["run"]
    BY <1>0, <1>7 DEF StopCalled, SetAt
  <2>2. QED
    BY <1>a, <1>b, <2>1
<1>8. ASSUME NEW t \in Threads, StopAll(t) PROVE ListingInv'
  <2>1. /\ UNCHANGED <<past, listed, todo, seen, ctxDone>>
        /\ \A q \in Requests : inFlight'[q] = None
        /\ pc[t] = "stopAll" /\ pc' = [pc EXCEPT ![t] = "done"]
    BY <1>8 DEF StopAll, Dropped, SetAt
  <2>2. ctxDone
    BY <2>1 DEF WInv, ListingInv
  <2>3. pc'["run"] # "pass" \/ pc'["run"] = pc["run"]
    BY <1>0, <2>1
  <2>4. QED
    BY <1>a, <1>b, <2>1, <2>2, <2>3
<1>9. ASSUME NEW w \in Workers, RunRequest(w) PROVE ListingInv'
  <2>1. \A q \in Requests : inFlight'[q] # None => inFlight[q] # None
    BY <1>0, <1>9, RunFrame DEF Dropped
  <2>2. QED
    BY <1>0, <1>9, <1>a, <2>1, RunFrame DEF ListingInv
<1>10. CASE UNCHANGED vars
  BY <1>0, <1>10, <1>a, <1>b DEF vars, ListingInv
<1>11. QED
  BY <1>1, <1>2, <1>3, <1>4, <1>5, <1>6, <1>7, <1>8, <1>9, <1>10
     DEF Next, Reconciler, Pass, Terminated

LEMMA WorkStep == WInv /\ [Next]_vars => CancelledInv' /\ WorkingIsTracked' /\ NoStaleEntry'
<1> SUFFICES ASSUME WInv, [Next]_vars PROVE CancelledInv' /\ WorkingIsTracked' /\ NoStaleEntry'
  OBVIOUS
<1> DEFINE Good == CancelledInv' /\ WorkingIsTracked' /\ NoStaleEntry'
<1>0. /\ CancelledInv /\ WorkingIsTracked /\ NoStaleEntry /\ ListingInv /\ TInv /\ TypeOK
      /\ None \notin Workers /\ None \notin Requests
      /\ worker \in [Workers -> WorkerStates] /\ inFlight \in [Requests -> Workers \cup {None}]
      /\ past \in [Requests -> {"fresh", "removed", "relisted"}]
      /\ \A w \in Workers : worker[w].at # "gone" => worker[w].req \in Requests
  BY HistoryRuntimeAssumption DEF WInv, TInv, TypeOK, WorkerOK
<1>a. ASSUME UNCHANGED <<worker, inFlight>>, \A q \in Requests : PastMove(q),
             seen' \subseteq seen, ctxDone => ctxDone'
      PROVE  Good
  <2>1. CancelledInv'
    BY <1>0, <1>a DEF CancelledInv, PastMove
  <2>2. WorkingIsTracked'
    BY <1>0, <1>a DEF WorkingIsTracked, Working, Cancelled, Relisted, PastMove
  <2>3. NoStaleEntry'
    BY <1>0, <1>a DEF NoStaleEntry
  <2>4. QED
    BY <2>1, <2>2, <2>3
<1>b. ASSUME UNCHANGED <<past, listed>> PROVE \A q \in Requests : PastMove(q)
  BY <1>0, <1>b DEF PastMove
<1>1. ASSUME NEW r \in Requests, ListingChanges(r) PROVE Good
  <2>1. (~listed[r]) \in BOOLEAN
    OBVIOUS
  <2>2. \A q \in Requests : PastMove(q)
    BY <1>0, <1>1, <2>1, RelistMoves DEF ListingChanges
  <2>3. QED
    BY <1>1, <1>a, <2>2 DEF ListingChanges
<1>2. CASE TickerFires \/ ListFails \/ RunSeesDone \/ StopCalled
  BY <1>2, <1>a, <1>b DEF TickerFires, ListFails, RunSeesDone, StopCalled
<1>3. CASE ListHistoricalRequests
  <2>1. /\ UNCHANGED <<worker, inFlight, past, ctxDone>>
        /\ seen' = {r \in Requests : listed[r]}
    BY <1>3 DEF ListHistoricalRequests
  <2>2. \A r \in Requests : past[r] = "removed" => r \notin seen'
    BY <1>0, <2>1 DEF ListingInv
  <2>3. CancelledInv'
    BY <1>0, <2>1, <2>2 DEF CancelledInv
  <2>4. WorkingIsTracked' /\ NoStaleEntry'
    BY <1>0, <2>1 DEF WorkingIsTracked, Working, Cancelled, Relisted, NoStaleEntry
  <2>5. QED
    BY <2>3, <2>4
<1>4. ASSUME NEW r \in Requests, Refuse(r) \/ LeaveInFlight(r) PROVE Good
  <2>1. \A q \in Requests : PastMove(q)
    BY <1>0, <1>4, <1>b, AppliedMoves DEF Refuse, LeaveInFlight, Statuses
  <2>2. QED
    BY <1>4, <1>a, <2>1 DEF Refuse, LeaveInFlight
<1>5. ASSUME NEW r \in Requests, StartWorker(r) PROVE Good
  <2> DEFINE Idle == {w \in Workers : worker[w].at = "gone"}
             v == CHOOSE w \in Idle : TRUE
  <2>1. v \in Workers /\ worker[v].at = "gone"
    BY <1>5 DEF StartWorker
  <2>2. /\ inFlight' = [inFlight EXCEPT ![r] = v] /\ inFlight[r] = None
        /\ UNCHANGED <<past, seen, ctxDone>> /\ r \in seen
        /\ worker' = [worker EXCEPT ![v] = Goroutine("verify", r, "none", 0, ~ctxDone, FALSE)]
    BY <1>0, <1>5 DEF StartWorker, Turn, IsInFlight, ListingInv
  <2> HIDE DEF v
  <2>3. /\ worker'[v].at = "verify" /\ worker'[v].req = r /\ worker'[v].cancelled = FALSE
        /\ \A w \in Workers \ {v} : worker'[w] = worker[w]
        /\ inFlight'[r] = v /\ \A q \in Requests \ {r} : inFlight'[q] = inFlight[q]
    BY <1>0, <2>1, <2>2 DEF Goroutine
  <2>4. CancelledInv'
    <3> SUFFICES ASSUME ~ctxDone, NEW w \in Workers, worker'[w].at # "gone", worker'[w].cancelled
                 PROVE  /\ past[worker'[w].req] # "fresh"
                        /\ past[worker'[w].req] = "removed" =>
                             inFlight'[worker'[w].req] = None /\ worker'[w].req \notin seen
      BY <2>2 DEF CancelledInv
    <3>1. worker'[w] = worker[w]
      BY <2>3
    <3>2. /\ worker[w].req \in Requests /\ past[worker[w].req] # "fresh"
          /\ past[worker[w].req] = "removed" =>
               inFlight[worker[w].req] = None /\ worker[w].req \notin seen
      BY <1>0, <3>1 DEF CancelledInv
    <3>3. past[worker[w].req] = "removed" => inFlight'[worker[w].req] = None
      <4>1. worker[w].req \notin seen => worker[w].req # r
        BY <2>2
      <4>2. QED
        BY <2>3, <3>2, <4>1
    <3>4. QED
      BY <3>1, <3>2, <3>3
  <2>5. ASSUME NEW w \in Workers, worker'[w].at # "gone", ~ctxDone', ~worker'[w].cancelled,
               past'[worker'[w].req] # "relisted"
        PROVE  inFlight'[worker'[w].req] = w
    <3>1. CASE w = v
      BY <2>3, <3>1
    <3>2. CASE w # v
      <4>1. Working(w) /\ worker'[w] = worker[w] /\ worker[w].req \in Requests
        BY <1>0, <2>2, <2>3, <2>5, <3>2 DEF Working, Cancelled
      <4>2. inFlight[worker[w].req] = w
        BY <1>0, <2>2, <2>5, <4>1 DEF WorkingIsTracked, Relisted
      <4>3. worker[w].req # r
        BY <1>0, <2>2, <4>2
      <4>4. QED
        BY <2>3, <4>1, <4>2, <4>3
    <3>3. QED
      BY <3>1, <3>2
  <2>6. WorkingIsTracked'
    BY <2>5 DEF WorkingIsTracked, Working, Cancelled, Relisted
  <2>7. ASSUME NEW q \in Requests, inFlight'[q] # None
        PROVE  /\ worker'[inFlight'[q]].at # "gone"
               /\ worker'[inFlight'[q]].req = q
               /\ ~worker'[inFlight'[q]].cancelled
    <3>1. CASE q = r
      BY <2>3, <3>1
    <3>2. CASE q # r
      <4>1. inFlight'[q] = inFlight[q] /\ inFlight[q] \in Workers
        BY <1>0, <2>3, <2>7, <3>2
      <4>2. /\ worker[inFlight[q]].at # "gone" /\ worker[inFlight[q]].req = q
            /\ ~worker[inFlight[q]].cancelled
        BY <1>0, <2>7, <4>1 DEF NoStaleEntry
      <4>3. inFlight[q] # v
        BY <2>1, <4>2
      <4>4. worker'[inFlight[q]] = worker[inFlight[q]]
        BY <2>3, <4>1, <4>3
      <4>5. QED
        BY <4>1, <4>2, <4>4
    <3>3. QED
      BY <3>1, <3>2
  <2>8. NoStaleEntry'
    BY <2>7 DEF NoStaleEntry
  <2>9. QED
    BY <2>4, <2>6, <2>8
<1>6. CASE CancelMissing
  <2> DEFINE missing == {r \in Requests : inFlight[r] # None /\ r \notin seen}
  <2>1. /\ pc["run"] = "pass" /\ UNCHANGED <<past, ctxDone>> /\ seen' = {}
        /\ worker' = CancelEntries(missing)
        /\ inFlight' = Dropped(missing)
    BY <1>6 DEF CancelMissing
  <2>2. \A w \in Workers :
          /\ worker'[w].at = worker[w].at /\ worker'[w].req = worker[w].req
          /\ worker[w].cancelled => worker'[w].cancelled
          /\ worker'[w].cancelled => worker[w].cancelled \/ \E r \in missing : inFlight[r] = w
          /\ (\E r \in missing : inFlight[r] = w) => worker'[w].cancelled
    <3>1. ASSUME NEW w \in Workers, \E r \in missing : inFlight[r] = w
          PROVE  worker'[w] = [worker[w] EXCEPT !.cancelled = TRUE]
      BY <2>1, <3>1 DEF CancelEntries
    <3>2. ASSUME NEW w \in Workers, ~(\E r \in missing : inFlight[r] = w)
          PROVE  worker'[w] = worker[w]
      BY <2>1, <3>2 DEF CancelEntries
    <3>3. \A w \in Workers : worker[w] \in WorkerStates
      BY <1>0
    <3>4. QED
      BY <3>1, <3>2, <3>3 DEF WorkerStates
  <2>3. \A r \in Requests : inFlight'[r] = IF r \in missing THEN None ELSE inFlight[r]
    BY <2>1 DEF Dropped
  <2>4. \A r \in missing : past[r] # "fresh"
    BY <1>0, <2>1 DEF ListingInv
  <2>5. \A w \in Workers : \A r \in missing : inFlight[r] = w => worker[w].req = r
    BY <1>0 DEF NoStaleEntry
  <2>6. ASSUME ~ctxDone, NEW w \in Workers, worker[w].at # "gone", worker'[w].cancelled
        PROVE  LET r == worker[w].req
               IN  /\ past[r] # "fresh"
                   /\ past[r] = "removed" => inFlight'[r] = None
    <3>1. worker[w].req \in Requests
      BY <1>0, <2>6
    <3>2. CASE worker[w].cancelled
      BY <1>0, <2>3, <2>6, <3>1, <3>2 DEF CancelledInv
    <3>3. CASE \E r \in missing : inFlight[r] = w
      BY <2>3, <2>4, <2>5, <3>1, <3>3
    <3>4. QED
      BY <2>2, <2>6, <3>2, <3>3
  <2>7. CancelledInv'
    BY <2>1, <2>2, <2>6 DEF CancelledInv
  <2>8. ASSUME NEW w \in Workers, worker'[w].at # "gone", ~ctxDone', ~worker'[w].cancelled,
               past'[worker'[w].req] # "relisted"
        PROVE  inFlight'[worker'[w].req] = w
    <3>1. worker'[w].req = worker[w].req /\ worker[w].req \in Requests /\ Working(w)
      BY <1>0, <2>1, <2>2, <2>8 DEF Working, Cancelled
    <3>2. inFlight[worker[w].req] = w
      BY <1>0, <2>1, <2>8, <3>1 DEF WorkingIsTracked, Relisted
    <3>3. worker[w].req \notin missing
      BY <2>2, <2>8, <3>2
    <3>4. QED
      BY <2>3, <3>1, <3>2, <3>3
  <2>9. WorkingIsTracked'
    BY <2>8 DEF WorkingIsTracked, Working, Cancelled, Relisted
  <2>10. ASSUME NEW r \in Requests, inFlight'[r] # None
         PROVE  /\ worker'[inFlight'[r]].at # "gone"
                /\ worker'[inFlight'[r]].req = r
                /\ ~worker'[inFlight'[r]].cancelled
    <3>1. inFlight'[r] = inFlight[r] /\ r \notin missing /\ inFlight[r] \in Workers
      BY <1>0, <2>3, <2>10
    <3>2. /\ worker[inFlight[r]].at # "gone" /\ worker[inFlight[r]].req = r
          /\ ~worker[inFlight[r]].cancelled
      BY <1>0, <2>10, <3>1 DEF NoStaleEntry
    <3>3. ~\E m \in missing : inFlight[m] = inFlight[r]
      BY <2>5, <3>1, <3>2
    <3>4. QED
      BY <2>2, <3>1, <3>2, <3>3
  <2>11. NoStaleEntry'
    BY <2>10 DEF NoStaleEntry
  <2>12. QED
    BY <2>7, <2>9, <2>11
<1>7. ASSUME NEW t \in Threads, StopAll(t) PROVE Good
  <2>1. ctxDone' /\ \A q \in Requests : inFlight'[q] = None
    BY <1>0, <1>7 DEF StopAll, Dropped, ListingInv, Threads
  <2>2. QED
    BY <2>1 DEF CancelledInv, WorkingIsTracked, Working, Cancelled, NoStaleEntry
<1>8. ASSUME NEW w \in Workers, RunRequest(w) PROVE Good
  <2> DEFINE r == worker[w].req
  <2>1. /\ UNCHANGED <<seen, ctxDone>> /\ \A q \in Requests : PastMove(q)
        /\ \A v \in Workers \ {w} : worker'[v] = worker[v]
        /\ worker[w].at # "gone" /\ r \in Requests
    BY <1>0, <1>8, RunFrame
  <2>2. CASE /\ worker'[w].at # "gone" /\ worker'[w].req = r
             /\ worker'[w].cancelled = worker[w].cancelled
             /\ inFlight' = inFlight
    <3>1. \A v \in Workers :
            /\ worker'[v].at = "gone" <=> worker[v].at = "gone"
            /\ worker'[v].req = worker[v].req /\ worker'[v].cancelled = worker[v].cancelled
      BY <2>1, <2>2
    <3>2. CancelledInv'
      BY <1>0, <2>1, <2>2, <3>1 DEF CancelledInv, PastMove
    <3>3. WorkingIsTracked'
      BY <1>0, <2>1, <2>2, <3>1 DEF WorkingIsTracked, Working, Cancelled, Relisted, PastMove
    <3>4. NoStaleEntry'
      BY <1>0, <2>2, <3>1 DEF NoStaleEntry
    <3>5. QED
      BY <3>2, <3>3, <3>4
  <2>3. CASE worker'[w] = Gone /\ inFlight' = Dropped({r})
    <3>1. /\ worker'[w].at = "gone" /\ inFlight'[r] = None
          /\ \A q \in Requests \ {r} : inFlight'[q] = inFlight[q]
      BY <2>1, <2>3 DEF Gone, Goroutine, Dropped
    <3>2. CancelledInv'
      BY <1>0, <2>1, <3>1 DEF CancelledInv, PastMove
    <3>3. ASSUME NEW v \in Workers, worker'[v].at # "gone", ~ctxDone', ~worker'[v].cancelled,
                 past'[worker'[v].req] # "relisted"
          PROVE  inFlight'[worker'[v].req] = v
      <4>1. v # w /\ worker'[v] = worker[v] /\ Working(v) /\ worker[v].req \in Requests
        BY <1>0, <2>1, <3>1, <3>3 DEF Working, Cancelled
      <4>2. ~Relisted(worker[v].req)
        BY <2>1, <3>3, <4>1 DEF Relisted, PastMove
      <4>3. inFlight[worker[v].req] = v
        BY <1>0, <4>1, <4>2 DEF WorkingIsTracked
      <4>4. worker[v].req # r
        <5>1. SUFFICES ASSUME worker[v].req = r PROVE FALSE
          OBVIOUS
        <5>2. ~Working(w)
          BY <1>0, <4>1, <4>2, <4>3, <5>1 DEF WorkingIsTracked
        <5>3. worker[w].cancelled /\ ~ctxDone
          BY <2>1, <4>1, <5>2 DEF Working, Cancelled
        <5>4. past[r] # "fresh" /\ (past[r] = "removed" => inFlight[r] = None)
          BY <1>0, <2>1, <5>3 DEF CancelledInv
        <5>5. QED
          BY <1>0, <2>1, <4>2, <4>3, <5>1, <5>4 DEF Relisted
      <4>5. QED
        BY <3>1, <4>1, <4>3, <4>4
    <3>4. WorkingIsTracked'
      BY <3>3 DEF WorkingIsTracked, Working, Cancelled, Relisted
    <3>5. NoStaleEntry'
      BY <1>0, <2>1, <3>1 DEF NoStaleEntry
    <3>6. QED
      BY <3>2, <3>4, <3>5
  <2>4. QED
    BY <1>0, <1>8, <2>2, <2>3, RunFrame
<1>9. CASE UNCHANGED vars
  BY <1>9, <1>a, <1>b DEF vars
<1>10. QED
  BY <1>1, <1>2, <1>3, <1>4, <1>5, <1>6, <1>7, <1>8, <1>9
     DEF Next, Reconciler, Pass, Terminated

LEMMA WStep == WInv /\ [Next]_vars => WInv'
BY TypeStep, ListingStep, WorkStep DEF WInv

\* A worker under a live context is the one its request's entry keeps.
THEOREM WorkingTracked == Spec => []WorkingIsTracked
<1>1. WInv => WorkingIsTracked
  BY DEF WInv
<1>2. QED
  BY <1>1, WorkInit, WStep, PTL DEF Spec

\* Two workers never work on one request under live contexts.
THEOREM OneWorkerEach == Spec => []OneWorker
<1>1. WInv => OneWorker
  BY DEF WInv, WorkingIsTracked, OneWorker
<1>2. QED
  BY <1>1, WorkInit, WStep, PTL DEF Spec

\* No entry outlives the worker that will delete it.
THEOREM NoEntryLeft == Spec => []NoStaleEntry
<1>1. WInv => NoStaleEntry
  BY DEF WInv
<1>2. QED
  BY <1>1, WorkInit, WStep, PTL DEF Spec

-----------------------------------------------------------------------------
\* Ready requests

ReadyInv == TInv /\ SaysReadyInv /\ ReadyIsStored

\* What is stored stays stored, and so what it warrants.
LEMMA StoredGrows ==
  ASSUME TInv, [Next]_vars, NEW r \in Requests, Warranted(stored[r], r)
  PROVE  Warranted(stored'[r], r)
<1>1. /\ stored \in [Requests -> 0..Bars] /\ Bars \in Nat
      /\ \A w \in Workers : worker[w].at # "gone" => worker[w].got \in 0..Bars
  BY HistoryRuntimeAssumption DEF TInv, TypeOK
<1>2. ASSUME NEW w \in Workers, BackfillPage(w) PROVE Warranted(stored'[r], r)
  <2>1. /\ worker[w].at = "backfill" /\ worker[w].got + 1 <= Bars
        /\ stored' = [stored EXCEPT ![worker[w].req] = AtLeast(@, worker[w].got + 1)]
    BY <1>2 DEF BackfillPage
  <2>2. worker[w].got + 1 \in 0..Bars
    BY <1>1, <2>1
  <2>3. AtLeast(stored[r], worker[w].got + 1) \in stored[r]..Bars
    BY <1>1, <2>2 DEF AtLeast
  <2>4. stored'[r] \in stored[r]..Bars
    BY <1>1, <2>1, <2>3
  <2>5. QED
    BY <1>1, <2>4 DEF Warranted
<1>3. CASE UNCHANGED stored
  BY <1>3
<1>4. QED
  BY <1>2, <1>3 DEF Next, Reconciler, Pass, RunRequest, ListingChanges, TickerFires,
     ListHistoricalRequests, ListFails, Refuse, LeaveInFlight, StartWorker, CancelMissing,
     StopCalled, RunSeesDone, StopAll, Verify, VerifyFails, BackfillFails, BackfillEnds,
     ReportCoverageSegments, ReportCoverageSegmentsFails, ReportHistorical,
     ReportHistoricalFails, Untrack, Terminated, vars

\* Who reports ready after a step either did before it, or has just verified.
LEMMA SaysReady ==
  ASSUME TInv, [Next]_vars, NEW v \in Workers,
         worker'[v].at = "report", worker'[v].says = "ready"
  PROVE  /\ worker'[v].req = worker[v].req
         /\ \/ worker[v].at = "report" /\ worker[v].says = "ready"
            \/ Verified(worker[v].req)
<1>1. worker \in [Workers -> WorkerStates]
  BY DEF TInv, WorkerOK
<1>2. CASE UNCHANGED worker
  BY <1>2
<1>3. ASSUME NEW r \in Requests, StartWorker(r)
      PROVE  worker'[v] = worker[v]
  BY <1>1, <1>3 DEF StartWorker, Goroutine
<1>4. ASSUME NEW S, worker' = CancelEntries(S)
      PROVE  /\ worker'[v].req = worker[v].req /\ worker'[v].at = worker[v].at
             /\ worker'[v].says = worker[v].says
  BY <1>1, <1>4 DEF CancelEntries, WorkerStates
<1>5. ASSUME NEW w \in Workers, RunRequest(w), w # v PROVE worker'[v] = worker[v]
  BY <1>5, RunFrame
<1>6. CASE RunRequest(v)
  <2>1. CASE Verify(v)
    <3>1. worker'[v].says = Verdict(v) /\ worker'[v].req = worker[v].req
      BY <1>1, <2>1 DEF Verify, Say, Goroutine
    <3>2. QED
      BY <3>1 DEF Verdict
  <2>2. CASE VerifyFails(v) \/ BackfillFails(v) \/ BackfillEnds(v)
             \/ ReportCoverageSegments(v) \/ ReportCoverageSegmentsFails(v)
    BY <1>1, <2>2 DEF VerifyFails, BackfillFails, BackfillEnds, ReportCoverageSegments,
       ReportCoverageSegmentsFails, Say, Enter, Goroutine
  <2>3. CASE BackfillPage(v) \/ ReportHistorical(v) \/ ReportHistoricalFails(v) \/ Untrack(v)
    BY <1>1, <2>3 DEF BackfillPage, ReportHistorical, ReportHistoricalFails, Untrack,
       AfterReport, Enter, Leave, Gone, Goroutine
  <2>4. QED
    BY <1>6, <2>1, <2>2, <2>3 DEF RunRequest
<1>7. QED
  BY <1>2, <1>3, <1>4, <1>5, <1>6 DEF Next, Reconciler, Pass, ListingChanges, TickerFires,
     ListHistoricalRequests, ListFails, Refuse, LeaveInFlight, CancelMissing,
     StopCalled, RunSeesDone, StopAll, Terminated, vars

\* A request that a step makes ready was reported ready by one of its workers.
LEMMA MadeReady ==
  ASSUME TInv, [Next]_vars, NEW r \in Requests, status'[r] = "ready"
  PROVE  \/ status[r] = "ready"
         \/ \E w \in Workers : /\ worker[w].at = "report" /\ worker[w].says = "ready"
                               /\ worker[w].req = r
<1>1. status \in [Requests -> Statuses \cup {"pending"}]
  BY DEF TInv, TypeOK
<1>2. CASE UNCHANGED status
  BY <1>2
<1>3. ASSUME NEW q \in Requests, Refuse(q) PROVE status'[r] = status[r]
  BY <1>1, <1>3 DEF Refuse, Applied
<1>4. ASSUME NEW w \in Workers, ReportHistorical(w)
      PROVE  \/ status'[r] = status[r]
             \/ worker[w].at = "report" /\ worker[w].says = "ready" /\ worker[w].req = r
  BY <1>1, <1>4 DEF ReportHistorical, Applied
<1>5. QED
  BY <1>2, <1>3, <1>4 DEF Next, Reconciler, Pass, RunRequest, ListingChanges, TickerFires,
     ListHistoricalRequests, ListFails, LeaveInFlight, StartWorker, CancelMissing,
     StopCalled, RunSeesDone, StopAll, Verify, VerifyFails, BackfillPage, BackfillFails,
     BackfillEnds, ReportCoverageSegments, ReportCoverageSegmentsFails,
     ReportHistoricalFails, Untrack, Terminated, vars

\* verifyWindowCoverage's count, rounded down: enough rows of a request's window.
LEMMA VerifiedWarrants ==
  ASSUME TInv, NEW r \in Requests, Verified(r)
  PROVE  Warranted(stored[r], r)
<1>1. stored[r] \in 0..Bars /\ Bars \in Nat
  BY HistoryRuntimeAssumption DEF TInv, TypeOK
<1>2. QED
  BY <1>1 DEF Verified, Expected, Warranted

\* A request that was reported ready has its window in the store, but for the last bar
\* of one that is not a whole number of bars, whichever worker reported it, however late.
THEOREM ReadyStored == Spec => []ReadyIsStored
<1>1. Init => ReadyInv
  BY TypeInit DEF Init, ReadyInv, SaysReadyInv, ReadyIsStored, Gone, Goroutine
<1>2. ASSUME ReadyInv, [Next]_vars PROVE ReadyInv'
  <2>1. TInv /\ TInv' /\ SaysReadyInv /\ ReadyIsStored
    BY <1>2, TypeStep DEF ReadyInv
  <2>2. \A w \in Workers : worker[w].at # "gone" => worker[w].req \in Requests
    BY <2>1, HistoryRuntimeAssumption DEF TInv, WorkerOK
  <2>3. SaysReadyInv'
    <3>1. ASSUME NEW v \in Workers, worker'[v].at = "report", worker'[v].says = "ready"
          PROVE  Warranted(stored'[worker'[v].req], worker'[v].req)
      <4>1. /\ worker'[v].req = worker[v].req
            /\ \/ worker[v].at = "report" /\ worker[v].says = "ready"
               \/ Verified(worker[v].req)
        BY <1>2, <2>1, <3>1, SaysReady
      <4>2. worker'[v].req \in Requests
        BY <2>1, <3>1, HistoryRuntimeAssumption DEF TInv, WorkerOK
      <4>3. Warranted(stored[worker[v].req], worker[v].req)
        BY <2>1, <4>1, <4>2, VerifiedWarrants DEF SaysReadyInv
      <4>4. QED
        BY <1>2, <2>1, <4>1, <4>2, <4>3, StoredGrows
    <3>2. QED
      BY <3>1 DEF SaysReadyInv
  <2>4. ReadyIsStored'
    <3>1. ASSUME NEW r \in Requests, status'[r] = "ready" PROVE Warranted(stored'[r], r)
      <4>1. Warranted(stored[r], r)
        BY <1>2, <2>1, <3>1, MadeReady DEF SaysReadyInv, ReadyIsStored, Warranted
      <4>2. QED
        BY <1>2, <2>1, <4>1, StoredGrows
    <3>2. QED
      BY <3>1 DEF ReadyIsStored, Warranted
  <2>5. QED
    BY <2>1, <2>3, <2>4 DEF ReadyInv
<1>3. ReadyInv => ReadyIsStored
  BY DEF ReadyInv
<1>4. QED
  BY <1>1, <1>2, <1>3, PTL DEF Spec

(***************************************************************************)
(*                              The backfill                               *)
(***************************************************************************)

-----------------------------------------------------------------------------
\* Time

LEMMA Scaled ==
  ASSUME NEW m \in Int, NEW n \in Int, NEW k \in Nat, m <= n
  PROVE  m * k <= n * k
<1>1. n - m \in Nat
  OBVIOUS
<1>2. (n - m) * k \in Nat
  BY <1>1
<1>3. n * k = m * k + (n - m) * k /\ m * k \in Int /\ n * k \in Int
  OBVIOUS
<1> QED
  BY <1>2, <1>3

LEMMA OpenTimes ==
  ASSUME NEW b \in Int, NEW c \in Int
  PROVE  /\ OpenTime(b) \in Int
         /\ OpenTime(b + 1) = OpenTime(b) + Step
         /\ b < c => OpenTime(b) + Step <= OpenTime(c)
         /\ OpenTime(b) < OpenTime(c) => b < c
<1>1. Step \in Int /\ Step > 0
  BY BackfillAssumption
<1>2. b * Step \in Int /\ c * Step \in Int /\ (b + 1) * Step = b * Step + Step
  BY <1>1
<1>3. ASSUME NEW m \in Int, NEW n \in Int, m < n PROVE m * Step + Step <= n * Step
  <2>1. n - m - 1 \in Nat
    BY <1>3
  <2>2. (n - m - 1) * Step \in Nat
    BY <1>1, <2>1
  <2>3. n * Step = m * Step + Step + (n - m - 1) * Step
    BY <1>1
  <2>4. m * Step \in Int /\ n * Step \in Int
    BY <1>1
  <2> QED
    BY <1>1, <2>2, <2>3, <2>4
<1>4. b < c => b * Step + Step <= c * Step
  BY <1>3
<1>5. b * Step < c * Step => b < c
  BY <1>1, <1>2, <1>3
<1> QED
  BY <1>2, <1>4, <1>5 DEF OpenTime

LEMMA YearsOfTimes ==
  ASSUME NEW t \in Nat
  PROVE  /\ YearOf(t) \in Nat
         /\ YearOf(t) * YearLen <= t /\ t < (YearOf(t) + 1) * YearLen
<1>1. YearLen \in Nat \ {0}
  BY BackfillAssumption
<1> DEFINE y == t \div YearLen
<1>2. y \in Nat /\ y * YearLen <= t
  BY <1>1
<1>3. t < y * YearLen + YearLen
  BY <1>1
<1>4. (y + 1) * YearLen = y * YearLen + YearLen
  BY <1>1, <1>2
<1> QED
  BY <1>2, <1>3, <1>4 DEF YearOf

\* Years do not go back.
LEMMA YearsGrow ==
  ASSUME NEW t \in Nat, NEW u \in Nat, t <= u
  PROVE  YearOf(t) <= YearOf(u)
<1>1. YearLen \in Nat \ {0}
  BY BackfillAssumption
<1>2. SUFFICES ASSUME YearOf(u) < YearOf(t) PROVE FALSE
  BY YearsOfTimes
<1>3. YearOf(u) + 1 <= YearOf(t) /\ YearOf(t) \in Nat /\ YearOf(u) + 1 \in Nat
  BY <1>2, YearsOfTimes
<1>4. (YearOf(u) + 1) * YearLen <= YearOf(t) * YearLen
  BY <1>1, <1>3, Scaled
<1> QED
  BY <1>1, <1>3, <1>4, YearsOfTimes

LEMMA HorizonIsNat ==
  /\ Horizon \in Nat /\ Horizon = YearLen * Years
  /\ Bar = 0..(Cardinality(Bar) - 1)
  /\ Cardinality(Bar) \in Nat
  /\ \A b \in Bar : OpenTime(b) + Step <= Horizon
<1>1. YearLen \in Nat \ {0} /\ Years \in Nat \ {0} /\ Step \in Nat \ {0}
  BY BackfillAssumption
<1>2. Horizon \in Nat
  BY <1>1 DEF Horizon
<1> DEFINE n == Horizon \div Step
<1>3. n \in Nat /\ n * Step <= Horizon
  BY <1>1, <1>2
<1>4. Bar = 0..(n - 1)
  BY DEF Bar
<1> HIDE DEF n
<1>5. Cardinality(Bar) = n
  BY <1>3, <1>4, FS_Interval
<1>6. ASSUME NEW b \in Bar PROVE OpenTime(b) + Step <= Horizon
  <2>1. b \in Int /\ n \in Int /\ b < n
    BY <1>3, <1>4
  <2>2. OpenTime(b) + Step <= OpenTime(n)
    BY <2>1, OpenTimes
  <2>3. OpenTime(b) \in Int
    BY <2>1, OpenTimes
  <2> QED
    BY <1>1, <1>2, <1>3, <2>2, <2>3 DEF OpenTime
<1> QED
  BY <1>2, <1>3, <1>4, <1>5, <1>6 DEF Horizon

-----------------------------------------------------------------------------
\* The years' parts of a window

\* They follow each other without a gap, from the window's start to its end.
LEMMA PartsOfWindow ==
  ASSUME NEW w \in Window, w.start < w.end
  PROVE  /\ Len(SplitByYear(w)) \in 1..Years
         /\ DOMAIN SplitByYear(w) = 1..Len(SplitByYear(w))
         /\ SplitByYear(w)[1].start = w.start
         /\ SplitByYear(w)[Len(SplitByYear(w))].end = w.end
         /\ \A i \in 1..Len(SplitByYear(w)) :
              LET p == SplitByYear(w)[i]
              IN  /\ p \in Window /\ p.start < p.end
                  /\ w.start <= p.start /\ p.end <= w.end
                  /\ i < Len(SplitByYear(w)) => SplitByYear(w)[i + 1].start = p.end
<1> DEFINE first == YearOf(w.start)
           last  == YearOf(w.end - 1)
           n     == last - first + 1
           from(i) == Greater(w.start, (first + i - 1) * YearLen)
           to(i)   == Lesser(w.end, (first + i) * YearLen)
<1>0. YearLen \in Nat \ {0} /\ Years \in Nat \ {0} /\ Horizon \in Nat /\ Horizon = YearLen * Years
  BY BackfillAssumption, HorizonIsNat
<1>1. /\ w.start \in Nat /\ w.end \in Nat /\ w.end - 1 \in Nat
      /\ w.start <= w.end - 1 /\ w.end <= Horizon
  BY <1>0 DEF Window
<1>2. /\ first \in Nat /\ first * YearLen <= w.start /\ w.start < (first + 1) * YearLen
      /\ last \in Nat /\ last * YearLen <= w.end - 1 /\ w.end - 1 < (last + 1) * YearLen
      /\ first <= last
  BY <1>1, YearsOfTimes, YearsGrow
<1>3. last < Years
  <2>1. SUFFICES ASSUME Years <= last PROVE FALSE
    BY <1>0, <1>2
  <2>2. Years * YearLen <= last * YearLen
    BY <1>0, <1>2, <2>1, Scaled
  <2> QED
    BY <1>0, <1>1, <1>2, <2>2
<1>4. n \in 1..Years
  BY <1>0, <1>2, <1>3
<1>5. SplitByYear(w) = [i \in 1..n |-> [start |-> from(i), end |-> to(i)]]
  <2>1. \A i \in 1..n : first + i - 1 + 1 = first + i
    BY <1>2, <1>4
  <2> QED
    BY <2>1 DEF SplitByYear
<1> HIDE DEF n, from, to
<1>6. /\ Len(SplitByYear(w)) = n /\ DOMAIN SplitByYear(w) = 1..n
      /\ \A i \in 1..n : SplitByYear(w)[i] = [start |-> from(i), end |-> to(i)]
  BY <1>4, <1>5
<1>7. from(1) = w.start
  <2>1. first + 1 - 1 = first /\ first * YearLen \in Int
    BY <1>0, <1>2
  <2> QED
    BY <1>1, <1>2, <2>1 DEF from, Greater
<1>8. to(n) = w.end
  <2>1. first + n = last + 1
    BY <1>2 DEF n
  <2>2. w.end <= (first + n) * YearLen /\ (first + n) * YearLen \in Int
    BY <1>0, <1>1, <1>2, <2>1
  <2> QED
    BY <1>1, <2>2 DEF to, Lesser
<1>9. ASSUME NEW i \in 1..n
      PROVE  /\ from(i) \in 0..Horizon /\ to(i) \in 0..Horizon /\ from(i) < to(i)
             /\ w.start <= from(i) /\ to(i) <= w.end
             /\ i < n => from(i + 1) = to(i)
  <2> DEFINE b == (first + i - 1) * YearLen
             e == (first + i) * YearLen
  <2>1. i \in Int /\ 1 <= i /\ i <= n /\ n = last - first + 1
    BY <1>4 DEF n
  <2>2. b \in Int /\ e \in Int /\ e = b + YearLen
    BY <1>0, <1>2, <2>1
  <2>3. b <= w.end - 1
    <3>1. b <= last * YearLen
      BY <1>0, <1>2, <2>1, Scaled
    <3> QED
      BY <1>0, <1>1, <1>2, <2>2, <3>1
  <2>4. w.start < e
    <3>1. (first + 1) * YearLen <= e
      BY <1>0, <1>2, <2>1, Scaled
    <3> QED
      BY <1>0, <1>1, <1>2, <2>2, <3>1
  <2>5. i < n => e <= w.end - 1
    <3>1. ASSUME i < n PROVE e <= last * YearLen
      BY <1>0, <1>2, <2>1, <3>1, Scaled
    <3> QED
      BY <1>0, <1>1, <1>2, <2>2, <3>1
  <2>6. from(i) = Greater(w.start, b) /\ to(i) = Lesser(w.end, e)
    BY DEF from, to
  <2>7. from(i + 1) = Greater(w.start, e)
    BY <1>2, <2>1 DEF from
  <2> HIDE DEF b, e
  <2> QED
    BY <1>0, <1>1, <2>2, <2>3, <2>4, <2>5, <2>6, <2>7 DEF Greater, Lesser
<1> QED
  BY <1>4, <1>6, <1>7, <1>8, <1>9 DEF Window

\* Years begin with a bar.
LEMMA YearsOfBars == \E k \in Nat : YearLen = k * Step
BY BackfillAssumption, SMT

\* Each part but the last ends with a year, hence with a bar.
LEMMA PartEndsWithBar ==
  ASSUME NEW w \in Window, w.start < w.end,
         NEW i \in 1..Len(SplitByYear(w)), i # Len(SplitByYear(w)),
         NEW b \in Bar, OpenTime(b) < SplitByYear(w)[i].end
  PROVE  OpenTime(b) + Step <= SplitByYear(w)[i].end
<1> DEFINE end == SplitByYear(w)[i].end
           y   == YearOf(w.start) + i
<1>1. /\ y \in Nat /\ end = y * YearLen
  <2>1. /\ i \in Nat /\ end \in Int /\ i \in DOMAIN SplitByYear(w) /\ end < w.end
    <3>1. i + 1 \in 1..Len(SplitByYear(w)) /\ i < Len(SplitByYear(w))
      BY PartsOfWindow
    <3> QED
      BY <3>1, PartsOfWindow DEF Window
  <2>2. w.start \in Nat /\ w.end \in Nat /\ YearOf(w.start) \in Nat
    BY YearsOfTimes, HorizonIsNat DEF Window
  <2>3. end = Lesser(w.end, (YearOf(w.start) + i - 1 + 1) * YearLen)
    BY <2>1 DEF SplitByYear
  <2>4. YearOf(w.start) + i - 1 + 1 = y /\ y \in Nat
    BY <2>1, <2>2
  <2>5. y * YearLen \in Int
    BY <2>4, BackfillAssumption
  <2> HIDE DEF end, y
  <2> QED
    BY <2>1, <2>2, <2>3, <2>4, <2>5 DEF Lesser
<1> HIDE DEF end, y
<1>2. PICK k \in Nat : YearLen = k * Step
  BY YearsOfBars
<1>3. y * k \in Int /\ end = (y * k) * Step
  BY <1>1, <1>2, BackfillAssumption
<1>4. end = OpenTime(y * k)
  BY <1>3 DEF OpenTime
<1>5. OpenTime(b) < OpenTime(y * k)
  BY <1>4 DEF end
<1>6. b \in Int
  BY HorizonIsNat
<1>7. OpenTime(b) + Step <= OpenTime(y * k)
  BY <1>3, <1>5, <1>6, OpenTimes
<1> QED
  BY <1>4, <1>7 DEF end

-----------------------------------------------------------------------------
\* Pages of rows

LEMMA LessIsWellFounded == IsWellFoundedOn({p \in Nat \X Nat : p[1] < p[2]}, Nat)
BY NatLessThanWellFounded DEF OpToRel

LEMMA SmallestOf ==
  ASSUME NEW T \in SUBSET Nat, T # {}
  PROVE  \E m \in T : \A n \in T : m <= n
<1> DEFINE less == {p \in Nat \X Nat : p[1] < p[2]}
<1>1. \A n, m \in Nat : n < m => <<n, m>> \in less
  OBVIOUS
<1>2. IsWellFoundedOn(less, Nat)
  BY LessIsWellFounded
<1> HIDE DEF less
<1>3. PICK m \in T : \A n \in T : <<n, m>> \notin less
  BY <1>2, WFMin
<1>4. \A n \in T : n \in Nat /\ m \in Nat /\ ~(n < m)
  BY <1>1, <1>3
<1> QED
  BY <1>4

LEMMA LargestOf ==
  ASSUME NEW T \in SUBSET Bar, T # {}
  PROVE  \E m \in T : \A n \in T : n <= m
<1>1. Cardinality(Bar) \in Nat /\ Bar = 0..(Cardinality(Bar) - 1)
  BY HorizonIsNat
<1> DEFINE top  == Cardinality(Bar) - 1
           Down == {top - b : b \in T}
<1>2. \A b \in T : b \in Nat /\ top - b \in Nat
  BY <1>1
<1>3. Down \in SUBSET Nat /\ Down # {}
  BY <1>2
<1>4. PICK d \in Down : \A e \in Down : d <= e
  BY <1>3, SmallestOf
<1>5. PICK m \in T : d = top - m
  BY <1>4
<1>6. \A n \in T : top - m <= top - n
  BY <1>4, <1>5
<1>7. ASSUME NEW n \in T PROVE n <= m
  <2>1. top \in Int /\ n \in Int /\ m \in Int /\ top - m <= top - n
    BY <1>1, <1>2, <1>6, <1>7
  <2> HIDE DEF top
  <2> QED
    BY <2>1
<1> QED
  BY <1>7

LEMMA MaxIsLast ==
  ASSUME NEW rows \in SUBSET Bar, rows # {}
  PROVE  Max(rows) \in rows /\ \A b \in rows : b <= Max(rows)
<1>1. \A a, b \in rows : a <= b <=> b >= a
  BY HorizonIsNat
<1> QED
  BY <1>1, LargestOf DEF Max

\* The exchange answers with the first of the rows, and with one at least.
LEMMA FirstOnes ==
  ASSUME NEW S \in SUBSET Bar, S # {}
  PROVE  /\ FirstOf(S) \subseteq S /\ FirstOf(S) # {}
         /\ \A b \in FirstOf(S), c \in S : c <= b => c \in FirstOf(S)
<1>1. Bar \subseteq Nat /\ IsFiniteSet(Bar) /\ Limit \in Nat /\ Limit > 0
  <2>1. Cardinality(Bar) - 1 \in Int /\ Bar = 0..(Cardinality(Bar) - 1)
    BY HorizonIsNat
  <2>2. IsFiniteSet(Bar)
    BY <2>1, FS_Interval
  <2> QED
    BY <2>1, <2>2, BackfillAssumption
<1>2. \A b \in S : IsFiniteSet({c \in S : c < b}) /\ Cardinality({c \in S : c < b}) \in Nat
  BY <1>1, FS_Subset, FS_CardinalityType
<1>3. FirstOf(S) # {}
  <2>1. PICK m \in S : \A n \in S : m <= n
    BY <1>1, SmallestOf
  <2>2. {c \in S : c < m} = {}
    <3>1. \A c \in S : c \in Nat /\ m \in Nat /\ m <= c
      BY <1>1, <2>1
    <3> QED
      BY <3>1
  <2>3. Cardinality({c \in S : c < m}) < Limit
    BY <1>1, <2>2, FS_EmptySet
  <2> QED
    BY <2>3 DEF FirstOf
<1>4. ASSUME NEW b \in FirstOf(S), NEW c \in S, c <= b PROVE c \in FirstOf(S)
  <2> DEFINE B == {d \in S : d < b}
             C == {d \in S : d < c}
  <2>1. b \in S /\ Cardinality(B) < Limit
    BY <1>4 DEF FirstOf
  <2>2. C \in SUBSET B
    <3>1. b \in Nat /\ c \in Nat /\ \A d \in S : d \in Nat
      BY <1>1, <1>4, <2>1
    <3>2. \A d \in S : d < c => d < b
      BY <1>4, <3>1
    <3> QED
      BY <3>2
  <2>3. IsFiniteSet(B) /\ Cardinality(B) \in Nat /\ Cardinality(C) \in Nat
    BY <1>2, <2>1
  <2> HIDE DEF B, C
  <2>4. Cardinality(C) <= Cardinality(B)
    BY <2>2, <2>3, FS_Subset
  <2>5. Cardinality(C) < Limit
    BY <1>1, <2>1, <2>3, <2>4
  <2> QED
    BY <2>5 DEF FirstOf, C
<1> QED
  BY <1>3, <1>4 DEF FirstOf

-----------------------------------------------------------------------------
\* Coverage segments

\* A segment is that of some bars, all of one year.
IsSegment(seg) ==
  \E f, l \in Bar : /\ f <= l /\ seg = SegmentOf(f, l)
                    /\ \A d \in f..l : SameYear(f, d)

Apart(a, b) ==
  a.start <= b.start => /\ a.end <= b.start
                        /\ a.end = b.start => a.year < b.year

InOrder(S) ==
  /\ \A a \in S : IsSegment(a)
  /\ \A a, b \in S : a # b => Apart(a, b)

BarsIn(S) == UNION {Covered(a) : a \in S}

LEMMA BarsAreNumbers ==
  /\ Bar \subseteq Nat
  /\ \A f, l \in Bar : f..l \subseteq Bar
  /\ \A b \in Bar : OpenTime(b) \in 0..Horizon /\ OpenTime(b) + Step \in 0..Horizon
<1>1. Cardinality(Bar) \in Nat /\ Bar = 0..(Cardinality(Bar) - 1)
  BY HorizonIsNat
<1>2. \A f, l \in Bar : f..l \subseteq Bar
  BY <1>1
<1>3. ASSUME NEW b \in Bar
      PROVE  OpenTime(b) \in 0..Horizon /\ OpenTime(b) + Step \in 0..Horizon
  <2>1. b \in Nat /\ Step \in Nat /\ Horizon \in Nat /\ OpenTime(b) + Step <= Horizon
    BY <1>1, HorizonIsNat, BackfillAssumption
  <2>2. OpenTime(b) \in Nat
    BY <2>1 DEF OpenTime
  <2> QED
    BY <2>1, <2>2
<1> QED
  BY <1>1, <1>2, <1>3

LEMMA CoveredBars ==
  ASSUME NEW f \in Bar, NEW l \in Bar, f <= l
  PROVE  /\ Covered(SegmentOf(f, l)) = f..l
         /\ Cardinality(f..l) = l - f + 1
<1>1. f \in Int /\ l \in Int /\ l + 1 \in Int /\ f..l \subseteq Bar
  BY BarsAreNumbers
<1>2. SegmentOf(f, l).start = OpenTime(f) /\ SegmentOf(f, l).end = OpenTime(l + 1)
  BY <1>1, OpenTimes DEF SegmentOf
<1>3. ASSUME NEW b \in Bar
      PROVE  /\ OpenTime(f) <= OpenTime(b) <=> f <= b
             /\ OpenTime(b) < OpenTime(l + 1) <=> b <= l
  <2>1. b \in Int
    BY BarsAreNumbers
  <2>2. /\ OpenTime(f) \in Int /\ OpenTime(b) \in Int /\ OpenTime(l + 1) \in Int
        /\ Step \in Int /\ Step > 0
    BY <1>1, <2>1, OpenTimes, BackfillAssumption
  <2>3. /\ b < f => OpenTime(b) + Step <= OpenTime(f)
        /\ OpenTime(b) < OpenTime(f) => b < f
    BY <1>1, <2>1, OpenTimes
  <2>4. /\ b < l + 1 => OpenTime(b) + Step <= OpenTime(l + 1)
        /\ OpenTime(b) < OpenTime(l + 1) => b < l + 1
    BY <1>1, <2>1, OpenTimes
  <2> QED
    BY <1>1, <2>1, <2>2, <2>3, <2>4
<1>4. Covered(SegmentOf(f, l)) = {b \in Bar : f <= b /\ b <= l}
  BY <1>2, <1>3 DEF Covered
<1>5. {b \in Bar : f <= b /\ b <= l} = f..l
  <2>1. \A b \in Bar : b \in Int
    BY BarsAreNumbers
  <2>2. \A b \in Bar : f <= b /\ b <= l <=> b \in f..l
    BY <1>1, <2>1
  <2> QED
    BY <1>1, <2>2
<1>6. Cardinality(f..l) = l - f + 1
  BY <1>1, FS_Interval
<1> QED
  BY <1>4, <1>5, <1>6

\* A segment has the type of the model, and counts and dates its bars right.
LEMMA SegmentsAreRight ==
  ASSUME NEW seg, IsSegment(seg)
  PROVE  /\ seg \in Segment /\ seg.start < seg.end
         /\ seg.count = Cardinality(Covered(seg))
         /\ \A b \in Covered(seg) : YearOf(OpenTime(b)) = seg.year
<1>1. PICK f \in Bar, l \in Bar : /\ f <= l /\ seg = SegmentOf(f, l)
                                  /\ \A d \in f..l : SameYear(f, d)
  BY DEF IsSegment
<1>2. /\ f \in Nat /\ l \in Nat
      /\ OpenTime(f) \in 0..Horizon /\ OpenTime(l) + Step \in 0..Horizon
  BY BarsAreNumbers
<1>3. /\ seg.start = OpenTime(f) /\ seg.end = OpenTime(l) + Step
      /\ seg.year = YearOf(OpenTime(f)) /\ seg.count = l - f + 1
      /\ seg = [start |-> seg.start, end |-> seg.end, year |-> seg.year, count |-> seg.count]
  BY <1>1 DEF SegmentOf
<1>4. Covered(seg) = f..l /\ Cardinality(f..l) = l - f + 1
  BY <1>1, CoveredBars
<1>5. \A b \in f..l : YearOf(OpenTime(b)) = seg.year
  BY <1>1, <1>3 DEF SameYear
<1>6. seg.year \in 0..(Years - 1)
  <2>1. /\ YearLen \in Nat \ {0} /\ Years \in Nat \ {0} /\ Step \in Nat \ {0}
        /\ Horizon = YearLen * Years
    BY BackfillAssumption, HorizonIsNat
  <2>2. OpenTime(f) \in Nat /\ OpenTime(f) + Step <= Horizon
    BY <1>2, HorizonIsNat
  <2>3. seg.year \in Nat /\ seg.year * YearLen <= OpenTime(f)
    BY <1>3, <2>2, YearsOfTimes
  <2>4. ASSUME Years <= seg.year PROVE FALSE
    <3>1. Years * YearLen <= seg.year * YearLen
      BY <2>1, <2>3, <2>4, Scaled
    <3>2. Years * YearLen = Horizon /\ seg.year * YearLen \in Int
      BY <2>1, <2>3
    <3> QED
      BY <2>1, <2>2, <2>3, <3>1, <3>2
  <2> QED
    BY <2>1, <2>3, <2>4
<1>7. seg.count \in 1..Cardinality(Bar)
  <2>1. Bar = 0..(Cardinality(Bar) - 1) /\ Cardinality(Bar) \in Nat
    BY HorizonIsNat
  <2> QED
    BY <1>1, <1>2, <1>3, <2>1
<1>8. seg.start < seg.end
  <2>1. OpenTime(f) + Step <= OpenTime(l + 1) /\ OpenTime(l + 1) = OpenTime(l) + Step
    BY <1>1, <1>2, OpenTimes
  <2> QED
    BY <1>2, <1>3, <2>1, BackfillAssumption
<1> QED
  BY <1>2, <1>3, <1>4, <1>5, <1>6, <1>7, <1>8 DEF Segment

\* Every row is in a run, and two runs of the same rows do not touch within a year.
LEMMA RowInRun ==
  ASSUME NEW rows \in SUBSET Bar, NEW b \in rows
  PROVE  \E r \in Runs(rows) : b \in r[1]..r[2]
<1> DEFINE Before == {f \in Bar : f <= b /\ \A d \in f..b : d \in rows /\ SameYear(d, b)}
           After  == {l \in Bar : b <= l /\ \A d \in b..l : d \in rows /\ SameYear(d, b)}
<1>0. /\ Bar \subseteq Nat /\ b \in Nat /\ b \in Bar
      /\ \A d \in b..b : d = b
  BY BarsAreNumbers
<1>1. SameYear(b, b)
  BY DEF SameYear
<1>2. b \in Before /\ b \in After
  BY <1>0, <1>1
<1>3. PICK f \in Before : \A n \in Before : f <= n
  <2>1. Before \in SUBSET Nat /\ Before # {}
    BY <1>0, <1>2
  <2> QED
    BY <2>1, SmallestOf
<1>4. PICK l \in After : \A n \in After : n <= l
  <2>1. After \in SUBSET Bar /\ After # {}
    BY <1>2
  <2> QED
    BY <2>1, LargestOf
<1>5. /\ f \in Nat /\ l \in Nat /\ f <= b /\ b <= l
      /\ \A d \in f..b : d \in rows /\ SameYear(d, b)
      /\ \A d \in b..l : d \in rows /\ SameYear(d, b)
  BY <1>0, <1>3, <1>4
<1>6. \A d \in f..l : d \in rows /\ SameYear(d, b)
  <2>1. \A d \in f..l : d \in f..b \/ d \in b..l
    BY <1>0, <1>5
  <2> QED
    BY <1>5, <2>1
<1>7. ASSUME f - 1 \in rows, SameYear(f - 1, f) PROVE FALSE
  <2>1. SameYear(f, b) /\ SameYear(f - 1, b)
    <3>1. f \in f..b
      BY <1>0, <1>5
    <3> QED
      BY <1>5, <1>7, <3>1 DEF SameYear
  <2>2. \A d \in (f - 1)..b : d = f - 1 \/ d \in f..b
    BY <1>0, <1>5
  <2>3. f - 1 \in Bar /\ f - 1 <= b
    BY <1>0, <1>5, <1>7
  <2>4. f - 1 \in Before
    BY <1>5, <1>7, <2>1, <2>2, <2>3
  <2>5. f <= f - 1
    BY <1>3, <2>4
  <2> QED
    BY <1>5, <2>5
<1>8. ASSUME l + 1 \in rows, SameYear(l, l + 1) PROVE FALSE
  <2>1. SameYear(l, b) /\ SameYear(l + 1, b)
    <3>1. l \in b..l
      BY <1>0, <1>5
    <3> QED
      BY <1>5, <1>8, <3>1 DEF SameYear
  <2>2. \A d \in b..(l + 1) : d = l + 1 \/ d \in b..l
    BY <1>0, <1>5
  <2>3. l + 1 \in Bar /\ b <= l + 1
    BY <1>0, <1>5, <1>8
  <2>4. l + 1 \in After
    BY <1>5, <1>8, <2>1, <2>2, <2>3
  <2>5. l + 1 <= l
    BY <1>4, <2>4
  <2> QED
    BY <1>5, <2>5
<1>9. f \in f..l /\ l \in f..l /\ b \in f..l /\ f <= l
  BY <1>0, <1>5
<1>10. f \in rows /\ l \in rows /\ \A d \in f..l : d \in rows /\ SameYear(f, d)
  BY <1>6, <1>9 DEF SameYear
<1>11. IsRun(rows, f, l)
  BY <1>7, <1>8, <1>9, <1>10 DEF IsRun
<1> HIDE DEF Before, After
<1>12. <<f, l>> \in Runs(rows)
  BY <1>10, <1>11 DEF Runs
<1> QED
  BY <1>9, <1>12

LEMMA RunsAreApart ==
  ASSUME NEW rows \in SUBSET Bar, NEW r \in Runs(rows), NEW q \in Runs(rows),
         r # q, r[1] <= q[1]
  PROVE  /\ r[2] < q[1]
         /\ r[2] + 1 = q[1] => ~SameYear(r[2], q[1])
<1>1. /\ r = <<r[1], r[2]>> /\ q = <<q[1], q[2]>>
      /\ IsRun(rows, r[1], r[2]) /\ IsRun(rows, q[1], q[2])
      /\ r[1] \in rows /\ r[2] \in rows /\ q[1] \in rows /\ q[2] \in rows
  BY DEF Runs
<1>2. /\ r[1] \in Int /\ r[2] \in Int /\ q[1] \in Int /\ q[2] \in Int
      /\ r[1] <= r[2] /\ q[1] <= q[2]
  BY <1>1, BarsAreNumbers DEF IsRun
<1>3. ASSUME q[1] <= r[2] PROVE FALSE
  <2>1. CASE r[1] < q[1]
    <3>1. q[1] - 1 \in r[1]..r[2] /\ q[1] \in r[1]..r[2]
      BY <1>2, <1>3, <2>1
    <3>2. q[1] - 1 \in rows /\ SameYear(q[1] - 1, q[1])
      BY <1>1, <3>1 DEF IsRun, SameYear
    <3> QED
      BY <1>1, <3>2 DEF IsRun
  <2>2. CASE r[1] = q[1] /\ r[2] < q[2]
    <3>1. r[2] \in q[1]..q[2] /\ r[2] + 1 \in q[1]..q[2]
      BY <1>2, <2>2
    <3>2. r[2] + 1 \in rows /\ SameYear(r[2], r[2] + 1)
      BY <1>1, <3>1 DEF IsRun, SameYear
    <3> QED
      BY <1>1, <3>2 DEF IsRun
  <2>3. CASE r[1] = q[1] /\ q[2] < r[2]
    <3>1. q[2] \in r[1]..r[2] /\ q[2] + 1 \in r[1]..r[2]
      BY <1>2, <2>3
    <3>2. q[2] + 1 \in rows /\ SameYear(q[2], q[2] + 1)
      BY <1>1, <3>1 DEF IsRun, SameYear
    <3> QED
      BY <1>1, <3>2 DEF IsRun
  <2>4. r[1] # q[1] \/ r[2] # q[2]
    BY <1>1
  <2> QED
    BY <1>2, <2>1, <2>2, <2>3, <2>4
<1>4. ASSUME r[2] + 1 = q[1], SameYear(r[2], q[1]) PROVE FALSE
  BY <1>1, <1>4 DEF IsRun
<1> QED
  BY <1>2, <1>3, <1>4

\* A segment that begins after another ended stays apart from it, unless they meet
\* within a year.
LEMMA LaterSegment ==
  ASSUME NEW f \in Bar, NEW l \in Bar, NEW g \in Bar, NEW m \in Bar,
         f <= l, l < g, g <= m, l + 1 = g => ~SameYear(f, g)
  PROVE  /\ Apart(SegmentOf(f, l), SegmentOf(g, m))
         /\ Apart(SegmentOf(g, m), SegmentOf(f, l))
<1>1. /\ f \in Int /\ l \in Int /\ g \in Int /\ l + 1 \in Int
      /\ OpenTime(f) \in Nat /\ OpenTime(g) \in Nat /\ Step \in Nat \ {0}
  BY BarsAreNumbers, BackfillAssumption
<1>2. OpenTime(f) < OpenTime(g)
  <2>1. OpenTime(f) + Step <= OpenTime(g)
    BY <1>1, OpenTimes
  <2> QED
    BY <1>1, <2>1
<1>3. OpenTime(l) + Step = OpenTime(l + 1) /\ OpenTime(l + 1) \in Int
  BY <1>1, OpenTimes
<1>4. OpenTime(l + 1) <= OpenTime(g) /\ (OpenTime(l + 1) = OpenTime(g) => l + 1 = g)
  <2>1. l + 1 = g \/ OpenTime(l + 1) + Step <= OpenTime(g)
    BY <1>1, OpenTimes
  <2> QED
    BY <1>1, <1>3, <2>1
<1>5. /\ YearOf(OpenTime(f)) \in Nat /\ YearOf(OpenTime(g)) \in Nat
      /\ YearOf(OpenTime(f)) <= YearOf(OpenTime(g))
  BY <1>1, <1>2, YearsOfTimes, YearsGrow
<1>6. l + 1 = g => YearOf(OpenTime(f)) < YearOf(OpenTime(g))
  BY <1>5 DEF SameYear
<1>7. /\ SegmentOf(f, l).start = OpenTime(f) /\ SegmentOf(g, m).start = OpenTime(g)
      /\ SegmentOf(f, l).end = OpenTime(l + 1)
      /\ SegmentOf(f, l).year = YearOf(OpenTime(f))
      /\ SegmentOf(g, m).year = YearOf(OpenTime(g))
  BY <1>3 DEF SegmentOf
<1> QED
  BY <1>1, <1>2, <1>3, <1>4, <1>6, <1>7 DEF Apart

\* The segments of some rows are theirs, and in order.
LEMMA SegmentsBuilt ==
  ASSUME NEW rows \in SUBSET Bar
  PROVE  /\ InOrder(BuildCoverageSegments(rows))
         /\ BarsIn(BuildCoverageSegments(rows)) = rows
<1> DEFINE S == BuildCoverageSegments(rows)
<1>1. ASSUME NEW r \in Runs(rows)
      PROVE  /\ r[1] \in Bar /\ r[2] \in Bar /\ r[1] <= r[2]
             /\ \A d \in r[1]..r[2] : d \in rows /\ SameYear(r[1], d)
             /\ r = <<r[1], r[2]>> /\ r[1] \in Int /\ r[2] \in Int
             /\ Covered(SegmentOf(r[1], r[2])) = r[1]..r[2]
  <2>1. /\ r[1] \in Bar /\ r[2] \in Bar /\ r = <<r[1], r[2]>>
        /\ IsRun(rows, r[1], r[2])
    BY DEF Runs
  <2>2. /\ r[1] <= r[2]
        /\ \A d \in r[1]..r[2] : d \in rows /\ SameYear(r[1], d)
    BY <2>1 DEF IsRun
  <2>3. r[1] \in Int /\ r[2] \in Int
    BY <2>1, BarsAreNumbers
  <2>4. Covered(SegmentOf(r[1], r[2])) = r[1]..r[2]
    BY <2>1, <2>2, CoveredBars
  <2> QED
    BY <2>1, <2>2, <2>3, <2>4
<1>2. \A a \in S : IsSegment(a)
  BY <1>1 DEF BuildCoverageSegments, IsSegment
<1>3. ASSUME NEW r \in Runs(rows), NEW q \in Runs(rows), r # q, r[1] <= q[1]
      PROVE  /\ Apart(SegmentOf(r[1], r[2]), SegmentOf(q[1], q[2]))
             /\ Apart(SegmentOf(q[1], q[2]), SegmentOf(r[1], r[2]))
  <2>1. r[2] < q[1] /\ (r[2] + 1 = q[1] => ~SameYear(r[2], q[1]))
    BY <1>3, RunsAreApart
  <2>2. SameYear(r[1], r[2])
    <3>1. r[2] \in r[1]..r[2]
      BY <1>1
    <3> QED
      BY <1>1, <3>1
  <2>3. r[2] + 1 = q[1] => ~SameYear(r[1], q[1])
    BY <2>1, <2>2 DEF SameYear
  <2>4. r[1] \in Bar /\ r[2] \in Bar /\ r[1] <= r[2] /\ q[1] \in Bar /\ q[2] \in Bar /\ q[1] <= q[2]
    BY <1>1
  <2> QED
    BY <2>1, <2>3, <2>4, LaterSegment
<1>4. ASSUME NEW a \in S, NEW b \in S, a # b PROVE Apart(a, b)
  <2>1. PICK r \in Runs(rows) : a = SegmentOf(r[1], r[2])
    BY DEF BuildCoverageSegments
  <2>2. PICK q \in Runs(rows) : b = SegmentOf(q[1], q[2])
    BY DEF BuildCoverageSegments
  <2>3. r # q
    BY <1>4, <2>1, <2>2
  <2>4. r[1] <= q[1] \/ q[1] <= r[1]
    BY <1>1
  <2> QED
    BY <1>3, <2>1, <2>2, <2>3, <2>4
<1>5. BarsIn(S) = rows
  <2>1. ASSUME NEW b \in BarsIn(S) PROVE b \in rows
    <3>1. PICK a \in S : b \in Covered(a)
      BY DEF BarsIn
    <3>2. PICK r \in Runs(rows) : a = SegmentOf(r[1], r[2])
      BY DEF BuildCoverageSegments
    <3> QED
      BY <1>1, <3>1, <3>2
  <2>2. ASSUME NEW b \in rows PROVE b \in BarsIn(S)
    <3>1. PICK r \in Runs(rows) : b \in r[1]..r[2]
      BY <2>2, RowInRun
    <3>2. SegmentOf(r[1], r[2]) \in S
      BY DEF BuildCoverageSegments
    <3>3. b \in Covered(SegmentOf(r[1], r[2]))
      BY <1>1, <3>1
    <3> QED
      BY <3>2, <3>3 DEF BarsIn
  <2> QED
    BY <2>1, <2>2
<1> HIDE DEF S
<1> QED
  BY <1>2, <1>4, <1>5 DEF InOrder, S

\* Segments that begin later are of no earlier year.
LEMMA SegmentYears ==
  ASSUME NEW a, NEW b, IsSegment(a), IsSegment(b), a.start <= b.start
  PROVE  a.year <= b.year
<1>1. PICK f \in Bar, l \in Bar : a = SegmentOf(f, l)
  BY DEF IsSegment
<1>2. PICK g \in Bar, m \in Bar : b = SegmentOf(g, m)
  BY DEF IsSegment
<1>3. OpenTime(f) \in Nat /\ OpenTime(g) \in Nat
  BY BarsAreNumbers
<1>4. /\ a.start = OpenTime(f) /\ a.year = YearOf(OpenTime(f))
      /\ b.start = OpenTime(g) /\ b.year = YearOf(OpenTime(g))
  BY <1>1, <1>2 DEF SegmentOf
<1> QED
  BY <1>3, <1>4, YearsGrow

\* Two segments that merge make the segment of the bars of both.
LEMMA MergedSegment ==
  ASSUME NEW a, NEW s, IsSegment(a), IsSegment(s), CanMerge(a, s)
  PROVE  /\ IsSegment(Merged(a, s))
         /\ Covered(Merged(a, s)) = Covered(a) \cup Covered(s)
         /\ Merged(a, s).start = a.start /\ Merged(a, s).end = s.end
         /\ Merged(a, s).year = a.year
<1>1. PICK f \in Bar, l \in Bar : /\ f <= l /\ a = SegmentOf(f, l)
                                  /\ \A d \in f..l : SameYear(f, d)
  BY DEF IsSegment
<1>2. PICK g \in Bar, m \in Bar : /\ g <= m /\ s = SegmentOf(g, m)
                                  /\ \A d \in g..m : SameYear(g, d)
  BY DEF IsSegment
<1>3. /\ f \in Int /\ l \in Int /\ g \in Int /\ m \in Int
      /\ OpenTime(l) \in Int /\ OpenTime(g) \in Int /\ Step \in Nat \ {0}
  BY BarsAreNumbers, BackfillAssumption
<1>4. OpenTime(l) + Step = OpenTime(g) /\ SameYear(f, g)
  BY <1>1, <1>2 DEF CanMerge, SegmentOf, SameYear
<1>5. g = l + 1
  <2>1. l < g
    BY <1>3, <1>4, OpenTimes
  <2>2. OpenTime(l + 1) = OpenTime(l) + Step /\ l + 1 \in Int
    BY <1>3, OpenTimes
  <2>3. ~(l + 1 < g)
    <3>1. l + 1 < g => OpenTime(l + 1) + Step <= OpenTime(g)
      BY <1>3, <2>2, OpenTimes
    <3> QED
      BY <1>3, <1>4, <2>2, <3>1
  <2> QED
    BY <1>3, <2>1, <2>3
<1>6. Merged(a, s) = SegmentOf(f, m)
  <2>1. /\ a.start = OpenTime(f) /\ a.year = YearOf(OpenTime(f)) /\ a.count = l - f + 1
        /\ s.end = OpenTime(m) + Step /\ s.count = m - g + 1
        /\ a = [start |-> a.start, end |-> a.end, year |-> a.year, count |-> a.count]
    BY <1>1, <1>2 DEF SegmentOf
  <2>2. a.count + s.count = m - f + 1
    BY <1>3, <1>5, <2>1
  <2>3. Merged(a, s) = [start |-> a.start, end |-> s.end, year |-> a.year,
                        count |-> a.count + s.count]
    <3> DEFINE b == [a EXCEPT !.end = s.end]
    <3>1. b = [start |-> a.start, end |-> s.end, year |-> a.year, count |-> a.count]
      BY <2>1
    <3>2. Merged(a, s) = [b EXCEPT !.count = @ + s.count]
      BY DEF Merged
    <3> HIDE DEF b
    <3> QED
      BY <3>1, <3>2
  <2> QED
    BY <2>1, <2>2, <2>3 DEF SegmentOf
<1>7. f <= m /\ \A d \in f..m : SameYear(f, d)
  <2>1. \A d \in f..m : d \in f..l \/ d \in g..m
    BY <1>3, <1>5
  <2>2. \A d \in g..m : SameYear(f, d)
    BY <1>2, <1>4 DEF SameYear
  <2> QED
    BY <1>1, <1>2, <1>3, <1>5, <2>1, <2>2
<1>8. IsSegment(Merged(a, s))
  BY <1>1, <1>2, <1>6, <1>7 DEF IsSegment
<1>9. Covered(Merged(a, s)) = Covered(a) \cup Covered(s)
  <2>1. Covered(a) = f..l /\ Covered(s) = g..m /\ Covered(Merged(a, s)) = f..m
    BY <1>1, <1>2, <1>6, <1>7, CoveredBars
  <2>2. f..m = (f..l) \cup (g..m)
    BY <1>1, <1>2, <1>3, <1>5
  <2> QED
    BY <2>1, <2>2
<1>10. /\ Merged(a, s).start = a.start /\ Merged(a, s).end = s.end
       /\ Merged(a, s).year = a.year
  BY <1>1, <1>2, <1>6 DEF SegmentOf
<1> QED
  BY <1>8, <1>9, <1>10

\* What appending one list of segments to another makes of them, when the second begins
\* where the first ends or later.
LEMMA SegmentsAppended ==
  ASSUME NEW dst, NEW src, InOrder(dst), InOrder(src),
         \A a \in dst, s \in src : a.end <= s.start
  PROVE  /\ InOrder(AppendCoverageSegments(dst, src))
         /\ BarsIn(AppendCoverageSegments(dst, src)) = BarsIn(dst) \cup BarsIn(src)
         /\ \A x \in AppendCoverageSegments(dst, src) :
              \E y \in dst \cup src : x.end = y.end
<1> DEFINE Old  == {a \in dst : \A s \in src : ~Merges(dst, a, s)}
           New  == {s \in src : \A a \in dst : ~Merges(dst, a, s)}
           Both == {Merged(p[1], p[2]) : p \in {q \in dst \X src : Merges(dst, q[1], q[2])}}
           R    == Old \cup New \cup Both
<1>0. AppendCoverageSegments(dst, src) = R
  BY DEF AppendCoverageSegments
<1>1. /\ \A a \in dst \cup src : /\ a.start \in Int /\ a.end \in Int /\ a.year \in Int
                                /\ a.start < a.end /\ IsSegment(a)
      /\ \A a, b \in dst : a # b => Apart(a, b)
      /\ \A a, b \in src : a # b => Apart(a, b)
  BY SegmentsAreRight, HorizonIsNat DEF InOrder, Segment
\* A segment that another meets is the last of dst.
<1>2. ASSUME NEW a \in dst, NEW s \in src, CanMerge(a, s) PROVE Merges(dst, a, s)
  <2>1. ASSUME NEW d \in dst, a.start < d.start PROVE FALSE
    <3>1. Apart(a, d)
      BY <1>1, <2>1
    <3>2. a.end <= d.start
      BY <1>1, <2>1, <3>1 DEF Apart
    <3> QED
      BY <1>1, <1>2, <3>2 DEF CanMerge
  <2>2. \A d \in dst : d.start <= a.start
    BY <1>1, <2>1
  <2> QED
    BY <1>2, <2>2 DEF Merges
\* Only one does.
<1>3. ASSUME NEW a \in dst, NEW s \in src, Merges(dst, a, s),
             NEW b \in dst, NEW t \in src, Merges(dst, b, t)
      PROVE  a = b /\ s = t
  <2>1. a.start = b.start /\ a.end = s.start /\ b.end = t.start
    BY <1>1, <1>3 DEF Merges, CanMerge
  <2>2. a = b
    <3>1. ASSUME a # b PROVE FALSE
      <4>1. Apart(a, b)
        BY <1>1, <3>1
      <4> QED
        BY <1>1, <2>1, <4>1 DEF Apart
    <3> QED
      BY <3>1
  <2>3. s = t
    <3>1. ASSUME s # t PROVE FALSE
      <4>1. Apart(s, t)
        BY <1>1, <3>1
      <4>2. s.start = t.start
        BY <2>1, <2>2
      <4> QED
        BY <1>1, <4>1, <4>2 DEF Apart
    <3> QED
      BY <3>1
  <2> QED
    BY <2>2, <2>3
<1>4. ASSUME NEW x \in Both
      PROVE  \E a \in dst, s \in src :
                /\ x = Merged(a, s) /\ Merges(dst, a, s)
                /\ IsSegment(x) /\ Covered(x) = Covered(a) \cup Covered(s)
                /\ x.start = a.start /\ x.end = s.end /\ x.year = a.year
                /\ a.year = s.year /\ a.end = s.start
                /\ \A d \in dst : d.start <= a.start
  <2>1. PICK a \in dst, s \in src : x = Merged(a, s) /\ Merges(dst, a, s)
    OBVIOUS
  <2>2. CanMerge(a, s) /\ \A d \in dst : d.start <= a.start
    BY <2>1 DEF Merges
  <2>3. /\ IsSegment(x) /\ Covered(x) = Covered(a) \cup Covered(s)
        /\ x.start = a.start /\ x.end = s.end /\ x.year = a.year
    BY <1>1, <2>1, <2>2, MergedSegment
  <2> QED
    BY <2>1, <2>2, <2>3 DEF CanMerge
<1>a. ASSUME NEW a \in dst, NEW s \in src, Merges(dst, a, s) PROVE Merged(a, s) \in Both
  <2>1. <<a, s>> \in {q \in dst \X src : Merges(dst, q[1], q[2])}
    BY <1>a
  <2> QED
    BY <2>1
<1>5. \A a \in dst : a \in Old \/ \E s \in src : Merges(dst, a, s) /\ Merged(a, s) \in Both
  BY <1>a
<1>6. \A s \in src : s \in New \/ \E a \in dst : Merges(dst, a, s) /\ Merged(a, s) \in Both
  BY <1>a
<1>7. /\ \A a \in Old : a \in dst /\ \A s \in src : ~Merges(dst, a, s)
      /\ \A s \in New : s \in src /\ \A a \in dst : ~Merges(dst, a, s)
  OBVIOUS
<1> HIDE DEF Old, New, Both
<1>8. \A x \in R : IsSegment(x)
  BY <1>1, <1>4, <1>7
<1>9. \A x \in R : \E y \in dst \cup src : x.end = y.end
  BY <1>4, <1>7
<1>10. BarsIn(R) = BarsIn(dst) \cup BarsIn(src)
  <2>1. ASSUME NEW b, NEW x \in R, b \in Covered(x) PROVE b \in BarsIn(dst) \cup BarsIn(src)
    BY <1>4, <1>7, <2>1 DEF BarsIn
  <2>2. ASSUME NEW b, NEW a \in dst, b \in Covered(a) PROVE b \in BarsIn(R)
    <3>1. CASE a \in Old
      BY <2>2, <3>1 DEF BarsIn
    <3>2. ASSUME NEW s \in src, Merges(dst, a, s), Merged(a, s) \in Both PROVE b \in BarsIn(R)
      <4>1. Covered(Merged(a, s)) = Covered(a) \cup Covered(s)
        BY <1>1, <3>2, MergedSegment DEF Merges
      <4> QED
        BY <2>2, <3>2, <4>1 DEF BarsIn
    <3> QED
      BY <1>5, <3>1, <3>2
  <2>3. ASSUME NEW b, NEW s \in src, b \in Covered(s) PROVE b \in BarsIn(R)
    <3>1. CASE s \in New
      BY <2>3, <3>1 DEF BarsIn
    <3>2. ASSUME NEW a \in dst, Merges(dst, a, s), Merged(a, s) \in Both PROVE b \in BarsIn(R)
      <4>1. Covered(Merged(a, s)) = Covered(a) \cup Covered(s)
        BY <1>1, <3>2, MergedSegment DEF Merges
      <4> QED
        BY <2>3, <3>2, <4>1 DEF BarsIn
    <3> QED
      BY <1>6, <3>1, <3>2
  <2> HIDE DEF R
  <2> QED
    BY <2>1, <2>2, <2>3 DEF BarsIn
<1>11. ASSUME NEW x \in Old, NEW y \in New PROVE Apart(x, y) /\ Apart(y, x)
  <2>1. x \in dst /\ y \in src /\ x.end <= y.start
    BY <1>7
  <2>2. ~CanMerge(x, y)
    BY <1>2, <1>7, <2>1
  <2>3. x.end = y.start => x.year < y.year
    <3>1. x.year <= y.year
      <4>1. x.start <= y.start
        BY <1>1, <2>1
      <4> QED
        BY <1>1, <2>1, <4>1, SegmentYears
    <3> QED
      BY <1>1, <2>1, <2>2, <3>1 DEF CanMerge
  <2> QED
    BY <1>1, <2>1, <2>3 DEF Apart
<1>12. ASSUME NEW x \in Old, NEW y \in Both PROVE Apart(x, y) /\ Apart(y, x)
  <2>1. PICK a \in dst, s \in src :
            /\ Merges(dst, a, s) /\ y.start = a.start /\ y.end = s.end /\ y.year = a.year
            /\ \A d \in dst : d.start <= a.start
    BY <1>4
  <2>2. x \in dst /\ x # a /\ x.start <= a.start
    BY <1>7, <2>1
  <2>3. Apart(x, a) /\ Apart(a, x)
    BY <1>1, <2>2
  <2>4. x.end <= a.start /\ (x.end = a.start => x.year < a.year)
    BY <2>2, <2>3 DEF Apart
  <2>5. x.start < y.start
    BY <1>1, <2>1, <2>2, <2>4
  <2>6. x.start \in Int /\ y.start \in Int
    BY <1>1, <2>1, <2>2
  <2> QED
    BY <2>1, <2>4, <2>5, <2>6 DEF Apart
<1>13. ASSUME NEW x \in Both, NEW y \in New PROVE Apart(x, y) /\ Apart(y, x)
  <2>1. PICK a \in dst, s \in src :
            /\ Merges(dst, a, s) /\ x.start = a.start /\ x.end = s.end /\ x.year = a.year
            /\ a.year = s.year /\ a.end = s.start
    BY <1>4
  <2>2. y \in src /\ y # s /\ a.end <= y.start
    BY <1>7, <2>1
  <2>3. Apart(s, y)
    BY <1>1, <2>2
  <2>4. s.end <= y.start /\ (s.end = y.start => s.year < y.year)
    BY <2>1, <2>2, <2>3 DEF Apart
  <2>5. x.start < y.start
    BY <1>1, <2>1, <2>2
  <2>6. x.start \in Int /\ y.start \in Int
    BY <1>1, <2>1, <2>2
  <2> QED
    BY <2>1, <2>4, <2>5, <2>6 DEF Apart
<1>14. ASSUME NEW x \in Both, NEW y \in Both PROVE x = y
  BY <1>3, <1>4
<1>15. ASSUME NEW x \in R, NEW y \in R, x # y PROVE Apart(x, y)
  BY <1>1, <1>7, <1>11, <1>12, <1>13, <1>14, <1>15
<1> HIDE DEF R
<1> QED
  BY <1>0, <1>8, <1>9, <1>10, <1>15 DEF InOrder

-----------------------------------------------------------------------------
\* The inductive invariant

\* Up to where the request has gone.
Reached == IF phase = "done" THEN window.end ELSE cur

PartInv ==
  /\ window.start < window.end
  /\ part \in 1..Len(Parts)
  /\ phase \in {"fetch", "insert"} => Parts[part].start <= cur /\ cur < Parts[part].end

\* The page in hand leaves out no bar that was closed when the request began.
PageInv ==
  /\ phase # "idle" => begun <= closed
  /\ phase = "insert" =>
       /\ page.rows # {} /\ page.rows \cap lacking = {} /\ begun <= page.asOf
       /\ \A b \in page.rows : cur <= OpenTime(b)
       /\ \A b \in Bar \ lacking :
            b < begun /\ cur <= OpenTime(b) /\ b <= Max(page.rows) => b \in page.rows
  /\ phase # "insert" => page = NoPage

SegmentInv ==
  /\ InOrder(built)
  /\ phase \in {"fetch", "insert"} => \A a \in built : a.end <= cur
  /\ \A b \in BarsIn(built) : store[b] # "absent" /\ b \in Within(window)

CompleteInv ==
  phase \in {"fetch", "insert", "done"} =>
    \A b \in Within(window) :
      b < begun /\ b \notin lacking /\ OpenTime(b) < Reached => b \in BarsIn(built)

BInv == BackfillTypeOK /\ PartInv /\ PageInv /\ SegmentInv /\ CompleteInv

\* Where the request goes from the end of a part.
LEMMA NextPartFrom ==
  ASSUME BackfillTypeOK, PartInv, NextPart, UNCHANGED window
  PROVE  /\ part' \in 1..Years /\ cur' \in 0..Horizon /\ phase' \in {"fetch", "done"}
         /\ PartInv'
         /\ phase' = "fetch" => part # Len(Parts) /\ cur' = Parts[part].end
         /\ phase' = "done" => part' = part /\ cur' = cur /\ Parts[part].end = window.end
<1>1. window \in Window /\ window.start < window.end /\ part \in 1..Len(Parts) /\ Len(Parts) \in 1..Years
  BY PartsOfWindow DEF BackfillTypeOK, PartInv, Parts
<1>2. Parts' = Parts
  BY DEF Parts
<1>3. CASE part < Len(Parts)
  <2>1. part' = part + 1 /\ cur' = Parts[part + 1].start /\ phase' = "fetch"
    BY <1>3 DEF NextPart
  <2>2. part' \in 1..Len(Parts) /\ part' \in 1..Years
    <3>1. part \in Int /\ Len(Parts) \in Int /\ Years \in Int
      BY <1>1, BackfillAssumption
    <3> QED
      BY <1>1, <1>3, <2>1, <3>1
  <2>3. Parts[part].end = Parts[part + 1].start
    BY <1>1, <1>3, PartsOfWindow DEF Parts
  <2>4. Parts[part'] \in Window /\ Parts[part'].start < Parts[part'].end
    BY <1>1, <2>2, PartsOfWindow DEF Parts
  <2>5. Parts[part'].start \in 0..Horizon
    BY <2>4 DEF Window
  <2>6. Parts[part'].start <= cur' /\ cur' < Parts[part'].end /\ cur' \in 0..Horizon
    BY <2>1, <2>4, <2>5, HorizonIsNat
  <2> QED
    BY <1>1, <1>2, <1>3, <2>1, <2>2, <2>3, <2>6 DEF PartInv
<1>4. CASE ~(part < Len(Parts))
  <2>1. part' = part /\ cur' = cur /\ phase' = "done"
    BY <1>4 DEF NextPart
  <2>2. part = Len(Parts)
    BY <1>1, <1>4
  <2>3. Parts[part].end = window.end
    BY <1>1, <2>2, PartsOfWindow DEF Parts
  <2> QED
    BY <1>1, <1>2, <2>1, <2>2, <2>3 DEF PartInv, BackfillTypeOK
<1> QED
  BY <1>3, <1>4

\* What an insert does to the rows.
LEMMA RowsInserted ==
  ASSUME store \in [Bar -> Row], NEW rows, NEW asOf
  PROVE  /\ Inserted(rows, asOf) \in [Bar -> Row]
         /\ \A b \in Bar : store[b] # "absent" => Inserted(rows, asOf)[b] # "absent"
         /\ \A b \in Bar : b \in rows => Inserted(rows, asOf)[b] # "absent"
BY DEF Inserted, Row

\* What the exchange may answer.
LEMMA RowsListed ==
  ASSUME BackfillTypeOK, PartInv, phase = "fetch", NEW S \in Listed(cur, Parts[part])
  PROVE  /\ S \in SUBSET Bar /\ S \cap lacking = {}
         /\ \A b \in S : cur <= OpenTime(b)
         /\ \A b \in Bar \ lacking :
              /\ b <= closed /\ cur <= OpenTime(b)
              /\ OpenTime(b) < Parts[part].end \/ \E c \in S : b <= c
              => b \in S
<1>1. PICK to \in {Parts[part].end - 1, Parts[part].end} :
        S = {b \in Bar \ lacking : b <= closed /\ cur <= OpenTime(b) /\ OpenTime(b) <= to}
  BY DEF Listed
<1>2. Parts[part].end \in Int /\ to \in Int
  <2>1. window \in Window /\ window.start < window.end /\ part \in 1..Len(Parts)
    BY DEF BackfillTypeOK, PartInv
  <2>2. Parts[part] \in Window
    BY <2>1, PartsOfWindow DEF Parts
  <2> QED
    BY <1>1, <2>2 DEF Window
<1>3. \A b \in Bar : b \in Int /\ OpenTime(b) \in Int
  BY BarsAreNumbers, OpenTimes
<1>4. ASSUME NEW b \in Bar, OpenTime(b) < Parts[part].end PROVE OpenTime(b) <= to
  BY <1>1, <1>2, <1>3, <1>4
<1>5. ASSUME NEW b \in Bar, NEW c \in S, b <= c PROVE OpenTime(b) <= to
  <2>1. c \in Bar /\ OpenTime(c) <= to
    BY <1>1
  <2>2. OpenTime(b) <= OpenTime(c)
    <3>1. b \in Int /\ c \in Int /\ OpenTime(b) \in Int /\ OpenTime(c) \in Int
      BY <1>3, <2>1
    <3>2. b = c \/ OpenTime(b) + Step <= OpenTime(c)
      BY <1>5, <3>1, OpenTimes
    <3> QED
      BY <3>1, <3>2, BackfillAssumption
  <2> QED
    BY <1>2, <1>3, <2>1, <2>2
<1>6. /\ S \in SUBSET Bar /\ S \cap lacking = {}
      /\ \A b \in S : cur <= OpenTime(b)
  BY <1>1
<1>7. ASSUME NEW b \in Bar \ lacking, b <= closed, cur <= OpenTime(b),
             OpenTime(b) < Parts[part].end \/ \E c \in S : b <= c
      PROVE  b \in S
  BY <1>1, <1>4, <1>5, <1>7
<1> QED
  BY <1>6, <1>7

LEMMA BackfillStarts == BackfillInit => BInv
<1> SUFFICES ASSUME BackfillInit PROVE BInv
  OBVIOUS
<1>1. /\ window \in Window /\ window.start < window.end /\ lacking \in SUBSET Bar
      /\ Cardinality(lacking) <= Faults /\ closed = 0 /\ phase = "idle" /\ part = 1 /\ cur = 0
      /\ page = NoPage /\ built = {} /\ begun = 0 /\ faults = Faults - Cardinality(lacking)
      /\ store = [b \in Bar |-> "absent"]
  BY DEF BackfillInit
<1>2. Cardinality(Bar) \in Nat /\ Horizon \in Nat /\ Faults \in Nat /\ Years \in Nat \ {0}
  BY HorizonIsNat, BackfillAssumption
<1>3. Cardinality(lacking) \in Nat
  <2>1. Bar = 0..(Cardinality(Bar) - 1)
    BY HorizonIsNat
  <2>2. IsFiniteSet(Bar)
    BY <1>2, <2>1, FS_Interval
  <2> QED
    BY <1>1, <2>2, FS_Subset, FS_CardinalityType
<1>4. BackfillTypeOK
  BY <1>1, <1>2, <1>3 DEF BackfillTypeOK, NoPage, Row
<1>5. PartInv
  <2>1. Len(Parts) \in 1..Years
    BY <1>1, PartsOfWindow DEF Parts
  <2> QED
    BY <1>1, <2>1 DEF PartInv
<1> QED
  BY <1>1, <1>4, <1>5 DEF BInv, PageInv, SegmentInv, CompleteInv, InOrder, BarsIn

\* A page is fetched, or the part is at its end.
LEMMA BackfillFetches ==
  ASSUME BInv, FetchKlines
  PROVE  BInv'
<1>0. /\ BackfillTypeOK /\ PartInv /\ PageInv /\ SegmentInv /\ CompleteInv /\ phase = "fetch"
      /\ UNCHANGED <<window, lacking, closed, store, built, begun, faults>>
  BY DEF BInv, FetchKlines
<1>1. PICK S \in Listed(cur, Parts[part]) :
        IF S = {} THEN NextPart /\ page' = NoPage
        ELSE /\ page' = [rows |-> FirstOf(S), asOf |-> closed]
             /\ phase' = "insert"
             /\ UNCHANGED <<part, cur>>
  BY DEF FetchKlines
<1>2. /\ S \in SUBSET Bar /\ S \cap lacking = {}
      /\ \A b \in S : cur <= OpenTime(b)
      /\ \A b \in Bar \ lacking :
           /\ b <= closed /\ cur <= OpenTime(b)
           /\ OpenTime(b) < Parts[part].end \/ \E c \in S : b <= c
           => b \in S
  BY <1>0, RowsListed
<1>3. /\ closed \in Nat /\ begun \in Nat /\ cur \in Nat /\ begun <= closed
      /\ \A b \in Bar : b \in Nat /\ OpenTime(b) \in Nat
      /\ closed \in 0..Cardinality(Bar)
  BY <1>0, BarsAreNumbers, HorizonIsNat DEF BackfillTypeOK, PageInv
<1>4. Parts' = Parts /\ Within(window)' = Within(window) /\ BarsIn(built)' = BarsIn(built)
      /\ InOrder(built)'
  BY <1>0 DEF Parts, Within, BarsIn, Covered, SegmentInv
<1>5. Within(window) \subseteq Bar
  BY DEF Within
<1>6. CASE S = {}
  <2>1. NextPart /\ page' = NoPage
    BY <1>1, <1>6
  <2>2. /\ part' \in 1..Years /\ cur' \in 0..Horizon /\ phase' \in {"fetch", "done"}
        /\ PartInv'
        /\ phase' = "fetch" => cur' = Parts[part].end
        /\ phase' = "done" => Parts[part].end = window.end
    BY <1>0, <2>1, NextPartFrom
  <2>3. Reached' = Parts[part].end /\ cur < Parts[part].end
    BY <1>0, <2>2 DEF Reached, PartInv
  <2>4. BackfillTypeOK'
    <3>1. NoPage \in [rows : SUBSET Bar, asOf : 0..Cardinality(Bar)]
      BY HorizonIsNat DEF NoPage
    <3>2. page' \in [rows : SUBSET Bar, asOf : 0..Cardinality(Bar)]
      BY <2>1, <3>1
    <3>3. phase' \in {"idle", "fetch", "insert", "done", "failed"}
      BY <2>2
    <3> QED
      BY <1>0, <2>2, <3>2, <3>3 DEF BackfillTypeOK
  <2>5. PageInv'
    BY <1>0, <2>1, <2>2 DEF PageInv
  <2>6. SegmentInv'
    <3>1. ASSUME NEW a \in built, phase' = "fetch" PROVE a.end <= cur'
      <4>1. a.end <= cur /\ a.end \in Int /\ cur \in Int /\ cur' \in Int
        BY <1>0, <1>3, <2>2, SegmentsAreRight, HorizonIsNat DEF SegmentInv, InOrder, Segment
      <4> QED
        BY <2>2, <2>3, <3>1, <4>1
    <3> QED
      BY <1>0, <1>4, <2>2, <3>1 DEF SegmentInv
  <2>7. CompleteInv'
    <3>1. ASSUME NEW b \in Within(window), b < begun, b \notin lacking,
                 OpenTime(b) < Parts[part].end
          PROVE  b \in BarsIn(built)
      <4>1. CASE OpenTime(b) < cur
        BY <1>0, <3>1, <4>1 DEF CompleteInv, Reached
      <4>2. CASE cur <= OpenTime(b)
        <5>1. b <= closed /\ b \in Bar
          BY <1>3, <1>5, <3>1
        <5> QED
          BY <1>2, <1>6, <3>1, <4>2, <5>1
      <4> QED
        BY <1>3, <1>5, <4>1, <4>2
    <3> QED
      BY <1>0, <1>4, <2>3, <3>1 DEF CompleteInv
  <2> QED
    BY <2>2, <2>4, <2>5, <2>6, <2>7 DEF BInv
<1>7. CASE S # {}
  <2>1. /\ page' = [rows |-> FirstOf(S), asOf |-> closed]
        /\ phase' = "insert" /\ part' = part /\ cur' = cur
    BY <1>1, <1>7
  <2>2. /\ FirstOf(S) \subseteq S /\ FirstOf(S) # {}
        /\ \A b \in FirstOf(S), c \in S : c <= b => c \in FirstOf(S)
    BY <1>2, <1>7, FirstOnes
  <2>3. BackfillTypeOK'
    BY <1>0, <1>2, <1>3, <2>1, <2>2 DEF BackfillTypeOK
  <2>4. PartInv'
    BY <1>0, <1>4, <2>1 DEF PartInv
  <2>5. PageInv'
    <3>1. page'.rows = FirstOf(S) /\ page'.asOf = closed
      BY <2>1
    <3>2. Max(FirstOf(S)) \in FirstOf(S)
      BY <1>2, <2>2, MaxIsLast
    <3>3. ASSUME NEW b \in Bar \ lacking, b < begun, cur <= OpenTime(b), b <= Max(FirstOf(S))
          PROVE  b \in FirstOf(S)
      <4>1. b <= closed /\ Max(FirstOf(S)) \in S
        BY <1>3, <2>2, <3>2, <3>3
      <4>2. b \in S
        BY <1>2, <3>3, <4>1
      <4> QED
        BY <2>2, <3>2, <3>3, <4>2
    <3>4. /\ \A b \in page'.rows : cur' <= OpenTime(b)
          /\ page'.rows # {} /\ page'.rows \cap lacking = {} /\ begun <= page'.asOf
      BY <1>2, <1>3, <2>1, <2>2, <3>1
    <3> QED
      BY <1>0, <2>1, <3>1, <3>3, <3>4 DEF PageInv
  <2>6. SegmentInv'
    BY <1>0, <1>4, <2>1 DEF SegmentInv
  <2>7. CompleteInv'
    BY <1>0, <1>4, <2>1 DEF CompleteInv, Reached
  <2> QED
    BY <2>3, <2>4, <2>5, <2>6, <2>7 DEF BInv
<1> QED
  BY <1>6, <1>7

\* The ends of a segment are those of bars it covers.
LEMMA SegmentEnds ==
  ASSUME NEW seg, IsSegment(seg)
  PROVE  \E f, l \in Covered(seg) : seg.start = OpenTime(f) /\ seg.end = OpenTime(l) + Step
<1>1. PICK f \in Bar, l \in Bar : f <= l /\ seg = SegmentOf(f, l)
  BY DEF IsSegment
<1>2. Covered(seg) = f..l
  BY <1>1, CoveredBars
<1>3. f \in f..l /\ l \in f..l
  BY <1>1, BarsAreNumbers
<1> QED
  BY <1>1, <1>2, <1>3 DEF SegmentOf

\* The page in hand is stored, and reported as far as it lies in the part.
LEMMA BackfillInserts ==
  ASSUME BInv, InsertKline
  PROVE  BInv'
<1> DEFINE rows == FilterKlinesForWindow(page.rows, Parts[part])
           S    == BuildCoverageSegments(rows)
           next == NextPage(page.rows)
           end  == Parts[part].end
<1>0. /\ BackfillTypeOK /\ PartInv /\ PageInv /\ SegmentInv /\ CompleteInv /\ phase = "insert"
      /\ UNCHANGED <<window, lacking, closed, begun, faults>>
      /\ store' = Inserted(rows, page.asOf) /\ built' = AppendCoverageSegments(built, S)
      /\ page' = NoPage
      /\ IF next < end THEN cur' = next /\ phase' = "fetch" /\ part' = part
         ELSE NextPart
  BY DEF BInv, InsertKline
<1>1. /\ page.rows \in SUBSET Bar /\ page.rows # {} /\ page.rows \cap lacking = {}
      /\ \A b \in page.rows : cur <= OpenTime(b)
      /\ \A b \in Bar \ lacking :
           b < begun /\ cur <= OpenTime(b) /\ b <= Max(page.rows) => b \in page.rows
      /\ begun \in Nat /\ cur \in Nat /\ begun <= closed
  BY <1>0, HorizonIsNat DEF BackfillTypeOK, PageInv
<1>2. /\ window \in Window /\ window.start < window.end
      /\ part \in 1..Len(Parts) /\ Len(Parts) \in 1..Years
      /\ Parts[part] \in Window /\ end \in 0..Horizon
      /\ window.start <= Parts[part].start /\ end <= window.end
      /\ Parts[part].start <= cur /\ cur < end
  <2>1. window \in Window /\ window.start < window.end /\ part \in 1..Len(Parts)
    BY <1>0 DEF BackfillTypeOK, PartInv
  <2>2. Parts[part].start <= cur /\ cur < end
    BY <1>0 DEF PartInv
  <2>3. /\ Len(Parts) \in 1..Years /\ Parts[part] \in Window
        /\ window.start <= Parts[part].start /\ end <= window.end
    BY <2>1, PartsOfWindow DEF Parts
  <2> QED
    BY <2>1, <2>2, <2>3 DEF Window
<1>3. \A b \in Bar : b \in Nat /\ OpenTime(b) \in Nat
  BY BarsAreNumbers, HorizonIsNat
<1>4. /\ rows \in SUBSET Bar /\ rows \subseteq page.rows
      /\ \A b \in page.rows : OpenTime(b) < end => b \in rows
      /\ \A b \in rows : OpenTime(b) < end
      /\ rows \subseteq Within(window)
  <2>1. \A b \in Bar : b \in rows <=> b \in page.rows /\ Parts[part].start <= OpenTime(b) /\ OpenTime(b) < end
    BY DEF FilterKlinesForWindow, Within
  <2>2. rows \subseteq page.rows
    BY DEF FilterKlinesForWindow
  <2>3. ASSUME NEW b \in page.rows, OpenTime(b) < end PROVE b \in rows
    <3>1. b \in Bar /\ cur <= OpenTime(b) /\ OpenTime(b) \in Nat /\ Parts[part].start \in Nat
      BY <1>1, <1>2, <1>3, <2>3, HorizonIsNat DEF Window
    <3> QED
      BY <1>1, <1>2, <2>1, <2>3, <3>1
  <2>4. ASSUME NEW b \in rows PROVE OpenTime(b) < end /\ b \in Within(window)
    <3>1. /\ b \in Bar /\ OpenTime(b) \in Nat
          /\ Parts[part].start <= OpenTime(b) /\ OpenTime(b) < end
      BY <1>1, <1>3, <2>1, <2>2, <2>4
    <3>2. /\ Parts[part].start \in Nat /\ end \in Nat /\ window.start \in Nat /\ window.end \in Nat
      BY <1>2, HorizonIsNat DEF Window
    <3>3. window.start <= OpenTime(b) /\ OpenTime(b) < window.end
      BY <1>2, <3>1, <3>2
    <3> QED
      BY <3>1, <3>3 DEF Within
  <2> QED
    BY <1>1, <2>2, <2>3, <2>4
<1> HIDE DEF rows
<1>5. InOrder(S) /\ BarsIn(S) = rows
  BY <1>4, SegmentsBuilt
<1> HIDE DEF S
<1>6. Max(page.rows) \in page.rows /\ \A b \in page.rows : b <= Max(page.rows)
  BY <1>1, MaxIsLast
<1>7. /\ next \in 0..Horizon /\ next = OpenTime(Max(page.rows)) + Step
      /\ \A b \in Bar : /\ b <= Max(page.rows) => OpenTime(b) + Step <= next
                        /\ OpenTime(b) < next => b <= Max(page.rows)
  <2>1. Max(page.rows) \in Bar /\ Max(page.rows) \in Int
    BY <1>1, <1>3, <1>6
  <2>2. next = OpenTime(Max(page.rows)) + Step
    BY DEF NextPage
  <2>3. next \in 0..Horizon /\ next = OpenTime(Max(page.rows) + 1) /\ Step \in Nat \ {0}
    BY <2>1, <2>2, BarsAreNumbers, OpenTimes, BackfillAssumption
  <2>4. ASSUME NEW b \in Bar
        PROVE  /\ b <= Max(page.rows) => OpenTime(b) + Step <= next
               /\ OpenTime(b) < next => b <= Max(page.rows)
    <3>1. b \in Int /\ OpenTime(b) \in Int /\ next \in Int
      BY <1>3, <2>3, HorizonIsNat
    <3>2. b < Max(page.rows) + 1 => OpenTime(b) + Step <= OpenTime(Max(page.rows) + 1)
      BY <2>1, <3>1, OpenTimes
    <3>3. OpenTime(b) < OpenTime(Max(page.rows) + 1) => b < Max(page.rows) + 1
      BY <2>1, <3>1, OpenTimes
    <3> QED
      BY <2>1, <2>3, <3>1, <3>2, <3>3
  <2> QED
    BY <2>2, <2>3, <2>4
<1> HIDE DEF next
\* The new segments begin where the page did, or later.
<1>8. \A a \in built, s \in S : a.end <= s.start
  <2>1. SUFFICES ASSUME NEW a \in built, NEW s \in S PROVE a.end <= s.start
    OBVIOUS
  <2>2. IsSegment(a) /\ IsSegment(s) /\ a.end <= cur
    BY <1>0, <1>5 DEF SegmentInv, InOrder
  <2>3. PICK f \in Covered(s) : s.start = OpenTime(f)
    BY <2>2, SegmentEnds
  <2>4. f \in rows
    BY <1>5, <2>3 DEF BarsIn
  <2>5. cur <= OpenTime(f) /\ OpenTime(f) \in Nat
    BY <1>1, <1>3, <1>4, <2>4
  <2>6. a.end \in Int
    BY <2>2, SegmentsAreRight, HorizonIsNat DEF Segment
  <2> QED
    BY <1>1, <2>2, <2>3, <2>5, <2>6
<1>9. /\ InOrder(built') /\ BarsIn(built') = BarsIn(built) \cup rows
      /\ \A x \in built' : \E y \in built \cup S : x.end = y.end
  BY <1>0, <1>5, <1>8, SegmentsAppended DEF SegmentInv
<1>10. BarsIn(built)' = BarsIn(built) \cup rows /\ InOrder(built)'
  BY <1>9 DEF BarsIn, Covered
<1>11. UNCHANGED window /\ Parts' = Parts /\ Within(window)' = Within(window)
  BY <1>0 DEF Parts, Within
\* The request goes on behind the page, but no further than the part's end.
<1>12. /\ part' \in 1..Years /\ cur' \in 0..Horizon /\ phase' \in {"fetch", "done"} /\ PartInv'
       /\ \A b \in Bar : OpenTime(b) < Reached' => OpenTime(b) < end /\ b <= Max(page.rows)
       /\ phase' = "fetch" => /\ cur <= cur'
                              /\ \A b \in rows : OpenTime(b) + Step <= cur'
  <2>1. next \in Nat /\ end \in Nat /\ cur < next /\ Step \in Nat \ {0}
    <3>1. cur <= OpenTime(Max(page.rows)) /\ OpenTime(Max(page.rows)) \in Nat
      BY <1>1, <1>3, <1>6
    <3> QED
      BY <1>1, <1>2, <1>7, <3>1, HorizonIsNat, BackfillAssumption
  <2>2. CASE next < end
    <3>1. cur' = next /\ phase' = "fetch" /\ part' = part
      BY <1>0, <2>2
    <3>2. PartInv'
      <4>1. Parts[part].start \in Nat /\ Parts[part].start <= next
        BY <1>1, <1>2, <2>1, HorizonIsNat DEF Window
      <4> QED
        BY <1>2, <1>11, <2>2, <3>1, <4>1 DEF PartInv
    <3>3. part' \in 1..Years
      BY <1>0, <3>1 DEF BackfillTypeOK
    <3>4. Reached' = next
      BY <3>1 DEF Reached
    <3>5. \A b \in Bar : OpenTime(b) < next => OpenTime(b) < end /\ b <= Max(page.rows)
      BY <1>3, <1>7, <2>1, <2>2
    <3>6. \A b \in rows : OpenTime(b) + Step <= next
      BY <1>4, <1>6, <1>7
    <3> QED
      BY <1>1, <1>7, <2>1, <3>1, <3>2, <3>3, <3>4, <3>5, <3>6
  <2>3. CASE ~(next < end)
    <3>1. NextPart
      BY <1>0, <2>3
    <3>2. /\ part' \in 1..Years /\ cur' \in 0..Horizon /\ phase' \in {"fetch", "done"} /\ PartInv'
          /\ phase' = "fetch" => part # Len(Parts) /\ cur' = end
          /\ phase' = "done" => end = window.end
      BY <1>0, <1>11, <3>1, NextPartFrom
    <3>3. Reached' = end
      BY <1>11, <3>2 DEF Reached
    <3>4. \A b \in Bar : OpenTime(b) < end => b <= Max(page.rows)
      BY <1>3, <1>7, <2>1, <2>3
    <3>5. ASSUME part # Len(Parts), NEW b \in rows PROVE OpenTime(b) + Step <= end
      <4>1. b \in Bar /\ OpenTime(b) < end
        BY <1>4
      <4> QED
        BY <1>2, <3>5, <4>1, PartEndsWithBar DEF Parts
    <3>6. cur <= end
      BY <1>1, <1>2, <2>1
    <3> QED
      BY <3>2, <3>3, <3>4, <3>5, <3>6
  <2> QED
    BY <2>2, <2>3
<1>13. BackfillTypeOK'
  <2>1. store' \in [Bar -> Row]
    BY <1>0, RowsInserted DEF BackfillTypeOK
  <2>2. page' \in [rows : SUBSET Bar, asOf : 0..Cardinality(Bar)]
    BY <1>0, HorizonIsNat DEF NoPage
  <2>3. built' \in SUBSET Segment
    BY <1>9, SegmentsAreRight DEF InOrder
  <2>4. phase' \in {"idle", "fetch", "insert", "done", "failed"}
    BY <1>12
  <2> QED
    BY <1>0, <1>12, <2>1, <2>2, <2>3, <2>4 DEF BackfillTypeOK
<1>14. PageInv'
  BY <1>0, <1>12 DEF PageInv
<1>15. SegmentInv'
  <2>1. ASSUME NEW x \in built', phase' = "fetch" PROVE x.end <= cur'
    <3>1. PICK y \in built \cup S : x.end = y.end
      BY <1>9
    <3>2. CASE y \in built
      <4>1. y.end <= cur /\ y.end \in Int
        BY <1>0, <3>2, SegmentsAreRight, HorizonIsNat DEF SegmentInv, InOrder, Segment
      <4>2. cur <= cur' /\ cur' \in Nat
        BY <1>12, <2>1, HorizonIsNat
      <4> QED
        BY <1>1, <3>1, <4>1, <4>2
    <3>3. CASE y \in S
      <4>1. PICK l \in Covered(y) : y.end = OpenTime(l) + Step
        BY <1>5, <3>3, SegmentEnds DEF InOrder
      <4>2. l \in rows
        BY <1>5, <3>3, <4>1 DEF BarsIn
      <4> QED
        BY <1>12, <2>1, <3>1, <4>1, <4>2
    <3> QED
      BY <3>1, <3>2, <3>3
  <2>2. ASSUME NEW b \in BarsIn(built)' PROVE store'[b] # "absent" /\ b \in Within(window)'
    <3>1. CASE b \in BarsIn(built)
      <4>1. store[b] # "absent" /\ b \in Within(window) /\ b \in Bar
        BY <1>0, <3>1 DEF SegmentInv, Within
      <4> QED
        BY <1>0, <1>11, <4>1, RowsInserted DEF BackfillTypeOK
    <3>2. CASE b \in rows
      <4>1. b \in Bar /\ b \in Within(window)
        BY <1>4, <3>2
      <4> QED
        BY <1>0, <1>11, <3>2, <4>1, RowsInserted DEF BackfillTypeOK
    <3> QED
      BY <1>10, <2>2, <3>1, <3>2
  <2> QED
    BY <1>10, <1>12, <2>1, <2>2 DEF SegmentInv
<1>16. CompleteInv'
  <2>1. ASSUME NEW b \in Within(window), b < begun, b \notin lacking, OpenTime(b) < Reached'
        PROVE  b \in BarsIn(built) \cup rows
    <3>1. b \in Bar /\ OpenTime(b) < end /\ b <= Max(page.rows) /\ OpenTime(b) \in Nat
      BY <1>3, <1>12, <2>1 DEF Within
    <3>2. CASE OpenTime(b) < cur
      BY <1>0, <2>1, <3>2 DEF CompleteInv, Reached
    <3>3. CASE cur <= OpenTime(b)
      BY <1>1, <1>4, <2>1, <3>1, <3>3
    <3> QED
      BY <1>1, <3>1, <3>2, <3>3
  <2> QED
    BY <1>0, <1>10, <1>11, <2>1 DEF CompleteInv
<1> QED
  BY <1>12, <1>13, <1>14, <1>15, <1>16 DEF BInv

LEMMA BackfillStep == BInv /\ [BackfillNext]_backfillVars => BInv'
<1> SUFFICES ASSUME BInv, [BackfillNext]_backfillVars PROVE BInv'
  OBVIOUS
<1>0. BackfillTypeOK /\ PartInv /\ PageInv /\ SegmentInv /\ CompleteInv
  BY DEF BInv
<1>a. /\ Cardinality(Bar) \in Nat /\ Horizon \in Nat /\ closed \in 0..Cardinality(Bar)
      /\ begun \in Nat
  BY <1>0, HorizonIsNat DEF BackfillTypeOK
\* No segment is built: nothing is claimed of any.
<1>b. ASSUME built' = {} PROVE InOrder(built)' /\ BarsIn(built)' = {} /\ built' \in SUBSET Segment
  BY <1>b DEF InOrder, BarsIn
\* Rows are inserted, and the request stays where it is.
<1>c. ASSUME UNCHANGED <<window, lacking, phase, part, cur, page, built, begun>>,
             closed' \in 0..Cardinality(Bar), closed <= closed', faults' \in 0..Faults,
             store' \in [Bar -> Row],
             \A b \in Bar : store[b] # "absent" => store'[b] # "absent"
      PROVE  BInv'
  <2>1. BackfillTypeOK'
    BY <1>0, <1>c DEF BackfillTypeOK
  <2>2. PartInv'
    BY <1>0, <1>c DEF PartInv, Parts
  <2>3. PageInv'
    <3>1. phase # "idle" => begun <= closed'
      <4>1. closed \in Int /\ closed' \in Int
        BY <1>a, <1>c
      <4> QED
        BY <1>0, <1>a, <1>c, <4>1 DEF PageInv
    <3> QED
      BY <1>0, <1>c, <3>1 DEF PageInv
  <2>4. BarsIn(built)' = BarsIn(built) /\ Within(window)' = Within(window) /\ InOrder(built)'
    BY <1>0, <1>c DEF BarsIn, Covered, Within, SegmentInv
  <2>5. SegmentInv'
    <3>1. Within(window) \subseteq Bar
      BY DEF Within
    <3> QED
      BY <1>0, <1>c, <2>4, <3>1 DEF SegmentInv
  <2>6. CompleteInv'
    BY <1>0, <1>c, <2>4 DEF CompleteInv, Reached
  <2> QED
    BY <2>1, <2>2, <2>3, <2>5, <2>6 DEF BInv
<1>1. CASE BarCloses
  <2>1. /\ UNCHANGED <<window, lacking, store, phase, part, cur, page, built, begun, faults>>
        /\ closed' = closed + 1 /\ closed < Cardinality(Bar)
    BY <1>1 DEF BarCloses
  <2>2. closed' \in 0..Cardinality(Bar) /\ closed <= closed'
    BY <1>a, <2>1
  <2> QED
    BY <1>0, <1>c, <2>1, <2>2 DEF BackfillTypeOK
<1>2. CASE LiveInsert
  <2>1. /\ UNCHANGED <<window, lacking, closed, phase, part, cur, page, built, begun, faults>>
        /\ store' = Inserted({closed - 1}, closed)
    BY <1>2 DEF LiveInsert
  <2>2. /\ store' \in [Bar -> Row]
        /\ \A b \in Bar : store[b] # "absent" => store'[b] # "absent"
    BY <1>0, <2>1, RowsInserted DEF BackfillTypeOK
  <2>3. closed' \in 0..Cardinality(Bar) /\ closed <= closed'
    BY <1>a, <2>1
  <2> QED
    BY <1>0, <1>c, <2>1, <2>2, <2>3 DEF BackfillTypeOK
<1>3. CASE Begin
  <2>1. /\ phase' = "fetch" /\ part' = 1 /\ cur' = Parts[1].start /\ page' = NoPage
        /\ built' = {} /\ begun' = closed
        /\ UNCHANGED <<window, lacking, closed, store, faults>>
    BY <1>3 DEF Begin
  <2>2. /\ window \in Window /\ window.start < window.end /\ Parts' = Parts
        /\ Within(window)' = Within(window)
    BY <1>0, <2>1 DEF BackfillTypeOK, PartInv, Parts, Within
  <2>3. /\ Len(Parts) \in 1..Years /\ 1 \in 1..Len(Parts) /\ 1 \in 1..Years
        /\ Parts[1] \in Window /\ Parts[1].start < Parts[1].end
        /\ Parts[1].start = window.start
    <3>1. Len(Parts) \in 1..Years
      BY <2>2, PartsOfWindow DEF Parts
    <3>2. 1 \in 1..Len(Parts) /\ 1 \in 1..Years
      BY <3>1, BackfillAssumption
    <3> QED
      BY <2>2, <3>1, <3>2, PartsOfWindow DEF Parts
  <2>4. cur' = window.start /\ cur' \in 0..Horizon
    BY <2>1, <2>2, <2>3 DEF Window
  <2>5. BackfillTypeOK'
    <3>1. page' \in [rows : SUBSET Bar, asOf : 0..Cardinality(Bar)]
      BY <1>a, <2>1 DEF NoPage
    <3>2. part' \in 1..Years /\ begun' \in 0..Cardinality(Bar)
      BY <1>a, <2>1, <2>3
    <3> QED
      BY <1>0, <1>b, <2>1, <2>4, <3>1, <3>2 DEF BackfillTypeOK
  <2>6. PartInv'
    <3>1. cur' <= cur'
      BY <1>a, <2>4
    <3> QED
      BY <2>1, <2>2, <2>3, <3>1 DEF PartInv
  <2>7. PageInv'
    BY <1>a, <2>1 DEF PageInv
  <2>8. SegmentInv'
    BY <1>b, <2>1 DEF SegmentInv
  <2>9. CompleteInv'
    <3>1. ASSUME NEW b \in Within(window) PROVE ~(OpenTime(b) < window.start)
      <4>1. b \in Bar /\ window.start <= OpenTime(b)
        BY DEF Within
      <4>2. OpenTime(b) \in Int /\ window.start \in Int
        BY <1>a, <2>2, <4>1, BarsAreNumbers DEF Window
      <4> QED
        BY <4>1, <4>2
    <3>2. Reached' = window.start
      BY <2>1, <2>4 DEF Reached
    <3> QED
      BY <2>2, <3>1, <3>2 DEF CompleteInv
  <2> QED
    BY <2>5, <2>6, <2>7, <2>8, <2>9 DEF BInv
<1>4. CASE FetchKlines
  BY <1>4, BackfillFetches
<1>5. CASE InsertKline
  BY <1>5, BackfillInserts
<1>6. CASE Fails
  <2>1. PICK rows : store' = Inserted(rows, page.asOf)
    BY <1>6 DEF Fails
  <2>2. /\ faults > 0 /\ faults' = faults - 1
        /\ phase' = "failed" /\ page' = NoPage /\ built' = {} /\ phase \in {"fetch", "insert"}
        /\ UNCHANGED <<window, lacking, closed, part, cur, begun>>
    BY <1>6 DEF Fails
  <2>3. BackfillTypeOK'
    <3>1. store' \in [Bar -> Row]
      BY <1>0, <2>1, RowsInserted DEF BackfillTypeOK
    <3>2. page' \in [rows : SUBSET Bar, asOf : 0..Cardinality(Bar)]
      BY <1>a, <2>2 DEF NoPage
    <3>3. faults' \in 0..Faults
      BY <1>0, <2>2, BackfillAssumption DEF BackfillTypeOK
    <3> QED
      BY <1>0, <1>b, <2>2, <3>1, <3>2, <3>3 DEF BackfillTypeOK
  <2>4. PartInv' /\ PageInv' /\ CompleteInv'
    BY <1>0, <2>2 DEF PartInv, PageInv, CompleteInv, Parts
  <2>5. SegmentInv'
    BY <1>b, <2>2 DEF SegmentInv
  <2> QED
    BY <2>3, <2>4, <2>5 DEF BInv
<1>7. CASE Retry
  <2>1. /\ phase = "failed" /\ phase' = "idle"
        /\ UNCHANGED <<window, lacking, closed, store, part, cur, page, built, begun, faults>>
    BY <1>7 DEF Retry
  <2>2. BackfillTypeOK'
    BY <1>0, <2>1 DEF BackfillTypeOK
  <2>3. PartInv' /\ PageInv' /\ CompleteInv'
    BY <1>0, <2>1 DEF PartInv, PageInv, CompleteInv, Parts
  <2>4. SegmentInv'
    BY <1>0, <2>1 DEF SegmentInv, InOrder, BarsIn, Covered, Within
  <2> QED
    BY <2>2, <2>3, <2>4 DEF BInv
<1>8. CASE UNCHANGED backfillVars
  <2>1. /\ UNCHANGED <<window, lacking, closed, store, phase, part, cur, page, built, begun, faults>>
    BY <1>8 DEF backfillVars
  <2>2. closed' \in 0..Cardinality(Bar) /\ closed <= closed'
    BY <1>a, <2>1
  <2> QED
    BY <1>0, <1>c, <2>1, <2>2 DEF BackfillTypeOK
<1>9. CASE HastyInsert
  <2>1. /\ UNCHANGED <<window, lacking, closed, phase, part, cur, page, built, begun>>
        /\ faults > 0 /\ faults' = faults - 1
        /\ store' = [store EXCEPT ![closed - 1] = "hasty"]
    BY <1>9 DEF HastyInsert
  <2>2. /\ store' \in [Bar -> Row]
        /\ \A b \in Bar : store[b] # "absent" => store'[b] # "absent"
    BY <1>0, <2>1 DEF BackfillTypeOK, Row
  <2>3. closed' \in 0..Cardinality(Bar) /\ closed <= closed' /\ faults' \in 0..Faults
    BY <1>0, <1>a, <2>1, BackfillAssumption DEF BackfillTypeOK
  <2> QED
    BY <1>c, <2>1, <2>2, <2>3
<1> QED
  BY <1>1, <1>2, <1>3, <1>4, <1>5, <1>6, <1>7, <1>8, <1>9 DEF BackfillNext, Quiet

LEMMA BackfillInvariant == BackfillSpec => []BInv
<1>1. BackfillInit => BInv
  BY BackfillStarts
<1>2. BInv /\ [BackfillNext]_backfillVars => BInv'
  BY BackfillStep
<1> QED
  BY <1>1, <1>2, PTL DEF BackfillSpec

-----------------------------------------------------------------------------
\* Counting the bars of a window

LEMMA WholeNumber ==
  ASSUME NEW t \in Nat, NEW k \in Nat \ {0}, t % k = 0
  PROVE  \E q \in Nat : t = q * k
BY SMT

LEMMA BarsExpected ==
  ASSUME NEW w \in Window, w.start < w.end
  PROVE  /\ ExpectedBarCount(w) \in Nat
         /\ w.end - w.start < (ExpectedBarCount(w) + 1) * Step
         /\ Aligned(w) => w.end - w.start = ExpectedBarCount(w) * Step
<1>1. Step \in Nat \ {0} /\ w.start \in Nat /\ w.end \in Nat /\ w.end - w.start \in Nat
  BY BackfillAssumption, HorizonIsNat DEF Window
<1> DEFINE d == w.end - w.start
           n == d \div Step
<1>2. n \in Nat /\ n * Step <= d
  BY <1>1
<1>3. d < n * Step + Step
  BY <1>1
<1>4. (n + 1) * Step = n * Step + Step
  BY <1>1, <1>2
<1>5. ExpectedBarCount(w) = n
  BY DEF ExpectedBarCount
<1>6. ASSUME Aligned(w) PROVE d = n * Step
  <2>1. PICK s \in Nat : w.start = s * Step
    <3>1. w.start % Step = 0
      BY <1>6 DEF Aligned
    <3> QED
      BY <1>1, <3>1, WholeNumber
  <2>2. PICK e \in Nat : w.end = e * Step
    <3>1. w.end % Step = 0
      BY <1>6 DEF Aligned
    <3> QED
      BY <1>1, <3>1, WholeNumber
  <2>3. e - s \in Int /\ d = (e - s) * Step
    BY <1>1, <2>1, <2>2
  <2> HIDE DEF d, n
  <2>4. OpenTime(e - s) = d /\ OpenTime(n) = n * Step /\ OpenTime(n + 1) = n * Step + Step
    BY <1>2, <1>4, <2>3 DEF OpenTime
  <2>5. e - s < n + 1
    BY <1>2, <1>3, <2>3, <2>4, OpenTimes
  <2>6. ~(e - s < n)
    <3>1. e - s < n => OpenTime(e - s) + Step <= OpenTime(n)
      BY <1>2, <2>3, OpenTimes
    <3>2. d \in Int /\ n * Step \in Int
      BY <1>1, <1>2, <2>3
    <3> QED
      BY <1>1, <1>2, <2>4, <3>1, <3>2
  <2>7. e - s = n
    BY <1>2, <2>3, <2>5, <2>6
  <2> QED
    BY <2>3, <2>7
<1> HIDE DEF n
<1> QED
  BY <1>2, <1>3, <1>4, <1>5, <1>6

\* A window holds the bars expected of it; of one that is not whole, perhaps one more.
LEMMA BarsOfWindow ==
  ASSUME NEW w \in Window, w.start < w.end
  PROVE  /\ IsFiniteSet(Within(w)) /\ Cardinality(Within(w)) \in Nat
         /\ Cardinality(Within(w)) <= ExpectedBarCount(w) + (IF Aligned(w) THEN 0 ELSE 1)
<1> DEFINE n == ExpectedBarCount(w)
           k == IF Aligned(w) THEN n ELSE n + 1
<1>1. /\ n \in Nat /\ k \in Nat /\ w.end - w.start <= OpenTime(k)
      /\ w.start \in Nat /\ w.end \in Nat /\ OpenTime(k) \in Int
      /\ k = n + (IF Aligned(w) THEN 0 ELSE 1)
  <2>1. n \in Nat /\ k \in Nat
    BY BarsExpected
  <2>2. w.start \in Nat /\ w.end \in Nat
    BY HorizonIsNat DEF Window
  <2>3. OpenTime(k) \in Int
    BY <2>1, OpenTimes
  <2>4. w.end - w.start <= OpenTime(k)
    <3>1. CASE Aligned(w)
      BY <2>2, <3>1, BarsExpected DEF OpenTime
    <3>2. CASE ~Aligned(w)
      <4>1. w.end - w.start < OpenTime(k)
        BY <3>2, BarsExpected DEF OpenTime
      <4> QED
        BY <2>2, <2>3, <4>1
    <3> QED
      BY <3>1, <3>2
  <2> QED
    BY <2>1, <2>2, <2>3, <2>4
<1> HIDE DEF n, k
<1>2. Within(w) \in SUBSET Nat
  BY BarsAreNumbers DEF Within
<1>3. CASE Within(w) = {}
  BY <1>1, <1>3, FS_EmptySet DEF n
<1>4. CASE Within(w) # {}
  <2>1. PICK m \in Within(w) : \A b \in Within(w) : m <= b
    BY <1>2, <1>4, SmallestOf
  <2>2. ASSUME NEW b \in Within(w) PROVE b \in m..(m + k - 1)
    <3>1. /\ m \in Nat /\ b \in Nat /\ m <= b /\ b - m \in Int
          /\ w.start <= OpenTime(m) /\ OpenTime(b) < w.end
      BY <1>2, <2>1 DEF Within
    <3>2. /\ OpenTime(m) \in Int /\ OpenTime(b) \in Int
          /\ OpenTime(b - m) = OpenTime(b) - OpenTime(m)
      BY <3>1, BackfillAssumption DEF OpenTime
    <3>3. OpenTime(b - m) < OpenTime(k)
      BY <1>1, <3>1, <3>2
    <3>4. b - m < k
      <4> DEFINE j == b - m
      <4>1. j \in Int /\ OpenTime(j) < OpenTime(k)
        BY <3>1, <3>3
      <4> HIDE DEF j
      <4>2. j < k
        BY <1>1, <4>1, OpenTimes
      <4> QED
        BY <4>2 DEF j
    <3> QED
      BY <1>1, <3>1, <3>4
  <2>3. m \in Int /\ m + k - 1 \in Int /\ (m > m + k - 1 <=> k = 0) /\ (m + k - 1) - m + 1 = k
    BY <1>1, <1>2, <2>1
  <2>4. IsFiniteSet(m..(m + k - 1)) /\ Cardinality(m..(m + k - 1)) <= k
    <3> DEFINE e == m + k - 1
    <3>1. m \in Int /\ e \in Int /\ (m > e <=> k = 0) /\ e - m + 1 = k
      BY <2>3
    <3> HIDE DEF e
    <3>2. IsFiniteSet(m..e) /\ Cardinality(m..e) = IF m > e THEN 0 ELSE e - m + 1
      BY <3>1, FS_Interval
    <3>3. Cardinality(m..e) <= k
      BY <1>1, <3>1, <3>2
    <3> QED
      BY <3>2, <3>3 DEF e
  <2>5. IsFiniteSet(Within(w)) /\ Cardinality(Within(w)) <= Cardinality(m..(m + k - 1))
    BY <2>2, <2>4, FS_Subset
  <2>6. Cardinality(Within(w)) \in Nat /\ Cardinality(m..(m + k - 1)) \in Nat
    BY <2>4, <2>5, FS_CardinalityType
  <2> QED
    BY <1>1, <2>4, <2>5, <2>6 DEF n
<1> QED
  BY <1>3, <1>4

-----------------------------------------------------------------------------
\* Theorems

\* Every variable keeps to its type; a segment's year lies in the window's years.
THEOREM BackfillTypes == BackfillSpec => []BackfillTypeOK
<1>1. BInv => BackfillTypeOK
  BY DEF BInv
<1> QED
  BY <1>1, BackfillInvariant, PTL

\* RunKlineRequest: the coverage segments claim stored bars of the window only, count
\* them right, stay within a year, and are maximal.
THEOREM SegmentsTrue == BackfillSpec => []SegmentsAreTrue
<1>1. BInv => SegmentsAreTrue
  <2>1. SUFFICES ASSUME BInv, NEW seg \in built
        PROVE  /\ \A b \in Covered(seg) : store[b] # "absent"
               /\ Covered(seg) \subseteq Within(window)
               /\ seg.count = Cardinality(Covered(seg))
               /\ \A b \in Covered(seg) : YearOf(OpenTime(b)) = seg.year
               /\ \A other \in built \ {seg} : seg.start <= other.start =>
                    /\ seg.end <= other.start
                    /\ seg.end = other.start => seg.year < other.year
    BY DEF SegmentsAreTrue
  <2>2. /\ InOrder(built)
        /\ \A b \in BarsIn(built) : store[b] # "absent" /\ b \in Within(window)
    BY <2>1 DEF BInv, SegmentInv
  <2>3. Covered(seg) \subseteq BarsIn(built)
    BY DEF BarsIn
  <2>4. /\ seg.count = Cardinality(Covered(seg))
        /\ \A b \in Covered(seg) : YearOf(OpenTime(b)) = seg.year
    BY <2>2, SegmentsAreRight DEF InOrder
  <2>5. ASSUME NEW other \in built \ {seg}, seg.start <= other.start
        PROVE  /\ seg.end <= other.start
               /\ seg.end = other.start => seg.year < other.year
    BY <2>2, <2>5 DEF InOrder, Apart
  <2> QED
    BY <2>2, <2>3, <2>4, <2>5
<1> QED
  BY <1>1, BackfillInvariant, PTL

\* RunKlineRequest: a request that ends well has reported every bar of its window that
\* the exchange had closed when it began, across pages, parts and years.
THEOREM BackfillComplete == BackfillSpec => []BackfillIsComplete
<1>1. BInv => BackfillIsComplete
  <2>1. SUFFICES ASSUME BInv, phase = "done", NEW b \in Within(window), b < begun, b \notin lacking
        PROVE  \E seg \in built : b \in Covered(seg)
    BY DEF BackfillIsComplete
  <2>2. OpenTime(b) < Reached
    BY <2>1 DEF Within, Reached
  <2>3. b \in BarsIn(built)
    BY <2>1, <2>2 DEF BInv, CompleteInv
  <2> QED
    BY <2>3 DEF BarsIn
<1> QED
  BY <1>1, BackfillInvariant, PTL

\* VerifyKlineCoverage: ready means that every bar of the window is stored, but for one in
\* a part that is not a whole number of bars.
THEOREM ReadyCounted == BackfillSpec => []ReadyMeansStored
<1>1. BInv => ReadyMeansStored
  <2>1. SUFFICES ASSUME BInv, VerifyKlineCoverage(window), NEW i \in DOMAIN Parts
                 PROVE  Cardinality(Within(Parts[i]) \ Stored(Parts[i]))
                          <= IF Aligned(Parts[i]) THEN 0 ELSE 1
    BY DEF ReadyMeansStored
  <2> DEFINE p == Parts[i]
             B == Within(p)
             R == Stored(p)
             k == IF Aligned(p) THEN 0 ELSE 1
  <2>2. p \in Window /\ p.start < p.end
    <3>1. window \in Window /\ window.start < window.end
      BY <2>1 DEF BInv, BackfillTypeOK, PartInv
    <3> QED
      BY <2>1, <3>1, PartsOfWindow DEF Parts
  <2>3. Cardinality(R) >= ExpectedBarCount(p)
    BY <2>1 DEF VerifyKlineCoverage, Parts
  <2>4. R \in SUBSET B
    BY DEF Stored
  <2> HIDE DEF p
  <2>5. /\ IsFiniteSet(B) /\ Cardinality(B) \in Nat /\ ExpectedBarCount(p) \in Nat
        /\ Cardinality(B) <= ExpectedBarCount(p) + k
    BY <2>2, BarsOfWindow, BarsExpected
  <2> HIDE DEF B, R
  <2>6. Cardinality(B \ R) = Cardinality(B) - Cardinality(R) /\ Cardinality(R) \in Nat
    <3>1. B \cap R = R
      BY <2>4
    <3>2. Cardinality(B \ R) = Cardinality(B) - Cardinality(B \cap R)
      BY <2>5, FS_Difference
    <3>3. IsFiniteSet(R)
      BY <2>4, <2>5, FS_Subset
    <3>4. Cardinality(R) \in Nat
      BY <3>3, FS_CardinalityType
    <3> QED
      BY <3>1, <3>2, <3>4
  <2>7. k \in Nat
    OBVIOUS
  <2> HIDE DEF k
  <2>8. Cardinality(B \ R) <= k
    BY <2>3, <2>5, <2>6, <2>7
  <2> QED
    BY <2>8 DEF B, R, k, p
<1> QED
  BY <1>1, BackfillInvariant, PTL

\* An attempt on a window that is past stores no partial row, whatever page, year, retry
\* or failed insert it comes from.
THEOREM PastStaysFinal == BackfillSpec => PastWindowStaysFinal
<1> DEFINE Kept == phase # "idle" /\ window.end <= begun * Step =>
                     \A b \in Bar : store'[b] = "partial" => store[b] = "partial"
<1>1. BInv /\ [BackfillNext]_backfillVars => [Kept]_backfillVars
  <2>1. SUFFICES ASSUME BInv, BackfillNext, phase # "idle", window.end <= begun * Step,
                        NEW b \in Bar, store'[b] = "partial", store[b] # "partial"
                 PROVE  FALSE
    BY DEF Kept
  <2>2. /\ BackfillTypeOK /\ PartInv /\ PageInv /\ b \in Nat
    BY <2>1, BarsAreNumbers DEF BInv
  <2>3. store' # store
    BY <2>1
  <2>4. ASSUME NEW rows, NEW asOf, store' = Inserted(rows, asOf) PROVE b \in rows /\ ~(b < asOf)
    BY <2>1, <2>2, <2>4 DEF Inserted, BackfillTypeOK
  <2>5. CASE LiveInsert
    <3>1. b \in {closed - 1} /\ ~(b < closed)
      BY <2>4, <2>5 DEF LiveInsert
    <3>2. closed \in Int
      BY <2>2, HorizonIsNat DEF BackfillTypeOK
    <3> QED
      BY <3>1, <3>2
  <2>6. ASSUME phase \in {"fetch", "insert"},
               NEW rows \in SUBSET FilterKlinesForWindow(page.rows, Parts[part]),
               store' = Inserted(rows, page.asOf)
        PROVE  FALSE
    <3>1. b \in page.rows /\ OpenTime(b) < Parts[part].end /\ ~(b < page.asOf)
      BY <2>4, <2>6 DEF FilterKlinesForWindow, Within
    <3>2. phase = "insert"
      BY <2>2, <3>1 DEF PageInv, NoPage
    <3>3. begun <= page.asOf /\ begun \in Nat /\ page.asOf \in Int
      BY <2>2, <3>2, HorizonIsNat DEF PageInv, BackfillTypeOK
    <3>4. /\ Parts[part].end <= window.end /\ Parts[part].end \in Int /\ window.end \in Int
      <4>1. window \in Window /\ window.start < window.end /\ part \in 1..Len(Parts)
        BY <2>2 DEF BackfillTypeOK, PartInv
      <4>2. Parts[part].end <= window.end /\ Parts[part] \in Window
        BY <4>1, PartsOfWindow DEF Parts
      <4> QED
        BY <4>1, <4>2, HorizonIsNat DEF Window
    <3>5. OpenTime(b) < OpenTime(begun)
      <4>1. OpenTime(begun) = begun * Step /\ OpenTime(begun) \in Int /\ OpenTime(b) \in Int
        BY <2>2, <3>3, OpenTimes DEF OpenTime
      <4> QED
        BY <2>1, <3>1, <3>4, <4>1
    <3>6. b < begun
      BY <2>2, <3>3, <3>5, OpenTimes
    <3> QED
      BY <2>2, <3>1, <3>3, <3>6
  <2>7. CASE InsertKline
    BY <2>6, <2>7 DEF InsertKline
  <2>8. CASE Fails
    BY <2>6, <2>8 DEF Fails
  <2>9. ASSUME BarCloses \/ Begin \/ FetchKlines \/ Retry \/ Quiet PROVE FALSE
    BY <2>3, <2>9 DEF BarCloses, Begin, FetchKlines, Retry, Quiet, backfillVars
  <2>10. CASE HastyInsert
    BY <2>1, <2>2, <2>10 DEF HastyInsert, BackfillTypeOK
  <2> QED
    BY <2>1, <2>5, <2>7, <2>8, <2>9, <2>10 DEF BackfillNext
<1>2. BackfillSpec => [][Kept]_backfillVars
  BY <1>1, BackfillInvariant, PTL DEF BackfillSpec
<1> QED
  BY <1>2 DEF PastWindowStaysFinal

=============================================================================
