--------------------------- MODULE HistoryRuntime ---------------------------
(***************************************************************************)
(* The historical-request runtime (internal/controlplane/history_runtime)  *)
(* : the goroutine that reconciles the listed requests, one goroutine per  *)
(* request that verifies, backfills and verifies again, the Stop() caller, *)
(* and the control plane that lists requests and takes their reports.      *)
(*                                                                         *)
(* Bars bars open in a request's window.  The store and the control plane  *)
(* each know a prefix of them: a backfill pages from the window's start.   *)
(* A call that is under way when its context is cancelled may still be     *)
(* applied; one begun under a cancelled context never is.                  *)
(***************************************************************************)
EXTENDS Naturals, FiniteSets

CONSTANTS Requests,  \* ids of historical requests
          Servable,  \* those of kind kline, with a range and a configured exchange
          Ragged,    \* those whose window is not a whole number of bars
          Workers,   \* pool of worker goroutines: at most this many at once
          None,
          Bars,      \* bars in a request's window
          Budget     \* bound on disturbances: listing changes, failed calls, Stop()

ASSUME HistoryRuntimeAssumption ==
  /\ Servable \subseteq Requests /\ Ragged \subseteq Requests
  /\ None \notin Requests /\ None \notin Workers
  /\ Bars \in Nat \ {0}
  /\ Budget \in Nat

VARIABLES
  listed,    \* control plane: ListHistoricalRequests(false) returns the request
  status,    \* control plane: the last state report applied
  segments,  \* control plane: the bars that coverage segments told it of
  stored,    \* year databases: the bars of the window that are stored
  inFlight,  \* r.inFlight: the worker whose cancel function is kept, or None
  worker,    \* the worker goroutines
  pc,        \* where the reconciler ("run") and the Stop() caller ("stop") are
  seen,      \* the listed requests of the current pass
  todo,      \* those the current pass has yet to handle
  ctxDone,   \* runCtx is cancelled
  past,      \* history: has the control plane unlisted the request, and listed it again
  budget     \* disturbances left

vars == <<listed, status, segments, stored, inFlight, worker, pc, seen, todo,
          ctxDone, past, budget>>

Threads  == {"run", "stop"}
Statuses == {"running", "verifying", "ready", "error"}
Stages   == {"verify", "backfill", "segments", "verifyAgain", "report", "untrack"}

\* A goroutine: "live" says whether the call it makes began under a live context.
Goroutine(at, req, says, got, live, cancelled) ==
  [at |-> at, req |-> req, says |-> says, got |-> got, live |-> live, cancelled |-> cancelled]
Gone == Goroutine("gone", None, "none", 0, FALSE, FALSE)

TypeOK ==
  /\ listed \in [Requests -> BOOLEAN]
  /\ status \in [Requests -> Statuses \cup {"pending"}]
  /\ segments \in [Requests -> 0..Bars]
  /\ stored \in [Requests -> 0..Bars]
  /\ inFlight \in [Requests -> Workers \cup {None}]
  /\ worker \in [Workers -> [at : Stages \cup {"gone"}, req : Requests \cup {None},
                             says : Statuses \cup {"none"}, got : 0..Bars,
                             live : BOOLEAN, cancelled : BOOLEAN]]
  /\ pc \in [Threads -> {"idle", "list", "pass", "wait", "stopAll", "done"}]
  /\ seen \in SUBSET Requests
  /\ todo \in SUBSET Requests
  /\ ctxDone \in BOOLEAN
  /\ past \in [Requests -> {"fresh", "removed", "relisted"}]
  /\ budget \in 0..Budget

Init ==
  /\ listed \in [Requests -> BOOLEAN]
  /\ status = [r \in Requests |-> "pending"]
  /\ segments = [r \in Requests |-> 0]
  /\ stored = [r \in Requests |-> 0]
  /\ inFlight = [r \in Requests |-> None]
  /\ worker = [w \in Workers |-> Gone]
  /\ pc = [t \in Threads |-> IF t = "run" THEN "list" ELSE "idle"]
  /\ seen = {}
  /\ todo = {}
  /\ ctxDone = FALSE
  /\ past = [r \in Requests |-> "fresh"]
  /\ budget = Budget

-----------------------------------------------------------------------------
\* Helpers

\* A worker's context is a child of runCtx.
Cancelled(w) == ctxDone \/ worker[w].cancelled

Disturb == budget > 0 /\ budget' = budget - 1

SetAt(t, where) == pc' = [pc EXCEPT ![t] = where]

\* The worker turns to its next call.
Enter(w, stage, got) ==
  [worker EXCEPT ![w] = Goroutine(stage, @.req, "none", got, ~Cancelled(w), @.cancelled)]

\* The worker sends a report: its next call is ReportHistoricalState.
Say(w, st) ==
  [worker EXCEPT ![w] = Goroutine("report", @.req, st, 0, ~Cancelled(w), @.cancelled)]

\* The worker has nothing left to do but its deferred untrack.
Leave(w) == [worker EXCEPT ![w] = Goroutine("untrack", @.req, "none", 0, FALSE, @.cancelled)]

\* cancel() of every worker that S's entries keep.
CancelEntries(S) ==
  [w \in Workers |-> IF \E r \in S : inFlight[r] = w
                     THEN [worker[w] EXCEPT !.cancelled = TRUE] ELSE worker[w]]

Dropped(S) == [r \in Requests |-> IF r \in S THEN None ELSE inFlight[r]]

\* The listing of a request changes.
Relist(r, on) ==
  /\ listed' = [listed EXCEPT ![r] = on]
  /\ past' = [past EXCEPT ![r] = IF on = listed[r] THEN @
                                ELSE IF on THEN IF @ = "removed" THEN "relisted" ELSE @
                                ELSE IF @ = "fresh" THEN "removed" ELSE @]

\* What a report does to the control plane: a ready request is no longer listed,
\* one in error may or may not be.
Applied(r, st) ==
  /\ status' = [status EXCEPT ![r] = st]
  /\ \E on \in CASE st = "ready" -> {FALSE}
                 [] st = "error" -> {listed[r], FALSE}
                 [] OTHER -> {listed[r]} : Relist(r, on)

-----------------------------------------------------------------------------
\* The control plane

ListingChanges(r) ==
  /\ Disturb
  /\ Relist(r, ~listed[r])
  /\ UNCHANGED <<status, segments, stored, inFlight, worker, pc, seen, todo, ctxDone>>

-----------------------------------------------------------------------------
\* The reconciler: ReconcileOnce under Run's ticker

TickerFires ==
  /\ pc["run"] = "wait"
  /\ SetAt("run", "list")
  /\ UNCHANGED <<listed, status, segments, stored, inFlight, worker, seen, todo,
                 ctxDone, past, budget>>

ListHistoricalRequests ==
  /\ pc["run"] = "list" /\ ~ctxDone
  /\ seen' = {r \in Requests : listed[r]}
  /\ todo' = seen'
  /\ SetAt("run", "pass")
  /\ UNCHANGED <<listed, status, segments, stored, inFlight, worker, ctxDone, past, budget>>

\* Mutant: a failed list is tried again at once, whatever the context says.
ListFailsRetried ==
  /\ pc["run"] = "list"
  /\ IF ctxDone THEN UNCHANGED budget ELSE Disturb
  /\ UNCHANGED <<listed, status, segments, stored, inFlight, worker, pc, seen, todo, ctxDone, past>>

ListFails ==
  /\ pc["run"] = "list"
  /\ IF ctxDone THEN UNCHANGED budget ELSE Disturb
  /\ SetAt("run", "wait")
  /\ UNCHANGED <<listed, status, segments, stored, inFlight, worker, seen, todo, ctxDone, past>>

Turn(r) == pc["run"] = "pass" /\ r \in todo /\ todo' = todo \ {r}

\* An unsupported kind, a missing range, an unknown exchange: reported at once.
Refuse(r) ==
  /\ Turn(r) /\ r \notin Servable
  /\ \/ ~ctxDone /\ Applied(r, "error") /\ UNCHANGED budget
     \/ /\ IF ctxDone THEN UNCHANGED budget ELSE Disturb
        /\ UNCHANGED <<listed, status, past>>
  /\ UNCHANGED <<segments, stored, inFlight, worker, pc, seen, ctxDone>>

IsInFlight(r) == inFlight[r] # None

LeaveInFlight(r) ==
  /\ Turn(r) /\ r \in Servable /\ IsInFlight(r)
  /\ UNCHANGED <<listed, status, segments, stored, inFlight, worker, pc, seen,
                 ctxDone, past, budget>>

\* track, then `go runRequest`, which begins by verifying.
StartWorker(r) ==
  LET Idle == {w \in Workers : worker[w].at = "gone"}
      w    == CHOOSE v \in Idle : TRUE
  IN  /\ Turn(r) /\ r \in Servable /\ ~IsInFlight(r)
      /\ Idle # {}
      /\ inFlight' = [inFlight EXCEPT ![r] = w]
      /\ worker' = [worker EXCEPT ![w] = Goroutine("verify", r, "none", 0, ~ctxDone, FALSE)]
      /\ UNCHANGED <<listed, status, segments, stored, pc, seen, ctxDone, past, budget>>

\* Mutant: cancelMissing deletes the entries and cancels nothing.
CancelMissingForgets ==
  LET missing == {r \in Requests : inFlight[r] # None /\ r \notin seen}
  IN  /\ pc["run"] = "pass" /\ todo = {}
      /\ worker' = worker
      /\ inFlight' = Dropped(missing)
      /\ SetAt("run", "wait")
      /\ seen' = {}
      /\ UNCHANGED <<listed, status, segments, stored, todo, ctxDone, past, budget>>

CancelMissing ==
  LET missing == {r \in Requests : inFlight[r] # None /\ r \notin seen}
  IN  /\ pc["run"] = "pass" /\ todo = {}
      /\ worker' = CancelEntries(missing)
      /\ inFlight' = Dropped(missing)
      /\ SetAt("run", "wait")
      /\ seen' = {}
      /\ UNCHANGED <<listed, status, segments, stored, todo, ctxDone, past, budget>>

-----------------------------------------------------------------------------
\* Shutdown

StopCalled ==
  /\ pc["stop"] = "idle" /\ Disturb
  /\ ctxDone' = TRUE
  /\ SetAt("stop", "stopAll")
  /\ UNCHANGED <<listed, status, segments, stored, inFlight, worker, seen, todo, past>>

RunSeesDone ==
  /\ pc["run"] = "wait" /\ ctxDone
  /\ SetAt("run", "stopAll")
  /\ UNCHANGED <<listed, status, segments, stored, inFlight, worker, seen, todo,
                 ctxDone, past, budget>>

StopAll(t) ==
  /\ pc[t] = "stopAll"
  /\ worker' = CancelEntries(Requests)
  /\ inFlight' = Dropped(Requests)
  /\ SetAt(t, "done")
  /\ UNCHANGED <<listed, status, segments, stored, seen, todo, ctxDone, past, budget>>

-----------------------------------------------------------------------------
\* A worker goroutine: runRequest

\* A call that fails although its context is live is a disturbance.
Failure(w) == IF worker[w].live /\ ~Cancelled(w) THEN Disturb ELSE UNCHANGED budget

VerifyFails(w) ==
  /\ worker[w].at \in {"verify", "verifyAgain"}
  /\ Failure(w)
  /\ worker' = Say(w, "error")
  /\ UNCHANGED <<listed, status, segments, stored, inFlight, pc, seen, todo, ctxDone, past>>

\* The window's length divided by a bar's, rounded down: of a window that is not a
\* whole number of bars, one less than the bars that open in it.
Expected(r) == IF r \in Ragged THEN Bars - 1 ELSE Bars

\* verifyWindowCoverage counts rows: enough of them, and at least one.
Verified(r) == stored[r] >= Expected(r) /\ stored[r] > 0

\* Mutant: the second verification takes what the backfill fetched for coverage.
VerdictTrusting(w) ==
  IF Verified(worker[w].req) \/ worker[w].at = "verifyAgain" THEN "ready" ELSE "running"

\* What the worker reports once verifyKlineCoverage has answered.
Verdict(w) ==
  IF Verified(worker[w].req) THEN "ready"
  ELSE IF worker[w].at = "verify" THEN "running" ELSE "error"

Verify(w) ==
  /\ worker[w].at \in {"verify", "verifyAgain"} /\ worker[w].live
  /\ worker' = Say(w, Verdict(w))
  /\ UNCHANGED <<listed, status, segments, stored, inFlight, pc, seen, todo,
                 ctxDone, past, budget>>

AtLeast(n, m) == IF n < m THEN m ELSE n

\* One page of runKlineBackfill: fetched, and inserted with ON CONFLICT DO NOTHING.
BackfillPage(w) ==
  LET r == worker[w].req
      n == worker[w].got + 1
  IN  /\ worker[w].at = "backfill" /\ worker[w].live /\ n <= Bars
      /\ stored' = [stored EXCEPT ![r] = AtLeast(@, n)]
      /\ worker' = Enter(w, "backfill", n)
      /\ UNCHANGED <<listed, status, segments, inFlight, pc, seen, todo, ctxDone, past, budget>>

\* Whatever was fetched, a failed backfill returns no segments.
BackfillFails(w) ==
  /\ worker[w].at = "backfill"
  /\ Failure(w)
  /\ worker' = Say(w, "error")
  /\ UNCHANGED <<listed, status, segments, stored, inFlight, pc, seen, todo, ctxDone, past>>

\* The window is exhausted, or the exchange has no more of it.
BackfillEnds(w) ==
  /\ worker[w].at = "backfill"
  /\ IF worker[w].got = Bars THEN UNCHANGED budget ELSE worker[w].live /\ Disturb
  /\ worker' = IF worker[w].got = 0 THEN Say(w, "verifying")
                ELSE Enter(w, "segments", worker[w].got)
  /\ UNCHANGED <<listed, status, segments, stored, inFlight, pc, seen, todo, ctxDone, past>>

Told(w) == [segments EXCEPT ![worker[w].req] = AtLeast(@, worker[w].got)]

ReportCoverageSegments(w) ==
  /\ worker[w].at = "segments" /\ worker[w].live
  /\ segments' = Told(w)
  /\ worker' = Say(w, "verifying")
  /\ UNCHANGED <<listed, status, stored, inFlight, pc, seen, todo, ctxDone, past, budget>>

\* The reply may be lost after the control plane has taken the segments.
ReportCoverageSegmentsFails(w) ==
  /\ worker[w].at = "segments"
  /\ Failure(w)
  /\ segments' \in {segments} \cup IF worker[w].live THEN {Told(w)} ELSE {}
  /\ worker' = Say(w, "error")
  /\ UNCHANGED <<listed, status, stored, inFlight, pc, seen, todo, ctxDone, past>>

\* Mutant: runRequest ends without its deferred untrack when it has an error to report.
AfterReportLeaks(w) ==
  CASE worker[w].says = "running"   -> Enter(w, "backfill", 0)
    [] worker[w].says = "verifying" -> Enter(w, "verifyAgain", 0)
    [] worker[w].says = "ready"     -> Leave(w)
    [] OTHER                        -> [worker EXCEPT ![w] = Gone]

\* What follows a report, delivered or not: a failure is only logged.
AfterReport(w) ==
  CASE worker[w].says = "running"   -> Enter(w, "backfill", 0)
    [] worker[w].says = "verifying" -> Enter(w, "verifyAgain", 0)
    [] OTHER                        -> Leave(w)

ReportHistorical(w) ==
  /\ worker[w].at = "report" /\ worker[w].live
  /\ Applied(worker[w].req, worker[w].says)
  /\ worker' = AfterReport(w)
  /\ UNCHANGED <<segments, stored, inFlight, pc, seen, todo, ctxDone, budget>>

ReportHistoricalFails(w) ==
  /\ worker[w].at = "report"
  /\ Failure(w)
  /\ worker' = AfterReport(w)
  /\ UNCHANGED <<listed, status, segments, stored, inFlight, pc, seen, todo, ctxDone, past>>

\* The deferred untrack deletes the request's entry, whosever it is.
Untrack(w) ==
  /\ worker[w].at = "untrack"
  /\ inFlight' = Dropped({worker[w].req})
  /\ worker' = [worker EXCEPT ![w] = Gone]
  /\ UNCHANGED <<listed, status, segments, stored, pc, seen, todo, ctxDone, past, budget>>

-----------------------------------------------------------------------------
Pass(r) == Refuse(r) \/ LeaveInFlight(r) \/ StartWorker(r)

Reconciler ==
  \/ TickerFires \/ ListHistoricalRequests \/ ListFails
  \/ (\E r \in Requests : Pass(r))
  \/ CancelMissing \/ RunSeesDone

RunRequest(w) ==
  \/ Verify(w) \/ VerifyFails(w)
  \/ BackfillPage(w) \/ BackfillFails(w) \/ BackfillEnds(w)
  \/ ReportCoverageSegments(w) \/ ReportCoverageSegmentsFails(w)
  \/ ReportHistorical(w) \/ ReportHistoricalFails(w)
  \/ Untrack(w)

AllOver == /\ \A t \in Threads : pc[t] = "done"
           /\ \A w \in Workers : worker[w].at = "gone"

Terminated == AllOver /\ UNCHANGED vars

Next ==
  \/ \E r \in Requests : ListingChanges(r)
  \/ Reconciler
  \/ StopCalled
  \/ \E t \in Threads : StopAll(t)
  \/ \E w \in Workers : RunRequest(w)
  \/ Terminated

Spec == Init /\ [][Next]_vars

-----------------------------------------------------------------------------
\* Safety

Relisted(r) == past[r] = "relisted"

Working(w) == worker[w].at # "gone" /\ ~Cancelled(w)

\* Whatever works under a live context can still be cancelled when its request
\* disappears.  A request listed a second time is exempt: the deferred untrack of
\* its old worker deletes the entry of the new one.
WorkingIsTracked ==
  \A w \in Workers : Working(w) /\ ~Relisted(worker[w].req) => inFlight[worker[w].req] = w

\* No two workers backfill one request at a time (same exemption).
OneWorker ==
  \A v, w \in Workers :
    (Working(v) /\ Working(w) /\ worker[v].req = worker[w].req
       /\ ~Relisted(worker[v].req)) => v = w

\* An entry always has a worker behind it that will delete it: a leftover would
\* keep its request from ever being served again.
NoStaleEntry ==
  \A r \in Requests :
    inFlight[r] # None => /\ worker[inFlight[r]].at # "gone"
                          /\ worker[inFlight[r]].req = r
                          /\ ~worker[inFlight[r]].cancelled

\* The runtime's part of "ready only when the target window can be read" (README,
\* Historical vs Live Scope), through retries, cancellations, failed backfills and
\* reports applied late: a request that the control plane has as ready has its window
\* stored, but for one bar, the last, when the window is not a whole number of bars.
\* The README makes no such exception: expectedBarCount does, by rounding down.
ReadyIsStored ==
  \A r \in Requests :
    status[r] = "ready" =>
      \/ stored[r] = Bars
      \/ r \in Ragged /\ stored[r] = Bars - 1 /\ stored[r] > 0

\* Tested (TestHistoricalRuntimeReportsCoverageSegmentsBeforeReady and
\* ...StopsBeforeReadyWhenCoverageReportFails): a request becomes ready only
\* after the segments its backfill stored were reported.
ReadyIsReported == \A r \in Requests : status[r] = "ready" => segments[r] = Bars

-----------------------------------------------------------------------------
\* Liveness

(***************************************************************************)
(* Goroutines are scheduled and every call ends (the RPCs and the HTTP     *)
(* client have timeouts); what a call may fail is bounded by Budget.  Go's *)
(* select does not prefer the ticker to a cancelled context for ever.      *)
(***************************************************************************)
Fairness ==
  /\ WF_vars(Reconciler) /\ SF_vars(RunSeesDone)
  /\ \A t \in Threads : WF_vars(StopAll(t))
  /\ \A w \in Workers : WF_vars(RunRequest(w))

FairSpec == Spec /\ Fairness

\* A servable request that stays listed is worked on until it is ready, however
\* its workers failed before and whoever deleted its entry.
ListedIsServed ==
  \A r \in Servable : listed[r] ~> (~listed[r] \/ ctxDone)

\* Stop() and Run return and every worker ends.
StopEndsWorkers == ctxDone ~> AllOver

=============================================================================
