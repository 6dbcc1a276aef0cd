--------------------------- MODULE StreamRuntime ---------------------------
(***************************************************************************)
(* The live-stream runtime (internal/controlplane/runtime.go) with what it *)
(* talks to: the control plane that lists the wanted streams and receives  *)
(* state reports, the reconciler goroutine, one goroutine per collector    *)
(* and the goroutine that calls Stop().                                    *)
(*                                                                         *)
(* Each action is one critical section of r.mu, one RPC outcome or one     *)
(* step outside the lock.  Reports are snapshots taken under the lock and  *)
(* sent after it is released, so they overtake each other.                 *)
(*                                                                         *)
(* Time enters through r.now(), read once per pass: "drain" is the time    *)
(* left, at the pass's now, until a handle's drainDeadline.                *)
(***************************************************************************)
EXTENDS Integers, FiniteSets

CONSTANTS Streams,      \* stream ids listed with kind "kline" and a known exchange
          Collectors,   \* pool of collector instances: at most this many at once
          None,
          Listings,     \* what ListStreams may answer about one stream
          HasPublisher, \* whether the process has a Kafka publisher
          Grace,        \* DrainingGracePeriod
          Budget        \* bound on disturbances: listing changes, broken collectors, Stop()

ASSUME StreamRuntimeAssumption ==
  /\ None \notin Streams /\ None \notin Collectors
  /\ Listings \subseteq [desired : {"running", "stopped"}, leases : Nat, live : BOOLEAN]
  /\ HasPublisher \in BOOLEAN
  /\ Grace \in Nat \ {0}
  /\ Budget \in Nat

VARIABLES
  cp,       \* control plane: the listing of each stream, or Absent
  view,     \* control plane: the last state report applied to each stream
  managed,  \* r.managed: a handle per stream, or NoHandle
  drain,    \* time left to handle.drainDeadline, or NoDeadline
  col,      \* the collector instances and their goroutines
  pc,       \* where the reconciler ("run") and the Stop() caller ("stop") are
  halts,    \* the collectors each of them has yet to cancel and Stop()
  snap,     \* the answer of ListStreams the current pass works on
  todo,     \* the listed streams the current pass has yet to reconcile
  out,      \* the report the reconciler is sending, or NoReport
  ctxDone,  \* runCtx is cancelled
  once,     \* shutdownOnce, and whether the client is closed
  idle,     \* history: time since a list last wanted the stream, up to Grace
  past,     \* history: has the control plane unlisted the stream, and listed it again
  budget    \* disturbances left

vars == <<cp, view, managed, drain, col, pc, halts, snap, todo, out,
          ctxDone, once, idle, past, budget>>

Threads  == {"run", "stop"}
Absent   == [desired |-> "absent", leases |-> 0, live |-> FALSE]
Handle(st, c, v, l) == [state |-> st, collector |-> c, version |-> v, listing |-> l]
NoHandle == Handle("none", None, 0, Absent)
Report(s, st) == [stream |-> s, state |-> st]
NoReport == Report(None, "none")
NoDeadline == -1
Goroutine(where, s, v, gate, cancelled, stops) ==
  [at |-> where, stream |-> s, version |-> v, gate |-> gate,
   cancelled |-> cancelled, stops |-> stops]
Gone(cancelled, stops) == Goroutine("gone", None, 0, "shut", cancelled, stops)

States == {"starting", "running", "draining", "stopped", "error"}
Handles == [state : States \cup {"none"}, collector : Collectors \cup {None},
            version : Nat, listing : Listings \cup {Absent}]
Reports == [stream : Streams \cup {None}, state : States \cup {"none"}]
CollectorStates ==
  [at : {"gone", "run", "stored", "report", "returned", "exiting", "lastreport"},
   stream : Streams \cup {None}, version : Nat, gate : {"open", "shut"},
   cancelled : BOOLEAN, stops : Nat]

TypeOK ==
  /\ cp \in [Streams -> Listings \cup {Absent}]
  /\ view \in [Streams -> States \cup {"pending"}]
  /\ managed \in [Streams -> Handles]
  /\ drain \in [Streams -> 0..Grace \cup {NoDeadline}]
  /\ col \in [Collectors -> CollectorStates]
  /\ pc \in [Threads -> {"idle", "wait", "list", "reconcile", "halt", "report",
                         "shutdown", "closing", "done"}]
  /\ halts \in [Threads -> SUBSET Collectors]
  /\ snap \in [Streams -> Listings \cup {Absent}]
  /\ todo \in SUBSET Streams
  /\ out \in Reports
  /\ ctxDone \in BOOLEAN
  /\ once \in {"no", "busy", "done"}
  /\ idle \in [Streams -> 0..Grace]
  /\ past \in [Streams -> {"fresh", "removed", "relisted"}]
  /\ budget \in 0..Budget

Init ==
  /\ cp \in [Streams -> Listings \cup {Absent}]
  /\ view = [s \in Streams |-> "pending"]
  /\ managed = [s \in Streams |-> NoHandle]
  /\ drain = [s \in Streams |-> NoDeadline]
  /\ col = [c \in Collectors |-> Gone(FALSE, 0)]
  /\ pc = [t \in Threads |-> IF t = "run" THEN "list" ELSE "idle"]
  /\ halts = [t \in Threads |-> {}]
  /\ snap = [s \in Streams |-> Absent]
  /\ todo = {}
  /\ out = NoReport
  /\ ctxDone = FALSE
  /\ once = "no"
  /\ idle = [s \in Streams |-> 0]
  /\ past = [s \in Streams |-> "fresh"]
  /\ budget = Budget

-----------------------------------------------------------------------------
\* Helpers

ShouldRun(l) == l.desired = "running" \/ l.leases > 0

\* The gate that a listing's live delivery asks for.
LiveGate(l) == IF l.live /\ HasPublisher THEN "open" ELSE "shut"

\* Mutant: a context of its own, not a child of runCtx.
CancelledAlone(c) == col[c].cancelled

\* The context a collector runs under is a child of runCtx.
Cancelled(c) == ctxDone \/ col[c].cancelled

\* The goroutine is inside collector.Run under a context nobody cancelled.
Ingesting(c) == col[c].at \in {"run", "stored", "report"} /\ ~Cancelled(c)

\* Mutant: no comparison of versions.
IsCurrentAnyVersion(h, c) == h # NoHandle

\* recordStored's guard: the bar came from the collector the handle knows.
IsCurrent(h, c) == h # NoHandle /\ h.version = col[c].version

\* Mutant: a collector that breaks before its first bar is overlooked.
OwnsHandleOnceRunning(h, c) == IsCurrent(h, c) /\ h.state = "running"

\* runCollector's guard.
OwnsHandle(h, c) == IsCurrent(h, c) /\ h.collector # None

SetAt(t, where) == pc' = [pc EXCEPT ![t] = where]

Reply(s, st) == /\ out' = Report(s, st)
                /\ todo' = todo \ {s}

\* An instance of the pool that nothing refers to any more.
Unused(c) == /\ col[c].at = "gone"
             /\ \A s \in Streams : managed[s].collector # c
             /\ \A t \in Threads : c \notin halts[t]

-----------------------------------------------------------------------------
\* The control plane

ControlPlaneChanges(s) ==
  /\ budget > 0
  /\ \E l \in Listings \cup {Absent} : l # cp[s] /\ cp' = [cp EXCEPT ![s] = l]
  /\ past' = [past EXCEPT ![s] = IF cp'[s] = Absent THEN IF @ = "fresh" THEN "removed" ELSE @
                                ELSE IF @ = "removed" THEN "relisted" ELSE @]
  /\ budget' = budget - 1
  /\ UNCHANGED <<view, managed, drain, col, pc, halts, snap, todo, out,
                 ctxDone, once, idle>>

-----------------------------------------------------------------------------
\* The reconciler: ReconcileOnce under Run's ticker

\* select picks at random between a due tick and a cancelled runCtx.
TickerFires ==
  /\ pc["run"] = "wait"
  /\ SetAt("run", "list")
  /\ UNCHANGED <<cp, view, managed, drain, col, halts, snap, todo, out,
                 ctxDone, once, idle, past, budget>>

Later(left, d) == IF left = NoDeadline THEN left ELSE IF left > d THEN left - d ELSE 0

Longer(i, d) == IF i + d < Grace THEN i + d ELSE Grace

\* d is the time since the previous successful list.
ListStreams(d) ==
  /\ pc["run"] = "list"
  /\ ~ctxDone
  /\ snap' = cp
  /\ todo' = {s \in Streams : cp[s] # Absent}
  /\ drain' = [s \in Streams |-> Later(drain[s], d)]
  /\ idle' = [s \in Streams |-> IF ShouldRun(cp[s]) THEN 0 ELSE Longer(idle[s], d)]
  /\ SetAt("run", "reconcile")
  /\ UNCHANGED <<cp, view, managed, col, halts, out, ctxDone, once, past, budget>>

ListStreamsFails ==
  /\ pc["run"] = "list"
  /\ SetAt("run", "wait")
  /\ UNCHANGED <<cp, view, managed, drain, col, halts, snap, todo, out,
                 ctxDone, once, idle, past, budget>>

Turn(s) == pc["run"] = "reconcile" /\ s \in todo

\* Mutant: the gate keeps the value it was created with.
ToggleGateNever(s) == col

\* handle.publisher.SetEnabled(liveEnabled), at the start of every reconcileStream.
ToggleGate(s) ==
  LET c == managed[s].collector
  IN  IF c = None THEN col
      ELSE [col EXCEPT ![c].gate = LiveGate(snap[s])]

\* The state a collector that is already there keeps (in the first branch the
\* code picks by lastDataAt).
KeptStates(h) ==
  IF h.state \in {"none", "stopped", "error"} THEN {"running", "starting"} ELSE {h.state}

\* Mutant: the deadline survives a pass that wants the stream.
ClearDeadlineNever(s) == drain

\* drainDeadline = time.Time{} whenever a pass finds the stream wanted.
ClearDeadline(s) == [drain EXCEPT ![s] = NoDeadline]

KeepCollector(s) ==
  LET h == managed[s]
  IN  /\ Turn(s) /\ ShouldRun(snap[s]) /\ h.collector # None
      /\ \E st \in KeptStates(h) :
           /\ managed' = [managed EXCEPT ![s] = Handle(st, h.collector, h.version, snap[s])]
           /\ Reply(s, st)
      /\ col' = ToggleGate(s)
      /\ drain' = ClearDeadline(s)
      /\ SetAt("run", "report")
      /\ UNCHANGED <<cp, view, halts, snap, ctxDone, once, idle, past, budget>>

FactoryFails(s) ==
  LET h == managed[s]
  IN  /\ Turn(s) /\ ShouldRun(snap[s]) /\ h.collector = None
      /\ managed' = [managed EXCEPT ![s] = Handle("error", None, h.version, snap[s])]
      /\ drain' = ClearDeadline(s)
      /\ Reply(s, "error")
      /\ SetAt("run", "report")
      /\ UNCHANGED <<cp, view, col, halts, snap, ctxDone, once, idle, past, budget>>

\* Which instance of the pool stands for the collector that the factory makes.
NextUnused == CHOOSE c \in Collectors : Unused(c)

\* `go runCollector` follows the unlock at once: the goroutine starts in "run".
StartCollector(s) ==
  LET h == managed[s]
  IN  /\ Turn(s) /\ ShouldRun(snap[s]) /\ h.collector = None
      /\ \E c \in Collectors :
           /\ Unused(c) /\ c = NextUnused
           /\ managed' = [managed EXCEPT ![s] =
                            Handle("starting", c, h.version + 1, snap[s])]
           /\ col' = [col EXCEPT ![c] =
                        Goroutine("run", s, h.version + 1, LiveGate(snap[s]), FALSE, 0)]
      /\ drain' = ClearDeadline(s)
      /\ Reply(s, "starting")
      /\ SetAt("run", "report")
      /\ UNCHANGED <<cp, view, halts, snap, ctxDone, once, idle, past, budget>>

AlreadyStopped(s) ==
  LET h == managed[s]
  IN  /\ Turn(s) /\ ~ShouldRun(snap[s]) /\ h.collector = None
      /\ managed' = [managed EXCEPT ![s] = Handle("stopped", None, h.version, snap[s])]
      /\ drain' = [drain EXCEPT ![s] = NoDeadline]
      /\ Reply(s, "stopped")
      /\ SetAt("run", "report")
      /\ UNCHANGED <<cp, view, col, halts, snap, ctxDone, once, idle, past, budget>>

\* Mutants: a deadline that is not armed counts as passed; one re-armed by every pass.
StillDrainingIfArmed(left) == left > 0
StillDrainingAlways(left) == TRUE

\* now.Before(drainDeadline), for a deadline armed now or by an earlier pass.
StillDraining(left) == left # 0

DrainStream(s) ==
  LET h == managed[s]
  IN  /\ Turn(s) /\ ~ShouldRun(snap[s]) /\ h.collector # None
      /\ StillDraining(drain[s])
      /\ managed' = [managed EXCEPT ![s] =
                       Handle("draining", h.collector, h.version, snap[s])]
      /\ col' = ToggleGate(s)
      /\ drain' = [drain EXCEPT ![s] = IF @ = NoDeadline THEN Grace ELSE @]
      /\ Reply(s, "draining")
      /\ SetAt("run", "report")
      /\ UNCHANGED <<cp, view, halts, snap, ctxDone, once, idle, past, budget>>

\* The handle of a collector that a drain stopped, under a version of its own.
StoppedHandle(h, l) == Handle("stopped", None, h.version + 1, l)

StopDrained(s) ==
  LET h == managed[s]
  IN  /\ Turn(s) /\ ~ShouldRun(snap[s]) /\ h.collector # None
      /\ ~StillDraining(drain[s])
      /\ managed' = [managed EXCEPT ![s] = StoppedHandle(h, snap[s])]
      /\ col' = ToggleGate(s)
      /\ drain' = [drain EXCEPT ![s] = NoDeadline]
      /\ halts' = [halts EXCEPT !["run"] = {h.collector}]
      /\ Reply(s, "stopped")
      /\ SetAt("run", "halt")
      /\ UNCHANGED <<cp, view, snap, ctxDone, once, idle, past, budget>>

\* The report RPC of the pass: it fails once runCtx or the client is gone.
ReportDelivered(s) ==
  /\ pc["run"] = "report" /\ out.stream = s
  /\ ~ctxDone
  /\ view' = [view EXCEPT ![s] = out.state]
  /\ out' = NoReport
  /\ SetAt("run", "reconcile")
  /\ UNCHANGED <<cp, managed, drain, col, halts, snap, todo, ctxDone, once,
                 idle, past, budget>>

ReportFails ==
  /\ pc["run"] = "report"
  /\ out' = NoReport
  /\ SetAt("run", "reconcile")
  /\ UNCHANGED <<cp, view, managed, drain, col, halts, snap, todo, ctxDone, once,
                 idle, past, budget>>

StopMissing ==
  LET missing == {s \in Streams : managed[s] # NoHandle /\ snap[s] = Absent}
  IN  /\ pc["run"] = "reconcile" /\ todo = {}
      /\ halts' = [halts EXCEPT !["run"] = {managed[s].collector : s \in missing} \ {None}]
      /\ managed' = [s \in Streams |-> IF s \in missing THEN NoHandle ELSE managed[s]]
      /\ drain' = [s \in Streams |-> IF s \in missing THEN NoDeadline ELSE drain[s]]
      /\ snap' = [s \in Streams |-> Absent]
      /\ SetAt("run", "halt")
      /\ UNCHANGED <<cp, view, col, todo, out, ctxDone, once, idle, past, budget>>

-----------------------------------------------------------------------------
\* Outside the lock, one collector after the other: cancel(), then Stop()

CancelCollector(t, c) ==
  /\ pc[t] \in {"halt", "closing"} /\ c \in halts[t]
  /\ \A b \in halts[t] : ~col[b].cancelled
  /\ col' = [col EXCEPT ![c].cancelled = TRUE]
  /\ UNCHANGED <<cp, view, managed, drain, pc, halts, snap, todo, out,
                 ctxDone, once, idle, past, budget>>

StopCollector(t, c) ==
  /\ pc[t] \in {"halt", "closing"} /\ c \in halts[t]
  /\ col[c].cancelled
  /\ col' = [col EXCEPT ![c].stops = @ + 1]
  /\ halts' = [halts EXCEPT ![t] = @ \ {c}]
  /\ UNCHANGED <<cp, view, managed, drain, pc, snap, todo, out,
                 ctxDone, once, idle, past, budget>>

HaltsDone ==
  /\ pc["run"] = "halt" /\ halts["run"] = {}
  /\ SetAt("run", IF out = NoReport THEN "wait" ELSE "report")
  /\ UNCHANGED <<cp, view, managed, drain, col, halts, snap, todo, out,
                 ctxDone, once, idle, past, budget>>

-----------------------------------------------------------------------------
\* Shutdown: Stop() cancels runCtx and calls shutdown(); Run's defer calls it too

\* Mutant: Stop() does not cancel runCtx before it calls shutdown().
StopCalledWithoutCancel ==
  /\ pc["stop"] = "idle" /\ budget > 0
  /\ SetAt("stop", "shutdown")
  /\ budget' = budget - 1
  /\ UNCHANGED <<cp, view, managed, drain, col, halts, snap, todo, out,
                 ctxDone, once, idle, past>>

StopCalled ==
  /\ pc["stop"] = "idle" /\ budget > 0
  /\ ctxDone' = TRUE
  /\ SetAt("stop", "shutdown")
  /\ budget' = budget - 1
  /\ UNCHANGED <<cp, view, managed, drain, col, halts, snap, todo, out,
                 once, idle, past>>

RunExits ==
  /\ pc["run"] = "wait" /\ ctxDone
  /\ SetAt("run", "shutdown")
  /\ UNCHANGED <<cp, view, managed, drain, col, halts, snap, todo, out,
                 ctxDone, once, idle, past, budget>>

\* Mutant: the handles stay in the map.
EmptiedNot == managed

\* What shutdown leaves of r.managed.
Emptied == [s \in Streams |-> NoHandle]

ShutdownBegins(t) ==
  /\ pc[t] = "shutdown" /\ once = "no"
  /\ once' = "busy"
  /\ halts' = [halts EXCEPT ![t] = {managed[s].collector : s \in Streams} \ {None}]
  /\ managed' = Emptied
  /\ drain' = [s \in Streams |-> NoDeadline]
  /\ SetAt(t, "closing")
  /\ UNCHANGED <<cp, view, col, snap, todo, out, ctxDone, idle, past, budget>>

\* client.Close(), then sync.Once lets the other caller through.
ShutdownEnds(t) ==
  /\ pc[t] = "closing" /\ halts[t] = {}
  /\ once' = "done"
  /\ SetAt(t, "done")
  /\ UNCHANGED <<cp, view, managed, drain, col, halts, snap, todo, out,
                 ctxDone, idle, past, budget>>

ShutdownSkipped(t) ==
  /\ pc[t] = "shutdown" /\ once = "done"
  /\ SetAt(t, "done")
  /\ UNCHANGED <<cp, view, managed, drain, col, halts, snap, todo, out,
                 ctxDone, once, idle, past, budget>>

-----------------------------------------------------------------------------
\* A collector goroutine: runCollector around collector.Run

BarStored(c) ==
  /\ col[c].at = "run" /\ ~Cancelled(c)
  /\ col' = [col EXCEPT ![c].at = "stored"]
  /\ UNCHANGED <<cp, view, managed, drain, pc, halts, snap, todo, out,
                 ctxDone, once, idle, past, budget>>

\* recordStored, called by the collector after the insert.
RecordStored(c) ==
  LET s == col[c].stream
      h == managed[s]
  IN  /\ col[c].at = "stored"
      /\ IF IsCurrent(h, c)
         THEN /\ managed' = [managed EXCEPT ![s] =
                              Handle("running", h.collector, h.version, h.listing)]
              /\ col' = [col EXCEPT ![c].at = "report"]
         ELSE /\ col' = [col EXCEPT ![c].at = "run"]
              /\ UNCHANGED managed
      /\ UNCHANGED <<cp, view, drain, pc, halts, snap, todo, out,
                     ctxDone, once, idle, past, budget>>

\* collector.Run returns because its context is cancelled ...
RunReturns(c) ==
  /\ col[c].at = "run" /\ Cancelled(c)
  /\ col' = [col EXCEPT ![c].at = "returned"]
  /\ UNCHANGED <<cp, view, managed, drain, pc, halts, snap, todo, out,
                 ctxDone, once, idle, past, budget>>

\* ... or on its own: the exchange closed the connection.
RunBreaks(c) ==
  /\ budget > 0
  /\ col[c].at = "run" /\ ~Cancelled(c)
  /\ col' = [col EXCEPT ![c].at = "returned"]
  /\ budget' = budget - 1
  /\ UNCHANGED <<cp, view, managed, drain, pc, halts, snap, todo, out,
                 ctxDone, once, idle, past>>

\* The goroutine is over; what Stop() is still owed stays.
Ended(c) == Gone(col[c].cancelled, col[c].stops)

\* ctx.Err(), read before the lock is taken.
CheckContext(c) ==
  /\ col[c].at = "returned"
  /\ col' = IF Cancelled(c) THEN [col EXCEPT ![c] = Ended(c)]
            ELSE [col EXCEPT ![c].at = "exiting"]
  /\ UNCHANGED <<cp, view, managed, drain, pc, halts, snap, todo, out,
                 ctxDone, once, idle, past, budget>>

ExitUnexpectedly(c) ==
  LET s == col[c].stream
      h == managed[s]
  IN  /\ col[c].at = "exiting"
      /\ IF OwnsHandle(h, c)
         THEN /\ managed' = [managed EXCEPT ![s] = Handle("error", None, h.version, h.listing)]
              /\ col' = [col EXCEPT ![c].at = "lastreport"]
         ELSE /\ col' = [col EXCEPT ![c] = Ended(c)]
              /\ UNCHANGED managed
      /\ UNCHANGED <<cp, view, drain, pc, halts, snap, todo, out,
                     ctxDone, once, idle, past, budget>>

\* recordStored reports "running", the unexpected exit "error".
SaidBy(c) == IF col[c].at = "report" THEN "running" ELSE "error"

\* What follows the report RPC of a collector's goroutine.
AfterReport(c) == IF col[c].at = "report" THEN [col EXCEPT ![c].at = "run"]
                  ELSE [col EXCEPT ![c] = Ended(c)]

\* These reports run under context.Background(): only the closed client stops them.
CollectorReportDelivered(c) ==
  /\ col[c].at \in {"report", "lastreport"}
  /\ once # "done"
  /\ view' = [view EXCEPT ![col[c].stream] = SaidBy(c)]
  /\ col' = AfterReport(c)
  /\ UNCHANGED <<cp, managed, drain, pc, halts, snap, todo, out,
                 ctxDone, once, idle, past, budget>>

CollectorReportFails(c) ==
  /\ col[c].at \in {"report", "lastreport"}
  /\ col' = AfterReport(c)
  /\ UNCHANGED <<cp, view, managed, drain, pc, halts, snap, todo, out,
                 ctxDone, once, idle, past, budget>>

-----------------------------------------------------------------------------
ReconcileStream(s) ==
  \/ KeepCollector(s) \/ FactoryFails(s) \/ StartCollector(s)
  \/ AlreadyStopped(s) \/ DrainStream(s) \/ StopDrained(s)

Reconciler ==
  \/ TickerFires \/ (\E d \in 1..Grace : ListStreams(d)) \/ ListStreamsFails
  \/ (\E s \in Streams : ReconcileStream(s) \/ ReportDelivered(s))
  \/ ReportFails \/ StopMissing \/ HaltsDone \/ RunExits

Halting(t) == \E c \in Collectors : CancelCollector(t, c) \/ StopCollector(t, c)

Shutdown(t) == ShutdownBegins(t) \/ ShutdownEnds(t) \/ ShutdownSkipped(t)

Collector(c) ==
  \/ BarStored(c) \/ RecordStored(c) \/ RunReturns(c) \/ RunBreaks(c)
  \/ CheckContext(c) \/ ExitUnexpectedly(c)
  \/ CollectorReportDelivered(c) \/ CollectorReportFails(c)

\* Run and Stop() have returned and every goroutine is over.
AllOver == /\ \A t \in Threads : pc[t] = "done"
           /\ \A c \in Collectors : col[c].at = "gone"

Terminated == AllOver /\ UNCHANGED vars

Next ==
  \/ \E s \in Streams : ControlPlaneChanges(s)
  \/ Reconciler
  \/ StopCalled
  \/ \E t \in Threads : Halting(t) \/ Shutdown(t)
  \/ \E c \in Collectors : Collector(c)
  \/ Terminated

Spec == Init /\ [][Next]_vars

-----------------------------------------------------------------------------
\* Safety

Relisted(s) == past[s] = "relisted"

\* No two collectors ingest one stream at a time, however passes, exits and
\* Stop() interleave; a stream that was unlisted and listed again is exempt:
\* its new handle counts versions from 1 again, so the exit of an old collector
\* can clear the new one out of its handle.
AtMostOneIngesting ==
  \A c, d \in Collectors :
    (/\ Ingesting(c) /\ Ingesting(d)
     /\ col[c].stream = col[d].stream /\ ~Relisted(col[c].stream)) => c = d

\* A collector that ingests is the one its stream's handle holds, or it is about
\* to be cancelled: nothing runs on that no one can stop.
NoOrphan ==
  \A c \in Collectors :
    (Ingesting(c) /\ ~Relisted(col[c].stream)) =>
      \/ managed[col[c].stream].collector = c
      \/ \E t \in Threads : c \in halts[t]

\* Reconciler, drain, unlisting and the two shutdown callers never Stop() the
\* same collector twice between them (a second Stop may close a closed channel).
StopAtMostOnce ==
  \A c \in Collectors :
    /\ col[c].stops <= 1
    /\ \A t \in Threads : c \in halts[t] => col[c].stops = 0
    /\ \A s \in Streams : managed[s].collector = c => col[c].stops = 0

\* A handle never keeps a collector whose goroutine is over while the runtime
\* is meant to run: such a stream would look alive and never be restarted.
NoDeadCollectorKept ==
  \A s \in Streams :
    LET c == managed[s].collector
    IN  c # None /\ ~ctxDone => /\ col[c].at \notin {"gone", "lastreport"}
                                /\ ~col[c].cancelled
                                /\ col[c].stream = s /\ col[c].version = managed[s].version

\* Whatever ingests publishes to Kafka only as the last listing seen allows.
GateFollowsListing ==
  \A c \in Collectors :
    LET s == col[c].stream
    IN  (/\ Ingesting(c) /\ ~Relisted(s) /\ \A t \in Threads : c \notin halts[t])
          => col[c].gate = LiveGate(managed[s].listing)

\* A listed stream loses its collector to a drain only when lists have not
\* wanted it for a whole grace period.
DrainedOnlyAfterGrace ==
  [][\A s \in Streams :
       (managed[s].collector # None /\ managed'[s].collector = None
          /\ managed'[s].state = "stopped") => idle[s] = Grace]_vars

\* What the lifecycle sees of the runtime: it forgets a stream once it is relisted.
StateSeen  == [s \in Streams |-> IF Relisted(s) THEN "none" ELSE managed[s].state]
OwnerSeen  == [s \in Streams |-> IF Relisted(s) THEN None ELSE managed[s].collector]
NoticeSeen == {s \in Streams : ~Relisted(s) /\ drain[s] # NoDeadline}

Lifecycle == INSTANCE StreamLifecycle WITH
  state <- StateSeen, owner <- OwnerSeen, notice <- NoticeSeen

\* The runtime implements the lifecycle of StreamLifecycle.
ImplementsLifecycle == Lifecycle!Spec

\* Tested (TestRuntimeReconcileStartKeepAndStopWithGrace): once a stream is
\* reported stopped and the pass has stopped its collector, none ingests it.
ReportedStoppedIsStopped ==
  \A c \in Collectors :
    LET s == col[c].stream
    IN  (/\ pc["run"] = "report" /\ out = Report(s, "stopped"))
          => ~Ingesting(c)

-----------------------------------------------------------------------------
\* Liveness

(***************************************************************************)
(* The goroutines are scheduled and their RPCs end, one way or the other   *)
(* (every RPC has a timeout).  Strong fairness: the control plane is not   *)
(* unreachable for ever, the factory not broken for ever, and Go's select  *)
(* does not prefer the ticker for ever.                                    *)
(***************************************************************************)
ReconcilerFairness ==
  /\ WF_vars(TickerFires) /\ SF_vars(RunExits)
  /\ SF_vars(\E d \in 1..Grace : ListStreams(d)) /\ WF_vars(ListStreamsFails)
  /\ \A s \in Streams : /\ WF_vars(ReconcileStream(s))
                        /\ SF_vars(StartCollector(s))
                        /\ SF_vars(ReportDelivered(s))
  /\ WF_vars(ReportFails) /\ WF_vars(StopMissing) /\ WF_vars(HaltsDone)

ShutdownFairness ==
  \A t \in Threads : WF_vars(Halting(t)) /\ WF_vars(Shutdown(t))

\* Nothing makes a collector return before its context is cancelled.
CollectorFairness ==
  \A c \in Collectors :
    /\ WF_vars(RecordStored(c)) /\ WF_vars(RunReturns(c))
    /\ WF_vars(CheckContext(c)) /\ WF_vars(ExitUnexpectedly(c))
    /\ WF_vars(CollectorReportDelivered(c) \/ CollectorReportFails(c))

\* The exchange keeps closing bars, and the store keeps taking them.
BarsKeepComing == \A c \in Collectors : WF_vars(BarStored(c))

FairSpec == Spec /\ BarsKeepComing /\ ReconcilerFairness /\ ShutdownFairness /\ CollectorFairness

\* A stream that stays wanted ends up with a collector that ingests, and the
\* control plane ends up knowing it as running, whatever failed before.
WantedRuns ==
  \A s \in Streams :
    <>[](~ctxDone /\ ~Relisted(s) /\ ShouldRun(cp[s])) =>
      <>[](/\ \E c \in Collectors : Ingesting(c) /\ col[c].stream = s
           /\ view[s] = "running")

\* A stream that stays unwanted, listed or not, ends up with no collector
\* goroutine at all, and if it is listed the control plane ends up knowing it
\* as stopped, even when an older report is delivered after a newer one.
UnwantedStops ==
  \A s \in Streams :
    <>[](~ctxDone /\ ~Relisted(s) /\ ~ShouldRun(cp[s])) =>
      <>[](/\ \A c \in Collectors : col[c].stream # s
           /\ cp[s] # Absent => view[s] = "stopped")

\* Stop() returns, Run returns and every collector goroutine ends, also one that
\* a pass in flight started after shutdown() had emptied r.managed.
StopEndsEverything == ctxDone ~> AllOver

=============================================================================
