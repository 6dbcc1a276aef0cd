------------------------ MODULE StreamRuntimeProofs ------------------------
(***************************************************************************)
(* Theorems about StreamRuntime, for any set of streams and collectors,    *)
(* any grace period and any number of disturbances.                        *)
(***************************************************************************)
EXTENDS StreamRuntime, TLAPS

-----------------------------------------------------------------------------
\* The collectors: what one change of one field does

\* The collector table is well typed, and a goroutine that is not over has a stream.
ColOK(f) == /\ f \in [Collectors -> CollectorStates]
            /\ \A c \in Collectors : f[c].at # "gone" => f[c].stream \in Streams

LEMMA ColAt ==
  ASSUME NEW f, ColOK(f), NEW c \in Collectors, f[c].at # "gone",
         NEW w \in {"run", "stored", "report", "returned", "exiting", "lastreport"}
  PROVE  ColOK([f EXCEPT ![c].at = w])
BY DEF ColOK, CollectorStates

LEMMA ColGate ==
  ASSUME NEW f, ColOK(f), NEW c \in Collectors, NEW g \in {"open", "shut"}
  PROVE  ColOK([f EXCEPT ![c].gate = g])
BY DEF ColOK, CollectorStates

LEMMA ColCancelled ==
  ASSUME NEW f, ColOK(f), NEW c \in Collectors
  PROVE  ColOK([f EXCEPT ![c].cancelled = TRUE])
BY DEF ColOK, CollectorStates

LEMMA ColStops ==
  ASSUME NEW f, ColOK(f), NEW c \in Collectors
  PROVE  ColOK([f EXCEPT ![c].stops = @ + 1])
BY DEF ColOK, CollectorStates

LEMMA ColEnded ==
  ASSUME ColOK(col), NEW c \in Collectors
  PROVE  ColOK([col EXCEPT ![c] = Ended(c)])
<1>1. Ended(c) \in CollectorStates /\ Ended(c).at = "gone"
  BY DEF ColOK, CollectorStates, Ended, Gone, Goroutine
<1>2. QED
  BY <1>1 DEF ColOK

LEMMA ColStarted ==
  ASSUME ColOK(col), NEW c \in Collectors, NEW s \in Streams, NEW v \in Nat, NEW l
  PROVE  ColOK([col EXCEPT ![c] = Goroutine("run", s, v, LiveGate(l), FALSE, 0)])
<1>1. LiveGate(l) \in {"open", "shut"}
  BY DEF LiveGate
<1>2. Goroutine("run", s, v, LiveGate(l), FALSE, 0) \in CollectorStates
  BY <1>1 DEF CollectorStates, Goroutine
<1>3. Goroutine("run", s, v, LiveGate(l), FALSE, 0).stream = s
  BY DEF Goroutine
<1>4. QED
  BY <1>2, <1>3 DEF ColOK

LEMMA ColToggled ==
  ASSUME ColOK(col), TypeOK, NEW s \in Streams
  PROVE  ColOK(ToggleGate(s))
<1>1. managed[s].collector \in Collectors \cup {None}
  BY DEF TypeOK, Handles
<1>2. LiveGate(snap[s]) \in {"open", "shut"}
  BY DEF LiveGate
<1>3. QED
  BY <1>1, <1>2, ColGate DEF ToggleGate

-----------------------------------------------------------------------------
\* Types

\* A report being sent names a stream and a state.
OutOK == /\ out = NoReport \/ (out.stream \in Streams /\ out.state \in States)
         /\ pc["run"] = "report" => out # NoReport

TInv == TypeOK /\ OutOK /\ ColOK(col)

LEMMA TypeInit == Init => TInv
<1>1. Init => ColOK(col)
  BY DEF Init, ColOK, CollectorStates, Gone, Goroutine
<1>2. Init => OutOK
  BY DEF Init, OutOK, Threads
<1>3. Init => managed \in [Streams -> Handles] /\ out \in Reports
  BY DEF Init, NoHandle, Handle, Handles, Reports, NoReport, Report
<1>4. Init => budget \in 0..Budget /\ drain \in [Streams -> 0..Grace \cup {NoDeadline}]
                /\ idle \in [Streams -> 0..Grace]
  BY StreamRuntimeAssumption DEF Init
<1>5. Init => pc \in [Threads -> {"idle", "wait", "list", "reconcile", "halt", "report",
                                  "shutdown", "closing", "done"}]
  BY DEF Init, Threads
<1>6. Init => /\ cp \in [Streams -> Listings \cup {Absent}]
              /\ snap \in [Streams -> Listings \cup {Absent}]
  BY DEF Init
<1>7. Init => /\ view \in [Streams -> States \cup {"pending"}]
              /\ past \in [Streams -> {"fresh", "removed", "relisted"}]
              /\ halts \in [Threads -> SUBSET Collectors] /\ todo \in SUBSET Streams
  BY DEF Init
<1>8. Init => ctxDone \in BOOLEAN /\ once \in {"no", "busy", "done"}
  BY DEF Init
<1>9. QED
  BY <1>1, <1>2, <1>3, <1>4, <1>5, <1>6, <1>7, <1>8 DEF TInv, TypeOK, ColOK

LEMMA TypeReconcile ==
  ASSUME TInv, NEW s \in Streams, ReconcileStream(s)
  PROVE  TInv'
<1> DEFINE h == managed[s]
<1> USE StreamRuntimeAssumption
<1>1. /\ h.version \in Nat /\ h.collector \in Collectors \cup {None}
      /\ h.state \in States \cup {"none"} /\ snap[s] \in Listings \cup {Absent}
  BY DEF TInv, TypeOK, Handles
<1>2. ASSUME NEW st \in States, NEW c \in Collectors \cup {None}, NEW v \in Nat
      PROVE  Handle(st, c, v, snap[s]) \in Handles
  BY <1>1 DEF Handle, Handles
<1>3. ASSUME NEW st \in States, Reply(s, st)
      PROVE  /\ out' \in Reports /\ todo' \in SUBSET Streams
             /\ out'.stream \in Streams /\ out'.state \in States /\ out' # NoReport
  BY <1>3 DEF Reply, Report, NoReport, Reports, TInv, TypeOK
<1> USE <1>2, <1>3 DEF TInv, TypeOK, OutOK, SetAt, ClearDeadline, NoDeadline
<1>4. CASE KeepCollector(s)
  <2>1. PICK st \in KeptStates(h) :
          /\ managed' = [managed EXCEPT ![s] = Handle(st, h.collector, h.version, snap[s])]
          /\ Reply(s, st)
    BY <1>4 DEF KeepCollector
  <2>2. st \in States
    BY <2>1, <1>1, <1>4 DEF KeptStates, States
  <2>3. ColOK(col')
    BY <1>4, ColToggled DEF KeepCollector
  <2>4. QED
    BY <1>1, <1>4, <2>1, <2>2, <2>3 DEF KeepCollector, ColOK
<1>5. CASE FactoryFails(s)
  BY <1>1, <1>5 DEF FactoryFails, States, ColOK
<1>6. CASE StartCollector(s)
  <2>1. PICK c \in Collectors :
          /\ managed' = [managed EXCEPT ![s] = Handle("starting", c, h.version + 1, snap[s])]
          /\ col' = [col EXCEPT ![c] =
                       Goroutine("run", s, h.version + 1, LiveGate(snap[s]), FALSE, 0)]
    BY <1>6 DEF StartCollector
  <2>2. ColOK(col')
    <3>1. h.version + 1 \in Nat
      BY <1>1
    <3>2. ColOK([col EXCEPT ![c] = Goroutine("run", s, h.version + 1, LiveGate(snap[s]), FALSE, 0)])
      BY <3>1, ColStarted
    <3>3. QED
      BY <2>1, <3>2
  <2>3. managed' \in [Streams -> Handles]
    BY <1>1, <2>1 DEF States
  <2>4. QED
    BY <1>1, <1>6, <2>2, <2>3 DEF StartCollector, States, ColOK
<1>7. CASE AlreadyStopped(s)
  BY <1>1, <1>7 DEF AlreadyStopped, States, ColOK
<1>8. CASE DrainStream(s)
  <2>1. ColOK(col')
    BY <1>8, ColToggled DEF DrainStream
  <2>2. managed' \in [Streams -> Handles]
    BY <1>1, <1>8 DEF DrainStream, States
  <2>3. drain' \in [Streams -> 0..Grace \cup {NoDeadline}]
    BY <1>8 DEF DrainStream
  <2>4. QED
    BY <1>1, <1>8, <2>1, <2>2, <2>3 DEF DrainStream, ColOK, States
<1>9. CASE StopDrained(s)
  <2>1. ColOK(col')
    BY <1>9, ColToggled DEF StopDrained
  <2>2. StoppedHandle(h, snap[s]) \in Handles
    BY <1>1 DEF StoppedHandle, States
  <2>3. QED
    BY <1>1, <1>9, <2>1, <2>2 DEF StopDrained, States, ColOK
<1>10. QED
  BY <1>4, <1>5, <1>6, <1>7, <1>8, <1>9 DEF ReconcileStream

LEMMA TypeCollector ==
  ASSUME TInv, NEW c \in Collectors, Collector(c)
  PROVE  TInv'
<1> DEFINE s == col[c].stream
           h == managed[s]
<1>1. col[c].at # "gone"
  BY DEF Collector, BarStored, RecordStored, RunReturns, RunBreaks, CheckContext,
     ExitUnexpectedly, CollectorReportDelivered, CollectorReportFails
<1>2. s \in Streams /\ h \in Handles
  BY <1>1 DEF TInv, TypeOK, ColOK
<1>3. \A st \in States : \A d \in {None, h.collector} :
        Handle(st, d, h.version, h.listing) \in Handles
  BY <1>2 DEF Handle, Handles
<1>4. ColOK(col) /\ ColOK([col EXCEPT ![c] = Ended(c)])
  BY ColEnded DEF TInv
<1>5. ColOK(AfterReport(c))
  BY <1>1, <1>4, ColAt DEF AfterReport
<1>6. CASE BarStored(c)
  <2>1. ColOK(col')
    BY <1>1, <1>4, <1>6, ColAt DEF BarStored
  <2>2. QED
    BY <1>6, <2>1 DEF BarStored, TInv, TypeOK, OutOK, ColOK
<1>7. CASE RecordStored(c)
  <2>1. ColOK(col')
    <3>1. \/ col' = [col EXCEPT ![c].at = "report"]
          \/ col' = [col EXCEPT ![c].at = "run"]
      BY <1>7 DEF RecordStored
    <3>2. /\ ColOK([col EXCEPT ![c].at = "report"])
          /\ ColOK([col EXCEPT ![c].at = "run"])
      BY <1>1, <1>4, ColAt
    <3>3. QED
      BY <3>1, <3>2
  <2>2. managed' \in [Streams -> Handles]
    BY <1>2, <1>3, <1>7 DEF RecordStored, TInv, TypeOK, States
  <2>3. QED
    BY <1>7, <2>1, <2>2 DEF RecordStored, TInv, TypeOK, OutOK, ColOK
<1>8. CASE RunReturns(c)
  <2>1. ColOK(col')
    BY <1>1, <1>4, <1>8, ColAt DEF RunReturns
  <2>2. QED
    BY <1>8, <2>1 DEF RunReturns, TInv, TypeOK, OutOK, ColOK
<1>9. CASE RunBreaks(c)
  <2>1. ColOK(col')
    BY <1>1, <1>4, <1>9, ColAt DEF RunBreaks
  <2>2. budget' \in 0..Budget
    BY <1>9, StreamRuntimeAssumption DEF RunBreaks, TInv, TypeOK
  <2>3. QED
    BY <1>9, <2>1, <2>2 DEF RunBreaks, TInv, TypeOK, OutOK, ColOK
<1>10. CASE CheckContext(c)
  <2>1. ColOK(col')
    BY <1>1, <1>4, <1>10, ColAt DEF CheckContext
  <2>2. QED
    BY <1>10, <2>1 DEF CheckContext, TInv, TypeOK, OutOK, ColOK
<1>11. CASE ExitUnexpectedly(c)
  <2>1. ColOK(col')
    <3>1. \/ col' = [col EXCEPT ![c].at = "lastreport"]
          \/ col' = [col EXCEPT ![c] = Ended(c)]
      BY <1>11 DEF ExitUnexpectedly
    <3>2. ColOK([col EXCEPT ![c].at = "lastreport"])
      BY <1>1, <1>4, ColAt
    <3>3. QED
      BY <1>4, <3>1, <3>2
  <2>2. managed' \in [Streams -> Handles]
    BY <1>2, <1>3, <1>11 DEF ExitUnexpectedly, TInv, TypeOK, States
  <2>3. QED
    BY <1>11, <2>1, <2>2 DEF ExitUnexpectedly, TInv, TypeOK, OutOK, ColOK
<1>12. CASE CollectorReportDelivered(c)
  <2>1. view' \in [Streams -> States \cup {"pending"}]
    BY <1>2, <1>12 DEF CollectorReportDelivered, SaidBy, States, TInv, TypeOK
  <2>2. QED
    BY <1>5, <1>12, <2>1 DEF CollectorReportDelivered, TInv, TypeOK, OutOK, ColOK
<1>13. CASE CollectorReportFails(c)
  BY <1>5, <1>13 DEF CollectorReportFails, TInv, TypeOK, OutOK, ColOK
<1>14. QED
  BY <1>6, <1>7, <1>8, <1>9, <1>10, <1>11, <1>12, <1>13 DEF Collector

LEMMA TypeStep == TInv /\ [Next]_vars => TInv'
<1> SUFFICES ASSUME TInv, [Next]_vars PROVE TInv'
  OBVIOUS
<1> USE StreamRuntimeAssumption DEF TInv, TypeOK, OutOK, Threads, ColOK, NoReport, Report, SetAt
<1>1. ASSUME NEW s \in Streams, ControlPlaneChanges(s) PROVE TInv'
  BY <1>1 DEF ControlPlaneChanges
<1>2. CASE TickerFires
  BY <1>2 DEF TickerFires
<1>3. ASSUME NEW d \in 1..Grace, ListStreams(d) PROVE TInv'
  BY <1>3 DEF ListStreams, Later, Longer, NoDeadline
<1>4. CASE ListStreamsFails
  BY <1>4 DEF ListStreamsFails
<1>5. ASSUME NEW s \in Streams, ReconcileStream(s) PROVE TInv'
  BY <1>5, TypeReconcile
<1>6. ASSUME NEW s \in Streams, ReportDelivered(s) PROVE TInv'
  BY <1>6 DEF ReportDelivered, Reports
<1>7. CASE ReportFails
  BY <1>7 DEF ReportFails, Reports
<1>8. CASE StopMissing
  BY <1>8 DEF StopMissing, NoHandle, Handle, Handles, NoDeadline
<1>9. CASE HaltsDone
  BY <1>9 DEF HaltsDone
<1>10. CASE RunExits
  BY <1>10 DEF RunExits
<1>11. CASE StopCalled
  BY <1>11 DEF StopCalled
<1>12. ASSUME NEW t \in Threads, NEW c \in Collectors, CancelCollector(t, c) PROVE TInv'
  <2>1. ColOK(col')
    BY <1>12, ColCancelled DEF CancelCollector
  <2>2. QED
    BY <1>12, <2>1 DEF CancelCollector
<1>13. ASSUME NEW t \in Threads, NEW c \in Collectors, StopCollector(t, c) PROVE TInv'
  <2>1. ColOK(col')
    BY <1>13, ColStops DEF StopCollector
  <2>2. halts' \in [Threads -> SUBSET Collectors]
    BY <1>13 DEF StopCollector
  <2>3. QED
    BY <1>13, <2>1, <2>2 DEF StopCollector
<1>14. ASSUME NEW t \in Threads, ShutdownBegins(t) PROVE TInv'
  BY <1>14 DEF ShutdownBegins, NoHandle, Handle, Handles, NoDeadline, Emptied
<1>15. ASSUME NEW t \in Threads, ShutdownEnds(t) PROVE TInv'
  BY <1>15 DEF ShutdownEnds
<1>16. ASSUME NEW t \in Threads, ShutdownSkipped(t) PROVE TInv'
  BY <1>16 DEF ShutdownSkipped
<1>17. ASSUME NEW c \in Collectors, Collector(c) PROVE TInv'
  BY <1>17, TypeCollector
<1>18. CASE UNCHANGED vars
  BY <1>18 DEF vars
<1>19. QED
  BY <1>1, <1>2, <1>3, <1>4, <1>5, <1>6, <1>7, <1>8, <1>9, <1>10, <1>11, <1>12, <1>13,
     <1>14, <1>15, <1>16, <1>17, <1>18
     DEF Next, Reconciler, Halting, Shutdown, Terminated

\* Every variable of the runtime model keeps to its type.
THEOREM TypeCorrect == Spec => []TypeOK
<1>1. TInv => TypeOK
  BY DEF TInv
<1>2. QED
  BY TypeInit, TypeStep, <1>1, PTL DEF Spec

-----------------------------------------------------------------------------
\* Who may stop a collector

\* Every collector is referred to from one place at most: a handle, or the list
\* of those that one of the two threads is about to stop.
OneReference ==
  /\ \A s, r \in Streams :
       (managed[s].collector = managed[r].collector /\ managed[s].collector # None) => s = r
  /\ \A s \in Streams : \A t \in Threads : managed[s].collector \notin halts[t]
  /\ halts["run"] \cap halts["stop"] = {}

SInv == TInv /\ OneReference /\ StopAtMostOnce

LEMMA StopInit == Init => OneReference /\ StopAtMostOnce
BY StreamRuntimeAssumption
   DEF Init, OneReference, StopAtMostOnce, Gone, Goroutine, NoHandle, Handle, Threads

\* A step that adds no reference and calls no Stop().
LEMMA StopFrame ==
  ASSUME SInv, TInv',
         \A s \in Streams : managed'[s].collector \in {managed[s].collector, None},
         halts' = halts,
         \A c \in Collectors : col'[c].stops = col[c].stops
  PROVE  OneReference' /\ StopAtMostOnce'
<1>1. None \notin Collectors
  BY StreamRuntimeAssumption
<1>2. \A t \in Threads : None \notin halts[t]
  BY <1>1 DEF SInv, TInv, TypeOK
<1>3. OneReference'
  BY <1>2 DEF SInv, OneReference
<1>4. StopAtMostOnce'
  BY <1>1 DEF SInv, StopAtMostOnce
<1>5. QED
  BY <1>3, <1>4

LEMMA StopReconcile ==
  ASSUME SInv, TInv', NEW s \in Streams, ReconcileStream(s)
  PROVE  OneReference' /\ StopAtMostOnce'
<1> DEFINE h == managed[s]
<1>1. \A st, v, l : \A c : Handle(st, c, v, l).collector = c
  BY DEF Handle
<1>2. managed \in [Streams -> Handles] /\ col \in [Collectors -> CollectorStates]
      /\ halts \in [Threads -> SUBSET Collectors] /\ None \notin Collectors
  BY StreamRuntimeAssumption DEF SInv, TInv, TypeOK
<1>3. \A c \in Collectors : ToggleGate(s)[c].stops = col[c].stops
  <2>1. managed[s].collector \in Collectors \cup {None}
    BY <1>2 DEF Handles
  <2>2. QED
    BY <1>2, <2>1 DEF ToggleGate, CollectorStates
<1>4. CASE KeepCollector(s)
  <2>1. \A r \in Streams : managed'[r].collector = managed[r].collector
    BY <1>1, <1>2, <1>4 DEF KeepCollector
  <2>2. QED
    BY <1>3, <1>4, <2>1, StopFrame DEF KeepCollector
<1>5. CASE FactoryFails(s)
  <2>1. \A r \in Streams : managed'[r].collector = managed[r].collector
    BY <1>1, <1>2, <1>5 DEF FactoryFails
  <2>2. QED
    BY <1>5, <2>1, StopFrame DEF FactoryFails
<1>6. CASE StartCollector(s)
  <2>1. PICK c \in Collectors :
          /\ Unused(c)
          /\ managed' = [managed EXCEPT ![s] = Handle("starting", c, h.version + 1, snap[s])]
          /\ col' = [col EXCEPT ![c] =
                       Goroutine("run", s, h.version + 1, LiveGate(snap[s]), FALSE, 0)]
    BY <1>6 DEF StartCollector
  <2>2. /\ managed'[s].collector = c /\ col'[c].stops = 0
        /\ \A r \in Streams \ {s} : managed'[r].collector = managed[r].collector
        /\ \A d \in Collectors \ {c} : col'[d].stops = col[d].stops
    BY <1>1, <1>2, <2>1 DEF Goroutine
  <2>3. halts' = halts
    BY <1>6 DEF StartCollector
  <2>4. /\ \A r \in Streams : managed[r].collector # c
        /\ \A t \in Threads : c \notin halts[t]
    BY <2>1 DEF Unused
  <2>5. OneReference'
    BY <2>2, <2>3, <2>4 DEF SInv, OneReference
  <2>6. StopAtMostOnce'
    BY <1>2, <2>2, <2>3, <2>4 DEF SInv, StopAtMostOnce
  <2>7. QED
    BY <2>5, <2>6
<1>7. CASE AlreadyStopped(s)
  <2>1. \A r \in Streams : managed'[r].collector = managed[r].collector
    BY <1>1, <1>2, <1>7 DEF AlreadyStopped
  <2>2. QED
    BY <1>7, <2>1, StopFrame DEF AlreadyStopped
<1>8. CASE DrainStream(s)
  <2>1. \A r \in Streams : managed'[r].collector = managed[r].collector
    BY <1>1, <1>2, <1>8 DEF DrainStream
  <2>2. QED
    BY <1>3, <1>8, <2>1, StopFrame DEF DrainStream
<1>9. CASE StopDrained(s)
  <2>1. /\ managed'[s].collector = None
        /\ \A r \in Streams \ {s} : managed'[r].collector = managed[r].collector
        /\ \A d \in Collectors : col'[d].stops = col[d].stops
    BY <1>1, <1>2, <1>3, <1>9 DEF StopDrained, StoppedHandle
  <2>2. halts'["run"] = {h.collector} /\ halts'["stop"] = halts["stop"]
    BY <1>2, <1>9 DEF StopDrained, Threads
  <2>3. h.collector \in Collectors
    BY <1>2, <1>9 DEF StopDrained, Handles
  <2>4. OneReference'
    BY <1>2, <2>1, <2>2, <2>3 DEF SInv, OneReference, Threads
  <2>5. StopAtMostOnce'
    BY <1>2, <2>1, <2>2, <2>3 DEF SInv, StopAtMostOnce, Threads
  <2>6. QED
    BY <2>4, <2>5
<1>10. QED
  BY <1>4, <1>5, <1>6, <1>7, <1>8, <1>9 DEF ReconcileStream

\* A thread takes over the collectors of the handles it deletes.
LEMMA StopTakeOver ==
  ASSUME SInv, TInv', NEW t \in Threads, NEW S \in SUBSET Streams,
         halts' = [halts EXCEPT ![t] = {managed[s].collector : s \in S} \ {None}],
         \A s \in Streams : managed'[s].collector = IF s \in S THEN None ELSE managed[s].collector,
         col' = col
  PROVE  OneReference' /\ StopAtMostOnce'
<1>1. halts \in [Threads -> SUBSET Collectors] /\ None \notin Collectors
  BY StreamRuntimeAssumption DEF SInv, TInv, TypeOK
<1>2. \A r \in Threads : halts'[r] = IF r = t THEN {managed[s].collector : s \in S} \ {None}
                                    ELSE halts[r]
  BY <1>1
<1>3. OneReference'
  <2>1. \A s, r \in Streams :
          (managed'[s].collector = managed'[r].collector /\ managed'[s].collector # None) => s = r
    BY DEF SInv, OneReference
  <2>2. \A s \in Streams : \A r \in Threads : managed'[s].collector \notin halts'[r]
    BY <1>1, <1>2 DEF SInv, OneReference
  <2>3. halts'["run"] \cap halts'["stop"] = {}
    BY <1>2 DEF SInv, OneReference, Threads
  <2>4. QED
    BY <2>1, <2>2, <2>3 DEF OneReference
<1>4. StopAtMostOnce'
  BY <1>1, <1>2 DEF SInv, StopAtMostOnce
<1>5. QED
  BY <1>3, <1>4

LEMMA StopCollectorActions ==
  ASSUME SInv, TInv', NEW c \in Collectors, Collector(c)
  PROVE  OneReference' /\ StopAtMostOnce'
<1>1. \A st, d, v, l : Handle(st, d, v, l).collector = d
  BY DEF Handle
<1>2. managed \in [Streams -> Handles] /\ col \in [Collectors -> CollectorStates]
  BY DEF SInv, TInv, TypeOK
<1>3. Ended(c).stops = col[c].stops
  BY DEF Ended, Gone, Goroutine
<1>4. /\ halts' = halts
      /\ \A d \in Collectors : col'[d].stops = col[d].stops
  BY <1>2, <1>3
     DEF Collector, BarStored, RecordStored, RunReturns, RunBreaks, CheckContext,
         ExitUnexpectedly, CollectorReportDelivered, CollectorReportFails, AfterReport,
         CollectorStates
<1>5. \A s \in Streams : managed'[s].collector \in {managed[s].collector, None}
  BY <1>1, <1>2
     DEF Collector, BarStored, RecordStored, RunReturns, RunBreaks, CheckContext,
         ExitUnexpectedly, CollectorReportDelivered, CollectorReportFails
<1>6. QED
  BY <1>4, <1>5, StopFrame

LEMMA StopStep == SInv /\ [Next]_vars => SInv'
<1> SUFFICES ASSUME SInv, [Next]_vars PROVE OneReference' /\ StopAtMostOnce'
  BY TypeStep DEF SInv
<1>t. TInv'
  BY TypeStep DEF SInv
<1>0. ASSUME UNCHANGED <<managed, halts, col>> PROVE OneReference' /\ StopAtMostOnce'
  BY <1>0 DEF SInv, OneReference, StopAtMostOnce
<1>1. ASSUME NEW s \in Streams, ControlPlaneChanges(s) PROVE UNCHANGED <<managed, halts, col>>
  BY <1>1 DEF ControlPlaneChanges
<1>2. CASE TickerFires \/ ListStreamsFails \/ ReportFails \/ HaltsDone \/ RunExits \/ StopCalled
  BY <1>0, <1>2 DEF TickerFires, ListStreamsFails, ReportFails, HaltsDone, RunExits, StopCalled
<1>3. ASSUME NEW d \in 1..Grace, ListStreams(d) PROVE UNCHANGED <<managed, halts, col>>
  BY <1>3 DEF ListStreams
<1>4. ASSUME NEW s \in Streams, ReportDelivered(s) PROVE UNCHANGED <<managed, halts, col>>
  BY <1>4 DEF ReportDelivered
<1>5. ASSUME NEW s \in Streams, ReconcileStream(s) PROVE OneReference' /\ StopAtMostOnce'
  BY <1>t, <1>5, StopReconcile
<1>6. CASE StopMissing
  <2> DEFINE missing == {s \in Streams : managed[s] # NoHandle /\ snap[s] = Absent}
  <2>1. /\ halts' = [halts EXCEPT !["run"] = {managed[s].collector : s \in missing} \ {None}]
        /\ managed' = [s \in Streams |-> IF s \in missing THEN NoHandle ELSE managed[s]]
        /\ col' = col
    BY <1>6 DEF StopMissing
  <2>2. NoHandle.collector = None
    BY DEF NoHandle, Handle
  <2>3. QED
    BY <1>t, <2>1, <2>2, StopTakeOver DEF Threads
<1>7. ASSUME NEW t \in Threads, ShutdownBegins(t) PROVE OneReference' /\ StopAtMostOnce'
  <2>1. /\ halts' = [halts EXCEPT ![t] = {managed[s].collector : s \in Streams} \ {None}]
        /\ \A s \in Streams : managed'[s].collector = None
        /\ col' = col
    BY <1>7 DEF ShutdownBegins, Emptied, NoHandle, Handle
  <2>2. QED
    BY <1>t, <2>1, StopTakeOver
<1>8. ASSUME NEW t \in Threads, ShutdownEnds(t) \/ ShutdownSkipped(t)
      PROVE  UNCHANGED <<managed, halts, col>>
  BY <1>8 DEF ShutdownEnds, ShutdownSkipped
<1>9. ASSUME NEW t \in Threads, NEW c \in Collectors, CancelCollector(t, c)
      PROVE  OneReference' /\ StopAtMostOnce'
  <2>1. \A d \in Collectors : col'[d].stops = col[d].stops
    BY <1>9 DEF CancelCollector, SInv, TInv, TypeOK, CollectorStates
  <2>2. QED
    BY <1>t, <1>9, <2>1, StopFrame DEF CancelCollector
<1>10. ASSUME NEW t \in Threads, NEW c \in Collectors, StopCollector(t, c)
       PROVE  OneReference' /\ StopAtMostOnce'
  <2>1. /\ c \in halts[t] /\ managed' = managed
        /\ halts' = [halts EXCEPT ![t] = @ \ {c}]
        /\ col' = [col EXCEPT ![c].stops = @ + 1]
    BY <1>10 DEF StopCollector
  <2>2. /\ \A d \in Collectors \ {c} : col'[d].stops = col[d].stops
        /\ col'[c].stops = col[c].stops + 1
    BY <2>1 DEF SInv, TInv, TypeOK, CollectorStates
  <2>3. \A r \in Threads : halts'[r] = IF r = t THEN halts[r] \ {c} ELSE halts[r]
    BY <2>1 DEF SInv, TInv, TypeOK
  <2>4. \A r \in Threads : c \notin halts'[r]
    BY <2>1, <2>3 DEF SInv, OneReference, Threads
  <2>5. col[c].stops = 0
    BY <2>1 DEF SInv, StopAtMostOnce
  <2>6. \A s \in Streams : managed[s].collector # c
    BY <2>1 DEF SInv, OneReference
  <2>7. OneReference'
    BY <2>1, <2>3 DEF SInv, OneReference, Threads
  <2>8. StopAtMostOnce'
    BY <2>1, <2>2, <2>3, <2>4, <2>5, <2>6 DEF SInv, StopAtMostOnce
  <2>9. QED
    BY <2>7, <2>8
<1>11. ASSUME NEW c \in Collectors, Collector(c) PROVE OneReference' /\ StopAtMostOnce'
  BY <1>t, <1>11, StopCollectorActions
<1>12. CASE UNCHANGED vars
  BY <1>0, <1>12 DEF vars
<1>13. QED
  BY <1>0, <1>1, <1>2, <1>3, <1>4, <1>5, <1>6, <1>7, <1>8, <1>9, <1>10, <1>11, <1>12
     DEF Next, Reconciler, Halting, Shutdown, Terminated

\* No collector is ever Stop()ped twice, whoever stops it.
THEOREM StoppedAtMostOnce == Spec => []StopAtMostOnce
<1>1. Init => SInv
  BY TypeInit, StopInit DEF SInv
<1>2. SInv => StopAtMostOnce
  BY DEF SInv
<1>3. QED
  BY <1>1, <1>2, StopStep, PTL DEF Spec

-----------------------------------------------------------------------------
\* Who may ingest

\* Between its list and the sweep of unlisted streams.
InPass == \/ pc["run"] \in {"reconcile", "report"}
          \/ pc["run"] = "halt" /\ out # NoReport

\* The shutdown runs under a cancelled context, and what is being stopped is
\* stopped before anything else happens.
PhaseInv ==
  /\ (pc["stop"] # "idle" \/ pc["run"] \in {"shutdown", "closing", "done"}) => ctxDone
  /\ ~ctxDone => halts["stop"] = {} /\ (pc["run"] # "halt" => halts["run"] = {})
  /\ pc["run"] \in {"reconcile", "wait", "list"} => out = NoReport

\* What the pass and the handles say of the control plane's past.
ListingInv ==
  /\ \A s \in todo : snap[s] # Absent
  /\ \A s \in Streams :
       /\ past[s] = "fresh" /\ (snap[s] # Absent \/ managed[s] # NoHandle) => cp[s] # Absent
       /\ past[s] = "removed" => cp[s] = Absent
       /\ past[s] = "fresh" /\ managed[s] # NoHandle /\ InPass => snap[s] # Absent

\* The goroutine has not passed the end of runCollector's critical section.
Active(c) == col[c].at \in {"run", "stored", "report", "returned", "exiting"}

\* A version is younger than the handle's unless the collector is the handle's
\* own, or the handle is gone for good.
VersionInv ==
  ~ctxDone =>
    \A c \in Collectors :
      LET s == col[c].stream
      IN  Active(c) /\ ~Relisted(s) =>
            \/ managed[s].collector = c
            \/ col[c].version < managed[s].version
            \/ managed[s] = NoHandle /\ past[s] = "removed" /\ snap[s] = Absent

\* Of each stream, one collector at most is being stopped, and then it was the
\* handle's.
HaltInv ==
  ~ctxDone =>
    \A c \in halts["run"] :
      Ingesting(c) => /\ managed[col[c].stream].collector = None
                      /\ \A d \in halts["run"] :
                           Ingesting(d) /\ col[d].stream = col[c].stream => d = c

LInv == SInv /\ PhaseInv /\ ListingInv /\ NoDeadCollectorKept /\ VersionInv /\ HaltInv /\ NoOrphan

\* What one step of a collector's goroutine may change.
LEMMA CollectorFrame ==
  ASSUME TInv, NEW c \in Collectors, Collector(c)
  PROVE  /\ UNCHANGED <<cp, drain, pc, halts, snap, todo, out, ctxDone, once, idle, past>>
         /\ \A d \in Collectors \ {c} : col'[d] = col[d]
         /\ col[c].at # "gone"
         /\ \/ col'[c].at = "gone"
            \/ /\ col'[c].stream = col[c].stream /\ col'[c].version = col[c].version
               /\ col'[c].cancelled = col[c].cancelled /\ col'[c].gate = col[c].gate
         /\ col'[c].at \in {"run", "stored", "report"} => col[c].at \in {"run", "stored", "report"}
         /\ col'[c].at \in {"returned", "exiting"} =>
              col[c].at \in {"run", "stored", "report", "returned", "exiting"}
<1>1. col \in [Collectors -> CollectorStates] /\ Ended(c).at = "gone"
  BY DEF TInv, TypeOK, Ended, Gone, Goroutine
<1>2. CASE BarStored(c)
  BY <1>1, <1>2 DEF BarStored, CollectorStates
<1>3. CASE RecordStored(c)
  BY <1>1, <1>3 DEF RecordStored, CollectorStates
<1>4. CASE RunReturns(c)
  BY <1>1, <1>4 DEF RunReturns, CollectorStates
<1>5. CASE RunBreaks(c)
  BY <1>1, <1>5 DEF RunBreaks, CollectorStates
<1>6. CASE CheckContext(c)
  BY <1>1, <1>6 DEF CheckContext, CollectorStates
<1>7. CASE ExitUnexpectedly(c)
  BY <1>1, <1>7 DEF ExitUnexpectedly, CollectorStates
<1>8. CASE CollectorReportDelivered(c)
  BY <1>1, <1>8 DEF CollectorReportDelivered, AfterReport, CollectorStates
<1>9. CASE CollectorReportFails(c)
  BY <1>1, <1>9 DEF CollectorReportFails, AfterReport, CollectorStates
<1>10. QED
  BY <1>2, <1>3, <1>4, <1>5, <1>6, <1>7, <1>8, <1>9 DEF Collector

\* What it may change of the handles.
LEMMA CollectorHandles ==
  ASSUME TInv, NEW c \in Collectors, Collector(c)
  PROVE  /\ \A s \in Streams :
              \/ managed'[s] = managed[s]
              \/ /\ s = col[c].stream /\ managed[s] # NoHandle
                 /\ managed'[s].version = managed[s].version
                 /\ \/ managed'[s].collector = managed[s].collector
                    \/ /\ managed'[s].collector = None
                       /\ managed[s].version = col[c].version
                       /\ col[c].at = "exiting" /\ col'[c].at = "lastreport"
         /\ col'[c].at = "gone" =>
              \/ Cancelled(c)
              \/ col[c].at = "lastreport"
              \/ col[c].at = "exiting" /\ ~OwnsHandle(managed[col[c].stream], c)
         /\ col'[c].at = "lastreport" => managed'[col[c].stream].collector = None
<1>0. col[c].stream \in Streams
  BY CollectorFrame DEF TInv, ColOK
<1>1. /\ managed \in [Streams -> Handles] /\ col \in [Collectors -> CollectorStates]
      /\ \A st, d, v, l : Handle(st, d, v, l).collector = d /\ Handle(st, d, v, l).version = v
  BY DEF TInv, TypeOK, Handle
<1>2. CASE RecordStored(c)
  <2>1. col'[c].at \in {"report", "run"}
    BY <1>1, <1>2 DEF RecordStored, CollectorStates
  <2>2. QED
    BY <1>1, <1>2, <2>1 DEF RecordStored, IsCurrent
<1>3. CASE ExitUnexpectedly(c)
  <2>1. CASE OwnsHandle(managed[col[c].stream], c)
    <3>1. /\ col'[c].at = "lastreport" /\ col[c].at = "exiting"
          /\ managed' = [managed EXCEPT ![col[c].stream] =
               Handle("error", None, managed[col[c].stream].version, managed[col[c].stream].listing)]
      BY <1>1, <1>3, <2>1 DEF ExitUnexpectedly, CollectorStates
    <3>2. QED
      BY <1>0, <1>1, <2>1, <3>1 DEF OwnsHandle, IsCurrent
  <2>2. CASE ~OwnsHandle(managed[col[c].stream], c)
    <3>1. /\ managed' = managed /\ col' = [col EXCEPT ![c] = Ended(c)]
          /\ col[c].at = "exiting" /\ Ended(c).at = "gone"
      BY <1>3, <2>2 DEF ExitUnexpectedly, Ended, Gone, Goroutine
    <3>2. QED
      BY <1>1, <2>2, <3>1
  <2>3. QED
    BY <2>1, <2>2
<1>4. CASE \/ BarStored(c) \/ RunReturns(c) \/ RunBreaks(c) \/ CheckContext(c)
           \/ CollectorReportDelivered(c) \/ CollectorReportFails(c)
  <2>1. managed' = managed
    BY <1>4 DEF BarStored, RunReturns, RunBreaks, CheckContext,
       CollectorReportDelivered, CollectorReportFails
  <2>2. /\ col'[c].at = "gone" => Cancelled(c) \/ col[c].at = "lastreport"
        /\ col'[c].at # "lastreport"
    BY <1>1, <1>4 DEF Ended, Gone, Goroutine, BarStored, RunReturns, RunBreaks, CheckContext,
       CollectorReportDelivered, CollectorReportFails, AfterReport, CollectorStates
  <2>3. QED
    BY <2>1, <2>2
<1>5. QED
  BY <1>2, <1>3, <1>4 DEF Collector

\* What one reconcileStream may change.
LEMMA ReconcileFrame ==
  ASSUME TInv, NEW s \in Streams, ReconcileStream(s)
  PROVE  /\ UNCHANGED <<cp, snap, ctxDone, past>>
         /\ pc["run"] = "reconcile" /\ s \in todo /\ todo' = todo \ {s}
         /\ pc' = [pc EXCEPT !["run"] = pc'["run"]] /\ pc'["run"] \in {"report", "halt"}
         /\ out' # NoReport
         /\ \A r \in Streams \ {s} : managed'[r] = managed[r]
         /\ \/ halts' = halts
            \/ StopDrained(s) /\ pc'["run"] = "halt"
         /\ pc'["run"] = "halt" => StopDrained(s)
<1>1. \A st : Report(s, st) # NoReport
  BY StreamRuntimeAssumption DEF Report, NoReport
<1>2. managed \in [Streams -> Handles] /\ pc \in [Threads -> {"idle", "wait", "list",
        "reconcile", "halt", "report", "shutdown", "closing", "done"}]
  BY DEF TInv, TypeOK
<1>3. CASE KeepCollector(s)
  BY <1>1, <1>2, <1>3 DEF KeepCollector, Turn, Reply, SetAt, Threads
<1>4. CASE FactoryFails(s)
  BY <1>1, <1>2, <1>4 DEF FactoryFails, Turn, Reply, SetAt, Threads
<1>5. CASE StartCollector(s)
  BY <1>1, <1>2, <1>5 DEF StartCollector, Turn, Reply, SetAt, Threads
<1>6. CASE AlreadyStopped(s)
  BY <1>1, <1>2, <1>6 DEF AlreadyStopped, Turn, Reply, SetAt, Threads
<1>7. CASE DrainStream(s)
  BY <1>1, <1>2, <1>7 DEF DrainStream, Turn, Reply, SetAt, Threads
<1>8. CASE StopDrained(s)
  BY <1>1, <1>2, <1>8 DEF StopDrained, Turn, Reply, SetAt, Threads
<1>9. QED
  BY <1>3, <1>4, <1>5, <1>6, <1>7, <1>8 DEF ReconcileStream

\* What it does to the stream's own handle and to the collectors.
LEMMA ReconcileHandle ==
  ASSUME TInv, NEW s \in Streams, ReconcileStream(s)
  PROVE  LET h == managed[s]
             k == managed'[s]
             Same == \A d \in Collectors :
                       /\ col'[d].at = col[d].at /\ col'[d].stream = col[d].stream
                       /\ col'[d].version = col[d].version
                       /\ col'[d].cancelled = col[d].cancelled
         IN  \/ /\ k.collector = h.collector /\ k.version = h.version
                /\ Same /\ halts' = halts /\ ~StopDrained(s)
             \/ /\ h.collector = None /\ k.version = h.version + 1
                /\ \E c \in Collectors :
                     /\ Unused(c) /\ k.collector = c
                     /\ col'[c].at = "run" /\ col'[c].stream = s
                     /\ col'[c].version = h.version + 1 /\ col'[c].cancelled = FALSE
                     /\ \A d \in Collectors \ {c} : col'[d] = col[d]
                /\ halts' = halts /\ ~StopDrained(s)
             \/ /\ h.collector # None /\ k.collector = None /\ k.version = h.version + 1
                /\ halts' = [halts EXCEPT !["run"] = {h.collector}]
                /\ Same /\ StopDrained(s)
<1> DEFINE h == managed[s]
<1>1. \A st, d, v, l : Handle(st, d, v, l).collector = d /\ Handle(st, d, v, l).version = v
  BY DEF Handle
<1>2. managed \in [Streams -> Handles] /\ col \in [Collectors -> CollectorStates]
  BY DEF TInv, TypeOK
<1>3. \A d \in Collectors :
        /\ ToggleGate(s)[d].at = col[d].at /\ ToggleGate(s)[d].stream = col[d].stream
        /\ ToggleGate(s)[d].version = col[d].version
        /\ ToggleGate(s)[d].cancelled = col[d].cancelled
  <2>1. h.collector \in Collectors \cup {None}
    BY <1>2 DEF Handles
  <2>2. QED
    BY <1>2, <2>1 DEF ToggleGate, CollectorStates
<1>4. ASSUME KeepCollector(s) \/ DrainStream(s)
      PROVE  /\ managed'[s].collector = h.collector /\ managed'[s].version = h.version
             /\ col' = ToggleGate(s) /\ halts' = halts
             /\ ShouldRun(snap[s]) \/ StillDraining(drain[s])
  BY <1>1, <1>2, <1>4 DEF KeepCollector, DrainStream
<1>5. ASSUME FactoryFails(s) \/ AlreadyStopped(s)
      PROVE  /\ managed'[s].collector = h.collector /\ managed'[s].version = h.version
             /\ col' = col /\ halts' = halts /\ h.collector = None
  BY <1>1, <1>2, <1>5 DEF FactoryFails, AlreadyStopped
<1>6. CASE StartCollector(s)
  <2>1. PICK c \in Collectors :
          /\ Unused(c)
          /\ managed' = [managed EXCEPT ![s] = Handle("starting", c, h.version + 1, snap[s])]
          /\ col' = [col EXCEPT ![c] =
                       Goroutine("run", s, h.version + 1, LiveGate(snap[s]), FALSE, 0)]
    BY <1>6 DEF StartCollector
  <2>2. /\ managed'[s].collector = c /\ managed'[s].version = h.version + 1
        /\ col'[c].at = "run" /\ col'[c].stream = s
        /\ col'[c].version = h.version + 1 /\ col'[c].cancelled = FALSE
        /\ \A d \in Collectors \ {c} : col'[d] = col[d]
    BY <1>1, <1>2, <2>1 DEF Goroutine
  <2>3. halts' = halts /\ h.collector = None /\ ~StopDrained(s)
    BY <1>6 DEF StartCollector, StopDrained
  <2>4. QED
    BY <2>1, <2>2, <2>3
<1>7. CASE StopDrained(s)
  <2>1. /\ h.collector # None
        /\ managed' = [managed EXCEPT ![s] = Handle("stopped", None, h.version + 1, snap[s])]
        /\ halts' = [halts EXCEPT !["run"] = {h.collector}]
        /\ col' = ToggleGate(s)
    BY <1>7 DEF StopDrained, StoppedHandle
  <2>2. managed'[s].collector = None /\ managed'[s].version = h.version + 1
    BY <1>1, <1>2, <2>1
  <2>3. QED
    BY <1>3, <1>7, <2>1, <2>2
<1>8. CASE KeepCollector(s) \/ DrainStream(s)
  BY <1>3, <1>4, <1>8 DEF StopDrained
<1>9. CASE FactoryFails(s) \/ AlreadyStopped(s)
  BY <1>5, <1>9 DEF StopDrained
<1>10. QED
  BY <1>6, <1>7, <1>8, <1>9 DEF ReconcileStream

LEMMA LInit == Init => LInv
<1>1. Init => SInv
  BY TypeInit, StopInit DEF SInv
<1>2. ASSUME Init PROVE PhaseInv /\ ListingInv /\ NoDeadCollectorKept
  BY <1>2 DEF Init, PhaseInv, ListingInv, NoDeadCollectorKept, Threads, InPass, NoHandle, Handle
<1>3. ASSUME Init PROVE \A c \in Collectors : col[c].at = "gone"
  BY <1>3 DEF Init, Gone, Goroutine
<1>4. ASSUME Init PROVE VersionInv /\ HaltInv /\ NoOrphan
  BY <1>3, <1>4 DEF Init, VersionInv, HaltInv, NoOrphan, Active, Ingesting, Threads
<1>5. QED
  BY <1>1, <1>2, <1>4 DEF LInv

LEMMA PhaseStep == LInv /\ [Next]_vars => PhaseInv'
<1> SUFFICES ASSUME LInv, [Next]_vars PROVE PhaseInv'
  OBVIOUS
<1>0. /\ PhaseInv /\ TInv
      /\ pc \in [Threads -> {"idle", "wait", "list", "reconcile", "halt", "report",
                             "shutdown", "closing", "done"}]
      /\ halts \in [Threads -> SUBSET Collectors]
  BY DEF LInv, SInv, TInv, TypeOK
<1> USE DEF Threads
<1>1. ASSUME NEW s \in Streams, ControlPlaneChanges(s) PROVE PhaseInv'
  BY <1>0, <1>1 DEF ControlPlaneChanges, PhaseInv
<1>2. CASE TickerFires \/ ListStreamsFails \/ ReportFails \/ HaltsDone \/ RunExits \/ StopCalled
  BY <1>0, <1>2
     DEF TickerFires, ListStreamsFails, ReportFails, HaltsDone, RunExits, StopCalled, SetAt, PhaseInv
<1>3. ASSUME NEW d \in 1..Grace, ListStreams(d) PROVE PhaseInv'
  BY <1>0, <1>3 DEF ListStreams, SetAt, PhaseInv
<1>4. ASSUME NEW s \in Streams, ReportDelivered(s) PROVE PhaseInv'
  BY <1>0, <1>4 DEF ReportDelivered, SetAt, PhaseInv
<1>5. ASSUME NEW s \in Streams, ReconcileStream(s) PROVE PhaseInv'
  <2>1. /\ UNCHANGED ctxDone /\ pc["run"] = "reconcile"
        /\ pc' = [pc EXCEPT !["run"] = pc'["run"]] /\ pc'["run"] \in {"report", "halt"}
        /\ halts' = halts \/ (StopDrained(s) /\ pc'["run"] = "halt")
        /\ pc'["run"] = "halt" => StopDrained(s)
    BY <1>0, <1>5, ReconcileFrame
  <2>2. StopDrained(s) => halts'["stop"] = halts["stop"]
    BY <1>0 DEF StopDrained
  <2>3. pc'["stop"] = pc["stop"]
    BY <1>0, <2>1
  <2>4. QED
    BY <1>0, <2>1, <2>2, <2>3 DEF PhaseInv
<1>6. CASE StopMissing
  <2>1. /\ UNCHANGED <<ctxDone, out>> /\ pc["run"] = "reconcile"
        /\ pc' = [pc EXCEPT !["run"] = "halt"] /\ halts'["stop"] = halts["stop"]
    BY <1>0, <1>6 DEF StopMissing, SetAt
  <2>2. QED
    BY <1>0, <2>1 DEF PhaseInv
<1>7. ASSUME NEW t \in Threads, ShutdownBegins(t) PROVE PhaseInv'
  <2>1. UNCHANGED <<ctxDone, out>> /\ pc[t] = "shutdown" /\ pc' = [pc EXCEPT ![t] = "closing"]
    BY <1>7 DEF ShutdownBegins, SetAt
  <2>2. ctxDone
    BY <1>0, <2>1 DEF PhaseInv
  <2>3. QED
    BY <1>0, <2>1, <2>2 DEF PhaseInv
<1>8. ASSUME NEW t \in Threads, ShutdownEnds(t) \/ ShutdownSkipped(t) PROVE PhaseInv'
  <2>1. /\ UNCHANGED <<ctxDone, out>> /\ pc[t] \in {"shutdown", "closing"}
        /\ pc' = [pc EXCEPT ![t] = "done"]
    BY <1>8 DEF ShutdownEnds, ShutdownSkipped, SetAt
  <2>2. ctxDone
    BY <1>0, <2>1 DEF PhaseInv
  <2>3. QED
    BY <1>0, <2>1, <2>2 DEF PhaseInv
<1>9. ASSUME NEW t \in Threads, NEW c \in Collectors, CancelCollector(t, c) PROVE PhaseInv'
  BY <1>0, <1>9 DEF CancelCollector, PhaseInv
<1>10. ASSUME NEW t \in Threads, NEW c \in Collectors, StopCollector(t, c) PROVE PhaseInv'
  <2>1. /\ UNCHANGED <<ctxDone, out, pc>>
        /\ \A r \in Threads : halts'[r] \subseteq halts[r]
    BY <1>0, <1>10 DEF StopCollector
  <2>2. QED
    BY <1>0, <2>1 DEF PhaseInv
<1>11. ASSUME NEW c \in Collectors, Collector(c) PROVE PhaseInv'
  BY <1>0, <1>11, CollectorFrame DEF PhaseInv
<1>12. CASE UNCHANGED vars
  BY <1>0, <1>12 DEF vars, PhaseInv
<1>13. QED
  BY <1>1, <1>2, <1>3, <1>4, <1>5, <1>6, <1>7, <1>8, <1>9, <1>10, <1>11, <1>12
     DEF Next, Reconciler, Halting, Shutdown, Terminated

LEMMA ListingStep == LInv /\ [Next]_vars => ListingInv'
<1> SUFFICES ASSUME LInv, [Next]_vars PROVE ListingInv'
  OBVIOUS
<1>0. /\ ListingInv /\ PhaseInv /\ TInv /\ todo \in SUBSET Streams
      /\ pc \in [Threads -> {"idle", "wait", "list", "reconcile", "halt", "report",
                             "shutdown", "closing", "done"}]
      /\ managed \in [Streams -> Handles] /\ past \in [Streams -> {"fresh", "removed", "relisted"}]
      /\ cp \in [Streams -> Listings \cup {Absent}]
  BY DEF LInv, SInv, TInv, TypeOK
<1> USE DEF Threads
<1>a. ASSUME UNCHANGED <<todo, snap, cp, past>>, InPass' => InPass,
             \A s \in Streams : managed'[s] # NoHandle => managed[s] # NoHandle
      PROVE  ListingInv'
  BY <1>0, <1>a DEF ListingInv
<1>1. ASSUME NEW s \in Streams, ControlPlaneChanges(s) PROVE ListingInv'
  <2>1. /\ UNCHANGED <<todo, snap, managed, pc, out>>
        /\ \A r \in Streams \ {s} : cp'[r] = cp[r] /\ past'[r] = past[r]
        /\ cp'[s] # cp[s]
        /\ past'[s] = IF cp'[s] = Absent THEN IF past[s] = "fresh" THEN "removed" ELSE past[s]
                      ELSE IF past[s] = "removed" THEN "relisted" ELSE past[s]
    BY <1>0, <1>1 DEF ControlPlaneChanges
  <2>2. QED
    BY <1>0, <2>1 DEF ListingInv, InPass
<1>2. CASE TickerFires \/ ListStreamsFails \/ ReportFails \/ HaltsDone \/ RunExits \/ StopCalled
  <2>1. InPass' => InPass
    BY <1>0, <1>2 DEF TickerFires, ListStreamsFails, ReportFails, HaltsDone, RunExits,
       StopCalled, SetAt, InPass
  <2>2. QED
    BY <1>2, <1>a, <2>1
       DEF TickerFires, ListStreamsFails, ReportFails, HaltsDone, RunExits, StopCalled
<1>3. ASSUME NEW d \in 1..Grace, ListStreams(d) PROVE ListingInv'
  <2>1. /\ UNCHANGED <<cp, past, managed>> /\ snap' = cp
        /\ todo' = {s \in Streams : cp[s] # Absent}
    BY <1>3 DEF ListStreams
  <2>2. QED
    BY <1>0, <2>1 DEF ListingInv
<1>4. ASSUME NEW s \in Streams, ReportDelivered(s) PROVE ListingInv'
  <2>1. InPass' => InPass
    BY <1>0, <1>4 DEF ReportDelivered, SetAt, InPass
  <2>2. QED
    BY <1>4, <1>a, <2>1 DEF ReportDelivered
<1>5. ASSUME NEW s \in Streams, ReconcileStream(s) PROVE ListingInv'
  <2>1. /\ UNCHANGED <<cp, snap, past>> /\ pc["run"] = "reconcile"
        /\ s \in todo /\ todo' = todo \ {s}
        /\ \A r \in Streams \ {s} : managed'[r] = managed[r]
    BY <1>0, <1>5, ReconcileFrame
  <2>2. InPass
    BY <2>1 DEF InPass
  <2>3. QED
    BY <1>0, <2>1, <2>2 DEF ListingInv
<1>6. CASE StopMissing
  <2>1. /\ UNCHANGED <<cp, past, out, todo>> /\ pc["run"] = "reconcile" /\ todo = {}
        /\ pc' = [pc EXCEPT !["run"] = "halt"]
        /\ snap' = [s \in Streams |-> Absent]
        /\ \A s \in Streams : managed'[s] # NoHandle => managed[s] # NoHandle
    BY <1>6 DEF StopMissing, SetAt
  <2>2. ~InPass'
    BY <1>0, <2>1 DEF InPass, PhaseInv
  <2>3. QED
    BY <1>0, <2>1, <2>2 DEF ListingInv
<1>7. ASSUME NEW t \in Threads, ShutdownBegins(t) PROVE ListingInv'
  <2>1. /\ UNCHANGED <<cp, past, out, todo, snap>> /\ pc' = [pc EXCEPT ![t] = "closing"]
        /\ \A s \in Streams : managed'[s] = NoHandle
    BY <1>7 DEF ShutdownBegins, SetAt, Emptied
  <2>2. InPass' => InPass
    BY <1>0, <2>1 DEF InPass
  <2>3. QED
    BY <1>a, <2>1, <2>2
<1>8. ASSUME NEW t \in Threads, ShutdownEnds(t) \/ ShutdownSkipped(t) PROVE ListingInv'
  <2>1. UNCHANGED <<cp, past, out, todo, snap, managed>> /\ pc' = [pc EXCEPT ![t] = "done"]
    BY <1>8 DEF ShutdownEnds, ShutdownSkipped, SetAt
  <2>2. InPass' => InPass
    BY <1>0, <2>1 DEF InPass
  <2>3. QED
    BY <1>a, <2>1, <2>2
<1>9. ASSUME NEW t \in Threads, NEW c \in Collectors,
             CancelCollector(t, c) \/ StopCollector(t, c)
      PROVE  ListingInv'
  BY <1>9, <1>a DEF CancelCollector, StopCollector, InPass
<1>10. ASSUME NEW c \in Collectors, Collector(c) PROVE ListingInv'
  <2>1. UNCHANGED <<cp, snap, todo, past, pc, out>>
    BY <1>0, <1>10, CollectorFrame
  <2>2. \A s \in Streams : managed'[s] # NoHandle => managed[s] # NoHandle
    BY <1>0, <1>10, CollectorHandles
  <2>3. QED
    BY <1>a, <2>1, <2>2 DEF InPass
<1>11. CASE UNCHANGED vars
  BY <1>11, <1>a DEF vars, InPass
<1>12. QED
  BY <1>1, <1>2, <1>3, <1>4, <1>5, <1>6, <1>7, <1>8, <1>9, <1>10, <1>11
     DEF Next, Reconciler, Halting, Shutdown, Terminated

LEMMA OwnStep == LInv /\ [Next]_vars => NoDeadCollectorKept'
<1> SUFFICES ASSUME LInv, [Next]_vars PROVE NoDeadCollectorKept'
  OBVIOUS
<1>0. /\ NoDeadCollectorKept /\ OneReference /\ TInv /\ None \notin Collectors
      /\ col \in [Collectors -> CollectorStates]
      /\ \A s \in Streams : managed[s].collector \in Collectors \cup {None}
  BY StreamRuntimeAssumption DEF LInv, SInv, TInv, TypeOK, Handles
<1> DEFINE Kept(c) == /\ col'[c].at = col[c].at /\ col'[c].stream = col[c].stream
                      /\ col'[c].version = col[c].version
                      /\ col'[c].cancelled = col[c].cancelled
<1>a. ASSUME ctxDone => ctxDone',
             \A s \in Streams :
               \/ managed'[s].collector = None
               \/ /\ managed'[s].collector = managed[s].collector
                  /\ managed'[s].version = managed[s].version
                  /\ Kept(managed[s].collector)
      PROVE  NoDeadCollectorKept'
  BY <1>0, <1>a DEF NoDeadCollectorKept
<1>1. ASSUME UNCHANGED <<managed, col>>, ctxDone => ctxDone' PROVE NoDeadCollectorKept'
  BY <1>1, <1>a
<1>2. ASSUME NEW s \in Streams, ControlPlaneChanges(s) \/ ReportDelivered(s)
      PROVE  NoDeadCollectorKept'
  BY <1>1, <1>2 DEF ControlPlaneChanges, ReportDelivered
<1>3. CASE TickerFires \/ ListStreamsFails \/ ReportFails \/ HaltsDone \/ RunExits \/ StopCalled
  BY <1>1, <1>3
     DEF TickerFires, ListStreamsFails, ReportFails, HaltsDone, RunExits, StopCalled
<1>4. ASSUME NEW d \in 1..Grace, ListStreams(d) PROVE NoDeadCollectorKept'
  BY <1>1, <1>4 DEF ListStreams
<1>5. ASSUME NEW s \in Streams, ReconcileStream(s) PROVE NoDeadCollectorKept'
  <2> DEFINE h == managed[s]
  <2>1. /\ ctxDone' = ctxDone
        /\ \A r \in Streams \ {s} : managed'[r] = managed[r]
    BY <1>0, <1>5, ReconcileFrame
  <2>2. CASE /\ managed'[s].collector = h.collector /\ managed'[s].version = h.version
             /\ \A d \in Collectors : Kept(d)
    <3>1. \A r \in Streams :
            /\ managed'[r].collector = managed[r].collector
            /\ managed'[r].version = managed[r].version
            /\ managed[r].collector # None => Kept(managed[r].collector)
      BY <1>0, <2>1, <2>2
    <3>2. QED
      BY <1>a, <2>1, <3>1
  <2>3. ASSUME NEW c \in Collectors, Unused(c), managed'[s].collector = c,
               managed'[s].version = h.version + 1, col'[c].at = "run", col'[c].stream = s,
               col'[c].version = h.version + 1, col'[c].cancelled = FALSE,
               \A d \in Collectors \ {c} : col'[d] = col[d]
        PROVE  NoDeadCollectorKept'
    <3>1. \A r \in Streams : managed[r].collector # c
      BY <2>3 DEF Unused
    <3>2. \A r \in Streams \ {s} :
            /\ managed'[r] = managed[r]
            /\ managed[r].collector # None => col'[managed[r].collector] = col[managed[r].collector]
      BY <1>0, <2>1, <2>3, <3>1
    <3>3. QED
      BY <1>0, <2>1, <2>3, <3>2 DEF NoDeadCollectorKept
  <2>4. CASE managed'[s].collector = None /\ \A d \in Collectors : Kept(d)
    <3>1. \A r \in Streams \ {s} :
            /\ managed'[r] = managed[r]
            /\ managed[r].collector # None => Kept(managed[r].collector)
      BY <1>0, <2>1, <2>4
    <3>2. QED
      BY <1>a, <2>1, <2>4, <3>1
  <2>5. QED
    BY <1>0, <1>5, <2>2, <2>3, <2>4, ReconcileHandle
<1>6. CASE StopMissing
  <2>1. /\ UNCHANGED <<col, ctxDone>>
        /\ \A s \in Streams : managed'[s] = NoHandle \/ managed'[s] = managed[s]
    BY <1>6 DEF StopMissing
  <2>2. NoHandle.collector = None
    BY DEF NoHandle, Handle
  <2>3. QED
    BY <1>a, <2>1, <2>2
<1>7. ASSUME NEW t \in Threads, ShutdownBegins(t) PROVE NoDeadCollectorKept'
  BY <1>7 DEF ShutdownBegins, Emptied, NoHandle, Handle, NoDeadCollectorKept
<1>8. ASSUME NEW t \in Threads, ShutdownEnds(t) \/ ShutdownSkipped(t) PROVE NoDeadCollectorKept'
  BY <1>1, <1>8 DEF ShutdownEnds, ShutdownSkipped
<1>9. ASSUME NEW t \in Threads, NEW c \in Collectors,
             CancelCollector(t, c) \/ StopCollector(t, c)
      PROVE  NoDeadCollectorKept'
  <2>1. /\ UNCHANGED <<managed, ctxDone>> /\ c \in halts[t]
        /\ \A d \in Collectors \ {c} : col'[d] = col[d]
    BY <1>0, <1>9 DEF CancelCollector, StopCollector
  <2>2. \A s \in Streams : managed[s].collector # c
    BY <1>0, <2>1 DEF OneReference
  <2>3. \A s \in Streams : managed[s].collector = None \/ Kept(managed[s].collector)
    BY <1>0, <2>1, <2>2
  <2>4. QED
    BY <1>a, <2>1, <2>3
<1>10. ASSUME NEW c \in Collectors, Collector(c) PROVE NoDeadCollectorKept'
  <2>1. /\ ctxDone' = ctxDone
        /\ \A d \in Collectors \ {c} : col'[d] = col[d]
    BY <1>0, <1>10, CollectorFrame
  <2>2. ASSUME NEW s \in Streams, managed'[s].collector = c, ~ctxDone
        PROVE  /\ col'[c].at \notin {"gone", "lastreport"} /\ ~col'[c].cancelled
               /\ col'[c].stream = s /\ col'[c].version = managed'[s].version
    <3>1. managed[s].collector = c /\ managed'[s].version = managed[s].version
      BY <1>0, <1>10, <2>2, CollectorHandles
    <3>2. /\ col[c].at \notin {"gone", "lastreport"} /\ ~col[c].cancelled
          /\ col[c].stream = s /\ col[c].version = managed[s].version
      BY <1>0, <2>2, <3>1 DEF NoDeadCollectorKept
    <3>3. OwnsHandle(managed[s], c) /\ ~Cancelled(c)
      BY <1>0, <2>2, <3>1, <3>2 DEF OwnsHandle, IsCurrent, Cancelled, NoHandle, Handle
    <3>4. col'[c].at \notin {"gone", "lastreport"}
      BY <1>0, <1>10, <2>2, <3>2, <3>3, CollectorHandles
    <3>5. QED
      BY <1>0, <1>10, <3>1, <3>2, <3>4, CollectorFrame
  <2>3. ASSUME NEW s \in Streams, managed'[s].collector # c, managed'[s].collector # None, ~ctxDone
        PROVE  LET d == managed'[s].collector
               IN  /\ col'[d].at \notin {"gone", "lastreport"} /\ ~col'[d].cancelled
                   /\ col'[d].stream = s /\ col'[d].version = managed'[s].version
    <3>1. /\ managed'[s].collector = managed[s].collector
          /\ managed'[s].version = managed[s].version
      BY <1>0, <1>10, <2>3, CollectorHandles
    <3>2. QED
      BY <1>0, <2>1, <2>3, <3>1 DEF NoDeadCollectorKept
  <2>4. QED
    BY <1>0, <2>1, <2>2, <2>3 DEF NoDeadCollectorKept
<1>11. CASE UNCHANGED vars
  BY <1>1, <1>11 DEF vars
<1>12. QED
  BY <1>2, <1>3, <1>4, <1>5, <1>6, <1>7, <1>8, <1>9, <1>10, <1>11
     DEF Next, Reconciler, Halting, Shutdown, Terminated

\* Only the collector a handle holds can take itself out of that handle.
LEMMA OwnExit ==
  ASSUME LInv, ~ctxDone, NEW c \in Collectors, Collector(c), NEW s \in Streams,
         ~Relisted(s), managed'[s].collector # managed[s].collector
  PROVE  managed[s].collector = c /\ ~Active(c)'
<1>1. TInv /\ VersionInv
  BY DEF LInv, SInv
<1>2. /\ s = col[c].stream /\ managed[s] # NoHandle
      /\ managed[s].version = col[c].version
      /\ col[c].at = "exiting" /\ col'[c].at = "lastreport"
  BY <1>1, CollectorHandles
<1>3. col[c].version \in Nat
  BY <1>1 DEF TInv, TypeOK, CollectorStates
<1>4. QED
  BY <1>1, <1>2, <1>3 DEF VersionInv, Active

LEMMA VersionStep == LInv /\ [Next]_vars => VersionInv'
<1> SUFFICES ASSUME LInv, [Next]_vars PROVE VersionInv'
  OBVIOUS
<1>0. /\ VersionInv /\ NoDeadCollectorKept /\ ListingInv /\ PhaseInv /\ TInv /\ None \notin Collectors
      /\ col \in [Collectors -> CollectorStates]
      /\ \A c \in Collectors : col[c].version \in Nat
      /\ \A c \in Collectors : Active(c) => col[c].stream \in Streams
      /\ \A s \in Streams : managed[s].collector \in Collectors \cup {None} /\ managed[s].version \in Nat
      /\ past \in [Streams -> {"fresh", "removed", "relisted"}]
      /\ cp \in [Streams -> Listings \cup {Absent}]
  BY StreamRuntimeAssumption DEF LInv, SInv, TInv, TypeOK, Handles, CollectorStates, ColOK, Active
<1> DEFINE Kept(c) == Active(c)' => /\ Active(c) /\ col'[c].stream = col[c].stream
                                    /\ col'[c].version = col[c].version
<1>a. ASSUME UNCHANGED <<managed, past, snap>>, ctxDone => ctxDone',
             \A c \in Collectors : Kept(c)
      PROVE  VersionInv'
  BY <1>0, <1>a DEF VersionInv, Relisted
<1>1. ASSUME UNCHANGED <<managed, past, snap, col>>, ctxDone => ctxDone' PROVE VersionInv'
  BY <1>1, <1>a DEF Active
<1>2. ASSUME NEW s \in Streams, ControlPlaneChanges(s) PROVE VersionInv'
  <2>1. /\ UNCHANGED <<managed, snap, col, ctxDone>>
        /\ \A r \in Streams \ {s} : past'[r] = past[r]
        /\ cp'[s] # cp[s]
        /\ past'[s] = IF cp'[s] = Absent THEN IF past[s] = "fresh" THEN "removed" ELSE past[s]
                      ELSE IF past[s] = "removed" THEN "relisted" ELSE past[s]
    BY <1>0, <1>2 DEF ControlPlaneChanges
  <2>2. \A r \in Streams : ~Relisted(r)' => /\ ~Relisted(r)
                                            /\ past[r] = "removed" => past'[r] = "removed"
    BY <1>0, <2>1 DEF Relisted, ListingInv
  <2>3. \A c \in Collectors : Active(c)' = Active(c)
    BY <2>1 DEF Active
  <2>4. QED
    BY <1>0, <2>1, <2>2, <2>3 DEF VersionInv
<1>3. CASE TickerFires \/ ListStreamsFails \/ ReportFails \/ HaltsDone \/ RunExits \/ StopCalled
  BY <1>1, <1>3
     DEF TickerFires, ListStreamsFails, ReportFails, HaltsDone, RunExits, StopCalled
<1>4. ASSUME NEW s \in Streams, ReportDelivered(s) PROVE VersionInv'
  BY <1>1, <1>4 DEF ReportDelivered
<1>5. ASSUME NEW d \in 1..Grace, ListStreams(d) PROVE VersionInv'
  <2>1. UNCHANGED <<managed, past, col, ctxDone>> /\ snap' = cp
    BY <1>5 DEF ListStreams
  <2>2. \A s \in Streams : past[s] = "removed" => snap'[s] = Absent
    BY <1>0, <2>1 DEF ListingInv
  <2>3. \A c \in Collectors : Active(c)' = Active(c)
    BY <2>1 DEF Active
  <2>4. QED
    BY <1>0, <2>1, <2>2, <2>3 DEF VersionInv, Relisted
<1>6. ASSUME NEW s \in Streams, ReconcileStream(s) PROVE VersionInv'
  <2> DEFINE h == managed[s]
             Same(d) == /\ col'[d].at = col[d].at /\ col'[d].stream = col[d].stream
                        /\ col'[d].version = col[d].version
             Placed(d) == LET r == col'[d].stream
                          IN  \/ managed'[r].collector = d
                              \/ col'[d].version < managed'[r].version
                              \/ managed'[r] = NoHandle /\ past[r] = "removed" /\ snap'[r] = Absent
  <2>1. /\ UNCHANGED <<ctxDone, past, snap>> /\ s \in todo
        /\ \A r \in Streams \ {s} : managed'[r] = managed[r]
    BY <1>0, <1>6, ReconcileFrame
  <2>2. snap[s] # Absent
    BY <1>0, <2>1 DEF ListingInv
  <2>3. ASSUME NEW d \in Collectors, Same(d), Active(d)', ~ctxDone, ~Relisted(col'[d].stream),
               col[d].stream # s
        PROVE  Placed(d)
    <3>1. Active(d) /\ col[d].stream \in Streams
      BY <1>0, <2>3 DEF Active
    <3>2. managed'[col[d].stream] = managed[col[d].stream]
      BY <2>1, <2>3, <3>1
    <3>3. QED
      BY <1>0, <2>1, <2>3, <3>1, <3>2 DEF VersionInv
  <2>4. ASSUME NEW d \in Collectors, Same(d), Active(d)', ~ctxDone, ~Relisted(col'[d].stream),
               col[d].stream = s
        PROVE  h.collector = d \/ col[d].version < h.version
    BY <1>0, <2>2, <2>4 DEF VersionInv, Active
  <2>5. CASE /\ managed'[s].collector = h.collector /\ managed'[s].version = h.version
             /\ \A d \in Collectors : Same(d)
    BY <2>1, <2>3, <2>4, <2>5 DEF VersionInv, Relisted
  <2>6. ASSUME h.collector = None, NEW c \in Collectors, managed'[s].collector = c,
               managed'[s].version = h.version + 1, col'[c].stream = s,
               \A d \in Collectors \ {c} : col'[d] = col[d]
        PROVE  VersionInv'
    <3>1. ASSUME NEW d \in Collectors, d # c, Active(d)', ~ctxDone, ~Relisted(col'[d].stream)
          PROVE  Placed(d)
      <4>1. CASE col[d].stream # s
        BY <2>3, <2>6, <3>1, <4>1
      <4>2. CASE col[d].stream = s
        <5>1. col[d].version < h.version
          BY <1>0, <2>4, <2>6, <3>1, <4>2
        <5>2. col'[d].stream = s /\ col'[d].version < managed'[s].version
          BY <1>0, <2>6, <3>1, <4>2, <5>1
        <5>3. QED
          BY <5>2
      <4>3. QED
        BY <4>1, <4>2
    <3>2. Placed(c)
      BY <2>6
    <3>3. QED
      BY <2>1, <3>1, <3>2 DEF VersionInv, Relisted
  <2>7. ASSUME managed'[s].version = h.version + 1, \A d \in Collectors : Same(d)
        PROVE  VersionInv'
    <3>1. ASSUME NEW d \in Collectors, Active(d)', ~ctxDone, ~Relisted(col'[d].stream)
          PROVE  Placed(d)
      <4>1. CASE col[d].stream # s
        BY <2>3, <2>7, <3>1, <4>1
      <4>2. CASE col[d].stream = s
        <5>1. h.collector = d => col[d].version = h.version
          BY <1>0, <3>1 DEF NoDeadCollectorKept
        <5>2. col[d].version <= h.version
          BY <1>0, <2>4, <2>7, <3>1, <4>2, <5>1
        <5>3. col'[d].stream = s /\ col'[d].version < managed'[s].version
          BY <1>0, <2>7, <3>1, <4>2, <5>2
        <5>4. QED
          BY <5>3
      <4>3. QED
        BY <4>1, <4>2
    <3>2. QED
      BY <2>1, <3>1 DEF VersionInv, Relisted
  <2>8. QED
    BY <1>0, <1>6, <2>5, <2>6, <2>7, ReconcileHandle
<1>7. CASE StopMissing
  <2>1. /\ UNCHANGED <<col, ctxDone, past>> /\ pc["run"] = "reconcile"
        /\ \A s \in Streams : snap'[s] = Absent
        /\ \A s \in Streams : \/ managed'[s] = managed[s]
                              \/ managed'[s] = NoHandle /\ managed[s] # NoHandle /\ snap[s] = Absent
    BY <1>7 DEF StopMissing
  <2>2. \A s \in Streams : managed'[s] # managed[s] /\ ~Relisted(s) => past[s] = "removed"
    BY <1>0, <2>1 DEF ListingInv, InPass, Relisted
  <2>3. \A c \in Collectors : Active(c)' = Active(c)
    BY <2>1 DEF Active
  <2>4. QED
    BY <1>0, <2>1, <2>2, <2>3 DEF VersionInv, Relisted
<1>8. ASSUME NEW t \in Threads, ShutdownBegins(t) PROVE VersionInv'
  <2>1. ctxDone'
    BY <1>0, <1>8 DEF ShutdownBegins, PhaseInv, Threads
  <2>2. QED
    BY <2>1 DEF VersionInv
<1>9. ASSUME NEW t \in Threads, ShutdownEnds(t) \/ ShutdownSkipped(t) PROVE VersionInv'
  BY <1>1, <1>9 DEF ShutdownEnds, ShutdownSkipped
<1>10. ASSUME NEW t \in Threads, NEW c \in Collectors,
              CancelCollector(t, c) \/ StopCollector(t, c)
       PROVE  VersionInv'
  <2>1. \A d \in Collectors : Kept(d)
    BY <1>0, <1>10 DEF CancelCollector, StopCollector, Active, CollectorStates
  <2>2. QED
    BY <1>10, <1>a, <2>1 DEF CancelCollector, StopCollector
<1>11. ASSUME NEW c \in Collectors, Collector(c) PROVE VersionInv'
  <2>1. /\ UNCHANGED <<ctxDone, past, snap>>
        /\ \A d \in Collectors \ {c} : col'[d] = col[d]
        /\ Kept(c)
    BY <1>0, <1>11, CollectorFrame DEF Active
  <2>2. \A d \in Collectors : Kept(d)
    BY <2>1 DEF Active
  <2>3. \A s \in Streams : /\ managed'[s].version = managed[s].version
                           /\ managed[s] = NoHandle => managed'[s] = NoHandle
    BY <1>0, <1>11, CollectorHandles
  <2>4. \A s \in Streams : ~ctxDone /\ ~Relisted(s) /\ managed'[s].collector # managed[s].collector
                             => managed[s].collector = c /\ ~Active(c)'
    BY <1>11, OwnExit
  <2>5. QED
    BY <1>0, <2>1, <2>2, <2>3, <2>4 DEF VersionInv, Relisted
<1>12. CASE UNCHANGED vars
  BY <1>1, <1>12 DEF vars
<1>13. QED
  BY <1>2, <1>3, <1>4, <1>5, <1>6, <1>7, <1>8, <1>9, <1>10, <1>11, <1>12
     DEF Next, Reconciler, Halting, Shutdown, Terminated

LEMMA HaltStep == LInv /\ [Next]_vars => HaltInv'
<1> SUFFICES ASSUME LInv, [Next]_vars PROVE HaltInv'
  OBVIOUS
<1>0. /\ HaltInv /\ NoDeadCollectorKept /\ PhaseInv /\ TInv /\ None \notin Collectors
      /\ col \in [Collectors -> CollectorStates] /\ halts \in [Threads -> SUBSET Collectors]
      /\ \A s \in Streams : managed[s].collector \in Collectors \cup {None}
      /\ \A c \in Collectors : Ingesting(c) => col[c].stream \in Streams
  BY StreamRuntimeAssumption DEF LInv, SInv, TInv, TypeOK, Handles, ColOK, Ingesting
<1> DEFINE Kept(c) == Ingesting(c)' => Ingesting(c) /\ col'[c].stream = col[c].stream
<1>a. ASSUME ctxDone => ctxDone', halts'["run"] \subseteq halts["run"],
             \A s \in Streams : managed'[s].collector \in {managed[s].collector, None},
             \A c \in Collectors : Kept(c)
      PROVE  HaltInv'
  <2>1. ASSUME NEW c \in halts'["run"], Ingesting(c)', ~ctxDone
        PROVE  /\ managed'[col'[c].stream].collector = None
               /\ \A d \in halts'["run"] :
                    Ingesting(d)' /\ col'[d].stream = col'[c].stream => d = c
    BY <1>0, <1>a, <2>1 DEF HaltInv, Threads
  <2>2. QED
    BY <1>a, <2>1 DEF HaltInv
<1>1. ASSUME UNCHANGED <<managed, halts, col>>, ctxDone => ctxDone' PROVE HaltInv'
  BY <1>1, <1>a DEF Ingesting, Cancelled
<1>2. ASSUME NEW s \in Streams, ControlPlaneChanges(s) \/ ReportDelivered(s) PROVE HaltInv'
  BY <1>1, <1>2 DEF ControlPlaneChanges, ReportDelivered
<1>3. CASE TickerFires \/ ListStreamsFails \/ ReportFails \/ HaltsDone \/ RunExits \/ StopCalled
  BY <1>1, <1>3
     DEF TickerFires, ListStreamsFails, ReportFails, HaltsDone, RunExits, StopCalled
<1>4. ASSUME NEW d \in 1..Grace, ListStreams(d) PROVE HaltInv'
  BY <1>1, <1>4 DEF ListStreams
<1>5. ASSUME NEW s \in Streams, ReconcileStream(s) PROVE HaltInv'
  <2>1. ctxDone' = ctxDone /\ (~ctxDone => halts["run"] = {})
    BY <1>0, <1>5, ReconcileFrame DEF PhaseInv
  <2>2. CASE halts' = halts
    BY <2>1, <2>2 DEF HaltInv
  <2>3. ASSUME managed[s].collector # None, managed'[s].collector = None,
               halts' = [halts EXCEPT !["run"] = {managed[s].collector}],
               \A d \in Collectors : col'[d].stream = col[d].stream
        PROVE  HaltInv'
    <3>1. halts'["run"] = {managed[s].collector} /\ managed[s].collector \in Collectors
      BY <1>0, <2>3 DEF Threads
    <3>2. ~ctxDone => col'[managed[s].collector].stream = s
      BY <1>0, <2>3, <3>1 DEF NoDeadCollectorKept
    <3>3. QED
      BY <2>1, <2>3, <3>1, <3>2 DEF HaltInv
  <2>4. QED
    BY <1>0, <1>5, <2>2, <2>3, ReconcileHandle
<1>6. CASE StopMissing
  <2> DEFINE missing == {s \in Streams : managed[s] # NoHandle /\ snap[s] = Absent}
  <2>1. /\ UNCHANGED <<col, ctxDone>>
        /\ halts'["run"] = {managed[s].collector : s \in missing} \ {None}
        /\ managed' = [s \in Streams |-> IF s \in missing THEN NoHandle ELSE managed[s]]
    BY <1>0, <1>6 DEF StopMissing, Threads
  <2>2. \A s \in missing : managed'[s].collector = None
    BY <2>1 DEF NoHandle, Handle
  <2>3. \A c \in halts'["run"] : ~ctxDone => \E s \in missing : /\ c = managed[s].collector
                                                                  /\ col[c].stream = s
    BY <1>0, <2>1 DEF NoDeadCollectorKept
  <2>4. QED
    BY <2>1, <2>2, <2>3 DEF HaltInv
<1>7. ASSUME NEW t \in Threads, ShutdownBegins(t) PROVE HaltInv'
  <2>1. ctxDone'
    BY <1>0, <1>7 DEF ShutdownBegins, PhaseInv, Threads
  <2>2. QED
    BY <2>1 DEF HaltInv
<1>8. ASSUME NEW t \in Threads, ShutdownEnds(t) \/ ShutdownSkipped(t) PROVE HaltInv'
  BY <1>1, <1>8 DEF ShutdownEnds, ShutdownSkipped
<1>9. ASSUME NEW t \in Threads, NEW c \in Collectors,
             CancelCollector(t, c) \/ StopCollector(t, c)
      PROVE  HaltInv'
  <2>1. UNCHANGED <<managed, ctxDone>> /\ halts'["run"] \subseteq halts["run"]
    BY <1>0, <1>9 DEF CancelCollector, StopCollector, Threads
  <2>2. \A d \in Collectors : Kept(d)
    BY <1>0, <1>9 DEF CancelCollector, StopCollector, Ingesting, Cancelled, CollectorStates
  <2>3. QED
    BY <1>a, <2>1, <2>2
<1>10. ASSUME NEW c \in Collectors, Collector(c) PROVE HaltInv'
  <2>1. /\ UNCHANGED <<ctxDone, halts>>
        /\ \A d \in Collectors \ {c} : col'[d] = col[d]
        /\ Kept(c)
    BY <1>0, <1>10, CollectorFrame DEF Ingesting, Cancelled
  <2>2. \A d \in Collectors : Kept(d)
    BY <2>1 DEF Ingesting, Cancelled
  <2>3. \A s \in Streams : managed'[s].collector \in {managed[s].collector, None}
    BY <1>0, <1>10, CollectorHandles
  <2>4. QED
    BY <1>a, <2>1, <2>2, <2>3
<1>11. CASE UNCHANGED vars
  BY <1>1, <1>11 DEF vars
<1>12. QED
  BY <1>2, <1>3, <1>4, <1>5, <1>6, <1>7, <1>8, <1>9, <1>10, <1>11
     DEF Next, Reconciler, Halting, Shutdown, Terminated

LEMMA OrphanStep == LInv /\ [Next]_vars => NoOrphan'
<1> SUFFICES ASSUME LInv, [Next]_vars PROVE NoOrphan'
  OBVIOUS
<1>0. /\ NoOrphan /\ OneReference /\ PhaseInv /\ TInv /\ None \notin Collectors
      /\ col \in [Collectors -> CollectorStates] /\ halts \in [Threads -> SUBSET Collectors]
      /\ \A s \in Streams : managed[s].collector \in Collectors \cup {None}
      /\ \A c \in Collectors : Ingesting(c) => col[c].stream \in Streams
      /\ past \in [Streams -> {"fresh", "removed", "relisted"}]
  BY StreamRuntimeAssumption DEF LInv, SInv, TInv, TypeOK, Handles, ColOK, Ingesting
<1> DEFINE Held(c) == \/ managed'[col'[c].stream].collector = c
                      \/ \E t \in Threads : c \in halts'[t]
           Kept(c) == Ingesting(c)' => Ingesting(c) /\ col'[c].stream = col[c].stream
<1>a. ASSUME UNCHANGED <<managed, halts, past>>, \A c \in Collectors : Kept(c) PROVE NoOrphan'
  BY <1>0, <1>a DEF NoOrphan, Relisted
<1>1. ASSUME UNCHANGED <<managed, halts, col, past>>, ctxDone => ctxDone' PROVE NoOrphan'
  BY <1>1, <1>a DEF Ingesting, Cancelled
<1>2. ASSUME NEW s \in Streams, ControlPlaneChanges(s) PROVE NoOrphan'
  <2>1. UNCHANGED <<managed, halts, col, ctxDone>>
    BY <1>2 DEF ControlPlaneChanges
  <2>2. \A r \in Streams : Relisted(r) => Relisted(r)'
    BY <1>0, <1>2 DEF ControlPlaneChanges, Relisted
  <2>3. QED
    BY <1>0, <2>1, <2>2 DEF NoOrphan, Ingesting, Cancelled
<1>3. CASE TickerFires \/ ListStreamsFails \/ ReportFails \/ HaltsDone \/ RunExits \/ StopCalled
  BY <1>1, <1>3
     DEF TickerFires, ListStreamsFails, ReportFails, HaltsDone, RunExits, StopCalled
<1>4. ASSUME NEW s \in Streams, ReportDelivered(s) PROVE NoOrphan'
  BY <1>1, <1>4 DEF ReportDelivered
<1>5. ASSUME NEW d \in 1..Grace, ListStreams(d) PROVE NoOrphan'
  BY <1>1, <1>5 DEF ListStreams
<1>6. ASSUME NEW s \in Streams, ReconcileStream(s) PROVE NoOrphan'
  <2> DEFINE h == managed[s]
             Same(d) == /\ col'[d].at = col[d].at /\ col'[d].stream = col[d].stream
                        /\ col'[d].cancelled = col[d].cancelled
  <2>1. /\ UNCHANGED <<ctxDone, past>> /\ (~ctxDone => halts["run"] = {})
        /\ \A r \in Streams \ {s} : managed'[r] = managed[r]
    BY <1>0, <1>6, ReconcileFrame DEF PhaseInv
  <2>2. ASSUME NEW d \in Collectors, Same(d), Ingesting(d)', ~Relisted(col'[d].stream)
        PROVE  /\ ~ctxDone /\ col'[d].stream = col[d].stream /\ col[d].stream \in Streams
               /\ managed[col[d].stream].collector = d \/ d \in halts["stop"]
    <3>1. Ingesting(d)
      BY <2>1, <2>2 DEF Ingesting, Cancelled
    <3>2. QED
      BY <1>0, <2>1, <2>2, <3>1 DEF NoOrphan, Ingesting, Cancelled, Threads
  <2>3. CASE /\ managed'[s].collector = h.collector /\ halts' = halts
             /\ \A d \in Collectors : Same(d)
    <3>1. \A r \in Streams : managed'[r].collector = managed[r].collector
      BY <2>1, <2>3
    <3>2. QED
      BY <2>1, <2>2, <2>3, <3>1 DEF NoOrphan, Relisted, Threads
  <2>4. ASSUME h.collector = None, halts' = halts,
               NEW c \in Collectors, managed'[s].collector = c, col'[c].stream = s,
               \A d \in Collectors \ {c} : col'[d] = col[d]
        PROVE  NoOrphan'
    <3>1. \A d \in Collectors \ {c} : Ingesting(d)' /\ ~Relisted(col'[d].stream) => Held(d)
      BY <1>0, <2>1, <2>2, <2>4 DEF Threads
    <3>2. Held(c)
      BY <2>4
    <3>3. QED
      BY <2>1, <3>1, <3>2 DEF NoOrphan, Relisted
  <2>5. ASSUME h.collector # None, halts' = [halts EXCEPT !["run"] = {h.collector}],
               \A d \in Collectors : Same(d)
        PROVE  NoOrphan'
    <3>1. halts'["run"] = {h.collector} /\ halts'["stop"] = halts["stop"]
      BY <1>0, <2>5 DEF Threads
    <3>2. \A d \in Collectors : Ingesting(d)' /\ ~Relisted(col'[d].stream) => Held(d)
      BY <2>1, <2>2, <2>5, <3>1 DEF Threads
    <3>3. QED
      BY <2>1, <3>2 DEF NoOrphan, Relisted
  <2>6. QED
    BY <1>0, <1>6, <2>3, <2>4, <2>5, ReconcileHandle
<1>7. CASE StopMissing
  <2> DEFINE missing == {s \in Streams : managed[s] # NoHandle /\ snap[s] = Absent}
  <2>1. /\ UNCHANGED <<col, ctxDone, past>> /\ pc["run"] = "reconcile"
        /\ halts'["run"] = {managed[s].collector : s \in missing} \ {None}
        /\ halts'["stop"] = halts["stop"]
        /\ managed' = [s \in Streams |-> IF s \in missing THEN NoHandle ELSE managed[s]]
    BY <1>0, <1>7 DEF StopMissing, Threads
  <2>2. ~ctxDone => halts["run"] = {}
    BY <1>0, <2>1 DEF PhaseInv
  <2>3. ASSUME NEW c \in Collectors, Ingesting(c)', ~Relisted(col'[c].stream)
        PROVE  Held(c)
    <3>1. Ingesting(c) /\ ~ctxDone /\ ~Relisted(col[c].stream) /\ col[c].stream \in Streams
      BY <1>0, <2>1, <2>3 DEF Ingesting, Cancelled
    <3>2. managed[col[c].stream].collector = c \/ c \in halts["stop"]
      BY <1>0, <2>2, <3>1 DEF NoOrphan, Threads
    <3>3. QED
      BY <1>0, <2>1, <3>1, <3>2 DEF Threads
  <2>4. QED
    BY <2>1, <2>3 DEF NoOrphan, Relisted
<1>8. ASSUME NEW t \in Threads, ShutdownBegins(t) PROVE NoOrphan'
  <2>1. ctxDone'
    BY <1>0, <1>8 DEF ShutdownBegins, PhaseInv, Threads
  <2>2. QED
    BY <2>1 DEF NoOrphan, Ingesting, Cancelled
<1>9. ASSUME NEW t \in Threads, ShutdownEnds(t) \/ ShutdownSkipped(t) PROVE NoOrphan'
  BY <1>1, <1>9 DEF ShutdownEnds, ShutdownSkipped
<1>10. ASSUME NEW t \in Threads, NEW c \in Collectors, CancelCollector(t, c) PROVE NoOrphan'
  <2>1. \A d \in Collectors : Kept(d)
    BY <1>0, <1>10 DEF CancelCollector, Ingesting, Cancelled, CollectorStates
  <2>2. QED
    BY <1>10, <1>a, <2>1 DEF CancelCollector
<1>11. ASSUME NEW t \in Threads, NEW c \in Collectors, StopCollector(t, c) PROVE NoOrphan'
  <2>1. /\ UNCHANGED <<managed, past, ctxDone>> /\ col[c].cancelled
        /\ \A r \in Threads : halts'[r] = IF r = t THEN halts[r] \ {c} ELSE halts[r]
        /\ \A d \in Collectors : /\ col'[d].at = col[d].at /\ col'[d].stream = col[d].stream
                                 /\ col'[d].cancelled = col[d].cancelled
    BY <1>0, <1>11 DEF StopCollector, CollectorStates
  <2>2. \A d \in Collectors : Ingesting(d)' => Ingesting(d) /\ d # c
    BY <2>1 DEF Ingesting, Cancelled
  <2>3. ASSUME NEW d \in Collectors, Ingesting(d)', ~Relisted(col[d].stream)
        PROVE  Held(d)
    <3>1. Ingesting(d) /\ d # c
      BY <2>2, <2>3
    <3>2. managed[col[d].stream].collector = d \/ \E r \in Threads : d \in halts[r]
      BY <1>0, <3>1, <2>3 DEF NoOrphan
    <3>3. QED
      BY <2>1, <3>1, <3>2 DEF Threads
  <2>4. QED
    BY <2>1, <2>3 DEF NoOrphan, Relisted
<1>12. ASSUME NEW c \in Collectors, Collector(c) PROVE NoOrphan'
  <2>1. /\ UNCHANGED <<ctxDone, halts, past>>
        /\ \A d \in Collectors \ {c} : col'[d] = col[d]
        /\ Kept(c)
    BY <1>0, <1>12, CollectorFrame DEF Ingesting, Cancelled
  <2>2. \A d \in Collectors : Kept(d)
    BY <2>1 DEF Ingesting, Cancelled
  <2>3. \A s \in Streams : ~ctxDone /\ ~Relisted(s) /\ managed'[s].collector # managed[s].collector
                             => managed[s].collector = c /\ ~Active(c)'
    BY <1>12, OwnExit
  <2>4. \A d \in Collectors : Ingesting(d)' => Active(d)' /\ ~ctxDone
    BY <2>1 DEF Ingesting, Active, Cancelled
  <2>5. QED
    BY <1>0, <2>1, <2>2, <2>3, <2>4 DEF NoOrphan, Relisted
<1>13. CASE UNCHANGED vars
  BY <1>1, <1>13 DEF vars
<1>14. QED
  BY <1>2, <1>3, <1>4, <1>5, <1>6, <1>7, <1>8, <1>9, <1>10, <1>11, <1>12, <1>13
     DEF Next, Reconciler, Halting, Shutdown, Terminated

LEMMA LStep == LInv /\ [Next]_vars => LInv'
BY StopStep, PhaseStep, ListingStep, OwnStep, VersionStep, HaltStep, OrphanStep DEF LInv

\* A handle never keeps a collector that is over or cancelled.
THEOREM NoDeadCollectors == Spec => []NoDeadCollectorKept
<1>1. LInv => NoDeadCollectorKept
  BY DEF LInv
<1>2. QED
  BY <1>1, LInit, LStep, PTL DEF Spec

\* What ingests can be stopped: a handle or a stopping thread holds it.
THEOREM NoOrphans == Spec => []NoOrphan
<1>1. LInv => NoOrphan
  BY DEF LInv
<1>2. QED
  BY <1>1, LInit, LStep, PTL DEF Spec

\* No two collectors ingest one stream at a time.
THEOREM OneIngests == Spec => []AtMostOneIngesting
<1>1. LInv => AtMostOneIngesting
  <2> SUFFICES ASSUME LInv, NEW c \in Collectors, NEW d \in Collectors,
                      Ingesting(c), Ingesting(d),
                      col[c].stream = col[d].stream, ~Relisted(col[c].stream)
               PROVE  c = d
    BY DEF AtMostOneIngesting
  <2>1. ~ctxDone /\ None \notin Collectors
    BY StreamRuntimeAssumption DEF Ingesting, Cancelled
  <2>2. halts["stop"] = {}
    BY <2>1 DEF LInv, PhaseInv
  <2>3. /\ managed[col[c].stream].collector = c \/ c \in halts["run"]
        /\ managed[col[c].stream].collector = d \/ d \in halts["run"]
    BY <2>2 DEF LInv, NoOrphan, Threads
  <2>4. QED
    BY <2>1, <2>3 DEF LInv, HaltInv
<1>2. QED
  BY <1>1, LInit, LStep, PTL DEF Spec

-----------------------------------------------------------------------------
\* What is published follows the listing

\* While the runtime runs, the gate of a handle's collector is the one that the
\* listing it was last reconciled with asks for.
GateInv ==
  ~ctxDone =>
    \A s \in Streams :
      managed[s].collector # None =>
        col[managed[s].collector].gate = LiveGate(managed[s].listing)

GInv == LInv /\ GateInv

LEMMA GateInit == Init => GInv
<1>1. Init => GateInv
  BY DEF Init, GateInv, NoHandle, Handle
<1> QED
  BY <1>1, LInit DEF GInv

\* A goroutine's step leaves the listing of a handle that keeps its collector.
LEMMA CollectorKeepsListing ==
  ASSUME TInv, NEW c \in Collectors, Collector(c),
         NEW s \in Streams, managed'[s].collector # None
  PROVE  managed'[s].collector = managed[s].collector /\ managed'[s].listing = managed[s].listing
<1>0. /\ managed \in [Streams -> Handles] /\ col[c].stream \in Streams
      /\ \A st, d, v, l : Handle(st, d, v, l).collector = d /\ Handle(st, d, v, l).listing = l
  BY CollectorFrame DEF TInv, TypeOK, ColOK, Handle
<1>1. CASE RecordStored(c)
  BY <1>0, <1>1 DEF RecordStored
<1>2. CASE ExitUnexpectedly(c)
  BY <1>0, <1>2 DEF ExitUnexpectedly
<1>3. CASE managed' = managed
  BY <1>3
<1> QED
  BY <1>1, <1>2, <1>3 DEF Collector, BarStored, RunReturns, RunBreaks, CheckContext,
     CollectorReportDelivered, CollectorReportFails

LEMMA GateStep == GInv /\ [Next]_vars => GInv'
<1> SUFFICES ASSUME GInv, [Next]_vars PROVE GInv'
  OBVIOUS
<1>0. /\ LInv /\ LInv' /\ GateInv /\ TInv /\ None \notin Collectors
      /\ managed \in [Streams -> Handles] /\ col \in [Collectors -> CollectorStates]
      /\ \A s \in Streams : managed[s].collector \in Collectors \cup {None}
      /\ \A st, d, v, l : Handle(st, d, v, l).collector = d /\ Handle(st, d, v, l).listing = l
  BY LStep, StreamRuntimeAssumption DEF GInv, LInv, SInv, TInv, TypeOK, Handles, Handle
<1> SUFFICES GateInv'
  BY <1>0 DEF GInv
<1> DEFINE Kept(s) == managed'[s].collector # None =>
                        /\ managed'[s].collector = managed[s].collector
                        /\ managed'[s].listing = managed[s].listing
                        /\ ~ctxDone' => col'[managed[s].collector].gate = col[managed[s].collector].gate
<1>a. ASSUME ctxDone => ctxDone', \A s \in Streams : Kept(s) PROVE GateInv'
  BY <1>0, <1>a DEF GateInv, LiveGate
<1>b. ASSUME ctxDone => ctxDone', \A s \in Streams : managed'[s] = managed[s] \/ managed'[s] = NoHandle,
             \A c \in Collectors : col'[c].gate = col[c].gate
      PROVE  GateInv'
  BY <1>0, <1>a, <1>b DEF NoHandle
<1>1. CASE UNCHANGED <<managed, col>> /\ (ctxDone => ctxDone')
  BY <1>1, <1>b
<1>2. ASSUME NEW s \in Streams, ReconcileStream(s) PROVE GateInv'
  <2> DEFINE h == managed[s]
  <2>1. /\ ctxDone' = ctxDone /\ \A r \in Streams \ {s} : managed'[r] = managed[r]
    BY <1>0, <1>2, ReconcileFrame
  <2>2. ASSUME \A r \in Streams \ {s} : managed[r].collector # None =>
                 col'[managed[r].collector].gate = col[managed[r].collector].gate,
               ~ctxDone /\ managed'[s].collector # None =>
                 col'[managed'[s].collector].gate = LiveGate(managed'[s].listing)
        PROVE  GateInv'
    BY <1>0, <2>1, <2>2 DEF GateInv, LiveGate
  <2>3. ASSUME col' = ToggleGate(s), h.collector # None,
               managed'[s].collector # None =>
                 managed'[s].collector = h.collector /\ managed'[s].listing = snap[s]
        PROVE  GateInv'
    <3>1. /\ col'[h.collector].gate = LiveGate(snap[s])
          /\ \A c \in Collectors \ {h.collector} : col'[c] = col[c]
      BY <1>0, <2>3 DEF ToggleGate, CollectorStates
    <3>2. \A r \in Streams \ {s} : managed[r].collector # None => managed[r].collector # h.collector
      BY <1>0 DEF LInv, SInv, OneReference
    <3>3. LiveGate(managed'[s].listing) = LiveGate(snap[s]) \/ managed'[s].collector = None
      BY <2>3
    <3> QED
      BY <1>0, <2>2, <2>3, <3>1, <3>2, <3>3
  <2>4. CASE KeepCollector(s) \/ DrainStream(s)
    <3>1. /\ col' = ToggleGate(s) /\ h.collector # None
          /\ managed'[s].collector = h.collector /\ managed'[s].listing = snap[s]
      BY <1>0, <2>4 DEF KeepCollector, DrainStream
    <3> QED
      BY <2>3, <3>1
  <2>5. CASE StopDrained(s)
    <3>1. /\ col' = ToggleGate(s) /\ h.collector # None /\ managed'[s].collector = None
      BY <1>0, <2>5 DEF StopDrained, StoppedHandle
    <3> QED
      BY <2>3, <3>1
  <2>6. CASE FactoryFails(s) \/ AlreadyStopped(s)
    <3>1. col' = col /\ managed'[s].collector = None
      BY <1>0, <2>6 DEF FactoryFails, AlreadyStopped
    <3> QED
      BY <2>2, <3>1
  <2>7. CASE StartCollector(s)
    <3>1. PICK c \in Collectors :
            /\ Unused(c)
            /\ managed' = [managed EXCEPT ![s] = Handle("starting", c, h.version + 1, snap[s])]
            /\ col' = [col EXCEPT ![c] =
                         Goroutine("run", s, h.version + 1, LiveGate(snap[s]), FALSE, 0)]
      BY <2>7 DEF StartCollector
    <3>2. /\ managed'[s].collector = c /\ managed'[s].listing = snap[s]
          /\ col'[c].gate = LiveGate(snap[s]) /\ \A d \in Collectors \ {c} : col'[d] = col[d]
      BY <1>0, <3>1 DEF Goroutine
    <3>3. \A r \in Streams : managed[r].collector # c
      BY <3>1 DEF Unused
    <3>4. LiveGate(managed'[s].listing) = LiveGate(snap[s])
      BY <3>2
    <3> QED
      BY <1>0, <2>2, <3>2, <3>3, <3>4
  <2> QED
    BY <1>2, <2>4, <2>5, <2>6, <2>7 DEF ReconcileStream
<1>3. CASE StopMissing
  <2>1. /\ UNCHANGED <<col, ctxDone>>
        /\ \A s \in Streams : managed'[s] = managed[s] \/ managed'[s] = NoHandle
    BY <1>3 DEF StopMissing
  <2> QED
    BY <1>b, <2>1
<1>4. ASSUME NEW t \in Threads, ShutdownBegins(t) PROVE GateInv'
  <2>1. UNCHANGED <<col, ctxDone>> /\ \A s \in Streams : managed'[s] = NoHandle
    BY <1>4 DEF ShutdownBegins, Emptied
  <2> QED
    BY <1>b, <2>1
<1>5. ASSUME NEW t \in Threads, NEW c \in Collectors, CancelCollector(t, c) \/ StopCollector(t, c)
      PROVE  GateInv'
  <2>1. UNCHANGED <<managed, ctxDone>> /\ \A d \in Collectors : col'[d].gate = col[d].gate
    BY <1>0, <1>5 DEF CancelCollector, StopCollector, CollectorStates
  <2> QED
    BY <1>b, <2>1
<1>6. ASSUME NEW c \in Collectors, Collector(c) PROVE GateInv'
  <2>1. /\ ctxDone' = ctxDone /\ \A d \in Collectors \ {c} : col'[d] = col[d]
        /\ col'[c].at = "gone" \/ col'[c].gate = col[c].gate
    BY <1>0, <1>6, CollectorFrame
  <2>2. ASSUME NEW s \in Streams, managed'[s].collector # None, ~ctxDone'
        PROVE  col'[managed'[s].collector].gate = col[managed'[s].collector].gate
    <3>1. col'[managed'[s].collector].at # "gone"
      BY <1>0, <2>2 DEF LInv, NoDeadCollectorKept
    <3>2. managed'[s].collector \in Collectors
      BY <1>0, <1>6, <2>2, CollectorKeepsListing
    <3> QED
      BY <2>1, <3>1, <3>2
  <2>3. \A s \in Streams : Kept(s)
    BY <1>0, <1>6, <2>2, CollectorKeepsListing
  <2> QED
    BY <1>a, <2>1, <2>3
<1>7. CASE \/ TickerFires \/ ListStreamsFails \/ ReportFails \/ HaltsDone \/ RunExits \/ StopCalled
           \/ (\E s \in Streams : ControlPlaneChanges(s) \/ ReportDelivered(s))
           \/ (\E d \in 1..Grace : ListStreams(d))
           \/ (\E t \in Threads : ShutdownEnds(t) \/ ShutdownSkipped(t))
           \/ UNCHANGED vars
  <2>1. UNCHANGED <<managed, col>> /\ (ctxDone => ctxDone')
    BY <1>7 DEF TickerFires, ListStreamsFails, ReportFails, HaltsDone, RunExits, StopCalled,
       ControlPlaneChanges, ReportDelivered, ListStreams, ShutdownEnds, ShutdownSkipped, vars
  <2> QED
    BY <1>1, <2>1
<1> QED
  BY <1>2, <1>3, <1>4, <1>5, <1>6, <1>7
     DEF Next, Reconciler, Halting, Shutdown, Terminated

\* Whatever ingests publishes to Kafka only as the last listing seen allows.
THEOREM GateFollows == Spec => []GateFollowsListing
<1>1. GInv => GateFollowsListing
  <2> SUFFICES ASSUME GInv, NEW c \in Collectors, Ingesting(c), ~Relisted(col[c].stream),
                      \A t \in Threads : c \notin halts[t]
               PROVE  col[c].gate = LiveGate(managed[col[c].stream].listing)
    BY DEF GateFollowsListing
  <2>1. managed[col[c].stream].collector = c
    BY DEF GInv, LInv, NoOrphan
  <2>2. ~ctxDone /\ c # None /\ col[c].stream \in Streams
    BY StreamRuntimeAssumption DEF Ingesting, Cancelled, GInv, LInv, SInv, TInv, ColOK
  <2> QED
    BY <2>1, <2>2 DEF GInv, GateInv
<1> QED
  BY <1>1, GateInit, GateStep, PTL DEF Spec

-----------------------------------------------------------------------------
\* A drain lasts a whole grace period

\* Streams are left to reconcile only within a pass; and the time left to a deadline and the
\* time for which lists have not wanted the stream add up to a grace period, unless the pass
\* is about to clear the deadline.
DrainInv ==
  /\ ~InPass => todo = {}
  /\ \A s \in Streams :
       drain[s] # NoDeadline =>
         drain[s] + idle[s] >= Grace \/ (s \in todo /\ ShouldRun(snap[s]))

DInv == LInv /\ DrainInv

LEMMA DrainInit == Init => DInv
<1>1. Init => DrainInv
  BY DEF Init, DrainInv
<1> QED
  BY <1>1, LInit DEF DInv

\* A list takes from the deadline what it adds to the time unwanted.
LEMMA ListAges ==
  ASSUME NEW left \in 0..Grace \cup {NoDeadline}, NEW i \in 0..Grace, NEW d \in 1..Grace
  PROVE  /\ Later(left, d) = NoDeadline <=> left = NoDeadline
         /\ Longer(i, d) \in 0..Grace
         /\ left # NoDeadline /\ left + i >= Grace => Later(left, d) + Longer(i, d) >= Grace
<1> USE StreamRuntimeAssumption DEF NoDeadline
<1>1. CASE left = NoDeadline
  BY <1>1 DEF Later, Longer
<1>2. CASE left # NoDeadline
  <2>1. left \in Nat /\ d \in Nat /\ i \in Nat /\ Grace \in Nat
    BY <1>2
  <2>2. /\ Later(left, d) \in Nat /\ Later(left, d) >= left - d
    BY <1>2, <2>1 DEF Later
  <2>3. Longer(i, d) \in 0..Grace /\ (Longer(i, d) = Grace \/ Longer(i, d) = i + d)
    BY <2>1 DEF Longer
  <2> QED
    BY <1>2, <2>1, <2>2, <2>3
<1> QED
  BY <1>1, <1>2

LEMMA DrainStep == DInv /\ [Next]_vars => DInv'
<1> SUFFICES ASSUME DInv, [Next]_vars PROVE DInv'
  OBVIOUS
<1> USE StreamRuntimeAssumption
<1>0. /\ LInv /\ LInv' /\ DrainInv /\ TInv /\ PhaseInv
      /\ drain \in [Streams -> 0..Grace \cup {NoDeadline}] /\ idle \in [Streams -> 0..Grace]
      /\ todo \in SUBSET Streams /\ cp \in [Streams -> Listings \cup {Absent}]
      /\ pc \in [Threads -> {"idle", "wait", "list", "reconcile", "halt", "report",
                             "shutdown", "closing", "done"}]
  BY LStep DEF DInv, LInv, SInv, TInv, TypeOK
<1> SUFFICES DrainInv'
  BY <1>0 DEF DInv
<1>a. ASSUME UNCHANGED <<drain, idle, todo, snap>>, ~InPass' => ~InPass PROVE DrainInv'
  BY <1>0, <1>a DEF DrainInv
<1>1. ASSUME NEW s \in Streams, ControlPlaneChanges(s) PROVE DrainInv'
  BY <1>1, <1>a DEF ControlPlaneChanges, InPass
<1>2. CASE TickerFires \/ ListStreamsFails \/ RunExits
  <2>1. ~InPass /\ UNCHANGED <<drain, idle, todo, snap>>
    BY <1>2 DEF TickerFires, ListStreamsFails, RunExits, InPass
  <2> QED
    BY <1>a, <2>1
<1>3. ASSUME NEW d \in 1..Grace, ListStreams(d) PROVE DrainInv'
  <2>1. /\ pc["run"] = "list" /\ pc'["run"] = "reconcile"
        /\ snap' = cp /\ todo' = {s \in Streams : cp[s] # Absent}
    BY <1>0, <1>3 DEF ListStreams, SetAt, Threads
  <2>2. todo = {} /\ InPass'
    BY <1>0, <2>1 DEF DrainInv, InPass
  <2>3. ASSUME NEW s \in Streams, drain'[s] # NoDeadline, ~ShouldRun(cp[s])
        PROVE  drain'[s] + idle'[s] >= Grace
    <3>1. drain'[s] = Later(drain[s], d) /\ idle'[s] = Longer(idle[s], d)
      BY <1>3, <2>3 DEF ListStreams
    <3>2. drain[s] # NoDeadline
      BY <1>0, <2>3, <3>1, ListAges
    <3>3. drain[s] + idle[s] >= Grace
      BY <1>0, <2>2, <3>2 DEF DrainInv
    <3> QED
      BY <1>0, <3>1, <3>2, <3>3, ListAges
  <2>4. \A s \in Streams : ShouldRun(cp[s]) => cp[s] # Absent
    BY DEF ShouldRun, Absent
  <2> QED
    BY <2>1, <2>2, <2>3, <2>4 DEF DrainInv
<1>4. ASSUME NEW s \in Streams, ReconcileStream(s) PROVE DrainInv'
  <2>1. /\ UNCHANGED <<snap, idle>> /\ s \in todo /\ todo' = todo \ {s} /\ InPass'
    <3>1. UNCHANGED idle
      BY <1>4 DEF ReconcileStream, KeepCollector, FactoryFails, StartCollector, AlreadyStopped,
         DrainStream, StopDrained
    <3> QED
      BY <1>0, <1>4, <3>1, ReconcileFrame DEF InPass
  <2>2. /\ \A r \in Streams \ {s} : drain'[r] = drain[r]
        /\ \/ drain'[s] = NoDeadline
           \/ /\ ~ShouldRun(snap[s])
              /\ drain'[s] = IF drain[s] = NoDeadline THEN Grace ELSE drain[s]
    BY <1>0, <1>4 DEF ReconcileStream, KeepCollector, FactoryFails, StartCollector, AlreadyStopped,
       DrainStream, StopDrained, ClearDeadline
  <2>3. drain'[s] # NoDeadline => drain'[s] + idle[s] >= Grace
    <3>1. idle[s] \in Nat /\ Grace \in Nat /\ Grace + idle[s] >= Grace
      BY <1>0
    <3>2. drain[s] # NoDeadline /\ ~ShouldRun(snap[s]) => drain[s] + idle[s] >= Grace
      BY <1>0 DEF DrainInv
    <3> QED
      BY <2>2, <3>1, <3>2
  <2>4. ASSUME NEW r \in Streams \ {s}, drain'[r] # NoDeadline
        PROVE  drain'[r] + idle'[r] >= Grace \/ (r \in todo' /\ ShouldRun(snap'[r]))
    BY <1>0, <2>1, <2>2, <2>4 DEF DrainInv
  <2> QED
    BY <2>1, <2>3, <2>4 DEF DrainInv
<1>5. CASE ReportFails \/ (\E s \in Streams : ReportDelivered(s))
  <2>1. UNCHANGED <<drain, idle, todo, snap>> /\ pc'["run"] = "reconcile"
    BY <1>0, <1>5 DEF ReportFails, ReportDelivered, SetAt, Threads
  <2> QED
    BY <1>a, <2>1 DEF InPass
<1>6. CASE StopMissing
  <2>1. /\ todo = {} /\ todo' = {} /\ idle' = idle
        /\ \A s \in Streams : drain'[s] = drain[s] \/ drain'[s] = NoDeadline
    BY <1>6 DEF StopMissing
  <2> QED
    BY <1>0, <2>1 DEF DrainInv
<1>7. CASE HaltsDone
  <2>1. /\ UNCHANGED <<drain, idle, todo, snap>> /\ pc["run"] = "halt"
        /\ out # NoReport => pc'["run"] = "report"
    BY <1>0, <1>7 DEF HaltsDone, SetAt, Threads
  <2> QED
    BY <1>a, <2>1 DEF InPass
<1>8. CASE StopCalled
  <2>1. UNCHANGED <<drain, idle, todo, snap, out>> /\ pc'["run"] = pc["run"]
    BY <1>0, <1>8 DEF StopCalled, SetAt, Threads
  <2> QED
    BY <1>a, <2>1 DEF InPass
<1>9. ASSUME NEW t \in Threads, ShutdownBegins(t) PROVE DrainInv'
  <2>1. /\ UNCHANGED <<todo, out>> /\ \A s \in Streams : drain'[s] = NoDeadline
        /\ pc[t] = "shutdown" /\ pc' = [pc EXCEPT ![t] = "closing"]
    BY <1>9 DEF ShutdownBegins, SetAt
  <2>2. InPass => InPass'
    BY <1>0, <2>1 DEF InPass, Threads
  <2> QED
    BY <1>0, <2>1, <2>2 DEF DrainInv
<1>10. ASSUME NEW t \in Threads, ShutdownEnds(t) \/ ShutdownSkipped(t) PROVE DrainInv'
  <2>1. /\ UNCHANGED <<drain, idle, todo, snap, out>> /\ pc[t] \in {"shutdown", "closing"}
        /\ pc' = [pc EXCEPT ![t] = "done"]
    BY <1>10 DEF ShutdownEnds, ShutdownSkipped, SetAt
  <2>2. InPass => InPass'
    BY <1>0, <2>1 DEF InPass, Threads
  <2> QED
    BY <1>a, <2>1, <2>2
<1>11. ASSUME NEW t \in Threads, NEW c \in Collectors, CancelCollector(t, c) \/ StopCollector(t, c)
       PROVE  DrainInv'
  BY <1>11, <1>a DEF CancelCollector, StopCollector, InPass
<1>12. ASSUME NEW c \in Collectors, Collector(c) PROVE DrainInv'
  BY <1>0, <1>12, <1>a, CollectorFrame DEF InPass
<1>13. CASE UNCHANGED vars
  BY <1>13, <1>a DEF vars, InPass
<1> QED
  BY <1>1, <1>2, <1>3, <1>4, <1>5, <1>6, <1>7, <1>8, <1>9, <1>10, <1>11, <1>12, <1>13
     DEF Next, Reconciler, Halting, Shutdown, Terminated

\* Of the steps that take a collector out of a handle, only the end of a drain says "stopped".
LEMMA DrainedBy ==
  ASSUME TInv, [Next]_vars, NEW s \in Streams, managed[s].collector # None,
         managed'[s].collector = None, managed'[s].state = "stopped"
  PROVE  StopDrained(s)
<1>0. /\ managed \in [Streams -> Handles] /\ NoHandle.state = "none"
      /\ \A st, d, v, l : Handle(st, d, v, l).collector = d /\ Handle(st, d, v, l).state = st
  BY DEF TInv, TypeOK, Handle, NoHandle
<1>1. managed' # managed
  OBVIOUS
<1>2. ASSUME NEW r \in Streams, ReconcileStream(r) PROVE StopDrained(s)
  <2>1. s = r
    BY <1>1, <1>2, ReconcileFrame
  <2>2. ~(FactoryFails(s) \/ AlreadyStopped(s))
    BY DEF FactoryFails, AlreadyStopped
  <2>3. ~(KeepCollector(s) \/ DrainStream(s))
    BY <1>0 DEF KeepCollector, DrainStream
  <2>4. ~StartCollector(s)
    BY DEF StartCollector
  <2> QED
    BY <1>2, <2>1, <2>2, <2>3, <2>4 DEF ReconcileStream
<1>3. CASE StopMissing \/ (\E t \in Threads : ShutdownBegins(t))
  <2>1. managed'[s] = managed[s] \/ managed'[s] = NoHandle
    BY <1>3 DEF StopMissing, ShutdownBegins, Emptied
  <2> QED
    BY <1>0, <2>1
<1>4. ASSUME NEW c \in Collectors, Collector(c) PROVE FALSE
  <2>1. CASE ExitUnexpectedly(c)
    BY <1>0, <2>1 DEF ExitUnexpectedly
  <2>2. CASE RecordStored(c)
    BY <1>0, <2>2 DEF RecordStored
  <2> QED
    BY <1>1, <1>4, <2>1, <2>2 DEF Collector, BarStored, RunReturns, RunBreaks, CheckContext,
       CollectorReportDelivered, CollectorReportFails
<1>5. ~ \/ TickerFires \/ ListStreamsFails \/ ReportFails \/ HaltsDone \/ RunExits \/ StopCalled
        \/ (\E r \in Streams : ControlPlaneChanges(r) \/ ReportDelivered(r))
        \/ (\E d \in 1..Grace : ListStreams(d))
        \/ (\E t \in Threads : ShutdownEnds(t) \/ ShutdownSkipped(t))
        \/ (\E t \in Threads, c \in Collectors : CancelCollector(t, c) \/ StopCollector(t, c))
        \/ UNCHANGED vars
  BY <1>1 DEF TickerFires, ListStreamsFails, ReportFails, HaltsDone, RunExits, StopCalled,
     ControlPlaneChanges, ReportDelivered, ListStreams, ShutdownEnds, ShutdownSkipped,
     CancelCollector, StopCollector, vars
<1> QED
  BY <1>2, <1>3, <1>4, <1>5 DEF Next, Reconciler, Halting, Shutdown, Terminated

\* A drain stops the collector of a listed stream only when lists have not wanted the stream
\* for a whole grace period.
THEOREM DrainTakesGrace == Spec => DrainedOnlyAfterGrace
<1>1. ASSUME DInv, [Next]_vars, NEW s \in Streams, managed[s].collector # None,
             managed'[s].collector = None, managed'[s].state = "stopped"
      PROVE  idle[s] = Grace
  <2>1. TInv /\ DrainInv /\ idle[s] \in 0..Grace
    BY <1>1 DEF DInv, LInv, SInv, TInv, TypeOK
  <2>2. StopDrained(s)
    BY <1>1, <2>1, DrainedBy
  <2>3. drain[s] = 0 /\ ~ShouldRun(snap[s])
    BY <2>2 DEF StopDrained, StillDraining
  <2>4. 0 + idle[s] >= Grace
    BY <2>1, <2>3 DEF DrainInv, NoDeadline
  <2> QED
    BY <2>1, <2>4, StreamRuntimeAssumption
<1>2. DInv /\ [Next]_vars =>
        [\A s \in Streams :
           (managed[s].collector # None /\ managed'[s].collector = None
              /\ managed'[s].state = "stopped") => idle[s] = Grace]_vars
  BY <1>1
<1> QED
  BY <1>2, DrainInit, DrainStep, PTL DEF Spec, DrainedOnlyAfterGrace

-----------------------------------------------------------------------------
\* The runtime implements the lifecycle

\* A handle with a collector is in one of the states that have an owner.
OwnedInv ==
  \A s \in Streams :
    managed[s].collector # None => managed[s].state \in {"starting", "running", "draining"}

\* The goroutines that may yet touch their stream's handle: once runCtx is cancelled, those
\* alone that are past the last place where they look at it.
Early(c) == Active(c) /\ (ctxDone => col[c].at \in {"stored", "exiting"})

\* No two of them carry the same version of one stream.
UniqueInv ==
  /\ \A c \in Collectors : Active(c) => col[c].version > 0
  /\ \A c, d \in Collectors :
       (/\ Early(c) /\ Early(d) /\ c # d
        /\ col[c].stream = col[d].stream /\ ~Relisted(col[c].stream)) =>
         col[c].version # col[d].version

\* A bar that counts for a handle is of a handle with a collector, also when the handle was
\* emptied by a shutdown and made anew by the pass in flight; and a drain that is over was
\* not one of a younger collector's handle.
BarInv ==
  \A c \in Collectors :
    LET s == col[c].stream
    IN  col[c].at = "stored" /\ ~Relisted(s) =>
          /\ IsCurrent(managed[s], c) => managed[s].collector # None
          /\ drain[s] = 0 /\ managed[s].collector # None => col[c].version <= managed[s].version

RInv == LInv /\ OwnedInv /\ UniqueInv /\ BarInv

LEMMA RefineInit == Init => RInv
<1> SUFFICES ASSUME Init PROVE RInv
  OBVIOUS
<1>1. \A c \in Collectors : col[c].at = "gone"
  BY DEF Init, Gone, Goroutine
<1>2. UniqueInv /\ BarInv
  BY <1>1 DEF UniqueInv, BarInv, Active, Early
<1>3. OwnedInv
  BY DEF Init, OwnedInv, NoHandle, Handle
<1> QED
  BY <1>2, <1>3, LInit DEF RInv

\* What the control plane has unlisted and listed again stays so.
LEMMA StaysRelisted ==
  ASSUME TInv, [Next]_vars, NEW s \in Streams, Relisted(s)
  PROVE  Relisted(s)'
<1>0. past \in [Streams -> {"fresh", "removed", "relisted"}]
  BY DEF TInv, TypeOK
<1>1. ASSUME NEW r \in Streams, ControlPlaneChanges(r) PROVE Relisted(s)'
  BY <1>0, <1>1 DEF ControlPlaneChanges, Relisted
<1>2. CASE past' = past
  BY <1>2 DEF Relisted
<1>3. ASSUME NEW r \in Streams, ReconcileStream(r) PROVE past' = past
  BY <1>3, ReconcileFrame
<1>4. ASSUME NEW c \in Collectors, Collector(c) PROVE past' = past
  BY <1>4, CollectorFrame
<1>5. ASSUME NEW t \in Threads, Halting(t) \/ Shutdown(t) PROVE past' = past
  BY <1>5 DEF Halting, Shutdown, CancelCollector, StopCollector, ShutdownBegins, ShutdownEnds,
     ShutdownSkipped
<1>6. CASE \/ TickerFires \/ ListStreamsFails \/ ReportFails \/ HaltsDone \/ RunExits
           \/ StopCalled \/ StopMissing \/ UNCHANGED vars
           \/ (\E r \in Streams : ReportDelivered(r)) \/ (\E d \in 1..Grace : ListStreams(d))
  BY <1>2, <1>6 DEF TickerFires, ListStreamsFails, ReportFails, HaltsDone, RunExits, StopCalled,
     StopMissing, vars, ReportDelivered, ListStreams
<1> QED
  BY <1>1, <1>2, <1>3, <1>4, <1>5, <1>6 DEF Next, Reconciler, Terminated

\* How one step of a goroutine moves the collectors: it comes to "stored" or "exiting" only
\* under a context that nobody cancelled.
LEMMA CollectorComes ==
  ASSUME TInv, NEW c \in Collectors, Collector(c), ctxDone, col'[c].at \in {"stored", "exiting"}
  PROVE  FALSE
<1>0. /\ col \in [Collectors -> CollectorStates] /\ Ended(c).at = "gone"
      /\ \A f : col' = [col EXCEPT ![c] = f] => col'[c] = f
  BY DEF TInv, TypeOK, Ended, Gone, Goroutine
<1>1. ~BarStored(c)
  BY DEF BarStored, Cancelled
<1>2. ~CheckContext(c)
  BY <1>0 DEF CheckContext, Cancelled
<1>3. ~(RecordStored(c) \/ RunReturns(c) \/ RunBreaks(c))
  BY <1>0 DEF RecordStored, RunReturns, RunBreaks, CollectorStates
<1>4. ~ExitUnexpectedly(c)
  BY <1>0 DEF ExitUnexpectedly, CollectorStates
<1>5. ~(CollectorReportDelivered(c) \/ CollectorReportFails(c))
  <2>1. ASSUME col' = AfterReport(c) PROVE FALSE
    <3>1. CASE col' = [col EXCEPT ![c].at = "run"]
      BY <1>0, <3>1 DEF CollectorStates
    <3>2. CASE col' = [col EXCEPT ![c] = Ended(c)]
      BY <1>0, <3>2
    <3> QED
      BY <2>1, <3>1, <3>2 DEF AfterReport
  <2> QED
    BY <2>1 DEF CollectorReportDelivered, CollectorReportFails
<1> QED
  BY <1>1, <1>2, <1>3, <1>4, <1>5 DEF Collector

LEMMA OwnedStep == RInv /\ [Next]_vars => OwnedInv'
<1> SUFFICES ASSUME RInv, [Next]_vars, NEW s \in Streams, managed'[s].collector # None
             PROVE  managed'[s].state \in {"starting", "running", "draining"}
  BY DEF OwnedInv
<1>0. /\ TInv /\ managed \in [Streams -> Handles] /\ NoHandle.collector = None
      /\ managed[s].collector # None => managed[s].state \in {"starting", "running", "draining"}
      /\ \A st, d, v, l : Handle(st, d, v, l).collector = d /\ Handle(st, d, v, l).state = st
  BY DEF RInv, OwnedInv, LInv, SInv, TInv, TypeOK, Handle, NoHandle
<1>1. CASE managed'[s] = managed[s]
  BY <1>0, <1>1
<1>2. ASSUME NEW r \in Streams, ReconcileStream(r)
      PROVE  managed'[s].state \in {"starting", "running", "draining"}
  <2>1. CASE r # s
    BY <1>0, <1>1, <1>2, <2>1, ReconcileFrame
  <2>2. CASE KeepCollector(s)
    BY <1>0, <2>2 DEF KeepCollector, KeptStates
  <2>3. CASE DrainStream(s)
    BY <1>0, <2>3 DEF DrainStream
  <2>5. CASE StartCollector(s)
    <3>1. PICK c \in Collectors :
            managed' = [managed EXCEPT ![s] =
                          Handle("starting", c, managed[s].version + 1, snap[s])]
      BY <2>5 DEF StartCollector
    <3> QED
      BY <1>0, <3>1
  <2>4. ~(FactoryFails(s) \/ AlreadyStopped(s) \/ StopDrained(s))
    BY <1>0 DEF FactoryFails, AlreadyStopped, StopDrained, StoppedHandle
  <2> QED
    BY <1>2, <2>1, <2>2, <2>3, <2>5, <2>4 DEF ReconcileStream
<1>3. CASE StopMissing \/ (\E t \in Threads : ShutdownBegins(t))
  <2>1. managed'[s] = managed[s] \/ managed'[s] = NoHandle
    BY <1>3 DEF StopMissing, ShutdownBegins, Emptied
  <2> QED
    BY <1>0, <1>1, <2>1
<1>4. ASSUME NEW c \in Collectors, Collector(c)
      PROVE  managed'[s].state \in {"starting", "running", "draining"}
  <2>1. CASE RecordStored(c)
    BY <1>0, <1>1, <2>1 DEF RecordStored
  <2>2. CASE ExitUnexpectedly(c)
    BY <1>0, <1>1, <2>2 DEF ExitUnexpectedly
  <2> QED
    BY <1>1, <1>4, <2>1, <2>2 DEF Collector, BarStored, RunReturns, RunBreaks, CheckContext,
       CollectorReportDelivered, CollectorReportFails
<1>5. CASE UNCHANGED managed
  BY <1>1, <1>5
<1>6. CASE \/ TickerFires \/ ListStreamsFails \/ ReportFails \/ HaltsDone \/ RunExits \/ StopCalled
           \/ (\E r \in Streams : ControlPlaneChanges(r) \/ ReportDelivered(r))
           \/ (\E d \in 1..Grace : ListStreams(d))
           \/ (\E t \in Threads : ShutdownEnds(t) \/ ShutdownSkipped(t))
           \/ (\E t \in Threads, c \in Collectors : CancelCollector(t, c) \/ StopCollector(t, c))
           \/ UNCHANGED vars
  BY <1>5, <1>6 DEF TickerFires, ListStreamsFails, ReportFails, HaltsDone, RunExits, StopCalled,
     ControlPlaneChanges, ReportDelivered, ListStreams, ShutdownEnds, ShutdownSkipped,
     CancelCollector, StopCollector, vars
<1> QED
  BY <1>2, <1>3, <1>4, <1>6 DEF Next, Reconciler, Halting, Shutdown, Terminated

LEMMA UniqueStep == RInv /\ [Next]_vars => UniqueInv'
<1> SUFFICES ASSUME RInv, [Next]_vars PROVE UniqueInv'
  OBVIOUS
<1>0. /\ TInv /\ UniqueInv /\ VersionInv /\ ListingInv /\ None \notin Collectors
      /\ col \in [Collectors -> CollectorStates]
      /\ \A c \in Collectors : col[c].version \in Nat
      /\ \A c \in Collectors : Active(c) => col[c].stream \in Streams
      /\ \A s \in Streams : managed[s].version \in Nat
  BY StreamRuntimeAssumption
     DEF RInv, LInv, SInv, TInv, TypeOK, CollectorStates, ColOK, Active, Handles
<1> DEFINE Kept(c) == /\ Active(c)' => Active(c) /\ col'[c].version = col[c].version
                      /\ Early(c)' => /\ Early(c) /\ col'[c].stream = col[c].stream
<1>a. ASSUME \A c \in Collectors : Kept(c) PROVE UniqueInv'
  <2>1. \A c \in Collectors : Active(c)' => col'[c].version > 0
    BY <1>0, <1>a DEF UniqueInv
  <2>2. ASSUME NEW c \in Collectors, NEW d \in Collectors, Early(c)', Early(d)', c # d,
               col'[c].stream = col'[d].stream, ~Relisted(col[c].stream)'
        PROVE  col'[c].version # col'[d].version
    <3>1. /\ Early(c) /\ Early(d) /\ col[c].stream = col[d].stream
          /\ col'[c].version = col[c].version /\ col'[d].version = col[d].version
      BY <1>a, <2>2 DEF Early
    <3>2. ~Relisted(col[c].stream)
      BY <1>0, <1>a, <2>2, <3>1, StaysRelisted DEF Early
    <3> QED
      BY <1>0, <2>2, <3>1, <3>2 DEF UniqueInv
  <2> QED
    BY <2>1, <2>2 DEF UniqueInv
<1>b. ASSUME ctxDone => ctxDone',
             \A c \in Collectors : /\ col'[c].at = col[c].at /\ col'[c].stream = col[c].stream
                                   /\ col'[c].version = col[c].version
      PROVE  UniqueInv'
  BY <1>a, <1>b DEF Active, Early
<1>1. ASSUME NEW s \in Streams, ReconcileStream(s) PROVE UniqueInv'
  <2>1. ctxDone' = ctxDone /\ past' = past /\ snap[s] # Absent
    BY <1>0, <1>1, ReconcileFrame DEF ListingInv
  <2>2. ASSUME managed[s].collector = None, NEW c \in Collectors,
               col'[c].at = "run", col'[c].stream = s, col'[c].version = managed[s].version + 1,
               \A d \in Collectors \ {c} : col'[d] = col[d]
        PROVE  UniqueInv'
    <3>1. \A d \in Collectors \ {c} :
            /\ Active(d)' = Active(d) /\ Early(d)' = Early(d)
            /\ col'[d].stream = col[d].stream /\ col'[d].version = col[d].version
      BY <2>1, <2>2 DEF Active, Early
    <3>2. \A d \in Collectors : Active(d)' => col'[d].version > 0
      BY <1>0, <2>2, <3>1 DEF UniqueInv
    <3>3. ASSUME NEW d \in Collectors \ {c}, Early(d), Early(c)', col[d].stream = s, ~Relisted(s)
          PROVE  col'[c].version # col'[d].version
      <4>1. ~ctxDone
        BY <2>1, <2>2, <3>3 DEF Early
      <4>2. col[d].version < managed[s].version
        BY <1>0, <2>1, <2>2, <3>3, <4>1 DEF VersionInv, Early
      <4> QED
        BY <1>0, <2>2, <3>1, <4>2
    <3>4. ASSUME NEW d \in Collectors, NEW e \in Collectors, Early(d)', Early(e)', d # e,
                 col'[d].stream = col'[e].stream, ~Relisted(col[d].stream)'
          PROVE  col'[d].version # col'[e].version
      <4>1. ~Relisted(col'[d].stream)
        BY <2>1, <3>4 DEF Relisted
      <4>2. CASE d = c
        BY <2>2, <3>1, <3>3, <3>4, <4>1, <4>2
      <4>3. CASE e = c
        BY <2>2, <3>1, <3>3, <3>4, <4>1, <4>3
      <4>4. CASE d # c /\ e # c
        BY <1>0, <3>1, <3>4, <4>1, <4>4 DEF UniqueInv
      <4> QED
        BY <4>2, <4>3, <4>4
    <3> QED
      BY <3>2, <3>4 DEF UniqueInv
  <2> QED
    BY <1>0, <1>1, <1>b, <2>1, <2>2, ReconcileHandle
<1>2. ASSUME NEW t \in Threads, NEW c \in Collectors, CancelCollector(t, c) \/ StopCollector(t, c)
      PROVE  UniqueInv'
  <2>1. /\ ctxDone' = ctxDone
        /\ \A d \in Collectors : /\ col'[d].at = col[d].at /\ col'[d].stream = col[d].stream
                                 /\ col'[d].version = col[d].version
    BY <1>0, <1>2 DEF CancelCollector, StopCollector, CollectorStates
  <2> QED
    BY <1>b, <2>1
<1>3. ASSUME NEW c \in Collectors, Collector(c) PROVE UniqueInv'
  <2>1. /\ ctxDone' = ctxDone /\ \A d \in Collectors \ {c} : col'[d] = col[d]
    BY <1>0, <1>3, CollectorFrame
  <2>2. Active(c)' => /\ Active(c) /\ col'[c].version = col[c].version
                      /\ col'[c].stream = col[c].stream
    BY <1>0, <1>3, CollectorFrame DEF Active
  <2>3. Early(c)' => ~ctxDone
    BY <1>0, <1>3, <2>1, CollectorComes DEF Early
  <2>4. Kept(c)
    BY <2>1, <2>2, <2>3 DEF Early
  <2>5. \A d \in Collectors \ {c} : Kept(d)
    BY <2>1 DEF Active, Early
  <2> QED
    BY <1>a, <2>4, <2>5
<1>4. CASE UNCHANGED col /\ (ctxDone => ctxDone')
  BY <1>4, <1>b
<1>5. CASE \/ TickerFires \/ ListStreamsFails \/ ReportFails \/ HaltsDone \/ RunExits \/ StopCalled
           \/ (\E r \in Streams : ControlPlaneChanges(r) \/ ReportDelivered(r))
           \/ (\E d \in 1..Grace : ListStreams(d)) \/ StopMissing
           \/ (\E t \in Threads : Shutdown(t))
           \/ UNCHANGED vars
  BY <1>4, <1>5 DEF TickerFires, ListStreamsFails, ReportFails, HaltsDone, RunExits, StopCalled,
     ControlPlaneChanges, ReportDelivered, ListStreams, StopMissing, Shutdown, ShutdownBegins,
     ShutdownEnds, ShutdownSkipped, vars
<1> QED
  BY <1>1, <1>2, <1>3, <1>5 DEF Next, Reconciler, Halting, Terminated

LEMMA BarStep == RInv /\ [Next]_vars => BarInv'
<1> SUFFICES ASSUME RInv, [Next]_vars, NEW c \in Collectors,
                    col'[c].at = "stored", ~Relisted(col[c].stream)'
             PROVE  /\ IsCurrent(managed[col[c].stream], c)' => managed'[col'[c].stream].collector # None
                    /\ drain'[col'[c].stream] = 0 /\ managed'[col'[c].stream].collector # None =>
                         col'[c].version <= managed'[col'[c].stream].version
  BY DEF BarInv
<1> DEFINE s == col[c].stream
           Good == /\ IsCurrent(managed[col[c].stream], c)' => managed'[col'[c].stream].collector # None
                   /\ drain'[col'[c].stream] = 0 /\ managed'[col'[c].stream].collector # None =>
                        col'[c].version <= managed'[col'[c].stream].version
<1>0. /\ TInv /\ BarInv /\ UniqueInv /\ LInv' /\ None \notin Collectors
      /\ col \in [Collectors -> CollectorStates] /\ managed \in [Streams -> Handles]
      /\ drain \in [Streams -> 0..Grace \cup {NoDeadline}]
      /\ \A d \in Collectors : col[d].version \in Nat /\ col'[d].version \in Nat
      /\ \A d \in Collectors : col[d].at # "gone" => col[d].stream \in Streams
      /\ col'[c].stream \in Streams
      /\ \A r \in Streams : managed[r].version \in Nat /\ managed'[r].version \in Nat
      /\ NoHandle.collector = None /\ NoHandle.version = 0
      /\ \A st, d, v, l : Handle(st, d, v, l).collector = d /\ Handle(st, d, v, l).version = v
  <2>1. TInv /\ TInv' /\ LInv'
    BY LStep DEF RInv, LInv, SInv
  <2> QED
    BY <2>1, StreamRuntimeAssumption
       DEF RInv, TInv, TypeOK, CollectorStates, ColOK, Handles, Handle, NoHandle
<1> SUFFICES Good
  OBVIOUS
\* While the runtime runs the versions tell it all.
<1>1. CASE ~ctxDone'
  <2>1. \/ managed'[col'[c].stream].collector = c
        \/ col'[c].version < managed'[col'[c].stream].version
        \/ managed'[col'[c].stream] = NoHandle
    BY <1>0, <1>1 DEF LInv, VersionInv, Active
  <2>2. managed'[col'[c].stream].collector = c => col'[c].version = managed'[col'[c].stream].version
    BY <1>0, <1>1 DEF LInv, NoDeadCollectorKept
  <2> QED
    BY <1>0, <2>1, <2>2 DEF IsCurrent
\* After that a goroutine that has stored a bar had done so before.
<1> HIDE DEF Good
<1>a. ASSUME col'[c].at = col[c].at, col'[c].stream = s, col'[c].version = col[c].version
      PROVE  /\ s \in Streams /\ ~Relisted(s)
             /\ managed[s] # NoHandle /\ managed[s].version = col[c].version =>
                  managed[s].collector # None
             /\ drain[s] = 0 /\ managed[s].collector # None => col[c].version <= managed[s].version
             /\ col[c].version > 0
             /\ /\ managed'[s] # NoHandle /\ managed'[s].version = col[c].version =>
                     managed'[s].collector # None
                /\ drain'[s] = 0 /\ managed'[s].collector # None =>
                     col[c].version <= managed'[s].version
                => Good
  <2>1. s \in Streams /\ ~Relisted(s)
    BY <1>0, <1>a, StaysRelisted DEF RInv
  <2>2. col[c].version > 0
    BY <1>0, <1>a DEF UniqueInv, Active
  <2> QED
    BY <1>0, <1>a, <2>1, <2>2 DEF BarInv, IsCurrent, Good
<1>b. ASSUME col'[c].at = col[c].at, col'[c].stream = s, col'[c].version = col[c].version,
             \A r \in Streams : \/ managed'[r] = managed[r] /\ drain'[r] = drain[r]
                                \/ managed'[r] = NoHandle
      PROVE  Good
  BY <1>0, <1>a, <1>b
<1>2. ASSUME NEW r \in Streams, ReconcileStream(r), ctxDone PROVE Good
  <2>1. \A q \in Streams \ {r} : managed'[q] = managed[q] /\ drain'[q] = drain[q]
    <3>1. \A q \in Streams \ {r} : drain'[q] = drain[q]
      BY <1>0, <1>2 DEF ReconcileStream, KeepCollector, FactoryFails, StartCollector, AlreadyStopped,
         DrainStream, StopDrained, ClearDeadline
    <3> QED
      BY <1>0, <1>2, <3>1, ReconcileFrame
  <2>2. col'[c].at = col[c].at /\ col'[c].stream = s /\ col'[c].version = col[c].version
    BY <1>0, <1>2, ReconcileHandle
  <2>3. CASE r # s
    BY <1>a, <2>1, <2>2, <2>3
  <2>4. CASE r = s
    <3>1. CASE KeepCollector(s) \/ DrainStream(s)
      <4>1. /\ managed[s].collector # None
            /\ managed'[s].collector = managed[s].collector
            /\ managed'[s].version = managed[s].version
        BY <1>0, <2>4, <3>1 DEF KeepCollector, DrainStream
      <4>2. drain'[s] = 0 => drain[s] = 0
        BY <1>0, <2>4, <3>1, StreamRuntimeAssumption
           DEF KeepCollector, DrainStream, ClearDeadline, NoDeadline
      <4> QED
        BY <1>a, <2>2, <4>1, <4>2
    <3>2. CASE FactoryFails(s) \/ AlreadyStopped(s)
      <4>1. /\ managed[s].collector = None /\ managed'[s].collector = None
            /\ managed'[s].version = managed[s].version
        BY <1>0, <2>4, <3>2 DEF FactoryFails, AlreadyStopped
      <4>2. managed[s] = NoHandle => managed[s].version # col[c].version
        BY <1>0, <1>a, <2>2
      <4> QED
        BY <1>a, <2>2, <4>1, <4>2
    <3>3. CASE StartCollector(s)
      <4>1. PICK e \in Collectors :
              managed' = [managed EXCEPT ![s] =
                            Handle("starting", e, managed[s].version + 1, snap[s])]
        BY <3>3 DEF StartCollector
      <4>2. managed'[s].collector = e
        BY <1>0, <2>4, <4>1 DEF Handle
      <4>3. drain' = [drain EXCEPT ![s] = NoDeadline]
        BY <3>3 DEF StartCollector, ClearDeadline
      <4>4. drain'[s] = NoDeadline
        BY <1>0, <2>4, <4>3
      <4> QED
        BY <1>0, <1>a, <2>2, <4>2, <4>4 DEF NoDeadline
    <3>4. CASE StopDrained(s)
      <4>1. /\ managed[s].collector # None /\ drain[s] = 0
            /\ managed'[s].collector = None /\ managed'[s].version = managed[s].version + 1
        BY <1>0, <2>4, <3>4 DEF StopDrained, StoppedHandle, StillDraining
      <4>2. col[c].version <= managed[s].version
        BY <1>a, <2>2, <4>1
      <4>3. managed'[s].version # col[c].version
        BY <1>0, <2>4, <4>1, <4>2
      <4> QED
        BY <1>a, <2>2, <4>1, <4>3
    <3> QED
      BY <1>2, <2>4, <3>1, <3>2, <3>3, <3>4 DEF ReconcileStream
  <2> QED
    BY <2>3, <2>4
<1>3. CASE StopMissing \/ (\E t \in Threads : ShutdownBegins(t))
  <2>1. /\ col' = col
        /\ \A r \in Streams : \/ managed'[r] = managed[r] /\ drain'[r] = drain[r]
                              \/ managed'[r] = NoHandle
    BY <1>3 DEF StopMissing, ShutdownBegins, Emptied
  <2> QED
    BY <1>b, <2>1
<1>4. ASSUME NEW t \in Threads, NEW d \in Collectors, CancelCollector(t, d) \/ StopCollector(t, d)
      PROVE  Good
  <2>1. /\ col'[c].at = col[c].at /\ col'[c].stream = s /\ col'[c].version = col[c].version
        /\ UNCHANGED <<managed, drain>>
    BY <1>0, <1>4 DEF CancelCollector, StopCollector, CollectorStates
  <2> QED
    BY <1>b, <2>1
<1>5. ASSUME NEW d \in Collectors, Collector(d), ctxDone PROVE Good
  <2>1. c # d
    BY <1>0, <1>5, CollectorComes
  <2>2. col'[c] = col[c] /\ drain' = drain
    <3>1. /\ UNCHANGED <<cp, drain, pc, halts, snap, todo, out, ctxDone, once, idle, past>>
          /\ \A e \in Collectors \ {d} : col'[e] = col[e]
      BY <1>0, <1>5, CollectorFrame
    <3> QED
      BY <2>1, <3>1
  <2>3. s \in Streams
    BY <1>a, <2>2
  <2>4. CASE managed'[s] = managed[s]
    BY <1>a, <2>2, <2>4
  <2>5. CASE /\ managed[s] # NoHandle /\ managed'[s].version = managed[s].version
             /\ managed'[s].collector = managed[s].collector
    BY <1>a, <2>2, <2>5
  <2>6. CASE /\ s = col[d].stream /\ managed[s] # NoHandle
             /\ managed'[s].version = managed[s].version /\ managed'[s].collector = None
             /\ managed[s].version = col[d].version /\ col[d].at = "exiting"
    <3>1. col[c].version # col[d].version
      BY <1>0, <1>a, <2>1, <2>2, <2>6 DEF UniqueInv, Early, Active
    <3> QED
      BY <1>a, <2>2, <2>6, <3>1
  <2> QED
    BY <1>0, <1>5, <2>3, <2>4, <2>5, <2>6, CollectorHandles
<1>6. CASE UNCHANGED <<managed, drain, col>>
  BY <1>6, <1>b
<1>7. CASE \/ TickerFires \/ ListStreamsFails \/ ReportFails \/ HaltsDone \/ RunExits \/ StopCalled
           \/ (\E r \in Streams : ControlPlaneChanges(r) \/ ReportDelivered(r))
           \/ (\E t \in Threads : ShutdownEnds(t) \/ ShutdownSkipped(t))
           \/ UNCHANGED vars
  BY <1>6, <1>7 DEF TickerFires, ListStreamsFails, ReportFails, HaltsDone, RunExits, StopCalled,
     ControlPlaneChanges, ReportDelivered, ShutdownEnds, ShutdownSkipped, vars
<1>8. ASSUME NEW d \in 1..Grace, ListStreams(d) PROVE ~ctxDone'
  BY <1>8 DEF ListStreams
<1>9. ASSUME NEW r \in Streams, ReconcileStream(r), ~ctxDone PROVE ~ctxDone'
  BY <1>0, <1>9, ReconcileFrame
<1>10. ASSUME NEW d \in Collectors, Collector(d), ~ctxDone PROVE ~ctxDone'
  BY <1>0, <1>10, CollectorFrame
<1> QED
  BY <1>1, <1>2, <1>3, <1>4, <1>5, <1>7, <1>8, <1>9, <1>10
     DEF Next, Reconciler, Halting, Shutdown, Terminated, RInv

LEMMA RefineInvStep == RInv /\ [Next]_vars => RInv'
BY LStep, OwnedStep, UniqueStep, BarStep DEF RInv

\* What the lifecycle sees of a step that touches one stream's handle and deadline alone.
LEMMA SeenOne ==
  ASSUME TInv, NEW s \in Streams, past' = past,
         \A r \in Streams \ {s} : managed'[r] = managed[r] /\ drain'[r] = drain[r]
  PROVE  /\ Relisted(s) => UNCHANGED Lifecycle!lvars
         /\ ~Relisted(s) =>
              /\ StateSeen[s] = managed[s].state /\ OwnerSeen[s] = managed[s].collector
              /\ s \in NoticeSeen <=> drain[s] # NoDeadline
              /\ StateSeen' = [StateSeen EXCEPT ![s] = managed'[s].state]
              /\ OwnerSeen' = [OwnerSeen EXCEPT ![s] = managed'[s].collector]
              /\ NoticeSeen' = IF drain'[s] = NoDeadline THEN NoticeSeen \ {s} ELSE NoticeSeen \cup {s}
<1>0. \A r \in Streams : Relisted(r)' = Relisted(r)
  BY DEF Relisted
<1>1. CASE Relisted(s)
  <2>1. StateSeen' = StateSeen
    BY <1>0, <1>1 DEF StateSeen
  <2>2. OwnerSeen' = OwnerSeen
    BY <1>0, <1>1 DEF OwnerSeen
  <2>3. NoticeSeen' = NoticeSeen
    BY <1>0, <1>1 DEF NoticeSeen
  <2> QED
    BY <1>1, <2>1, <2>2, <2>3 DEF Lifecycle!lvars
<1>2. CASE ~Relisted(s)
  <2>1. StateSeen' = [StateSeen EXCEPT ![s] = managed'[s].state]
    BY <1>0, <1>2 DEF StateSeen
  <2>2. OwnerSeen' = [OwnerSeen EXCEPT ![s] = managed'[s].collector]
    BY <1>0, <1>2 DEF OwnerSeen
  <2>3. NoticeSeen' = IF drain'[s] = NoDeadline THEN NoticeSeen \ {s} ELSE NoticeSeen \cup {s}
    BY <1>0, <1>2 DEF NoticeSeen
  <2>4. /\ StateSeen[s] = managed[s].state /\ OwnerSeen[s] = managed[s].collector
        /\ s \in NoticeSeen <=> drain[s] # NoDeadline
    BY <1>2 DEF StateSeen, OwnerSeen, NoticeSeen
  <2> QED
    BY <1>2, <2>1, <2>2, <2>3, <2>4
<1> QED
  BY <1>1, <1>2

\* What it sees of a step that empties the handles of some streams, or relists them.
LEMMA SeenForgotten ==
  ASSUME NEW S \in SUBSET Streams,
         \A s \in S : Relisted(s)' \/ (managed'[s] = NoHandle /\ drain'[s] = NoDeadline),
         \A s \in Streams : Relisted(s) => s \in S \/ Relisted(s)',
         \A s \in Streams \ S : /\ Relisted(s)' = Relisted(s)
                                /\ managed'[s] = managed[s] /\ drain'[s] = drain[s]
  PROVE  Lifecycle!Forget(S)
<1>0. NoHandle.state = "none" /\ NoHandle.collector = None
  BY DEF NoHandle, Handle
<1>1. StateSeen' = [s \in Streams |-> IF s \in S THEN "none" ELSE StateSeen[s]]
  BY <1>0 DEF StateSeen
<1>2. OwnerSeen' = [s \in Streams |-> IF s \in S THEN None ELSE OwnerSeen[s]]
  BY <1>0 DEF OwnerSeen
<1>3. NoticeSeen' = NoticeSeen \ S
  BY DEF NoticeSeen
<1> QED
  BY <1>1, <1>2, <1>3 DEF Lifecycle!Forget

LEMMA SeenSame ==
  ASSUME UNCHANGED <<managed, past>>,
         \A s \in Streams : drain'[s] = NoDeadline <=> drain[s] = NoDeadline
  PROVE  UNCHANGED Lifecycle!lvars
BY DEF Lifecycle!lvars, StateSeen, OwnerSeen, NoticeSeen, Relisted

LEMMA LifecycleInit == Init => Lifecycle!Init
<1> SUFFICES ASSUME Init PROVE Lifecycle!Init
  OBVIOUS
<1>1. /\ managed = [s \in Streams |-> NoHandle] /\ drain = [s \in Streams |-> NoDeadline]
      /\ NoHandle.state = "none" /\ NoHandle.collector = None
  BY DEF Init, NoHandle, Handle
<1>2. StateSeen = [s \in Streams |-> "none"]
  BY <1>1 DEF StateSeen
<1>3. OwnerSeen = [s \in Streams |-> None]
  BY <1>1 DEF OwnerSeen
<1>4. NoticeSeen = {}
  BY <1>1 DEF NoticeSeen
<1> QED
  BY <1>2, <1>3, <1>4 DEF Lifecycle!Init

\* One reconcileStream is one step of its stream's lifecycle.
LEMMA LifecycleReconcile ==
  ASSUME RInv, NEW s \in Streams, ReconcileStream(s), ~Relisted(s)
  PROVE  Lifecycle!Next
<1> DEFINE h == managed[s]
<1>0. /\ TInv /\ managed \in [Streams -> Handles] /\ drain \in [Streams -> 0..Grace \cup {NoDeadline}]
      /\ past' = past /\ (h.collector # None => h.state \in {"starting", "running", "draining"})
      /\ \A st, d, v, l : Handle(st, d, v, l).collector = d /\ Handle(st, d, v, l).state = st
      /\ h.collector \in Collectors \cup {None}
      /\ Grace # NoDeadline
  <2>1. TInv
    BY DEF RInv, LInv, SInv
  <2>2. past' = past
    BY <2>1, ReconcileFrame
  <2> QED
    BY <2>1, <2>2, StreamRuntimeAssumption
       DEF RInv, OwnedInv, TInv, TypeOK, Handles, Handle, NoDeadline
<1>1. \A r \in Streams \ {s} : managed'[r] = managed[r] /\ drain'[r] = drain[r]
  <2>1. \A r \in Streams \ {s} : drain'[r] = drain[r]
    BY <1>0 DEF ReconcileStream, KeepCollector, FactoryFails, StartCollector, AlreadyStopped,
       DrainStream, StopDrained, ClearDeadline
  <2> QED
    BY <1>0, <2>1, ReconcileFrame
<1>2. /\ StateSeen[s] = h.state /\ OwnerSeen[s] = h.collector
      /\ s \in NoticeSeen <=> drain[s] # NoDeadline
      /\ StateSeen' = [StateSeen EXCEPT ![s] = managed'[s].state]
      /\ OwnerSeen' = [OwnerSeen EXCEPT ![s] = managed'[s].collector]
      /\ NoticeSeen' = IF drain'[s] = NoDeadline THEN NoticeSeen \ {s} ELSE NoticeSeen \cup {s}
  BY <1>0, <1>1, SeenOne
<1>3. StateSeen \in [Streams -> States \cup {"none"}] /\ OwnerSeen \in [Streams -> Collectors \cup {None}]
  BY <1>0 DEF StateSeen, OwnerSeen, Handles
<1>4. CASE KeepCollector(s)
  <2>1. /\ managed'[s].state = h.state /\ managed'[s].collector = h.collector
        /\ drain'[s] = NoDeadline
    BY <1>0, <1>4 DEF KeepCollector, KeptStates, ClearDeadline
  <2>2. StateSeen' = StateSeen /\ OwnerSeen' = OwnerSeen
    BY <1>2, <1>3, <2>1
  <2>3. Lifecycle!Revoke(s)
    BY <1>2, <2>1, <2>2 DEF Lifecycle!Revoke
  <2> QED
    BY <2>3 DEF Lifecycle!Next
<1>5. CASE FactoryFails(s) \/ AlreadyStopped(s)
  <2>1. /\ h.collector = None /\ managed'[s].collector = None /\ drain'[s] = NoDeadline
        /\ managed'[s].state \in {"stopped", "error"}
    BY <1>0, <1>5 DEF FactoryFails, AlreadyStopped, ClearDeadline
  <2>2. OwnerSeen' = OwnerSeen
    BY <1>2, <1>3, <2>1
  <2>3. Lifecycle!Rest(s, managed'[s].state)
    BY <1>2, <2>1, <2>2 DEF Lifecycle!Rest
  <2> QED
    BY <2>1, <2>3 DEF Lifecycle!Next
<1>6. CASE StartCollector(s)
  <2>1. PICK c \in Collectors :
          /\ Unused(c)
          /\ managed' = [managed EXCEPT ![s] = Handle("starting", c, h.version + 1, snap[s])]
    BY <1>6 DEF StartCollector
  <2>2. h.collector = None /\ drain'[s] = NoDeadline
    BY <1>0, <1>6 DEF StartCollector, ClearDeadline
  <2>3. managed'[s].state = "starting" /\ managed'[s].collector = c
    BY <1>0, <2>1
  <2>4. \A r \in Streams : OwnerSeen[r] # c
    BY <2>1, StreamRuntimeAssumption DEF OwnerSeen, Unused
  <2>5. Lifecycle!Start(s, c)
    BY <1>2, <2>2, <2>3, <2>4 DEF Lifecycle!Start
  <2> QED
    BY <2>5 DEF Lifecycle!Next
<1>7. CASE DrainStream(s)
  <2>1. /\ h.collector # None /\ managed'[s].collector = h.collector
        /\ managed'[s].state = "draining" /\ drain'[s] # NoDeadline
    BY <1>0, <1>7 DEF DrainStream
  <2>2. OwnerSeen' = OwnerSeen
    BY <1>2, <1>3, <2>1
  <2>3. Lifecycle!Announce(s)
    BY <1>2, <2>1, <2>2 DEF Lifecycle!Announce
  <2> QED
    BY <2>3 DEF Lifecycle!Next
<1>8. CASE StopDrained(s)
  <2>1. /\ h.collector # None /\ drain[s] = 0 /\ drain'[s] = NoDeadline
        /\ managed'[s].state = "stopped" /\ managed'[s].collector = None
    BY <1>0, <1>8 DEF StopDrained, StoppedHandle, StillDraining
  <2>2. s \in NoticeSeen
    BY <1>2, <2>1 DEF NoDeadline
  <2>3. Lifecycle!Drained(s)
    BY <1>2, <2>1, <2>2 DEF Lifecycle!Drained
  <2> QED
    BY <2>3 DEF Lifecycle!Next
<1> QED
  BY <1>4, <1>5, <1>6, <1>7, <1>8 DEF ReconcileStream

\* A step of a collector's goroutine is one of its stream's lifecycle, or none.
LEMMA LifecycleCollector ==
  ASSUME RInv, NEW c \in Collectors, Collector(c)
  PROVE  Lifecycle!Next \/ UNCHANGED Lifecycle!lvars
<1> DEFINE s == col[c].stream
           h == managed[s]
<1>0. /\ TInv /\ managed \in [Streams -> Handles] /\ s \in Streams
      /\ \A st, d, v, l : Handle(st, d, v, l).collector = d /\ Handle(st, d, v, l).state = st
      /\ UNCHANGED <<past, drain>>
  <2>1. TInv
    BY DEF RInv, LInv, SInv
  <2>2. s \in Streams /\ UNCHANGED <<past, drain>>
    BY <2>1, CollectorFrame DEF TInv, ColOK
  <2> QED
    BY <2>1, <2>2 DEF TInv, TypeOK, Handle
<1>1. CASE managed' = managed
  BY <1>0, <1>1, SeenSame
<1>2. ASSUME \A r \in Streams \ {s} : managed'[r] = managed[r], ~Relisted(s)
      PROVE  /\ OwnerSeen[s] = h.collector
             /\ StateSeen' = [StateSeen EXCEPT ![s] = managed'[s].state]
             /\ OwnerSeen' = [OwnerSeen EXCEPT ![s] = managed'[s].collector]
             /\ NoticeSeen' = NoticeSeen
             /\ OwnerSeen \in [Streams -> Collectors \cup {None}]
  <2>1. NoticeSeen' = NoticeSeen
    BY <1>0 DEF NoticeSeen, Relisted
  <2>2. OwnerSeen \in [Streams -> Collectors \cup {None}]
    BY <1>0 DEF OwnerSeen, Handles
  <2> QED
    BY <1>0, <1>2, <2>1, <2>2, SeenOne
<1>3. ASSUME \A r \in Streams \ {s} : managed'[r] = managed[r], Relisted(s)
      PROVE  UNCHANGED Lifecycle!lvars
  BY <1>0, <1>3, SeenOne
<1>4. ASSUME RecordStored(c), IsCurrent(h, c) PROVE Lifecycle!Next \/ UNCHANGED Lifecycle!lvars
  <2>1. /\ \A r \in Streams \ {s} : managed'[r] = managed[r]
        /\ managed'[s].state = "running" /\ managed'[s].collector = h.collector
        /\ col[c].at = "stored"
    BY <1>0, <1>4 DEF RecordStored
  <2>2. CASE ~Relisted(s)
    <3>1. h.collector # None
      BY <1>4, <2>1, <2>2 DEF RInv, BarInv
    <3>2. OwnerSeen' = OwnerSeen
      BY <1>2, <2>1, <2>2
    <3>3. Lifecycle!Data(s)
      BY <1>2, <2>1, <2>2, <3>1, <3>2 DEF Lifecycle!Data
    <3> QED
      BY <1>0, <3>3 DEF Lifecycle!Next
  <2> QED
    BY <1>3, <2>1, <2>2
<1>5. ASSUME ExitUnexpectedly(c), OwnsHandle(h, c)
      PROVE  Lifecycle!Next \/ UNCHANGED Lifecycle!lvars
  <2>1. /\ \A r \in Streams \ {s} : managed'[r] = managed[r]
        /\ managed'[s].state = "error" /\ managed'[s].collector = None /\ h.collector # None
    BY <1>0, <1>5 DEF ExitUnexpectedly, OwnsHandle
  <2>2. CASE ~Relisted(s)
    <3>1. Lifecycle!Failed(s)
      BY <1>2, <2>1, <2>2 DEF Lifecycle!Failed
    <3> QED
      BY <1>0, <3>1 DEF Lifecycle!Next
  <2> QED
    BY <1>3, <2>1, <2>2
<1>6. CASE RecordStored(c) /\ ~IsCurrent(h, c)
  BY <1>1, <1>6 DEF RecordStored
<1>7. CASE ExitUnexpectedly(c) /\ ~OwnsHandle(h, c)
  BY <1>1, <1>7 DEF ExitUnexpectedly
<1>8. CASE \/ BarStored(c) \/ RunReturns(c) \/ RunBreaks(c) \/ CheckContext(c)
           \/ CollectorReportDelivered(c) \/ CollectorReportFails(c)
  BY <1>1, <1>8 DEF BarStored, RunReturns, RunBreaks, CheckContext,
     CollectorReportDelivered, CollectorReportFails
<1> QED
  BY <1>4, <1>5, <1>6, <1>7, <1>8 DEF Collector

LEMMA LifecycleStep == RInv /\ [Next]_vars => [Lifecycle!Next]_(Lifecycle!lvars)
<1> SUFFICES ASSUME RInv, [Next]_vars PROVE Lifecycle!Next \/ UNCHANGED Lifecycle!lvars
  OBVIOUS
<1>0. TInv
  BY DEF RInv, LInv, SInv
<1>a. (\E S \in SUBSET Streams : Lifecycle!Forget(S)) => Lifecycle!Next
  BY DEF Lifecycle!Next
<1>1. ASSUME NEW s \in Streams, ControlPlaneChanges(s) PROVE Lifecycle!Next \/ UNCHANGED Lifecycle!lvars
  <2>1. /\ UNCHANGED <<managed, drain>> /\ \A r \in Streams \ {s} : past'[r] = past[r]
    BY <1>0, <1>1 DEF ControlPlaneChanges, TInv, TypeOK
  <2>2. CASE Relisted(s)' = Relisted(s)
    <3>1. \A r \in Streams : Relisted(r)' = Relisted(r)
      BY <2>1, <2>2 DEF Relisted
    <3> QED
      BY <2>1, <3>1 DEF Lifecycle!lvars, StateSeen, OwnerSeen, NoticeSeen
  <2>3. CASE Relisted(s)'
    <3>1. \A r \in Streams \ {s} : Relisted(r)' = Relisted(r)
      BY <2>1 DEF Relisted
    <3>2. Lifecycle!Forget({s})
      BY <2>1, <2>3, <3>1, SeenForgotten
    <3> QED
      BY <1>a, <3>2
  <2> QED
    BY <1>0, <2>2, <2>3, StaysRelisted DEF Relisted
<1>2. ASSUME NEW d \in 1..Grace, ListStreams(d) PROVE UNCHANGED Lifecycle!lvars
  <2>1. /\ drain \in [Streams -> 0..Grace \cup {NoDeadline}] /\ idle \in [Streams -> 0..Grace]
    BY <1>0 DEF TInv, TypeOK
  <2>2. \A s \in Streams : drain'[s] = NoDeadline <=> drain[s] = NoDeadline
    BY <1>2, <2>1, ListAges DEF ListStreams
  <2> QED
    BY <1>2, <2>2, SeenSame DEF ListStreams
<1>3. ASSUME NEW s \in Streams, ReconcileStream(s) PROVE Lifecycle!Next \/ UNCHANGED Lifecycle!lvars
  <2>1. CASE Relisted(s)
    <3>1. \A r \in Streams \ {s} : drain'[r] = drain[r]
      BY <1>0, <1>3 DEF ReconcileStream, KeepCollector, FactoryFails, StartCollector, AlreadyStopped,
         DrainStream, StopDrained, ClearDeadline, TInv, TypeOK
    <3> QED
      BY <1>0, <1>3, <2>1, <3>1, ReconcileFrame, SeenOne
  <2> QED
    BY <1>3, <2>1, LifecycleReconcile
<1>4. CASE StopMissing
  <2> DEFINE missing == {s \in Streams : managed[s] # NoHandle /\ snap[s] = Absent}
  <2>1. /\ past' = past /\ \A s \in missing : managed'[s] = NoHandle /\ drain'[s] = NoDeadline
        /\ \A s \in Streams \ missing : managed'[s] = managed[s] /\ drain'[s] = drain[s]
    BY <1>4 DEF StopMissing
  <2>2. Lifecycle!Forget(missing)
    BY <2>1, SeenForgotten DEF Relisted
  <2> QED
    BY <1>a, <2>2
<1>5. ASSUME NEW t \in Threads, ShutdownBegins(t) PROVE Lifecycle!Next
  <2>1. past' = past /\ \A s \in Streams : managed'[s] = NoHandle /\ drain'[s] = NoDeadline
    BY <1>5 DEF ShutdownBegins, Emptied
  <2>2. Lifecycle!Forget(Streams)
    BY <2>1, SeenForgotten DEF Relisted
  <2> QED
    BY <1>a, <2>2
<1>6. ASSUME NEW c \in Collectors, Collector(c) PROVE Lifecycle!Next \/ UNCHANGED Lifecycle!lvars
  BY <1>6, LifecycleCollector
<1>7. CASE UNCHANGED <<managed, past, drain>>
  BY <1>7, SeenSame
<1>8. CASE \/ TickerFires \/ ListStreamsFails \/ ReportFails \/ HaltsDone \/ RunExits \/ StopCalled
           \/ (\E r \in Streams : ReportDelivered(r))
           \/ (\E t \in Threads : ShutdownEnds(t) \/ ShutdownSkipped(t))
           \/ (\E t \in Threads, c \in Collectors : CancelCollector(t, c) \/ StopCollector(t, c))
           \/ UNCHANGED vars
  BY <1>7, <1>8 DEF TickerFires, ListStreamsFails, ReportFails, HaltsDone, RunExits, StopCalled,
     ReportDelivered, ShutdownEnds, ShutdownSkipped, CancelCollector, StopCollector, vars
<1> QED
  BY <1>1, <1>2, <1>3, <1>4, <1>5, <1>6, <1>8
     DEF Next, Reconciler, Halting, Shutdown, Terminated

\* However passes, exits and shutdown interleave, every step of the runtime is a step of the
\* lifecycle or changes nothing that it sees.
THEOREM LifecycleKept == Spec => ImplementsLifecycle
BY LifecycleInit, LifecycleStep, RefineInit, RefineInvStep, PTL
   DEF Spec, ImplementsLifecycle, Lifecycle!Spec

=============================================================================
