----------------------------- MODULE LiveIngest -----------------------------
(***************************************************************************)
(* What a live K-line collector promises to whoever reads its stream: the  *)
(* exchange closes one bar after the other; the collector stores only bars *)
(* that have closed, forgets none it stored, and publishes only stored     *)
(* bars, each at most once and in the order they closed.                   *)
(***************************************************************************)
EXTENDS Naturals

VARIABLES closed,  \* how many bars have closed: bars 0 .. closed - 1
          stored,  \* the bars in the store
          sent     \* one more than the last bar published, 0 at first

ivars == <<closed, stored, sent>>

Init == closed \in Nat /\ stored = {} /\ sent = 0

BarCloses == closed' = closed + 1 /\ UNCHANGED <<stored, sent>>

Store(S) == /\ S \subseteq 0..(closed - 1)
            /\ stored' = stored \cup S
            /\ UNCHANGED <<closed, sent>>

Publish(b) == /\ b \in stored /\ sent <= b
              /\ sent' = b + 1
              /\ UNCHANGED <<closed, stored>>

Next == \/ BarCloses
        \/ \E S \in SUBSET (0..(closed - 1)) : Store(S)
        \/ \E b \in stored : Publish(b)

Spec == Init /\ [][Next]_ivars

=============================================================================
