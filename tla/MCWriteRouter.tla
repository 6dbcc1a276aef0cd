---------------------------- MODULE MCWriteRouter ----------------------------
(***************************************************************************)
(* Instance of WriteRouter for TLC.  Two writers race in one process and   *)
(* one inserts in another, all under leases; or one of the two shares the  *)
(* years with a process that has no lease manager, or with a backfill.     *)
(***************************************************************************)
EXTENDS WriteRouter, TLC

CONSTANTS v1, v2, w1, p, q

Symmetry == Permutations({v1, v2}) \cup Permutations(Years)

TwoAndOne == (v1 :> p) @@ (v2 :> p) @@ (w1 :> q)

\* v1 and v2 are interchangeable: what holds a setup with one holds one with the other.
MCSetups ==
  LET Pairs == {{v1, w1}, {v2, w1}}
  IN  {[writers |-> Writers, leased |-> {p, q}, backfills |-> {}]}
        \cup [writers : Pairs, leased : {{p}}, backfills : {{}}]
        \cup [writers : Pairs, leased : {{p, q}}, backfills : {{w1}}]

=============================================================================
