-------------------------- MODULE StreamLifecycle --------------------------
(***************************************************************************)
(* What the live-stream runtime promises of every market-data stream,      *)
(* whatever the reconciler, the collector goroutines and the shutdown do   *)
(* to each other: a stream has at most one owner (the collector whose bars *)
(* count for it); it is "starting", "running" or "draining" exactly while  *)
(* it has one; an owner is given up in one of three ways only: a drain     *)
(* that was announced and not revoked since, the owner's own failure, or   *)
(* the stream being forgotten (no longer listed, or the process stopping). *)
(***************************************************************************)
CONSTANTS Streams, Collectors, None

VARIABLES state,   \* the lifecycle state of each stream, "none" when unknown
          owner,   \* the collector of each stream, or None
          notice   \* the streams whose drain has been announced

lvars == <<state, owner, notice>>

OwnedStates == {"starting", "running", "draining"}

Init == /\ state = [s \in Streams |-> "none"]
        /\ owner = [s \in Streams |-> None]
        /\ notice = {}

Start(s, c) == /\ owner[s] = None
               /\ \A r \in Streams : owner[r] # c
               /\ owner' = [owner EXCEPT ![s] = c]
               /\ state' = [state EXCEPT ![s] = "starting"]
               /\ notice' = notice \ {s}

\* Idle or unable to start: no owner before, none after.
Rest(s, st) == /\ owner[s] = None
               /\ st \in {"stopped", "error"}
               /\ state' = [state EXCEPT ![s] = st]
               /\ notice' = notice \ {s}
               /\ UNCHANGED owner

Revoke(s) == /\ notice' = notice \ {s}
             /\ UNCHANGED <<state, owner>>

Announce(s) == /\ owner[s] # None
               /\ state' = [state EXCEPT ![s] = "draining"]
               /\ notice' = notice \cup {s}
               /\ UNCHANGED owner

Data(s) == /\ owner[s] # None
           /\ state' = [state EXCEPT ![s] = "running"]
           /\ UNCHANGED <<owner, notice>>

Drained(s) == /\ owner[s] # None
              /\ s \in notice
              /\ state' = [state EXCEPT ![s] = "stopped"]
              /\ owner' = [owner EXCEPT ![s] = None]
              /\ notice' = notice \ {s}

Failed(s) == /\ owner[s] # None
             /\ state' = [state EXCEPT ![s] = "error"]
             /\ owner' = [owner EXCEPT ![s] = None]
             /\ UNCHANGED notice

Forget(S) == /\ state' = [s \in Streams |-> IF s \in S THEN "none" ELSE state[s]]
             /\ owner' = [s \in Streams |-> IF s \in S THEN None ELSE owner[s]]
             /\ notice' = notice \ S

Next == \/ \E s \in Streams :
             \/ \E c \in Collectors : Start(s, c)
             \/ \E st \in {"stopped", "error"} : Rest(s, st)
             \/ Revoke(s) \/ Announce(s) \/ Data(s) \/ Drained(s) \/ Failed(s)
        \/ \E S \in SUBSET Streams : Forget(S)

Spec == Init /\ [][Next]_lvars

=============================================================================
