-------------------------- MODULE MCStreamRuntime --------------------------
(***************************************************************************)
(* Listings for StreamRuntime.  Of a listing the runtime reads whether the *)
(* stream should run and whether its bars are delivered live.              *)
(***************************************************************************)
EXTENDS StreamRuntime

Wanted   == [desired |-> "running", leases |-> 0, live |-> TRUE]
Leased   == [desired |-> "stopped", leases |-> 1, live |-> FALSE]
Unwanted == [desired |-> "stopped", leases |-> 0, live |-> FALSE]

\* The two that change everything, and all of them.
MCListings    == {Wanted, Unwanted}
MCAllListings == {Wanted, Leased, Unwanted}

=============================================================================
