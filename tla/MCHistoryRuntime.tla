-------------------------- MODULE MCHistoryRuntime --------------------------
(***************************************************************************)
(* HistoryRuntime on small instances: "whole" and "ragged" can be          *)
(* backfilled, and the window of "ragged" is not a whole number of bars;   *)
(* "refused" is of a kind, range or exchange the runtime reports in error. *)
(***************************************************************************)
EXTENDS HistoryRuntime

MCServable == Requests \ {"refused"}
MCRagged   == Requests \cap {"ragged"}

=============================================================================
