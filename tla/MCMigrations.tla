---------------------------- MODULE MCMigrations ----------------------------
(***************************************************************************)
(* An instance of Migrations: a scraper of the last release but one, which *)
(* lacks the last file, a scraper of this release, a backfill and the tool *)
(***************************************************************************)
EXTENDS Migrations

CONSTANTS oldScraper

MCFilesOf == [p \in Procs |-> IF p = oldScraper THEN Files - 1 ELSE Files]

=============================================================================
