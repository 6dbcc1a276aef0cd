SPECIFICATION FairSpec
CONSTANTS
  oldScraper = oldScraper
  Stores = {oldScraper, scraper}
  Backfills = {backfill}
  Tools = {tool}
  Files = 2
  FilesOf <- MCFilesOf
  Nobody = Nobody
  Ghost = Ghost
  Budget = 2
INVARIANTS
  SchemaIsAPrefix
  ReadyIsMigrated
PROPERTY
  EveryoneEnds
