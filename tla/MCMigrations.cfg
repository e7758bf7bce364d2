\* Three boots of which one only verifies, on each engine, from nothing, from an
\* older version and from an interrupted migration; one crash, one lock timeout
\* and two duplicates.
CONSTANTS
  Boots = {b1, b2, v}
  Verifiers = {v}
  Dialects = {"postgres", "mysql", "sqlite"}
  Tables <- MCTables
  Fields <- MCFields
  Unique <- MCUnique
  Index <- MCIndex
  References <- MCReferences
  Composite <- MCComposite
  Before <- MCBefore
  MaxCrashes = 1
  MaxTimeouts = 1
  MaxDuplicates = 2
SPECIFICATION MigrationsSpec
INVARIANTS ReadyMeansComplete BootsDoNotCollide
PROPERTIES MigrationConverges
CHECK_DEADLOCK FALSE
