\* Two callers, two ids, two keys made of wildcards and escape characters,
\* two rows, five operations, on each of the three adapters; filters of up to three
\* clauses.
CONSTANTS
  Null = Null
  NonScalar = NonScalar
  Callers = {c1, c2}
  Ids = {1, 2}
  Keys <- MCKeys
  Queries <- MCQueries
  MaxRecords = 2
  MaxCalls = 5
SYMMETRY Symmetry
SPECIFICATION StorageSpec
INVARIANTS IndexAgrees UniqueKept ClaimedOnce FiltersAgree
CHECK_DEADLOCK FALSE
