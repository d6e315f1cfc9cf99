SPECIFICATION MCSpec
CONSTANTS
  Tasks = {t1}
  Runs = {1, 2}
  Cancels = {k1}
  MaxArtifacts = 1
  None = none
  Due = due
  Async = TRUE
  Callbacks = TRUE
INVARIANTS
  TypeOK
  UncancelledRunsAlone
  TurnsDoNotMix
PROPERTIES
  RunsForgotten
CHECK_DEADLOCK FALSE
