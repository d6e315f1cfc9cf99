SPECIFICATION AnsweringSpec
CONSTANTS
  Tasks = {t1}
  Runs = {e1}
  Cancels = {}
  MaxArtifacts = 1
  None = none
  Due = due
  Async = FALSE
  Callbacks = FALSE
PROPERTIES
  DelegationReturns
CHECK_DEADLOCK FALSE
