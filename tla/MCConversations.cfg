SPECIFICATION MCSpec
CONSTANTS
  Calls = {1, 2, 3}
  Users = {u1, u2}
  Sids = {s1, padded}
  Trimmed <- MCTrimmed
  MaxEvents = 1
  MaxLlmCalls = 3
  MaxSteps = 3
  MaxStepEvents = 2
  None = none
  u1 = u1
  s1 = s1
  padded = padded
INVARIANT TypeOK
INVARIANT RunsDoNotOverlap
INVARIANT AnswersKept
INVARIANT RunTypeOK
PROPERTY RunsFormLines
PROPERTY EveryRequestEnds
PROPERTY StepsSeeEverything
PROPERTY RunEnds
CHECK_DEADLOCK FALSE
