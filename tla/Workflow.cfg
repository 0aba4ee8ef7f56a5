SPECIFICATION Spec
CONSTANTS
  N = 3
  MayRaise = TRUE
  MayDie = TRUE
CHECK_DEADLOCK FALSE
INVARIANT TypeOK
INVARIANT NeverOnMissingInputs
INVARIANT ReverseOrder
INVARIANT FailureIsUndone
INVARIANT SuccessIsComplete
INVARIANT EffectsAreAnnounced
INVARIANT LeftIsIncomplete
