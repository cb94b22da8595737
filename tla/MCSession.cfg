SPECIFICATION Spec
CONSTANTS
  Tokens = {t1, t2}
  NoToken = NoToken
  MAX_FAILS = 2
  LOCKOUT = 4
  IDLE_MIN = 2
  IDLE_DEFAULT = 3
  IDLE_MAX = 3
  POLL = 2
  HOLD = 1
  IdleInputs = {1, 2, 3, 4}
  MaxTime = 12
SYMMETRY Symmetry
INVARIANT TypeOK
INVARIANT LockoutHolds
INVARIANT LockoutEnds
INVARIANT PromptExpiry
