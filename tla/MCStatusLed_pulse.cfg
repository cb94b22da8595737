SPECIFICATION Spec
CONSTANTS
  WRAP = 6
  ACT = 2
  LVL = 2
  G_MIN = 1
  Windows = {1, 2}
  POLL = 1
PROPERTY PulseAlwaysShown
