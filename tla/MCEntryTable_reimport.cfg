SPECIFICATION Spec
CONSTANTS
  a = a
  b = b
  long = long
  v = v
  TITLE = TITLE
  NAME = NAME
  EMPTY = EMPTY
  Bodies = {v}
  MAX_ENTRIES = 2
  MAX_CATEGORIES = 2
  ID_MAX = 3
  CommitFaultOps = {}
  Titles = {a}
  LongTitles = {}
  Names = {x, y}
  LongNames = {x, y}
  Files = {}
  Bundles = {}
  FaultOps = {}
  CrashOps = {}
INVARIANT ReimportAlwaysChangesNothing
