SPECIFICATION Spec
CONSTANTS
  a = a
  b = b
  long = long
  v = v
  TITLE = TITLE
  NAME = NAME
  EMPTY = EMPTY
  Bodies = {v}
  MAX_ENTRIES = 2
  MAX_CATEGORIES = 2
  ID_MAX = 3
  CommitFaultOps = {"update", "remove", "clear", "catdel", "import", "bundle"}
  Titles = {a, b}
  LongTitles = {}
  Names = {x, y}
  LongNames = {}
  Files <- ShortFiles
  Bundles <- SmallBundles
  FaultOps = {"add", "update", "clear", "catdel", "import"}
  CrashOps = {"import", "bundle", "catdel"}
SYMMETRY Symmetry
INVARIANT TypeOK
INVARIANT UniqueIds
INVARIANT CategoriesExistIfSaved
INVARIANT SurvivesReboot
INVARIANT ReimportChangesNothing
PROPERTY ImportAllOrNothing
PROPERTY ImportCollapses
PROPERTY ImplementsCatalogue
