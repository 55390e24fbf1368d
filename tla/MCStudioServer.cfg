SPECIFICATION Spec
CONSTANTS
  Documents = {doc, olproj}
  Native = {olproj}
  Names = {a, pos}
  Layout = {pos}
  Roots = {Top, Sub}
  Editors = {e}
  Clients = {c1, c2}
  e = e
  c1 = c1
  c2 = c2
  HistoryCap = 2
  Scenes <- MCScenes
  WritesFail = TRUE
  None = None
  Broken = Broken
INVARIANTS
  TypeOK
  AttachedBuildMatches
  JournalBounded
PROPERTIES
  EditorBehaviour
  RequestsAnswered
CHECK_DEADLOCK FALSE
