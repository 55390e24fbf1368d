SPECIFICATION Spec
CONSTANTS
  Documents = {doc}
  Native = {}
  Names = {a}
  Layout = {}
  Roots = {Top}
  Editors = {e, f}
  Clients = {}
  e = e
  c1 = c1
  c2 = c2
  HistoryCap = 2
  Scenes <- RaceScenes
  WritesFail = FALSE
  None = None
  Broken = Broken
PROPERTIES
  SaveConfirms
CHECK_DEADLOCK FALSE
