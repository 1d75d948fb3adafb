SPECIFICATION FairSpec
CONSTANTS
  plugin = plugin
  cli = cli
  first = first
  second = second
  a = a
  b = b
  x = x
  y = y
  Importers = {plugin, cli}
  Plugin = plugin
  Paths = {first, second}
  Preferred = first
  Contents = {a, b}
  Names = {x, y}
  NamesIn <- MCNamesIn
INVARIANTS
  RecordBackedUp
  NoOrphans
PROPERTIES
  ImportedOnce
  EditsSurviveImport
  LockReleased
