SPECIFICATION Spec
CONSTANTS
  m1 = m1 m2 = m2
  NoList = NoList
  Msgs = {m1, m2}
  Meta <- MCMeta
  Levels = {1, 2}
  Targets = {1}
  Slots = 2
  AddArgs <- MCAddArgs
  OutMasks = {{1}}
  MaxAdds = 3
  MaxModifies = 1
  MaxOpts = 1
  MaxLogs = 1
CHECK_DEADLOCK FALSE
INVARIANTS TypeOK ListsSound PassedIsWritten
PROPERTIES SiftsByMostSpecific RoutesAsListed
