SPECIFICATION FairSpec
CONSTANTS
  Layouts <- MCLayouts
  Rates = {100}
  StatusInterval = 2
  MaxFrameTimeouts = 2
  MaxLayoutChanges = 2
  MaxTime = 1
INVARIANTS
  BridgeSafe
  StreamsFitSession
  TimesIncrease
PROPERTIES
  ChangesAreCounted
  StopLeadsToStopped
  KeepsReconnecting
