SPECIFICATION FairSpec
CONSTANTS
  MaxQueuedSamples = 2
  MaxBacklogSpan = 2
  MaxReadingsPerAcquire = 2
  MaxTransformsPerUpdate = 2
  Readings <- MCReadings
  MaxWatchers = 2
  MaxTrackers = 2
  ProviderFailureLimit = 2
INVARIANTS
  PublisherSafe
  NothingLeftOpen
PROPERTIES
  StreamInOrder
  StreamFollowsTracker
CHECK_DEADLOCK FALSE
