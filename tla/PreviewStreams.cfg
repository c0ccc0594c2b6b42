SPECIFICATION StreamsSpec
CONSTANTS
  Sources = {1}
  StreamLayouts = {1, 2}
  Master = FALSE
  MaxUid = 2
  MaxSignals = 0
INVARIANTS
  KeepsToItsSource
  FramesHoldSamples
PROPERTIES
  FollowsReplacement
