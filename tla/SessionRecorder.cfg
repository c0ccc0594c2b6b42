SPECIFICATION FairSpec
CONSTANTS
  AutomaticLaunch = TRUE
  LocalRecorder = TRUE
  Modes = {TRUE, FALSE}
  Launches = {"Found", "NotFound", "NoStreams"}
  FailingLaunches = {"GraphicalRecorder", "SelectedStreamRecorder"}
  RecorderOnly = TRUE
  StreamsByHand = FALSE
  HasPreview = FALSE
INVARIANTS
  WindowSafe
PROPERTIES
  StopIsRespected
  CloseEnds
CHECK_DEADLOCK FALSE
