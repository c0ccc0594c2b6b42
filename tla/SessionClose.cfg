SPECIFICATION FairSpec
CONSTANTS
  AutomaticLaunch = TRUE
  LocalRecorder = FALSE
  Modes = {TRUE}
  Launches = {"NotFound", "NoStreams"}
  FailingLaunches = {"GraphicalRecorder", "SelectedStreamRecorder"}
  RecorderOnly = TRUE
  StreamsByHand = FALSE
  HasPreview = FALSE
PROPERTIES
  CloseAlwaysEnds
CHECK_DEADLOCK FALSE
