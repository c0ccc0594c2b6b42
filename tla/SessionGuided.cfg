SPECIFICATION FairSpec
CONSTANTS
  AutomaticLaunch = TRUE
  LocalRecorder = TRUE
  Modes = {FALSE}
  Launches = {"Found", "NotFound", "NoStreams"}
  FailingLaunches = {"GraphicalRecorder", "SelectedStreamRecorder"}
  RecorderOnly = FALSE
  StreamsByHand = TRUE
  HasPreview = TRUE
INVARIANTS
  FileCheckedAlone
PROPERTIES
  StopsInOrder
  SequencesEnd
CHECK_DEADLOCK FALSE
