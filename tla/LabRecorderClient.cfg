SPECIFICATION FairSpec
CONSTANTS
  Files = {f1, f2}
  NoFile = NoFile
INVARIANTS
  ConnectionSafe
  ConfirmedStateIsTrue
  StartIsRemembered
  NothingLeftBehind
PROPERTIES
  RecordsAskedFile
  ImplementsControl
  BatchEnds
