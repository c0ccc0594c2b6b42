SPECIFICATION Spec
CONSTANTS
  Executables <- MCExecutables
  FooterSize = 2
  SearchWindow = 7
INVARIANTS
  RunsOnlyTheBuilt
  LeavesNothing
  SoundOneStarts
