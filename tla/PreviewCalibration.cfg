SPECIFICATION CalibrationSpec
CONSTANTS
  Positions = {0, 2}
  Stairs = {"measured", "estimate", "other"}
  Tolerance = 1
  RequiredSamples = 2
  Imports <- MCImports
  EarlierStores <- MCEarlierStores
  Foreign = {"newer"}
  MaxProfiles = 3
INVARIANTS
  DrawnAsInUse
  StairIsTheMeasured
PROPERTIES
  StoredIsKept
