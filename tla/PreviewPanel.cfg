SPECIFICATION Spec
CONSTANTS
  Xdf = Xdf
  Csv = Csv
  NoFile = NoFile
  TimelineOf <- MCTimelineOf
  Ambiguous = {Xdf}
  Speeds = {1, 2}
  MaxNow = 3
INVARIANTS
  SourcesApart
PROPERTIES
  PositionIsKept
  RememberedFileOpens
  ShutdownEnds
