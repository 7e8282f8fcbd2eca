SPECIFICATION FairSpec
CONSTANTS
  FileSize = 8
  span = 3
  Types <- Formats
  VolumeSector = 1
INVARIANT BuffersIntact
INVARIANT SectorIntact
INVARIANT FailsForCause
PROPERTY CallReturns
