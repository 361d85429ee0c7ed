SPECIFICATION Spec
CONSTANTS
  Size = 4
  SectorSize = 2
  Byte = {0, 1}
  None = None
  Requesters = {a, b}
  Paths = {p, q}
  Blocks = 2
  Limit = 3
  Window = 4
  Chunk = 3
  MaxOutput = 9
  Extent = 2
  Colours = {"black", "white"}
  MaxRects = 2
  MaxChunks = 3
  StepIds = {0, 1, 2}
  MaxSteps = 2
  Strings <- ShortStrings
  EFIFiles = {"boot", "other"}
  MaxPreboot = 3
SYMMETRY Symmetry
INVARIANTS DeliveredWhole ShortOnlyIfShared OutputUpToLimit PictureTruthful UploadWhole ExpressionsOfSteps BootsAsEdited  ConnectionsReady
PROPERTIES BytesAsWritten
CHECK_DEADLOCK FALSE
