SPECIFICATION OutputSpec
CONSTANTS
  Limit = 3
  Window = 4
  Chunk = 3
  MaxOutput = 9
INVARIANT OutputDiscarded
CHECK_DEADLOCK FALSE
