CONSTANTS
  Address <- Samples
  Record <- Records
  Empty = Empty
  None = None
  Corrupt = Corrupt
  MaxCount = 7
  MaxChunk = 3
SPECIFICATION BatchSpec
INVARIANTS EachAskedOnce OutputIsOfTheDatabase
CHECK_DEADLOCK FALSE
