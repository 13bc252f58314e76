SPECIFICATION DataSpec
CONSTANTS
  Bursts <- LargeBursts
  RecvBufSz = 2
  SendRoom = 2
  MaxUnits = 5
  Bytes <- TwoBytes
  Separators <- LineEnds
  MaxChunk = 3
  MaxInput = 7
PROPERTIES
  InputIsReceived
