SPECIFICATION DataSpec
CONSTANTS
  Bursts <- OneRecvPerEdge
  RecvBufSz = 2
  SendRoom = 2
  MaxUnits = 5
  Bytes <- TwoBytes
  Separators <- LineEnds
  MaxChunk = 3
  MaxInput = 7
INVARIANTS
  SentOnceInOrder
  CommBufTypeOK
  LinesAreInput
PROPERTIES
  InputIsReceived
