SPECIFICATION MCSpec
CONSTANTS
  ByteValues = 2
  MaxPayload = 2
  MaxFile = 10
  Handles = {h1, h2, h3}
  NoBuffer = NoBuffer
  MaxSent = 4
  NFrames = 3
  RxSize = 3
  BatchSize = 2
  PoolSize = 3
  MaxChunk = 2
  VLen = 2
  DgramPool = 3
INVARIANTS SlicesDontMatter BuffersInOnePlace FailureIsFinal
PROPERTIES ImplementsTransport SourcesDeliver
CHECK_DEADLOCK FALSE
