CONSTANTS
  Streams <- MCStreams
  Times <- MCTimes
  MaxChunk = 9
  CharSigned = FALSE
SPECIFICATION Spec
CHECK_DEADLOCK FALSE
INVARIANTS
  ChunksInvisible
  FramesDelivered
  ElapsedNormal
