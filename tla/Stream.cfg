SPECIFICATION Spec
CONSTANTS
  NoPx = NoPx
  Streams <- PlainStreams
INVARIANTS ChunkDigest OffsetFallsShort FirstRequestOnly SetIsUnderstood
CHECK_DEADLOCK FALSE
