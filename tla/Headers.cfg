SPECIFICATION Spec
CONSTANTS
  NoPx = NoPx
  Streams <- HeaderStreams
INVARIANT SetIsUnderstood
CHECK_DEADLOCK FALSE
