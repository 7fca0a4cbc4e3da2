SPECIFICATION PipeSpec
CONSTANTS
  HdrLen = 2
  MaxSize = 5
  RecvMax = 7
  VecSize = 2
  SendMax = 5
  Window = 7
  Lengths <- MCLengths
INVARIANTS Framed Conserved
PROPERTIES ChannelSpec
CHECK_DEADLOCK FALSE
