SPECIFICATION FramingSpec
CONSTANTS
  Byte = {0, 1, 2}
  Magic <- MCMagic
  Version = 1
  MaximumPayload = 1
  MaxStream = 12
  MaxChunk = 3
INVARIANT BufferKept
INVARIANT FramesOfStream
CHECK_DEADLOCK FALSE
