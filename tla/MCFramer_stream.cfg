SPECIFICATION FramerSpec
CONSTANTS
  CR = CR
  LF = LF
  Text = {x}
  DelimiterKind = "CUSTOM"
  CustomDelimiter <- DoubledByte
  MaxMessageBytes = 2
  MaxStream = 6
INVARIANTS
  StreamAccounted
  NothingOverlooked
  ChunkingIndependent
CHECK_DEADLOCK FALSE
