CONSTANTS
  PknWidth = 3
  FloatMantissa = 2
  JsonPkn <- Float64ToUint64
  Pkn <- MCPkn
  t1 = t1
  t2 = t2
  Time <- MCTime
  FrameToken = {"ack", "padding", "stream"}
  SpaceTag = {"initial", "1RTT", "0RTT"}
  OtherName = {"transport:parameters_set"}
  RangeText <- MCRangeTextFloat
  Events <- MCEventsFloat
  MaxTraceLen = 3
  Parse <- parse_ack_ranges
  Absent = Absent
  NoInfo = NoInfo
  Null = Null
  NoAnn = NoAnn
  NoOutput = NoOutput
  Partial = Partial
SPECIFICATION Spec
CHECK_DEADLOCK FALSE
INVARIANTS
  SentTimeIsLastSend
