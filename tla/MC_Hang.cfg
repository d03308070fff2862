CONSTANTS
  PknWidth = 2
  FloatMantissa = 2
  JsonPkn <- Float64ToUint64
  Pkn <- MCPkn
  t1 = t1
  t2 = t2
  Time <- MCTime
  FrameToken = {"ack", "padding", "stream"}
  SpaceTag = {"initial", "1RTT", "0RTT"}
  OtherName = {"transport:parameters_set"}
  RangeText <- MCRangeText
  Events <- MCEvents
  MaxTraceLen = 3
  Parse <- parse_ack_ranges
  Absent = Absent
  NoInfo = NoInfo
  Null = Null
  NoAnn = NoAnn
  NoOutput = NoOutput
  Partial = Partial
SPECIFICATION FairSpec
CHECK_DEADLOCK FALSE
PROPERTIES
  Termination
