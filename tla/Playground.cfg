SPECIFICATION MCSpec
CONSTANTS
  Requests = {c1, c2, c3, c4}
  First = c1
  Second = c2
  Max = 2
  Window = 3
  MaxWait = 1
  MaxTime = 5
  MaxRounds = 2
  MaxCalls = 2
  MaxChunks = 2
  MaxBeats = 1
INVARIANTS TypeOK RateBounded TranscriptOK ToolsReported ConversationOK
PROPERTIES RefusedRightly StreamsEnd
CHECK_DEADLOCK FALSE
