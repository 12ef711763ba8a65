\* Callers that ask for location 0, which marks a free element.
SPECIFICATION Spec
CONSTANTS
  Slots = 4
  Cells = 6
  Word = 8
  Columns = 2
  Offset = 2
  Blank = " "
  NL = "nl"
  FrameLength = 2
  Wait = 2
  LastWait = 1
  MaxCalls = 4
  Requests <- MCZeroRequests
  Locations <- MCZeroLocations
  Pictures0 <- MCPictures0
  Pictures1 <- MCPictures1
  Extra <- MCExtra
INVARIANT ListIsWhatIsInUse
CHECK_DEADLOCK FALSE
