\* Pictures of up to three bytes, a screen of three rows of two, four elements.
SPECIFICATION Spec
CONSTANTS
  Slots = 4
  Cells = 6
  Word = 8
  Columns = 2
  Offset = 2
  Blank = " "
  NL = "nl"
  FrameLength = 2
  Wait = 2
  LastWait = 1
  MaxCalls = 4
  Requests <- MCRequests
  Locations <- MCLocations
  Pictures0 <- MCPictures0
  Pictures1 <- MCPictures1
  Extra <- MCExtra
INVARIANTS ShowsPhase FramesShown
PROPERTIES ImplementsBlinkers KeepsBlinking
