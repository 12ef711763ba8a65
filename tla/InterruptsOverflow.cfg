\* A mouse that moves too fast for its packet.
SPECIFICATION FairInterruptSpec
CONSTANTS
  Programs = {0, 1}
  MaxOpen = 2
  Disorder = {"overflow"}
PROPERTY LinesHeard
CHECK_DEADLOCK FALSE
