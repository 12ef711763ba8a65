\* A key pressed while a packet of the mouse is read.
SPECIFICATION FairInterruptSpec
CONSTANTS
  Programs = {0, 1}
  MaxOpen = 2
  Disorder = {"key"}
PROPERTY LinesHeard
CHECK_DEADLOCK FALSE
