\* A program is started from a terminal that has been switched away from after
\* its line was typed.
SPECIFICATION TypedSpec
CONSTANTS
  NTerminals = 3
  NSlots = 7
  FullPid = 5
  Disorder = {"background"}
PROPERTY ParentIsCaller
CHECK_DEADLOCK FALSE
