\* The limit of execute(): the kernel's sizes.
SPECIFICATION Spec
CONSTANTS
  NTerminals = 3
  NSlots = 7
  FullPid = 5
  Disorder = {}
INVARIANT AtMostMaximum
CHECK_DEADLOCK FALSE
