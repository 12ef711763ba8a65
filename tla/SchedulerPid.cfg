\* The global pid against the running process: the kernel's sizes.
SPECIFICATION Spec
CONSTANTS
  NTerminals = 3
  NSlots = 7
  FullPid = 5
  Disorder = {}
INVARIANT PidIsCurrent
CHECK_DEADLOCK FALSE
