\* What the limit of execute() refuses: the kernel's sizes.
SPECIFICATION Spec
CONSTANTS
  NTerminals = 3
  NSlots = 7
  FullPid = 5
  Disorder = {}
INVARIANT RefusedOnlyWhenFull
CHECK_DEADLOCK FALSE
