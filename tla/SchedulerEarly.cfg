\* Programs launched while the first ticks still start the shells: execute() can
\* refuse a shell, and the machine can be lost.
SPECIFICATION Spec
CONSTANTS
  NTerminals = 3
  NSlots = 4
  FullPid = 3
  Disorder = {"early"}
PROPERTY RoundRobin
CHECK_DEADLOCK FALSE
