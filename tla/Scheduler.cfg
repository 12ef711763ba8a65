\* The three terminals of the kernel, one slot fewer than its seven.
SPECIFICATION FairSpec
CONSTANTS
  NTerminals = 3
  NSlots = 6
  FullPid = 4
  Disorder = {}
INVARIANTS RunningContext ParkedContexts ReturnPaths NoSharing NoLeak
PROPERTIES ImplementsStacks TerminalsRun
