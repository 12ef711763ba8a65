\* Three terminals with a program each.
SPECIFICATION FairSpec
CONSTANTS
  Programs = {"p1", "p2", "p3"}
  MaxOpen = 2
INVARIANTS TypeOK OthersHeard OpenIsHeard
PROPERTIES ReadsWaitForTick StarvedByOthersOnly
\* A reader waits for ever once the clock has been closed.
CHECK_DEADLOCK FALSE
