\* Two terminals with a program each, which share the clock.
SPECIFICATION FairInterruptSpec
CONSTANTS
  Programs = {0, 1}
  MaxOpen = 2
  Disorder = {}
INVARIANTS OthersHeard OpenIsHeard ResultsDelivered NothingLeftInService
PROPERTIES ReadsWaitForTick ReadersStarvedByOthersOnly LinesHeard
CHECK_DEADLOCK FALSE
