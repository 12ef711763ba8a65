\* Every read is to return its own result.
SPECIFICATION InterruptSpec
CONSTANTS
  Programs = {0, 1}
  MaxOpen = 2
  Disorder = {}
PROPERTY ReadsReturnTheirOwn
CHECK_DEADLOCK FALSE
