\* A free gap shorter than the request.
SPECIFICATION FairSpec
CONSTANTS
  KB_4 = 6
  KB_1 = 1024
  Modulus = 256
  Sizes = {1, 3000}
PROPERTY MallocReturns
CHECK_DEADLOCK FALSE
