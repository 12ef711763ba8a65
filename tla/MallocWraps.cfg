\* 255 KB: KB_size wraps to 0.
SPECIFICATION Spec
CONSTANTS
  KB_4 = 4
  KB_1 = 1024
  Modulus = 256
  Sizes = {1, 261120}
INVARIANT NoOverlap
CHECK_DEADLOCK FALSE
