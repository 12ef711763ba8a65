\* Requests near the end of the arena.
SPECIFICATION Spec
CONSTANTS
  KB_4 = 3
  KB_1 = 1024
  Modulus = 256
  Sizes = {1, 3000}
INVARIANT InArena
CHECK_DEADLOCK FALSE
