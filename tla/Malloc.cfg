\* Eight cells, blocks of up to three.
SPECIFICATION FairSpec
CONSTANTS
  KB_4 = 8
  KB_1 = 1024
  Modulus = 256
  Sizes = {1, 1024, 3000}
INVARIANTS NoOverlap IndexOutsideBlocks
PROPERTIES NullMeansFull SearchEnds
