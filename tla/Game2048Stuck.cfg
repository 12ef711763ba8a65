\* A board with cells the list of numbers never names.
SPECIFICATION FairSpec
CONSTANT Sizes <- LongSizes
PROPERTY TileAlwaysComes
CHECK_DEADLOCK FALSE
