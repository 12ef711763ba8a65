\* Small boards: both kinds of lines, and one line of four.
SPECIFICATION FairSpec
CONSTANT Sizes <- AllSizes
INVARIANTS ScoreIsBuiltFromTwos OverMeansStuck
PROPERTIES TileComes MovesByTheRules
\* The game ends.
CHECK_DEADLOCK FALSE
