\* Two terminals, a third process, one descriptor each besides 0 and 1.
SPECIFICATION SpecFiles
SYMMETRY Symmetry
CONSTANTS
  NTerminals = 2
  Processes = {p1, p2, p3}
  NFiles = 3
  BlockSize = 2
  NBlocks = 5
  Inodes <- MCInodes
  Directory <- MCDirectory
  Sizes = {3}
  MaxPosition = 3
  MaxEntries = 2
INVARIANTS ClosedWhenFree InOrderUnlessStrayed
PROPERTY OwnCallsOnly
