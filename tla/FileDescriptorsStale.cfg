\* A read takes the PCB of another process, which has a file open.
\* Four processes: two shells, and a program of each.
SPECIFICATION SpecFiles
SYMMETRY Symmetry
CONSTANTS
  NTerminals = 2
  Processes = {p1, p2, p3, p4}
  NFiles = 3
  BlockSize = 2
  NBlocks = 5
  Inodes <- MCTwoInodes
  Directory <- MCTwoFiles
  Sizes = {3}
  MaxPosition = 3
  MaxEntries = 2
PROPERTY OwnBytes
