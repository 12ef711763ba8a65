\* LibCalls: three words and a byte, numbers of eight bits, directories of two
\* names.  Programs: eight descriptors, files of up to five bytes read three at
\* a time, lines of up to five characters with arguments of two.
SPECIFICATION ProgramSpec
CONSTANTS
  Size = 13
  Word = 4
  Bits = 8
  Alphabet = {"a", "b"}
  NameLen = 3
  MAX_FILE_NUM = 8
  BUF_LEN = 2
  BUFSIZE = 3
  MaxCalls = 3
  Directory <- MCDirectory
  Disks <- MCDisks
  AnyDisk <- MCAnyDisk
  Arguments <- MCArguments
  Requests <- MCRequests
  Lines <- MCLines
  OldBuffers <- MCOldBuffers
  Dot <- MCDot
  HelloO <- MCHelloO
  Shel <- MCShel
  Empty <- MCEmpty
INVARIANTS LibraryAsPromised SyserrPasses OutputAsPromised ArgumentsAsTyped
\* A behaviour is one call, or one program after another.
CHECK_DEADLOCK FALSE
