\* Two terminals, lines of up to two characters, requests for nothing, for less
\* than a line and for more; a user who once does not wait for the readers.
SPECIFICATION FairSpec
CONSTANTS
  NTerminals = 2
  SizeLimit = 2
  Chars = {"a"}
  Requests = {0, 1, 3}
  OtherRequests = {3}
  MaxHaste = 1
INVARIANT BuffersTerminated
PROPERTIES WholeLines ReadsWaitForALine LinesGetRead
