\* Reads that ask for less than a line; a user who waits.
SPECIFICATION Spec
CONSTANTS
  NTerminals = 2
  SizeLimit = 2
  Chars = {"a"}
  Requests = {1, 3}
  OtherRequests = {3}
  MaxHaste = 0
PROPERTY BufferFits
CHECK_DEADLOCK FALSE
