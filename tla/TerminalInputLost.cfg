\* A user who does not wait for the readers.
SPECIFICATION FairSpec
CONSTANTS
  NTerminals = 2
  SizeLimit = 1
  Chars = {"a"}
  Requests = {3}
  OtherRequests = {3}
  MaxHaste = 2
PROPERTY LinesAlwaysRead
CHECK_DEADLOCK FALSE
