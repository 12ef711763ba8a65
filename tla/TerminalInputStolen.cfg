\* A user who does not wait for the readers.
SPECIFICATION Spec
CONSTANTS
  NTerminals = 2
  SizeLimit = 2
  Chars = {"a"}
  Requests = {3}
  OtherRequests = {3}
  MaxHaste = 1
PROPERTY ReadsAlwaysWait
CHECK_DEADLOCK FALSE
