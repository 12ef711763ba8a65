\* Two terminals with pages of three rows of two.
SPECIFICATION Spec
CONSTANTS
  NTerminals = 2
  NRows = 3
  NCols = 2
  BUFF_SIZE_LIMIT = 3
  Characters = {"a"}
  TidyClear = TRUE
INVARIANT PositionOnPage
PROPERTY ImplementsText
