SPECIFICATION ReadSpec
CONSTANTS
  TagNames = {"p", "b", "i", ":p"}
  BlockNames = {"p"}
  BlockDisplays = {"block"}
  MaxTokens = 4
  Readings <- MCReadings
INVARIANTS
  IndexMatchesList
  ParsedIsDeclared
  TreeOfTags
  HtmlShowsTree
  ParsedIsRoot
  OneConclusion
PROPERTIES
  ClosesMostRecent
  AgreesWithValidator
  Termination
CHECK_DEADLOCK FALSE
