SPECIFICATION ReadSpec
CONSTANTS
  TagNames = {"p", "b", "i", ":p"}
  BlockNames = {"p"}
  BlockDisplays = {"block"}
  MaxTokens = 1
  Readings <- MCReadings
INVARIANT RootValueKept
CHECK_DEADLOCK FALSE
