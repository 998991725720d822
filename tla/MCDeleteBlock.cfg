SPECIFICATION Spec
CONSTANTS
  TagNames = {"p", "b", "hr", "div"}
  BlockNames = {"p", "hr", "div"}
  BlockDisplays = {"block"}
  Texts <- MCTexts
INVARIANTS
  BlocksFitDocument
  LogReplays
PROPERTIES
  DeletesListedBlockAtStart
