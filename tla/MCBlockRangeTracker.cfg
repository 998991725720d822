SPECIFICATION Spec
CONSTANTS
  BlockNames = {"p", "div"}
  BlockDisplays = {"block"}
  MaxId = 8
  Texts <- MCTexts
  Divided <- MCDivided
  Supplied <- MCSupplied
  Elements <- MCElements
INVARIANTS
  TypeOK
  IdsDistinct
  RangesCoverText
  AllBlocksTracked
PROPERTIES
  IdsAreStable
