SPECIFICATION Spec
CONSTANTS
  MaxDepth = 2
  Texts <- MCTexts
  Divided <- MCDivided
  BlockLists <- MCBlockLists
INVARIANTS
  LayerOfBlocks
  ErrorMeansNoLayer
  ParseLayersText
