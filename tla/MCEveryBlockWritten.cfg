SPECIFICATION SpecWriter
CONSTANTS
  MaxPosition = 4
  MaxBlocks = 3
  ListsToWrite <- MCListsToWrite
  CombinedLists <- MCCombinedLists
  Merges <- MCMerges
INVARIANTS
  EveryBlockWritten
