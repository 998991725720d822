SPECIFICATION SpecGroups
CONSTANTS
  MaxCombined = 2
  MaxDepth = 2
  BlockLists <- MCBlockLists
  MaxPosition = 5
  MaxBlocks = 3
  ListsToWrite <- MCListsToWrite
  CombinedLists <- MCCombinedLists
  Merges <- MCMerges
INVARIANTS
  SelectionOfBlocks
  GroupsOfBlocks
  ObserverKnowsCounts
  EndDecidesContainment
  OutsideGroupsOnce
  SeamlessMergeKeepsText
