SPECIFICATION SpecSource
CONSTANTS
  BlockNames = {}
  BlockDisplays = {}
  Styles <- MCStyles
  BreakNames = {"br"}
  EntityName = "lt"
  Sources <- MCSources
  Requests <- MCRequests
INVARIANTS
  OnlyStyleTagsChange
  RangeRestyled
  
  SettlesAtOnce
  OffsetsRoundTrip
