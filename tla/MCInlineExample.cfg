SPECIFICATION SpecSource
CONSTANTS
  BlockNames = {}
  BlockDisplays = {}
  Styles <- DocStyles
  BreakNames = {"break", "hr"}
  EntityName = "lt"
  Sources <- DocSources
  Requests <- DocRequests
INVARIANTS
  DocumentedExample
