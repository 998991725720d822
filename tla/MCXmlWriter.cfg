SPECIFICATION NativeSpec
CONSTANTS
  NameSize <- MCNameSize
  ValidNames <- MCValidNames
  Prefix <- MCPrefix
  LocalName <- MCLocalName
  BadUris <- MCBadUris
  CharSize <- MCCharSize
  BadChars <- MCBadChars
  Limits <- MCLimits
  TagNames <- MCTagNames
  Values <- MCTexts
  Attributes <- MCAttributes
  Documents <- MCDocuments
  OtherLimits <- MCOtherLimits
  MaxItems = 6
INVARIANTS OutputCanBeClosed FinishRefusal OwnFileReads EventsTellDocument
PROPERTIES OutcomeIsFinal
CHECK_DEADLOCK FALSE
