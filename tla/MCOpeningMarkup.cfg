SPECIFICATION Spec
CONSTANTS
  Chars <- MCChars
  BoolWords <- MCBoolWords
  Bound = 7
INVARIANTS ReadersAgree FieldsAreSlices TypesByGrammar SingleTagAgrees
CHECK_DEADLOCK FALSE
