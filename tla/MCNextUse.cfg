CONSTANTS
  a = a
  b = b
  g = g
  none = none
  MaxLen = 3
  Vars <- MCVars
  NoVar = none
  Statics <- MCStatics
  AddrTaken <- MCAddrTaken
  Codes <- MCCodes
  Modified <- MCModified
SPECIFICATION Spec
INVARIANTS TypeOK FlagsRight
CHECK_DEADLOCK FALSE
