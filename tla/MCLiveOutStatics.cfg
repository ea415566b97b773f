CONSTANTS
  a = a
  p = p
  g = g
  none = none
  Vars <- MCVars
  NoVar = none
  Statics <- MCStatics
  AddrTaken <- MCAddrTaken
  N = 4
  Codes <- StaticCodes
  Orders <- PostOrder
SPECIFICATION FairSpec
INVARIANT SoundForStatics
CHECK_DEADLOCK FALSE
