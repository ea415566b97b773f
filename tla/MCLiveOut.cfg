CONSTANTS
  a = a
  p = p
  g = g
  none = none
  Vars <- MCVars
  NoVar = none
  Statics <- MCStatics
  AddrTaken <- MCAddrTaken
  N = 3
  Codes <- AllCodes
  Orders <- AllOrders
SPECIFICATION FairSpec
INVARIANTS TypeOK Solved ExactForLocals
PROPERTIES Termination OnlyGrows
CHECK_DEADLOCK FALSE
