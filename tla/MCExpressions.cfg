SPECIFICATION Spec
CONSTANTS
  ByteBits = 2
  StaticIds = {"c", "h", "i", "u", "l", "ul", "ll", "e", "p", "a", "v", "f", "s", "m"}
  StructTable <- MCStructTable
  TypeOf <- MCTypeOf
  Constants <- MCConstants
  UnaryOps = {"u-", "~", "!", "addr", "ind", "sizeof", "++post"}
  BinaryOps = {"*", "/", "+", "-", "<<", ">>", "&", "<", "==", "&&", "||", ","}
  AssignOps = {"", "+", "<<"}
  CastTypes <- MCCastTypes
  MaxOperators = 2
  SmallConstant = 6
  ExprArchs = {"vm32", "x64"}
  Objects <- MCObjects
INVARIANTS TypesRight ConstantsRight StaticDataRight
CHECK_DEADLOCK FALSE
