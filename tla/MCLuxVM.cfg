SPECIFICATION Spec
CONSTANTS
  ByteBits = 3
  StackSize = 300
  StaticIds = {"g", "b", "fact"}
  StructTable <- MCStructTable
  Programs <- MCPrograms
INVARIANTS TypeOK ResultRight StackRight LinkedRight
PROPERTY Implements
