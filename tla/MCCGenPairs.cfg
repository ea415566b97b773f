CONSTANTS
  x = x
  c = c
  d = d
  s1 = s1
  t = t
  u = u
  v = v
  w = w
  z = z
  l = l
  b = b
  NoVar = NoVar
  Const = Const
  Far = Far
  Area = Area
  Arg = Arg
  Targets = {"x86","arm","mips"}
  Regs = {0,1,2,3,4,5,6,7,8,9,10,11,12,13,14,25}
  X86Pool = {0,1,2,3,4}
  X64Pool = {0}
  ArmPool = {4,5,6,7,8}
  MipsPool = {2,3,8,9,10}
  Vars = {d,l,t}
  Temps = {l,t}
  Bytes = {}
  Wide = {d,l}
  Structs = {}
  Pointed = {d}
  AddrTaken = {d}
  Statics = {}
  Crossing = {d}
  MaxArgs = 2
  MaxPushed = 1
  Handlers <- PairHandlers
SPECIFICATION Spec
CHECK_DEADLOCK FALSE
INVARIANTS OperandsRight AssertionsHold ArgumentsRight NothingLost DescriptorsAgree
