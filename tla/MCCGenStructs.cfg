CONSTANTS
  x = x
  c = c
  d = d
  s1 = s1
  t = t
  u = u
  v = v
  w = w
  z = z
  l = l
  b = b
  NoVar = NoVar
  Const = Const
  Far = Far
  Area = Area
  Arg = Arg
  Targets = {"x86","x64","arm","mips"}
  Regs = {0,1,2,3,4,5,6,7,8,9,10,11,12,13,14,25}
  X86Pool = {2,4,5}
  X64Pool = {2,4,5}
  ArmPool = {4,5}
  MipsPool = {2,3}
  Vars = {s1,b,t}
  Temps = {b,t}
  Bytes = {}
  Wide = {}
  Structs = {s1,b}
  Pointed = {s1}
  AddrTaken = {s1}
  Statics = {}
  Crossing = {s1}
  MaxArgs = 2
  MaxPushed = 1
  Handlers <- StructHandlers
SPECIFICATION Spec
CHECK_DEADLOCK FALSE
INVARIANTS ArgumentsRight ScalarsKept CalleeSaved
