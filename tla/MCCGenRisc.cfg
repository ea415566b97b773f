CONSTANTS
  x = x
  c = c
  d = d
  s1 = s1
  t = t
  u = u
  v = v
  w = w
  z = z
  l = l
  b = b
  NoVar = NoVar
  Const = Const
  Far = Far
  Area = Area
  Arg = Arg
  Targets = {"arm","mips"}
  Regs = {0,1,2,3,4,5,6,7,8,9,10,11,12,13,14,25}
  X86Pool = {0,1,2,3}
  X64Pool = {0,1,2,3}
  ArmPool = {4,5,14}
  MipsPool = {2,3,8}
  Vars = {x,t,u}
  Temps = {t,u}
  Bytes = {}
  Wide = {}
  Structs = {}
  Pointed = {x}
  AddrTaken = {x}
  Statics = {x}
  Crossing = {x}
  MaxArgs = 2
  MaxPushed = 1
  Handlers <- WordHandlers
SPECIFICATION Spec
SYMMETRY TempSymmetry
CHECK_DEADLOCK FALSE
INVARIANTS OperandsRight ArgumentsRight
