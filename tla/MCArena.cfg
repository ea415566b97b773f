SPECIFICATION Spec
CONSTANTS
  HDR = 2
  MULTIPLE = 4
  DEFAULT_NAS = 3
  NewSizes = {2}
  NomSizes = {0}
  Requests = {1, 6}
  MaxBlocks = 3
  MaxLive = 3
  MaxBump = 6
INVARIANTS
  TypeOK
  InBounds
  NoOverlap
