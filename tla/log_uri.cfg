CONSTANTS
  NFiles = 3
  Max = 2
  w1 = w1
  w2 = w2
  a = a
  b = b
  r = r
  s = s
  Workers <- TwoWorkers
  Content <- ThreeFiles
  MayNotOpen <- LastFile
  NoRef = NoRef
  Proto = Proto
  Junk = Junk
  Null = Null
SYMMETRY WorkerSymmetry
SPECIFICATION Spec
INVARIANT UrisExact
