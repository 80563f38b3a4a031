CONSTANTS
  a = a
  ab = ab
  b = b
  c = c
  d = d
  Keys <- FiveWords
  Hash <- Numbers
  Prefixes <- OnlyThemselves
  InitialSize = 2
  Collision = 2
  Modulus = 4
  MaxWords = 4
  Empty = Empty
SPECIFICATION WordSpec
INVARIANT NoWordDropped
