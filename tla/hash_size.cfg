CONSTANTS
  th1 = th1
  th2 = th2
  k1 = k1
  k2 = k2
  k3 = k3
  Threads <- TwoThreads
  Keys <- ThreeKeys
  Buckets <- TwoBuckets
  HashOf <- HashTwoBuckets
  Prefixes <- K1BeginsK2
  Modulus = 4
  Amounts <- JustOne
  Kinds <- OnlyInc
  MaxCalls = 2
  Zeroed = TRUE
  Nobody = Nobody
  Wild = Wild
  Absent = Absent
  None = None
SPECIFICATION Spec
INVARIANT TopFitsItsArray
