CONSTANTS
  th1 = th1
  th2 = th2
  k1 = k1
  k2 = k2
  k3 = k3
  Threads <- TwoThreads
  Keys <- ThreeKeys
  Buckets <- TwoBuckets
  HashOf <- HashTwoBuckets
  Prefixes <- K1BeginsK2
  Modulus = 4
  Amounts <- JustThree
  Kinds <- AllKinds
  MaxCalls = 2
  Zeroed = FALSE
  Nobody = Nobody
  Wild = Wild
  Absent = Absent
  None = None
SPECIFICATION FairSpec
INVARIANT TypeOK
INVARIANT OneNodePerKey
INVARIANT OnlyEmptyBucketsLeak
INVARIANT SizeExactUnlessRaced
PROPERTY IsCounterMap
PROPERTY EveryCallReturns
\* A get on an empty bucket leaves its mutex locked, and the next call waits.
CHECK_DEADLOCK FALSE
