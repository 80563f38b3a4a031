CONSTANTS
  a = a
  ab = ab
  b = b
  c = c
  d = d
  Keys <- FiveWords
  Hash <- Numbers
  Prefixes <- AIsPrefixOfAb
  InitialSize = 2
  Collision = 2
  Modulus = 4
  MaxWords = 7
  Empty = Empty
  Tables <- CodePages
  Options <- CharsetOptions
  Matches <- BeginningsOfNames
  Ascii <- OneLetter
  MaxBytes = 3
  EocdrSize = 2
  CfhSize = 5
  Wrap = 64
  MaxSize = 18
  MaxEntries = 4
  Tails <- ThreeTails
  BodyLength = 3
  Angles <- Directions
  Nul = Nul
  Garbage = Garbage
  Array <- HomeworkList
  Length = 3
  MaxFileSize = 8
  IntRange = 8
  Counts <- SmallCounts
  MaxKeys = 4
  Max = 3
  Tasks = {t1, t2, t3}
  Null = Null
  Unset = Unset
SPECIFICATION SequentialSpec
INVARIANT RingTypeOK
INVARIANT WindowHoldsTheTasks
PROPERTY IsBoundedQueue
INVARIANT WordTypeOK
INVARIANT ExactUntilGrowth
INVARIANT EveryReadingCounted
INVARIANT DecodesToTheText
INVARIANT WalksBackwards
INVARIANT CoversTheFile
INVARIANT ShowsTheAnswer
INVARIANT SelectsReversed
INVARIANT HeaviestFirst
\* Every program ends, and the ring is gone once it was freed.
CHECK_DEADLOCK FALSE
