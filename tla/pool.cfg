CONSTANTS
  Max = 3
  NFiles = 6
  w1 = w1
  w2 = w2
  w3 = w3
  Workers <- ThreeWorkers
  MayFail <- ThreeWorkers
  Main = Main
  Nobody = Nobody
  NoTask = NoTask
  Unset = Unset
SPECIFICATION FairSpec
INVARIANT TypeOK
INVARIANT EveryFileInOnePlace
INVARIANT OnlyTheLastFilesAreLost
INVARIANT NoStrandedTask
INVARIANT NoStrandedSubmitter
INVARIANT CrashExplained
PROPERTY IsWorkPool
PROPERTY Termination
\* Without a worker main polls a ring for ever that nobody empties.
CHECK_DEADLOCK FALSE
