CONSTANTS
  Max = 2
  NFiles = 4
  w1 = w1
  w2 = w2
  w3 = w3
  Workers <- TwoWorkers
  MayFail <- NoWorker
  Main = Main
  Nobody = Nobody
  NoTask = NoTask
  Unset = Unset
SPECIFICATION Spec
INVARIANT EveryFileProcessed
