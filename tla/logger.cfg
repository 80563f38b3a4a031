CONSTANTS
  th1 = th1
  th2 = th2
  th3 = th3
  Threads <- ThreeThreads
  Limit = 2
  Cap = 3
  Nobody = Nobody
SPECIFICATION Spec
INVARIANT TypeOK
INVARIANT CrashExplained
PROPERTY NoFullFileGrows
PROPERTY LogReturns
\* A crash ends the process, and after a failed init everyone waits.
CHECK_DEADLOCK FALSE
