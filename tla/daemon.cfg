CONSTANTS
  Procs = {p1, p2}
  Dirs = {build, home}
  Backlog = 2
  Nobody = Nobody
  NoFile = NoFile
  Stale = Stale
SPECIFICATION FairSpec
INVARIANT TypeOK
INVARIANT OneServerNamed
INVARIANT BindRefusedOnlyAfterKill
PROPERTY StopsAtNextConnection
