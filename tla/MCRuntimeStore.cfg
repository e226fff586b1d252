\* A session that serves, selects and pins beside a command line that installs,
\* removes, cleans and prunes one release and one Python runtime; either may be
\* killed at any step.
CONSTANTS
  p1 = p1  p2 = p2  rel = rel  py = py
  Free = Free  Orphan = Orphan  None = None
  Procs = {p1, p2}
  Runtimes = {rel, py}
  Python = {py}
  Newer <- ReleaseIsOld
  Does <- Roles
  MaxPrunes = 1
SPECIFICATION Spec
INVARIANTS InUseIsInstalled OneCacheUser NoLockCycle
PROPERTIES PinIsInstalled AppearsWhole
CHECK_DEADLOCK FALSE
