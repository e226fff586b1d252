\* Unloads, the reaper and a shutdown against a JIT request whose caller may
\* disconnect, under fair tasks.
CONSTANTS
  p1 = p1  p2 = p2  s1 = s1  s2 = s2  l1 = l1  r1 = r1  r2 = r2
  Reaper = Reaper  Closer = Closer  Retirement = Retirement  Free = Free  None = None
  Profiles = {p1}
  Sessions = {s1}
  Loaders = {}
  Requests = {r1}
  Droppable = {r1}
  Decisions = {FALSE}
  JitEnabled = TRUE
  Events = {"unload", "shutdown", "reap"}
  MaxGenerations = 2
  MaxEdits = 0
  MaxProcesses = 1
  TimeOuts = FALSE
SPECIFICATION FairSpec
PROPERTIES UnloadEnds ShutdownEnds
CHECK_DEADLOCK FALSE
