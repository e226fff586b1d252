\* Two requests of two sessions compete for two profiles: evictions and reclaims.
CONSTANTS
  p1 = p1  p2 = p2  s1 = s1  s2 = s2  l1 = l1  r1 = r1  r2 = r2
  Reaper = Reaper  Closer = Closer  Retirement = Retirement  Free = Free  None = None
  Profiles = {p1, p2}
  Sessions = {s1, s2}
  Loaders = {}
  Requests = {r1, r2}
  Droppable = {}
  Decisions = {FALSE}
  JitEnabled = TRUE
  Events = {"reap"}
  MaxGenerations = 2
  MaxEdits = 0
  MaxProcesses = 2
  TimeOuts = FALSE
SPECIFICATION Spec
SYMMETRY SharingSymmetry
INVARIANTS ReclaimSparesSessions
CHECK_DEADLOCK FALSE
