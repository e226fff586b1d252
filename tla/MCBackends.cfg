\* A manual load and a JIT request, for text or a Decision, whose callers may disconnect
\* at any await, with profile edits, slow terminations, the reaper and a shutdown.
CONSTANTS
  p1 = p1  p2 = p2  s1 = s1  s2 = s2  l1 = l1  r1 = r1  r2 = r2
  Reaper = Reaper  Closer = Closer  Retirement = Retirement  Free = Free  None = None
  Profiles = {p1}
  Sessions = {s1}
  Loaders = {l1}
  Requests = {r1}
  Droppable = {l1, r1}
  Decisions = {TRUE, FALSE}
  JitEnabled = TRUE
  Events = {"reap", "shutdown"}
  MaxGenerations = 2
  MaxEdits = 1
  MaxProcesses = 2
  TimeOuts = TRUE
SPECIFICATION Spec
INVARIANTS LoadOwnsGeneration DrainBeforeTerminate ShutdownClean
PROPERTIES ProcessHasOwner GuardSparesLaterLoads
CHECK_DEADLOCK FALSE
