\* Two jobs compete for one slot, one of them for a reference that does not
\* resolve, under fair tasks: pauses, resumes, cancellations and clean-ups.
CONSTANTS
  j1 = j1  j2 = j2
  r1 = r1  r2 = r2  a1 = a1  a2 = a2
  NoOne = NoOne
  JobIds = {j1, j2}
  Refs = {r1, r2}
  Acqs = {a1}
  Resolves <- LostRef
  Limits = {1}
  Keep = 1
  MaxAttempts = 2
  MaxFiles = 2
SPECIFICATION FairSpec
PROPERTIES QueuedIsServed StopsAreCompleted
CHECK_DEADLOCK FALSE
