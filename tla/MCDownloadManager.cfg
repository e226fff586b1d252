\* Two jobs over a reference that moves between two acquisitions and one that
\* names the second: pauses, resumes and cancellations race with the attempts.
CONSTANTS
  j1 = j1  j2 = j2
  r1 = r1  r2 = r2  a1 = a1  a2 = a2
  NoOne = NoOne
  JobIds = {j1, j2}
  Refs = {r1, r2}
  Acqs = {a1, a2}
  Resolves <- TwoRefs
  Limits = {0, 2}
  Keep = 1
  MaxAttempts = 2
  MaxFiles = 1
SPECIFICATION Spec
SYMMETRY JobSymmetry
INVARIANTS QueueIsServed OneAttempt CleanupExclusive ExclusiveStaging
CHECK_DEADLOCK FALSE
