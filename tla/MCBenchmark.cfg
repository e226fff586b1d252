\* Two processes may become the server, one client and the reaper compete with
\* a run of a warm-up and one task.
CONSTANTS
  s1 = s1  s2 = s2  b1 = b1  c1 = c1
  Reaper = Reaper  NoOne = NoOne
  Procs = {s1, s2}
  Runs = {b1}
  Clients = {c1}
  Tasks = 1
SPECIFICATION Spec
SYMMETRY ServerSymmetry
INVARIANTS ReservationExclusive SoundMeasurement SummaryFollowsRecord
PROPERTIES KeepsHistory
CHECK_DEADLOCK FALSE
