SPECIFICATION Spec
CONSTANTS
  p1 = p1
  p2 = p2
  A = A
  B = B
  Procs = {p1, p2}
  Roots = {"r1", "r2"}
  Paths = {A, B}
  Owned = A
  Does <- MCDoes
  Ports = {80, 81}
  ControlPorts = {90, 91}
  MaxInstances = 2
  MaxGenerations = 2
  MaxVersion = 2
  None = 0
INVARIANTS ServesItself ReplacedAlone
PROPERTIES NeverDowngrades LoadedIsTrue StartupEnds
