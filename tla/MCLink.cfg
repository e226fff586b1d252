\* A gateway that may host the profile itself, a peer, and one operation, with
\* room for the operation and a sweep at the same time.
CONSTANTS
  a = a  b = b  p1 = p1  k1 = k1
  AnyNode = AnyNode
  Nodes = {a, b}
  Gateways = {a}
  Profiles = {p1}
  Calls = {k1}
  Slots = 2
SPECIFICATION Spec
INVARIANTS RunsOnceWhereAddressed AnswersAreTrue
PROPERTIES NoSilentRetarget StreamsEnd
