CONSTANTS
  v1 = v1
  v2 = v2
  Edits = {"Instance", "Policies", "Role"}
  Operators = {o1, o2}
  Versions = {v1, v2}
  First = v1
  NewMonitor = {}
  Drifted = {v2}
  Trees <- MCTrees
  MaxRuns = 4
SPECIFICATION Spec
SYMMETRY Symmetry

INVARIANTS
  TypeOK
  BundlesPublished
PROPERTIES
  ReplacedAsAnnounced
  GatesStayInScope
CHECK_DEADLOCK FALSE
