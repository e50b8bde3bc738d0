SPECIFICATION SteadySpec
CONSTANTS
  Seeds <- NoSeeds
  AssessmentIds = {a1}
  Questions = {q1}
  ResponseIds = {i1, i2}
  GapIds = {g1, g2}
  TaskIds = {}
  Controls = {}
  EvidenceIds = {}
  Staff = {}
  Null = Null
  Requests = {r1}
  Options = {"yes", "no"}
INVARIANTS SelectionSaved
