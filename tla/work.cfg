SPECIFICATION Spec
CONSTANTS
  Seeds <- NoSeeds
  AssessmentIds = {}
  Questions = {}
  ResponseIds = {}
  GapIds = {}
  TaskIds = {t1}
  Controls = {c1}
  EvidenceIds = {e1, e2}
  Staff = {u1, u2}
  Null = Null
  Requests = {r1, r2}
  Options = {}
SYMMETRY Interchangeable
INVARIANTS TypeOK EvidenceHasFile AssigneesTold
