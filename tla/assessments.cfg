SPECIFICATION Spec
CONSTANTS
  Seeds <- MCSeeds
  AssessmentIds = {a1}
  Questions = {q1, q2}
  ResponseIds = {i1, i2, i3}
  GapIds = {g1, g2, g3}
  TaskIds = {t1}
  Controls = {}
  EvidenceIds = {}
  Staff = {}
  Null = Null
  Requests = {r1, r2}
  Options = {"yes", "no", "na"}
SYMMETRY Interchangeable
INVARIANTS ResultAgreesWithGaps OneAnswerUnlessOverlap TaskKeepsItsGap
PROPERTIES SubmissionsAddUp
