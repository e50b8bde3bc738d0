SPECIFICATION Spec
CONSTANTS
  Accounts = {a1, a2}
  Null = Null
  Requests = {r1, r2}
  Assignable <- MCAssignable
  PolicyIds = {x0}
  DepartmentIds = {x1, x2}
  Names = {Lab, lab}
  Fold <- MCFold
  ObservationIds = {x1, x2}
  ReportIds = {x0}
  IncidentIds = {x1, x2}
  Zones <- MCZones
  Times = {0, 5, 7, 9}
  PageLimit = 1
  VendorIds = {x1, x2}
  RiskIds = {x1, x2}
  Written = {"users", "user_sessions", "notifications"}
  MaxWrites = 1
SYMMETRY Interchangeable
INVARIANTS
  GovernanceTypeOK
  FourEyes
  DecisionsHeard
  AwaitedKnown
  ReviewersReview
  TwinsOverlap
  ReportsKeepClosed
  OverdueWithinZone
  AnalysesAccounted
  DeletionAllOrNothing
  SeedAllOrNothing
