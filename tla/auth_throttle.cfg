SPECIFICATION Spec
CONSTANTS
  admin = admin
  member = member
  Users = {admin, member}
  SuperAdmin = SuperAdmin
  InstitutionAdmin = InstitutionAdmin
  DeptReviewer = DeptReviewer
  PolicyApprover = PolicyApprover
  Roles = {SuperAdmin, InstitutionAdmin, DeptReviewer}
  NoRole = NoRole
  Passwords = {p1, p2}
  SeedPassword = p1
  SessionIds = {s1, s2, s3}
  TokenIds = {1}
  Requests = {r1, r2}
  MaxAttempts = 3
  FailedBound = 8
  ManagerRoles <- MCManagers
  SeedRole <- MCSeedRole
  Stimuli <- ThrottleStimuli
SYMMETRY Interchangeable
INVARIANTS BlockIffThreshold AttemptsPerWindow
PROPERTIES FailureBlocks
