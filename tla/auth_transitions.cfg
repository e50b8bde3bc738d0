SPECIFICATION Spec
CONSTANTS
  admin = admin
  member = member
  Users = {admin}
  SuperAdmin = SuperAdmin
  InstitutionAdmin = InstitutionAdmin
  DeptReviewer = DeptReviewer
  PolicyApprover = PolicyApprover
  Roles = {SuperAdmin, InstitutionAdmin, DeptReviewer, PolicyApprover}
  NoRole = NoRole
  Passwords = {p1, p2}
  SeedPassword = p1
  SessionIds = {s1, s2, s3}
  TokenIds = {1}
  Requests = {r1}
  MaxAttempts = 2
  FailedBound = 4
  ManagerRoles <- MCManagers
  SeedRole <- MCSeedRole
  Stimuli <- AssumptionStimuli
INVARIANTS AssumptionAllowed
