SPECIFICATION Spec
CONSTANTS
  admin = admin
  member = member
  Users = {member}
  SuperAdmin = SuperAdmin
  InstitutionAdmin = InstitutionAdmin
  DeptReviewer = DeptReviewer
  PolicyApprover = PolicyApprover
  Roles = {SuperAdmin, InstitutionAdmin, DeptReviewer}
  NoRole = NoRole
  Passwords = {p1, p2}
  SeedPassword = p1
  SessionIds = {s1, s2, s3}
  TokenIds = {1}
  Requests = {r1, r2}
  MaxAttempts = 2
  FailedBound = 4
  ManagerRoles <- MCManagers
  SeedRole <- MCSeedRole
  Stimuli <- PasswordStimuli
INVARIANTS OneSessionPerLogin
