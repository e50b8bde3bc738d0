SPECIFICATION Spec
CONSTANTS
  Areas = {"index"}
  Base = {f}
  Uploads = {u}
  Reindexers = {b1, b2}
  Startup = Startup
  Nobody = Nobody
  Nothing = Nothing
  Torn = Torn
  Damaged = Damaged
  Mixed = Mixed
  Target = 4
  Overlap = 1
  MaxText = 6
  Corpus <- MCCorpus
  Of <- MCOf
  Everyone = Everyone
  NoSection = NoSection
  Institutions = {"ours"}
  RoleFrameworks <- MCRoleFrameworks
  NoFramework = NoFramework
  Matches <- MCMatches
  EndpointRoles = {"super_admin", "vendor_reviewer", "dept_reviewer"}
  Candidates = 3
  Limit = 3
  RankOffset = 60
  Persons = {p1, p2}
  Conversations = {k1}
  Asks = {a1, a2, a3}
  HistoryTurns = 1
  NoRow = NoRow
  Tabs = {t1, t2}
  Calls = {c1, c2}
  TabOf <- MCTabOf
  MaxRotations = 1
  NoToken = NoToken
  f1 = f1
  f2 = f2
  g1 = g1
  u1 = u1
  v1 = v1
  t1 = t1
INVARIANTS ReadyMeansLoaded
