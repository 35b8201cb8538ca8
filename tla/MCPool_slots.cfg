SPECIFICATION MCFairSpec
CONSTANTS
  a1 = a1
  a2 = a2
  s1 = s1
  s2 = s2
  Accounts = {a1, a2}
  Requests = {r1}
  Sessions = {s1}
  NoSession = NoSession
  Keys = {s1, NoSession}
  NoAccount = NoAccount
  Unsaid = Unsaid
  Asked = {0}
  Affinity <- MCAffinity
  Provider = "claude"
  RateLimitCooldown = 1
  MaxCooldown = 2
  AuthFailureCooldown = 1
  SessionTtl = 1
  SessionLimit = 1
  CursorWrap = 2
  MaxTime = 0
INVARIANTS
  NoUsableAccountSkipped
PROPERTY
  ImplementsFailover
  RequestsEnd
