SPECIFICATION MCRestSpec
CONSTANTS
  a1 = a1
  a2 = a2
  Accounts = {a1, a2}
  Requests = {r1, r2}
  Sessions = {}
  NoSession = NoSession
  Keys = {NoSession}
  NoAccount = NoAccount
  Unsaid = Unsaid
  Asked = {0, 4}
  Affinity <- MCAffinity
  Provider = "claude"
  RateLimitCooldown = 1
  MaxCooldown = 2
  AuthFailureCooldown = 1
  SessionTtl = 1
  SessionLimit = 1
  CursorWrap = 2
  MaxTime = 1
PROPERTY
  RestOutlivesOlderAnswers
