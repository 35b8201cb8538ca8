SPECIFICATION PromiseSpec
CONSTANTS
  Grants = {g1, g2}
  NoGrant = NoGrant
  Requests = {r1}
  Reader = Reader
  MaxPairs = 3
INVARIANTS
  TypeOK
  InHandIsValid
  OneLoginInProgress
  BarsAreOurs
PROPERTY
  SignOutIsFinal
