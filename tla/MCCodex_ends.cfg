SPECIFICATION FairSpec
CONSTANTS
  Grants = {g1}
  NoGrant = NoGrant
  Requests = {r1}
  Reader = Reader
  MaxPairs = 3
PROPERTY
  CallsEnd
