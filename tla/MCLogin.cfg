SPECIFICATION FairSpec
CONSTANTS
  Tasks = {t1, t2}
  NoTask = NoTask
  MaxPairs = 3
  MaxAttempts = 2
INVARIANTS
  TypeOK
  InHandIsValid
  LastAttemptWins
PROPERTY
  SignOutIsFinal
  CallsEnd
