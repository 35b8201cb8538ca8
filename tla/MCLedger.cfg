SPECIFICATION FairSpec
CONSTANTS
  Streams = {s1, s2}
  Tasks = {f1, f2}
  Main = Main
  Nobody = Nobody
INVARIANTS
  TypeOK
  RecordedOnce
  NothingForgotten
PROPERTY
  SavedStays
  RecordsReachDisk
