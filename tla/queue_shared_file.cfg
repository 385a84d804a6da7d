SPECIFICATION FairSpec
CONSTANTS
  j1 = j1  j2 = j2  f1 = f1  w1 = w1  w2 = w2  shared_id = shared_id  None = None
  Jobs = {j1, j2}
  Files = {f1}
  FileOf <- OneFile
  Rank <- FirstJobFirst
  Workers = {w1, w2}
  WorkerId <- OwnIds
  MaxDisturbances = 1
INVARIANTS FileMarksAreEarned
PROPERTIES JobsSettle DisabledQueueDrains
