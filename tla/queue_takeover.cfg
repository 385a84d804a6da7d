SPECIFICATION Spec
CONSTANTS
  j1 = j1  j2 = j2  f1 = f1  w1 = w1  w2 = w2  shared_id = shared_id  None = None
  Jobs = {j1}
  Files = {f1}
  FileOf <- OneFile
  Rank <- FirstJobFirst
  Workers = {w1, w2}
  WorkerId <- SharedId
  MaxDisturbances = 3
INVARIANTS TypeOK OneMediaPerJob MediaIsBacked ObjectsAreRecorded NewestAttemptWins OneHolder
PROPERTIES KeepsContract OnlyHolderWrites SettledIsFinal PublicationIsAtomic HollowOnlyOnShutdown
SYMMETRY WorkerSymmetry
