SPECIFICATION FairSpec
CONSTANTS
  PartCount = 4
  Concurrency = 3
INVARIANTS CompleteListsEveryPart SuccessIsWhole UploadsAreClosed PartsGoToOpenUploads
PROPERTIES Returns
CHECK_DEADLOCK FALSE
