CONSTANTS
  r1 = r1
  r2 = r2
  d1 = d1
  d2 = d2
  Request <- Requests
  Deleter <- Deleters
  Faults <- AllFaults
  MaxFault = 1
  Total = 2
  MaxKey = 4
  MaxUpload = 2
SPECIFICATION OneFileFairSpec
INVARIANTS
  UploadedOnce
  ServedObjectsExist
  SucceededMeansGone
  EveryObjectOwned
  AcknowledgedBytesHeld
PROPERTY DeletionsFinish
CHECK_DEADLOCK FALSE
