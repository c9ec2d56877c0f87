CONSTANTS
  r1 = r1
  r2 = r2
  d1 = d1
  d2 = d2
  Request = {r1}
  Deleter = {d1}
  Faults <- AllFaults
  MaxFault = 1
  Total = 2
  MaxKey = 4
  MaxUpload = 2
SPECIFICATION OneFileFairSpec
PROPERTIES
  UploadFinishes
CHECK_DEADLOCK FALSE
