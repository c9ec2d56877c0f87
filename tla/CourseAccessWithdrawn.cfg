CONSTANTS
  u1 = u1
  u2 = u2
  k1 = k1
  k2 = k2
  b1 = b1
  b2 = b2
  key1 = key1
  n1 = n1
  n2 = n2
  NoKey = NoKey
  Nobody = Nobody
  Erased = Erased
  User <- Users
  Course <- Courses
  Browser <- Browsers
  Key <- Keys
  Name <- Names
  MaxCode = 2
SPECIFICATION Spec
INVARIANTS
  OwnerIsActive
