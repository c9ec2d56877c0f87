CONSTANTS
  w1 = w1
  w2 = w2
  c1 = c1
  Writer <- Writers
  Client <- Clients
  MaxEvent = 3
  Internal <- Last
  Updates <- First
  BatchSize = 1
  QueueSize = 1
  ReplayLimit = 1
  MaxConnect = 2
  MaxRestart = 0
SPECIFICATION MCFairSpec
INVARIANTS
  TypeOK
PROPERTIES
  
  RegisteredHears
  ReconnectHears
CHECK_DEADLOCK FALSE
