SPECIFICATION AllSpec
CONSTANTS
  s1 = s1
  s2 = s2
  x1 = x1
  x2 = x2
  n1 = n1
  n2 = n2
  w1 = w1
  w2 = w2
  Sources = {s1, s2}
  Clients = {"c1", "c2"}
  Creator = "c1"
  Scenarios <- AllScenarios
  Devices = {8}
  Zombies = {7}
  MaxEvents = 1
  MaxNow = 1
  Starts = {0, 1}
  Interval = 1
  TimerEarly = FALSE
  NULL = NULL
  Parts = {"source", "mach", "xsource", "xqueue", "xtimer", "xoperation", "xgroup", "xsemaphore", "xobject"}
INVARIANTS CancelSafe  SourceDelivers CancelOnce  
CHECK_DEADLOCK FALSE
