SPECIFICATION Spec
CONSTANTS
  e1 = e1
  e2 = e2
  d1 = d1
  d2 = d2
  d3 = d3
  None = None
  Emails = {e1}
  Subdirs = {d1}
  Owner <- OneOwner
  Threads = {t1}
  Sessions = {s1, s2}
  MaxRequests = 3
  MaxRestarts = 0
  SlowGuest = TRUE
  GuestCrashes = FALSE
  InspectFlakes = FALSE
  RpcFaults = FALSE
  DockerHangs = FALSE
  RunTimeouts = FALSE
CHECK_DEADLOCK FALSE
PROPERTY NeverRemovesUnsaved
